--------------------------- MODULE PHTDurableMap ---------------------------
(***************************************************************************)
(* What a persistent PLockfreeHashTable promises across a crash (spec.md   *)
(* 5, durable linearizability): the linearizable map of PHTMap, plus a    *)
(* crash after which every thread starts afresh on the map that survived. *)
(* For each key the crash keeps a prefix of the updates of that key in     *)
(* their linearization order: every update that had returned, and every   *)
(* update linearized before one that had; the ones after may be lost.      *)
(*                                                                         *)
(* surv[k] is the set of values k held from the latest linearization point *)
(* of a returned update of k on: the values a crash may leave k with.      *)
(* since[t] is the set of values the key of t has held from t's own        *)
(* linearization point on, while t is "done" and has not returned.         *)
(***************************************************************************)
EXTENDS PHTMap

VARIABLES surv, since

davars == <<avars, surv, since>>

\* Every step but a crash: since follows the key of each thread whose update
\* has taken effect; surv grows with each new value of k, and when an
\* update of k returns it shrinks to the values k held since that update.
Track ==
  /\ since' = [u \in Threads |->
                 IF stage'[u] # "done" THEN {}
                 ELSE IF stage[u] # "done" THEN {map'[op[u].key]}
                 ELSE since[u] \cup {map'[op[u].key]}]
  /\ surv' = [k \in Keys |->
                LET returning == {u \in Threads : stage[u] = "done" /\ stage'[u] = "idle"
                                                  /\ op[u].key = k}
                IN {x \in surv[k] \cup {map'[k]} : \A u \in returning : x \in since[u]}]

ACrash ==
  /\ \E m \in [Keys -> Vals \cup {NoVal}] :
       /\ \A k \in Keys : m[k] \in surv[k]
       /\ map' = m
  /\ stage' = [t \in Threads |-> "idle"]
  /\ ret'   = [t \in Threads |-> NoRet]
  /\ seen'  = [t \in Threads |-> {}]
  /\ surv'  = [k \in Keys |-> {map'[k]}]
  /\ since' = [t \in Threads |-> {}]
  /\ UNCHANGED op

DInit ==
  /\ AInit
  /\ surv  = [k \in Keys |-> {map[k]}]
  /\ since = [t \in Threads |-> {}]

DNext == (ANext /\ Track) \/ ACrash

DSpec == DInit /\ [][DNext]_davars
=============================================================================
