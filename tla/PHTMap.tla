------------------------------ MODULE PHTMap ------------------------------
(***************************************************************************)
(* What PLockfreeHashTable promises (spec.md 4.2, 5): a linearizable map   *)
(* from keys to values, seen by concurrent threads.  A thread invokes one  *)
(* operation at a time.  An operation that changes the map takes effect    *)
(* atomically at one instant between its invocation and its return          *)
(* (insert, put and replace at the installing CAS, remove at the mark      *)
(* CAS).  An operation that leaves the map unchanged (get, a failed        *)
(* insert, replace or remove of an absent key) returns what the map held   *)
(* for its key at some instant of its interval: seen[t] collects those     *)
(* values.                                                                 *)
(***************************************************************************)
EXTENDS FiniteSets

CONSTANTS Threads, Keys, Vals, OpKinds,
          NoVal,  \* "none": the key is absent / optional<string> is empty
          NoRet   \* no result yet

VARIABLES map, op, stage, ret, seen

avars == <<map, op, stage, ret, seen>>

Updates == {"insert", "put", "replace", "remove"}
Stages  == {"idle", "pending", "done"}
Results == Vals \cup {NoVal, NoRet} \cup BOOLEAN

\* Every thread not idle has seen what the map now holds for its key.
Observe ==
  seen' = [u \in Threads |->
             IF stage'[u] = "idle" THEN {}
             ELSE IF stage[u] = "idle" THEN {map'[op'[u].key]}
             ELSE seen[u] \cup {map'[op'[u].key]}]

AInit ==
  /\ map   \in [Keys -> Vals \cup {NoVal}]
  /\ op    \in [Threads -> [kind : OpKinds, key : Keys, val : Vals]]
  /\ stage = [t \in Threads |-> "idle"]
  /\ ret   = [t \in Threads |-> NoRet]
  /\ seen  = [t \in Threads |-> {}]

Invoke(t) ==
  /\ stage[t] = "idle"
  /\ \E kind \in OpKinds, k \in Keys, v \in Vals :
       op' = [op EXCEPT ![t] = [kind |-> kind, key |-> k, val |-> v]]
  /\ stage' = [stage EXCEPT ![t] = "pending"]
  /\ ret'   = [ret EXCEPT ![t] = NoRet]
  /\ UNCHANGED map
  /\ Observe

\* The one instant at which an update takes effect.
Linearize(t) ==
  LET k == op[t].key
      v == op[t].val
      old == map[k]
  IN
  /\ stage[t] = "pending"
  /\ op[t].kind \in Updates
  /\ CASE op[t].kind = "insert"  -> old = NoVal  /\ map' = [map EXCEPT ![k] = v]
                                   /\ ret' = [ret EXCEPT ![t] = TRUE]
       [] op[t].kind = "put"     -> map' = [map EXCEPT ![k] = v]
                                   /\ ret' = [ret EXCEPT ![t] = old]
       [] op[t].kind = "replace" -> old # NoVal /\ map' = [map EXCEPT ![k] = v]
                                   /\ ret' = [ret EXCEPT ![t] = old]
       [] op[t].kind = "remove"  -> old # NoVal /\ map' = [map EXCEPT ![k] = NoVal]
                                   /\ ret' = [ret EXCEPT ![t] = old]
  /\ stage' = [stage EXCEPT ![t] = "done"]
  /\ UNCHANGED op
  /\ Observe

\* An operation that changed nothing returns what some instant showed it.
ReturnUnchanged(t) ==
  /\ stage[t] = "pending"
  /\ \E r \in seen[t] :
       CASE op[t].kind = "get"     -> ret' = [ret EXCEPT ![t] = r]
         [] op[t].kind = "insert"  -> r # NoVal /\ ret' = [ret EXCEPT ![t] = FALSE]
         [] op[t].kind = "put"     -> FALSE
         [] op[t].kind \in {"replace", "remove"} ->
                                      r = NoVal /\ ret' = [ret EXCEPT ![t] = NoVal]
  /\ stage' = [stage EXCEPT ![t] = "idle"]
  /\ UNCHANGED <<map, op>>
  /\ Observe

Return(t) ==
  /\ stage[t] = "done"
  /\ stage' = [stage EXCEPT ![t] = "idle"]
  /\ UNCHANGED <<map, op, ret>>
  /\ Observe

ANext == \E t \in Threads : Invoke(t) \/ Linearize(t) \/ ReturnUnchanged(t) \/ Return(t)

ASpec == AInit /\ [][ANext]_avars
=============================================================================
