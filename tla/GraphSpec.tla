----------------------------- MODULE GraphSpec -----------------------------
(***************************************************************************)
(* What TGraph promises its callers (RGraph interface, spec.md 4.3): a     *)
(* directed graph without self-loops over vertex ids, shared by threads   *)
(* that each run one operation at a time, every operation taking effect   *)
(* atomically at one instant between its call and its return.             *)
(***************************************************************************)
EXTENDS FiniteSets

CONSTANTS Threads, V, Samples, OpKinds, NoRet

VARIABLES
  vs,     \* the vertices present
  es,     \* the edges, pairs <<src, dest>>
  op,     \* op[t]: the call thread t is running or ran last
  busy,   \* busy[t]: t is between call and return
  ret     \* ret[t]: what t's last call returned

gvars == <<vs, es, op, busy, ret>>

Calls == [kind : OpKinds, a : V, b : V, sample : Samples]

GInit ==
  /\ vs \in SUBSET V
  /\ es \in SUBSET {e \in vs \X vs : e[1] # e[2]}
  /\ op \in [Threads -> Calls]
  /\ busy = [t \in Threads |-> FALSE]
  /\ ret = [t \in Threads |-> NoRet]

Call(t) ==
  /\ ~busy[t]
  /\ op' \in [Threads -> Calls]
  /\ \A u \in Threads \ {t} : op'[u] = op[u]
  /\ busy' = [busy EXCEPT ![t] = TRUE]
  /\ ret' = [ret EXCEPT ![t] = NoRet]
  /\ UNCHANGED <<vs, es>>

Incident(v) == {e \in es : v \in {e[1], e[2]}}

\* The instant the call takes effect; it returns at the same time.
Apply(t) ==
  LET s == op[t].a
      d == op[t].b
      ok == CASE op[t].kind = "add_edge"      -> s # d /\ {s, d} \subseteq vs /\ <<s, d>> \notin es
              [] op[t].kind = "remove_edge"   -> s # d /\ {s, d} \subseteq vs /\ <<s, d>> \in es
              [] op[t].kind = "has_edge"      -> s \in vs /\ <<s, d>> \in es
              [] op[t].kind = "add_vertex"    -> s \notin vs
              [] op[t].kind = "remove_vertex" -> s \in vs
  IN
  /\ busy[t]
  /\ ret' = [ret EXCEPT ![t] = ok]
  /\ busy' = [busy EXCEPT ![t] = FALSE]
  /\ IF ~ok \/ op[t].kind = "has_edge" THEN UNCHANGED <<vs, es>>
     ELSE CASE op[t].kind = "add_edge"      -> es' = es \cup {<<s, d>>} /\ UNCHANGED vs
            [] op[t].kind = "remove_edge"   -> es' = es \ {<<s, d>>} /\ UNCHANGED vs
            [] op[t].kind = "add_vertex"    ->
                 /\ vs' = vs \cup {s}
                 /\ es' = es \cup {<<s, u>> : u \in (op[t].sample \cap vs) \ {s}}
            [] op[t].kind = "remove_vertex" ->
                 /\ vs' = vs \ {s}
                 /\ es' = es \ Incident(s)
  /\ op' \in [Threads -> Calls]          \* the returned call is forgotten
  /\ \A u \in Threads \ {t} : op'[u] = op[u]

GNext == \E t \in Threads : Call(t) \/ Apply(t)

GSpec == GInit /\ [][GNext]_gvars
=============================================================================
