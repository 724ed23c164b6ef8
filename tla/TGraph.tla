------------------------------- MODULE TGraph -------------------------------
(***************************************************************************)
(* TGraph (src/unnamed/part_000, lines 369-844): a directed graph over a   *)
(* fixed table of vertex slots vMeta[0..numVertices-1], each with a vertex *)
(* pointer, a std::mutex and a uint32 sequence number.  A vertex keeps the *)
(* relations leaving it (adjacency_list, reached by source(v)) and those   *)
(* entering it (dest_list, reached by destination(v)).                     *)
(*                                                                         *)
(* A step is one mutex acquisition, or the whole locked section of an     *)
(* operation together with its releases: while a thread holds the locks    *)
(* of a section no other thread reads or writes what the section touches   *)
(* except the sequence number read unlocked at line 709, which sees the   *)
(* value before or after the section either way.  A relation is the pair  *)
(* <<src, dest>>; its weight is left out.                                  *)
(***************************************************************************)
EXTENDS Integers, Sequences, FiniteSets, SequencesExt, Functions

CONSTANTS
  Threads,
  N,            \* numVertices
  K,            \* meanEdgesPerVertex * 100 / vertexLoad: samples in add_vertex
  SampleMax,    \* upper bound of uniformVertex in add_vertex (line 640)
  OpKinds,
  MaxOps,       \* bound: calls made by all threads together
  None, NoRet

V     == 0..(N - 1)                  \* vertex ids a caller passes
Pairs == {e \in V \X V : e[1] # e[2]}  \* relations add_edge can make

VARIABLES
  present,   \* present[v]: vertex(v) != nullptr
  out,       \* out[v]: dest of each relation in source(v)
  inc,       \* inc[v]: src of each relation in destination(v)
  seq,       \* vertexSeqs
  owner,     \* owner[v]: the thread holding vertexLocks of v, or None
  relHeap,   \* relHeap[e]: Relation objects of pair e allocated, not deleted
  vHeap,     \* vHeap[v]: Vertex objects of id v allocated, not deleted
  pc, kind, a, b, sample, toLock, verts, snap, ret, opsLeft

gstate == <<present, out, inc, seq, owner, relHeap, vHeap>>
locals == <<pc, kind, a, b, sample, toLock, verts, snap, ret, opsLeft>>
vars   == <<gstate, locals>>

\* The sets of vertices add_vertex can draw: K draws from 0..SampleMax,
\* draw i skipped when its value equals i (line 646), duplicates removed.
Draws == {S \in SUBSET (0..SampleMax) :
            Cardinality(S) <= K /\ \E f \in Injection(S, 0..(K - 1)) : \A u \in S : f[u] # u}

\* The constructor (lines 443-482): any vertices present, any relations
\* between distinct present vertices, entered in both sets.
Init ==
  /\ present \in [V -> BOOLEAN]
  /\ \E E \in SUBSET {e \in V \X V : e[1] # e[2] /\ present[e[1]] /\ present[e[2]]} :
       /\ out = [v \in V |-> {e[2] : e \in {x \in E : x[1] = v}}]
       /\ inc = [v \in V |-> {e[1] : e \in {x \in E : x[2] = v}}]
  /\ seq     = [v \in V |-> 0]
  /\ owner   = [v \in V |-> None]
  /\ relHeap = [e \in Pairs |-> IF e[2] \in out[e[1]] THEN 1 ELSE 0]
  /\ vHeap   = [v \in V |-> IF present[v] THEN 1 ELSE 0]
  /\ pc      = [t \in Threads |-> "idle"]
  /\ kind    = [t \in Threads |-> CHOOSE o \in OpKinds : TRUE]   \* IdleKind
  /\ a       = [t \in Threads |-> 0]
  /\ b       = [t \in Threads |-> 0]
  /\ sample  = [t \in Threads |-> {}]
  /\ toLock  = [t \in Threads |-> <<>>]
  /\ verts   = [t \in Threads |-> {}]
  /\ snap    = [t \in Threads |-> 0]
  /\ ret     = [t \in Threads |-> NoRet]
  /\ opsLeft = MaxOps

-----------------------------------------------------------------------------
Set(f, t, x) == [f EXCEPT ![t] = x]
IdleKind     == CHOOSE o \in OpKinds : TRUE
Goto(t, l)   == pc' = Set(pc, t, l)

\* new (allocate) and delete of one object of each element of S in heap h.
Ind(cond)    == IF cond THEN 1 ELSE 0
Alloc(h, S)  == [x \in DOMAIN h |-> h[x] + Ind(x \in S)]
Delete(h, S) == [x \in DOMAIN h |-> h[x] - Ind(x \in S)]

\* Locks to take, ascending (std::sort of the vector).
Ascending(S) == SetToSortSeq(S, <)

\* unlock(u) for every u of S.
Release(S) == owner' = [v \in V |-> IF v \in S THEN None ELSE owner[v]]

\* inc_seq(u) for every u of S.
Bump(S) == seq' = [v \in V |-> IF v \in S THEN seq[v] + 1 ELSE seq[v]]

\* The thread's call returns r; its locals are dead from here on and are
\* cleared so that states differing only in them coincide.
Return(t, r) ==
  /\ ret'    = Set(ret, t, r)
  /\ Goto(t, "idle")
  /\ kind'   = Set(kind, t, IdleKind)
  /\ a'      = Set(a, t, 0)
  /\ b'      = Set(b, t, 0)
  /\ sample' = Set(sample, t, {})
  /\ verts'  = Set(verts, t, {})
  /\ snap'   = Set(snap, t, 0)

\* A call of the workload: kind and arguments.  add_vertex's random draw
\* (lines 639-650) reads no shared state and is made here.
Invoke(t) ==
  /\ pc[t] = "idle"
  /\ opsLeft > 0
  /\ \E o \in OpKinds, x \in V, y \in V, S \in Draws :
       /\ kind'   = Set(kind, t, o)
       /\ a'      = Set(a, t, x)
       /\ b'      = Set(b, t, IF o = "add_vertex" THEN 0 ELSE y)
       /\ sample' = Set(sample, t, IF o = "add_vertex" THEN S ELSE {})
       /\ Goto(t, o)
  /\ opsLeft' = opsLeft - 1
  /\ ret' = Set(ret, t, NoRet)
  /\ UNCHANGED <<gstate, toLock, verts, snap>>

\* Mutant: lock(src) then lock(dest), whatever their order.
EdgeBeginUnordered(t) ==
  /\ pc[t] \in {"add_edge", "remove_edge"}
  /\ IF a[t] = b[t]
       THEN /\ Return(t, FALSE)
            /\ UNCHANGED toLock
       ELSE /\ toLock' = Set(toLock, t, <<a[t], b[t]>>)
            /\ Goto(t, "lock")
            /\ UNCHANGED <<kind, a, b, sample, verts, snap, ret>>
  /\ relHeap' = IF kind[t] = "add_edge" /\ a[t] # b[t]
                 THEN Alloc(relHeap, {<<a[t], b[t]>>}) ELSE relHeap
  /\ UNCHANGED <<present, out, inc, seq, owner, vHeap, opsLeft>>

\* The prologue of each call up to its first lock.
\* add_edge, lines 528-538; remove_edge, lines 605-613: a loop fails at
\* once, else (add_edge allocating its Relation first) lock min(src, dest)
\* then max(src, dest).
EdgeBegin(t) ==
  /\ pc[t] \in {"add_edge", "remove_edge"}
  /\ IF a[t] = b[t]
       THEN /\ Return(t, FALSE)
            /\ UNCHANGED toLock
       ELSE /\ toLock' = Set(toLock, t, Ascending({a[t], b[t]}))
            /\ Goto(t, "lock")
            /\ UNCHANGED <<kind, a, b, sample, verts, snap, ret>>
  /\ relHeap' = IF kind[t] = "add_edge" /\ a[t] # b[t]
                 THEN Alloc(relHeap, {<<a[t], b[t]>>}) ELSE relHeap
  /\ UNCHANGED <<present, out, inc, seq, owner, vHeap, opsLeft>>

\* has_edge, line 587: lock(src).
HasEdgeBegin(t) ==
  /\ pc[t] = "has_edge"
  /\ toLock' = Set(toLock, t, <<a[t]>>)
  /\ Goto(t, "lock")
  /\ UNCHANGED <<gstate, kind, a, b, sample, verts, snap, ret, opsLeft>>

\* add_vertex, lines 651-658: add vid to the sample, sort, dedupe, allocate
\* new_v, lock.
AddVertexBegin(t) ==
  /\ pc[t] = "add_vertex"
  /\ toLock' = Set(toLock, t, Ascending(sample[t] \cup {a[t]}))
  /\ vHeap'  = Alloc(vHeap, {a[t]})
  /\ Goto(t, "lock")
  /\ UNCHANGED <<present, out, inc, seq, owner, relHeap, kind, a, b, sample, verts, snap,
                 ret, opsLeft>>

\* remove_vertex, lines 684-688 (startOver): lock(vid).
RemoveVertexBegin(t) ==
  /\ pc[t] = "remove_vertex"
  /\ toLock' = Set(toLock, t, <<a[t]>>)
  /\ Goto(t, "lock")
  /\ UNCHANGED <<gstate, kind, a, b, sample, verts, snap, ret, opsLeft>>

\* The label each call continues at once it holds its locks.
Section == [add_edge |-> "AE", remove_edge |-> "RE", has_edge |-> "HE",
            add_vertex |-> "AV", remove_vertex |-> "RV_scan"]

\* lock(idx), line 795: block until the mutex is free, then own it.
Acquire(t) ==
  /\ pc[t] = "lock"
  /\ owner[Head(toLock[t])] = None
  /\ owner' = [owner EXCEPT ![Head(toLock[t])] = t]
  /\ toLock' = Set(toLock, t, Tail(toLock[t]))
  /\ Goto(t, IF Tail(toLock[t]) = <<>> THEN Section[kind[t]] ELSE "lock")
  /\ UNCHANGED <<present, out, inc, seq, relHeap, vHeap, kind, a, b, sample, verts, snap,
                 ret, opsLeft>>
-----------------------------------------------------------------------------
(* The locked sections, each with the releases that end it. *)

\* add_edge, lines 540-579: fail if an endpoint is missing or the relation
\* is already in source(src), deleting r; else insert r in both sets and
\* bump both sequence numbers.
AddEdgeSection(t) ==
  LET s == a[t]
      d == b[t]
      ok == present[s] /\ present[d] /\ d \notin out[s]
  IN
  /\ pc[t] = "AE"
  /\ IF ok
       THEN /\ out' = [out EXCEPT ![s] = @ \cup {d}]
            /\ inc' = [inc EXCEPT ![d] = @ \cup {s}]
            /\ Bump({s, d})
       ELSE UNCHANGED <<out, inc, seq>>
  /\ Release({s, d})
  /\ Return(t, ok)
  /\ relHeap' = IF ok THEN relHeap ELSE Delete(relHeap, {<<s, d>>})
  /\ UNCHANGED <<present, vHeap, toLock, opsLeft>>

\* has_edge, lines 588-596.
HasEdgeSection(t) ==
  /\ pc[t] = "HE"
  /\ Release({a[t]})
  /\ Return(t, present[a[t]] /\ b[t] \in out[a[t]])
  /\ UNCHANGED <<present, out, inc, seq, relHeap, vHeap, toLock, opsLeft>>

\* Mutant: the relation is erased from source(src) only.
RemoveEdgeSectionSourceOnly(t) ==
  LET s == a[t]
      d == b[t]
      ok == present[s] /\ present[d] /\ d \in out[s]
  IN
  /\ pc[t] = "RE"
  /\ IF present[s] /\ present[d]
       THEN out' = [out EXCEPT ![s] = @ \ {d}]
       ELSE UNCHANGED out
  /\ IF ok THEN Bump({s, d}) ELSE UNCHANGED seq
  /\ relHeap' = IF ok THEN Delete(relHeap, {<<s, d>>}) ELSE relHeap
  /\ Release({s, d})
  /\ Return(t, ok)
  /\ UNCHANGED <<present, inc, vHeap, toLock, opsLeft>>

\* Mutant: ret is set when both endpoints exist, not from ret1 (line 620).
RemoveEdgeSectionRetPresent(t) ==
  LET s == a[t]
      d == b[t]
      ok == present[s] /\ present[d]
  IN
  /\ pc[t] = "RE"
  /\ IF ok
       THEN /\ out' = [out EXCEPT ![s] = @ \ {d}]
            /\ inc' = [inc EXCEPT ![d] = @ \ {s}]
            /\ Bump({s, d})
       ELSE UNCHANGED <<out, inc, seq>>
  /\ relHeap' = IF d \in out[s] THEN Delete(relHeap, {<<s, d>>}) ELSE relHeap
  /\ Release({s, d})
  /\ Return(t, ok)
  /\ UNCHANGED <<present, vHeap, toLock, opsLeft>>

\* remove_edge, lines 614-635: with both endpoints present, erase the
\* relation from source(src) and destination(dest); if it was there,
\* delete it (once) and bump both.
RemoveEdgeSection(t) ==
  LET s == a[t]
      d == b[t]
      ok == present[s] /\ present[d] /\ d \in out[s]
  IN
  /\ pc[t] = "RE"
  /\ IF present[s] /\ present[d]
       THEN /\ out' = [out EXCEPT ![s] = @ \ {d}]
            /\ inc' = [inc EXCEPT ![d] = @ \ {s}]
       ELSE UNCHANGED <<out, inc>>
  /\ IF ok THEN Bump({s, d}) ELSE UNCHANGED seq
  /\ relHeap' = IF ok THEN Delete(relHeap, {<<s, d>>}) ELSE relHeap
  /\ Release({s, d})
  /\ Return(t, ok)
  /\ UNCHANGED <<present, vHeap, toLock, opsLeft>>

\* Mutant: retval is not set to false when vid already exists (line 670).
AddVertexSectionAlwaysTrue(t) ==
  LET vid  == a[t]
      vec  == sample[t] \cup {vid}
      new  == ~present[vid]
      nbrs == {u \in sample[t] \ {vid} : present[u]}
  IN
  /\ pc[t] = "AV"
  /\ IF new
       THEN /\ present' = [present EXCEPT ![vid] = TRUE]
            /\ out' = [out EXCEPT ![vid] = nbrs]
            /\ inc' = [v \in V |-> IF v \in nbrs THEN inc[v] \cup {vid} ELSE inc[v]]
            /\ Bump({u \in vec : present[u]} \cup {vid})
       ELSE /\ Bump({u \in vec : present[u]})
            /\ UNCHANGED <<present, out, inc>>
  /\ relHeap' = IF new THEN Alloc(relHeap, {<<vid, u>> : u \in nbrs}) ELSE relHeap
  /\ vHeap'   = IF new THEN vHeap ELSE Delete(vHeap, {vid})
  /\ Release(vec)
  /\ Return(t, TRUE)
  /\ UNCHANGED <<toLock, opsLeft>>

\* Mutant: the new relations are inserted in source(vid) only.
AddVertexSectionNoDest(t) ==
  LET vid  == a[t]
      vec  == sample[t] \cup {vid}
      new  == ~present[vid]
      nbrs == {u \in sample[t] \ {vid} : present[u]}
  IN
  /\ pc[t] = "AV"
  /\ IF new
       THEN /\ present' = [present EXCEPT ![vid] = TRUE]
            /\ out' = [out EXCEPT ![vid] = nbrs]
            /\ Bump({u \in vec : present[u]} \cup {vid})
       ELSE /\ Bump({u \in vec : present[u]})
            /\ UNCHANGED <<present, out>>
  /\ relHeap' = IF new THEN Alloc(relHeap, {<<vid, u>> : u \in nbrs}) ELSE relHeap
  /\ vHeap'   = IF new THEN vHeap ELSE Delete(vHeap, {vid})
  /\ Release(vec)
  /\ Return(t, new)
  /\ UNCHANGED <<inc, toLock, opsLeft>>

\* add_vertex, lines 660-680: if vid is absent install new_v with a new
\* relation to every sampled vertex present; then, releasing in reverse
\* order, bump every locked vertex present while vid is present; delete
\* new_v if vid was there already.
AddVertexSection(t) ==
  LET vid  == a[t]
      vec  == sample[t] \cup {vid}
      new  == ~present[vid]
      nbrs == {u \in sample[t] \ {vid} : present[u]}
  IN
  /\ pc[t] = "AV"
  /\ IF new
       THEN /\ present' = [present EXCEPT ![vid] = TRUE]
            /\ out' = [out EXCEPT ![vid] = nbrs]
            /\ inc' = [v \in V |-> IF v \in nbrs THEN inc[v] \cup {vid} ELSE inc[v]]
            /\ Bump({u \in vec : present[u]} \cup {vid})
       ELSE /\ Bump({u \in vec : present[u]})
            /\ UNCHANGED <<present, out, inc>>
  /\ relHeap' = IF new THEN Alloc(relHeap, {<<vid, u>> : u \in nbrs}) ELSE relHeap
  /\ vHeap'   = IF new THEN vHeap ELSE Delete(vHeap, {vid})
  /\ Release(vec)
  /\ Return(t, new)
  /\ UNCHANGED <<toLock, opsLeft>>

\* remove_vertex step 1, lines 689-704: fail if vid is absent; else note
\* seq(vid) and every neighbour, unlock vid, and lock them all with vid in
\* ascending order.
RemoveVertexScan(t) ==
  LET vid == a[t] IN
  /\ pc[t] = "RV_scan"
  /\ Release({vid})
  /\ IF ~present[vid]
       THEN /\ Return(t, FALSE)
            /\ UNCHANGED toLock
       ELSE /\ snap'   = Set(snap, t, seq[vid])
            /\ verts'  = Set(verts, t, out[vid] \cup inc[vid] \cup {vid})
            /\ toLock' = Set(toLock, t, Ascending(out[vid] \cup inc[vid] \cup {vid}))
            /\ Goto(t, "RV_lock")
            /\ UNCHANGED <<kind, a, b, sample, ret>>
  /\ UNCHANGED <<present, out, inc, seq, relHeap, vHeap, opsLeft>>

\* remove_vertex step 2, lines 707-720: lock the next vertex; abort if it
\* is gone while seq(vid), read without vid's lock, is still the one noted.
RemoveVertexLock(t) ==
  LET u == Head(toLock[t]) IN
  /\ pc[t] = "RV_lock"
  /\ owner[u] = None
  /\ owner' = [owner EXCEPT ![u] = t]
  /\ toLock' = Set(toLock, t, Tail(toLock[t]))
  /\ Goto(t, IF ~present[u] /\ seq[a[t]] = snap[t] THEN "abort"
             ELSE IF Tail(toLock[t]) = <<>> THEN "RV_commit" ELSE "RV_lock")
  /\ UNCHANGED <<present, out, inc, seq, relHeap, vHeap, kind, a, b, sample, verts, snap,
                 ret, opsLeft>>

\* A neighbour that keeps neither relation with vid: the abort of line 759.
Lost(t, o) == a[t] \notin out[o] /\ a[t] \notin inc[o]

\* remove_vertex's erasures, lines 733-769: vid is taken out of source and
\* destination of each other vertex it locked (ret1, ret2), and its own two
\* sets are cleared; vertices the scan did not see are left alone.
Erase(f, vid, others) ==
  [v \in V |-> CASE v = vid       -> {}
                [] v \in others    -> f[v] \ {vid}
                [] OTHER           -> f[v]]

\* Mutant: ret2, the relation vid -> other taken out of destination(other),
\* is deleted too, though source(vid) still holds it for toDelete.
RemoveVertexFreeBoth(t) ==
  LET vid == a[t]
      others == verts[t] \ {vid}
  IN
  /\ relHeap' = Delete(Delete(relHeap, {<<o, vid>> : o \in {x \in others : vid \in out[x]}}
                                        \cup {<<vid, d>> : d \in out[vid]}),
                       {<<vid, o>> : o \in {x \in others : x \in out[vid]}})
  /\ vHeap' = Delete(vHeap, {vid})

\* The frees of remove_vertex's commit: for each other neighbour, ret1,
\* the relation other -> vid taken out of source(other) (line 764); then
\* every relation of source(vid), through toDelete (lines 767-778); then
\* the vertex (destroy, lines 811-815).
RemoveVertexFree(t) ==
  LET vid == a[t]
      others == verts[t] \ {vid}
  IN
  /\ relHeap' = Delete(relHeap, {<<o, vid>> : o \in {x \in others : vid \in out[x]}}
                                 \cup {<<vid, d>> : d \in out[vid]})
  /\ vHeap' = Delete(vHeap, {vid})

\* Mutant: the release loop bumps seq(vid) only, not every locked vertex
\* (line 782).
RemoveVertexCommitBumpSelf(t) ==
  LET vid    == a[t]
      others == verts[t] \ {vid}
  IN
  /\ pc[t] = "RV_commit"
  /\ \/ /\ seq[vid] # snap[t]
        /\ Release(verts[t])
        /\ toLock' = Set(toLock, t, <<vid>>)
        /\ verts'  = Set(verts, t, {})
        /\ Goto(t, "lock")
        /\ UNCHANGED <<present, out, inc, seq, relHeap, vHeap, kind, a, b, sample, snap, ret>>
     \/ /\ seq[vid] = snap[t]
        /\ \E o \in others : Lost(t, o)
        /\ Goto(t, "abort")
        /\ UNCHANGED <<present, out, inc, seq, owner, relHeap, vHeap, kind, a, b, sample,
                       toLock, verts, snap, ret>>
     \/ /\ seq[vid] = snap[t]
        /\ \A o \in others : ~Lost(t, o)
        /\ present' = [present EXCEPT ![vid] = FALSE]
        /\ out' = Erase(out, vid, others)
        /\ inc' = Erase(inc, vid, others)
        /\ Bump({vid})
        /\ RemoveVertexFree(t)
        /\ Release(verts[t])
        /\ Return(t, TRUE)
        /\ UNCHANGED toLock
  /\ UNCHANGED opsLeft

\* remove_vertex, lines 723-786: start over if seq(vid) moved; else erase
\* vid's relations from every neighbour (aborting on one that has none),
\* clear vid's sets, destroy it, bump and release everything.
RemoveVertexCommit(t) ==
  LET vid    == a[t]
      others == verts[t] \ {vid}
  IN
  /\ pc[t] = "RV_commit"
  /\ \/ /\ seq[vid] # snap[t]
        /\ Release(verts[t])
        /\ toLock' = Set(toLock, t, <<vid>>)
        /\ verts'  = Set(verts, t, {})
        /\ Goto(t, "lock")
        /\ UNCHANGED <<present, out, inc, seq, relHeap, vHeap, kind, a, b, sample, snap, ret>>
     \/ /\ seq[vid] = snap[t]
        /\ IF \E o \in others : Lost(t, o)
             THEN /\ Goto(t, "abort")
                  /\ UNCHANGED <<present, out, inc, seq, owner, relHeap, vHeap, kind, a,
                                 b, sample, verts, snap, ret>>
             ELSE /\ present' = [present EXCEPT ![vid] = FALSE]
                  /\ out' = Erase(out, vid, others)
                  /\ inc' = Erase(inc, vid, others)
                  /\ Bump(verts[t])
                  /\ RemoveVertexFree(t)
                  /\ Release(verts[t])
                  /\ Return(t, TRUE)
        /\ UNCHANGED toLock
  /\ UNCHANGED opsLeft

-----------------------------------------------------------------------------
Step(t) ==
  \/ Invoke(t)
  \/ EdgeBegin(t) \/ HasEdgeBegin(t) \/ AddVertexBegin(t) \/ RemoveVertexBegin(t)
  \/ Acquire(t)
  \/ AddEdgeSection(t) \/ HasEdgeSection(t) \/ RemoveEdgeSection(t)
  \/ AddVertexSection(t)
  \/ RemoveVertexScan(t) \/ RemoveVertexLock(t) \/ RemoveVertexCommit(t)

Next == \E t \in Threads : Step(t)

\* std::mutex is not fair, but a thread blocked in lock() is woken when it
\* is released, and the workload is finite: weak fairness per thread.
Fairness == \A t \in Threads : WF_vars(Step(t))

Spec     == Init /\ [][Next]_vars
FairSpec == Spec /\ Fairness
-----------------------------------------------------------------------------
(***************************************************************************)
(* Properties.                                                             *)
(***************************************************************************)
TypeOK ==
  /\ present \in [V -> BOOLEAN]
  /\ out \in [V -> SUBSET V]
  /\ inc \in [V -> SUBSET V]
  /\ seq \in [V -> 0..MaxOps]
  /\ owner \in [V -> Threads \cup {None}]
  /\ relHeap \in [Pairs -> Int]
  /\ vHeap \in [V -> Int]
  /\ pc \in [Threads -> {"idle", "add_edge", "remove_edge", "has_edge", "add_vertex",
                         "remove_vertex", "lock", "AE", "RE", "HE", "AV",
                         "RV_scan", "RV_lock", "RV_commit", "abort"}]
  /\ toLock \in [Threads -> Seq(V)]
  /\ verts \in [Threads -> SUBSET V]
  /\ ret \in [Threads -> BOOLEAN \cup {NoRet}]
  /\ opsLeft \in 0..MaxOps

\* Every index that add_vertex and the other calls pass to lock() is a
\* slot of vMeta (spec.md 7: an out-of-range vertex id is a fatal error).
LockInRange == \A t \in Threads : Range(toLock[t]) \subseteq V

\* Relations are indexed on both ends (spec.md 8.3, 8.4): a relation is in
\* source(s) exactly when it is in destination(d), and only between two
\* present vertices, after every interleaving of edge and vertex calls.
RelationsConsistent ==
  \A v, w \in V :
    /\ w \in out[v] <=> v \in inc[w]
    /\ w \in out[v] => present[v] /\ present[w]

\* Neither std::abort() of remove_vertex (lines 718 and 759) is reached:
\* the sequence-number validation catches every change to vid's relations
\* made between its scan and its commit.
NoAbort == \A t \in Threads : pc[t] # "abort"

\* Each call takes effect atomically, as GraphSpec says, at its locked
\* section (or at once for a self-loop edge call); remove_vertex's
\* restarts change nothing.
Atomic == INSTANCE GraphSpec WITH
            vs     <- {v \in V : present[v]},
            es     <- {e \in V \X V : e[2] \in out[e[1]]},
            op     <- [t \in Threads |-> [kind |-> kind[t], a |-> a[t], b |-> b[t],
                                          sample |-> sample[t]]],
            busy   <- [t \in Threads |-> pc[t] # "idle"],
            Samples <- Draws

Linearizable == Atomic!GSpec

\* Ownership of the heap objects (the comments at lines 397-398 and 764):
\* every Relation object is referenced by exactly one relation of the
\* graph, or is the r that an add_edge call holds before its locked
\* section; every Vertex object is a present vertex, or the new_v of an
\* add_vertex call.  No object is leaked and none is deleted twice, across
\* concurrent removals of an edge and of either of its endpoints.
HoldsRelation(t, e) == kind[t] = "add_edge" /\ pc[t] \in {"lock", "AE"} /\ <<a[t], b[t]>> = e
HoldsVertex(t, v)   == kind[t] = "add_vertex" /\ pc[t] \in {"lock", "AV"} /\ a[t] = v

HeapOwned ==
  /\ \A e \in Pairs :
       relHeap[e] = Ind(e[2] \in out[e[1]]) + Cardinality({t \in Threads : HoldsRelation(t, e)})
  /\ \A v \in V :
       vHeap[v] = Ind(present[v]) + Cardinality({t \in Threads : HoldsVertex(t, v)})

\* Deadlock freedom and termination of the retry loop: with locks taken in
\* ascending order every call of a finite workload returns.
AllOpsComplete == <>(opsLeft = 0 /\ \A t \in Threads : pc[t] = "idle")
=============================================================================
