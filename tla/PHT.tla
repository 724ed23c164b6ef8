-------------------------------- MODULE PHT --------------------------------
(***************************************************************************)
(* PLockfreeHashTable (src/unnamed/part_000, lines 1-340): the lock-free   *)
(* chained hash table whose nodes live in persistent memory.  This module *)
(* is the volatile behaviour: the shared heap of bucket sentinels and      *)
(* nodes, and threads running get / insert / put / replace / remove, each  *)
(* one atomic memory access (load or CAS) per step, with findNode shared   *)
(* as a sub-procedure.  Persistence (clwb / sfence) is modelled in a      *)
(* separate module; here those calls change nothing.                       *)
(*                                                                         *)
(* Data abstraction: a key is an integer (byte-lex compare becomes <), a   *)
(* value a model value, the hash a function Hash from keys to buckets.     *)
(* A bucket's padded MarkPtr is the sentinel node whose id is the bucket.  *)
(* A pointer is a record [ptr, mark]: the low bit of the C++ pointer.      *)
(***************************************************************************)
EXTENDS Integers, Sequences, FiniteSets, SequencesExt

CONSTANTS
  Threads,       \* thread ids (tid)
  Keys,          \* a finite set of integers
  Vals,          \* model values
  Buckets,       \* bucket indices, as model values
  Hash,          \* hash_fn(key) % idxSize, a function Keys -> Buckets
  OpKinds,       \* the operations the workload may invoke
  MaxOps,        \* bound: operations invoked by all threads together
  Null, NoVal, NoKey, NoRet

ASSUME Hash \in [Keys -> Buckets]
ASSUME OpKinds \subseteq {"get", "insert", "put", "replace", "remove"}

\* Bound on allocated nodes: the initial chain plus one node per operation.
MaxNodes == Cardinality(Keys) + MaxOps
Nodes == 1..MaxNodes
Locs  == Buckets \cup Nodes          \* every MarkPtr in the heap

VARIABLES
  nxt, nkey, nval, alloc,            \* the persistent heap
  pc, kind, key, val, prev, curr, next, cmark, tmp, res, found, fret,
  opsLeft,                           \* per-thread locals; the workload left
  active, retired, waitFor, freed,   \* RCUTracker
  seen                               \* history: values View(key) took during an op

heap    == <<nxt, nkey, nval, alloc>>
locals  == <<pc, kind, key, val, prev, curr, next, cmark, tmp, res, found, fret, opsLeft>>
rvars   == <<active, retired, waitFor, freed>>
vars    == <<heap, locals, rvars, seen>>

R == INSTANCE Reclaimer WITH Objects <- Nodes

Ref(n)      == [ptr |-> n, mark |-> FALSE]
SetMark(p)  == [p EXCEPT !.mark = TRUE]          \* setMark / mixPtrMark(p, true)
Ptrs        == [ptr : Nodes \cup {Null}, mark : BOOLEAN]

(***************************************************************************)
(* The content of the table, as a findNode run alone would see it: the     *)
(* first unmarked node with key >= k decides, marked nodes are skipped.    *)
(***************************************************************************)
RECURSIVE FindFrom(_, _)
FindFrom(p, k) ==
  LET c == nxt[p].ptr IN
  IF c = Null THEN NoVal
  ELSE IF nxt[c].mark \/ nkey[c] < k THEN FindFrom(c, k)
  ELSE IF nkey[c] = k THEN nval[c] ELSE NoVal

View(k) == FindFrom(Hash[k], k)

RECURSIVE ChainFrom(_)
ChainFrom(p) ==
  LET c == nxt[p].ptr IN IF c = Null THEN <<>> ELSE <<c>> \o ChainFrom(c)

Reachable == UNION {Range(ChainFrom(b)) : b \in Buckets}

(***************************************************************************)
(* Init: the table after a sequence of single-threaded inserts of the keys *)
(* of S (possibly none).  Node i holds the i-th smallest key of S.          *)
(***************************************************************************)
InitHeap(S, v) ==
  LET sorted == SetToSortSeq(S, <)
      n == Len(sorted)
      After(b, i) == {j \in (i+1)..n : Hash[sorted[j]] = b}
      Succ(b, i)  == IF After(b, i) = {} THEN Null ELSE Min(After(b, i))
  IN
  /\ alloc = n
  /\ nkey = [m \in Nodes |-> IF m <= n THEN sorted[m] ELSE NoKey]
  /\ nval = [m \in Nodes |-> IF m <= n THEN v[sorted[m]] ELSE NoVal]
  /\ nxt  = [l \in Locs |->
               IF l \in Buckets THEN Ref(Succ(l, 0))
               ELSE IF l <= n THEN Ref(Succ(Hash[sorted[l]], l))
               ELSE Ref(Null)]

Init ==
  /\ \E S \in SUBSET Keys : \E v \in [S -> Vals] : InitHeap(S, v)
  /\ pc      = [t \in Threads |-> "idle"]
  /\ kind    = [t \in Threads |-> CHOOSE o \in OpKinds : TRUE]
  /\ key     = [t \in Threads |-> CHOOSE k \in Keys : TRUE]
  /\ val     = [t \in Threads |-> CHOOSE v \in Vals : TRUE]
  /\ prev    = [t \in Threads |-> Null]
  /\ curr    = [t \in Threads |-> Null]
  /\ next    = [t \in Threads |-> Ref(Null)]
  /\ cmark   = [t \in Threads |-> FALSE]
  /\ tmp     = [t \in Threads |-> Null]
  /\ res     = [t \in Threads |-> NoRet]
  /\ found   = [t \in Threads |-> FALSE]
  /\ fret    = [t \in Threads |-> "G"]
  /\ opsLeft = MaxOps
  /\ R!RInit
  /\ seen    = [t \in Threads |-> {}]

-----------------------------------------------------------------------------
(* Helpers for one thread's locals. *)
Goto(t, l)    == pc' = [pc EXCEPT ![t] = l]
Set(f, t, x)  == [f EXCEPT ![t] = x]

\* findNode returns b to the continuation saved in fret.
FindReturns(t, b) ==
  /\ Goto(t, fret[t])
  /\ found' = Set(found, t, b)

\* The label an operation continues at once its findNode returns.
Continuation == [get |-> "G", insert |-> "I", put |-> "P",
                 replace |-> "Rp", remove |-> "Rm"]

Allocating == {"insert", "put", "replace"}

\* Lines 126-132, 141-149, 192-200, 225-231, 258-266: set up locals,
\* allocate tmpNode = new Node(key, val, nullptr) (insert, put, replace),
\* tracker.start_op(tid), then call findNode.
Invoke(t) ==
  /\ pc[t] = "idle"
  /\ opsLeft > 0
  /\ \E o \in OpKinds, k \in Keys, v \in Vals :
       /\ kind' = Set(kind, t, o)
       /\ key'  = Set(key, t, k)
       /\ val'  = Set(val, t, v)
       /\ fret' = Set(fret, t, Continuation[o])
       /\ IF o \in Allocating
            THEN /\ alloc' = alloc + 1
                 /\ tmp'   = Set(tmp, t, alloc + 1)
                 /\ nkey'  = [nkey EXCEPT ![alloc + 1] = k]
                 /\ nval'  = [nval EXCEPT ![alloc + 1] = v]
            ELSE /\ tmp'   = Set(tmp, t, Null)
                 /\ UNCHANGED <<alloc, nkey, nval>>
  /\ opsLeft' = opsLeft - 1
  /\ res'     = Set(res, t, NoRet)
  /\ Goto(t, "F_head")
  /\ R!StartOp(t)
  /\ UNCHANGED <<nxt, prev, curr, next, cmark, found>>

-----------------------------------------------------------------------------
(* findNode (lines 301-338), one shared access per step. *)

\* Lines 303-307: prev = &buckets[idx]; curr = getPtr(prev->ptr.load()).
FindHead(t) ==
  /\ pc[t] = "F_head"
  /\ prev' = Set(prev, t, Hash[key[t]])
  /\ curr' = Set(curr, t, nxt[Hash[key[t]]].ptr)
  /\ Goto(t, "F_next")
  /\ UNCHANGED <<heap, kind, key, val, next, cmark, tmp, res, found, fret, opsLeft, rvars>>

\* Lines 309-314: return false at the end of the chain, else load curr->next.
FindNext(t) ==
  /\ pc[t] = "F_next"
  /\ IF curr[t] = Null
       THEN /\ FindReturns(t, FALSE)
            /\ UNCHANGED <<next, cmark>>
       ELSE /\ next'  = Set(next, t, Ref(nxt[curr[t]].ptr))
            /\ cmark' = Set(cmark, t, nxt[curr[t]].mark)
            /\ Goto(t, "F_check")
            /\ UNCHANGED found
  /\ UNCHANGED <<heap, kind, key, val, prev, curr, tmp, res, fret, opsLeft, rvars>>

\* Mutant: the re-read of prev (line 315) is left out.
FindCheckNoRecheck(t) ==
  /\ pc[t] = "F_check"
  /\ LET c == curr[t] IN
     \/ /\ ~cmark[t]
        /\ \/ nkey[c] = key[t] /\ FindReturns(t, TRUE)  /\ UNCHANGED <<prev, curr>>
           \/ nkey[c] > key[t] /\ FindReturns(t, FALSE) /\ UNCHANGED <<prev, curr>>
           \/ /\ nkey[c] < key[t]
              /\ prev' = Set(prev, t, c)
              /\ curr' = Set(curr, t, next[t].ptr)
              /\ Goto(t, "F_next")
              /\ UNCHANGED found
     \/ /\ cmark[t]
        /\ Goto(t, "F_unlink")
        /\ UNCHANGED <<prev, curr, found>>
  /\ UNCHANGED <<heap, kind, key, val, next, cmark, tmp, res, fret, opsLeft, rvars>>

\* Mutant: the comparison's sign is inverted for the greater case, so the
\* search walks past a greater key instead of stopping in front of it.
FindCheckPastGreater(t) ==
  /\ pc[t] = "F_check"
  /\ LET c == curr[t] IN
     \/ /\ nxt[prev[t]] # Ref(c)
        /\ Goto(t, "F_head")
        /\ UNCHANGED <<prev, curr, found>>
     \/ /\ nxt[prev[t]] = Ref(c)
        /\ ~cmark[t]
        /\ \/ nkey[c] = key[t] /\ FindReturns(t, TRUE)  /\ UNCHANGED <<prev, curr>>
           \/ /\ nkey[c] # key[t]
              /\ prev' = Set(prev, t, c)
              /\ curr' = Set(curr, t, next[t].ptr)
              /\ Goto(t, "F_next")
              /\ UNCHANGED found
     \/ /\ nxt[prev[t]] = Ref(c)
        /\ cmark[t]
        /\ Goto(t, "F_unlink")
        /\ UNCHANGED <<prev, curr, found>>
  /\ UNCHANGED <<heap, kind, key, val, next, cmark, tmp, res, fret, opsLeft, rvars>>

\* Lines 315-326, 335: re-read prev; restart if it no longer holds curr
\* unmarked; stop at the first unmarked key >= target, step past a smaller
\* one, go unlink a marked one.
FindCheck(t) ==
  /\ pc[t] = "F_check"
  /\ LET c == curr[t] IN
     \/ /\ nxt[prev[t]] # Ref(c)
        /\ Goto(t, "F_head")
        /\ UNCHANGED <<prev, curr, found>>
     \/ /\ nxt[prev[t]] = Ref(c)
        /\ ~cmark[t]
        /\ \/ nkey[c] = key[t] /\ FindReturns(t, TRUE)  /\ UNCHANGED <<prev, curr>>
           \/ nkey[c] > key[t] /\ FindReturns(t, FALSE) /\ UNCHANGED <<prev, curr>>
           \/ /\ nkey[c] < key[t]
              /\ prev' = Set(prev, t, c)
              /\ curr' = Set(curr, t, next[t].ptr)
              /\ Goto(t, "F_next")
              /\ UNCHANGED found
     \/ /\ nxt[prev[t]] = Ref(c)
        /\ cmark[t]
        /\ Goto(t, "F_unlink")
        /\ UNCHANGED <<prev, curr, found>>
  /\ UNCHANGED <<heap, kind, key, val, next, cmark, tmp, res, fret, opsLeft, rvars>>

\* Lines 327-335: CAS prev from curr to next; on success retire curr and
\* go on with curr = next, on failure restart from the bucket.
FindUnlink(t) ==
  /\ pc[t] = "F_unlink"
  /\ IF nxt[prev[t]] = Ref(curr[t])
       THEN /\ nxt' = [nxt EXCEPT ![prev[t]] = next[t]]
            /\ R!Retire(curr[t])
            /\ curr' = Set(curr, t, next[t].ptr)
            /\ Goto(t, "F_next")
       ELSE /\ Goto(t, "F_head")
            /\ UNCHANGED <<nxt, curr, rvars>>
  /\ UNCHANGED <<nkey, nval, alloc, kind, key, val, prev, next, cmark, tmp, res,
                 found, fret, opsLeft>>

-----------------------------------------------------------------------------
(* The operations, from the point their findNode returns. *)

\* tracker.end_op(tid) and return: the thread's pointers are dead from here
\* on and are cleared so that states differing only in them coincide.
Leave(t) ==
  /\ Goto(t, "idle")
  /\ R!EndOp(t)
  /\ prev'  = Set(prev, t, Null)
  /\ curr'  = Set(curr, t, Null)
  /\ next'  = Set(next, t, Ref(Null))
  /\ cmark' = Set(cmark, t, FALSE)
  /\ tmp'   = Set(tmp, t, Null)
  /\ found' = Set(found, t, FALSE)
  /\ fret'  = Set(fret, t, "G")

scratch == <<prev, curr, next, cmark, tmp, found, fret>>

\* Mutant: get returns findNode's result instead of curr->val.
GetDoneFound(t) ==
  /\ pc[t] = "G"
  /\ res' = Set(res, t, found[t])
  /\ Leave(t)
  /\ UNCHANGED <<heap, kind, key, val, opsLeft>>

\* get, lines 133-138: read curr->val if found, tracker.end_op.
GetDone(t) ==
  /\ pc[t] = "G"
  /\ res' = Set(res, t, IF found[t] THEN nval[curr[t]] ELSE NoVal)
  /\ Leave(t)
  /\ UNCHANGED <<heap, kind, key, val, opsLeft>>

\* Mutant: prev is written with a plain store instead of a CAS.
InstallStore(t, onSuccess) ==
  /\ nxt' = [nxt EXCEPT ![tmp[t]] = Ref(curr[t]), ![prev[t]] = Ref(tmp[t])]
  /\ Goto(t, onSuccess)
  /\ UNCHANGED <<scratch, rvars>>

\* The publishing step shared by insert, put and replace: tmpNode->next =
\* curr, then CAS prev from curr to tmpNode; on failure run findNode again.
Install(t, onSuccess) ==
  /\ IF nxt[prev[t]] = Ref(curr[t])
       THEN /\ nxt' = [nxt EXCEPT ![tmp[t]] = Ref(curr[t]), ![prev[t]] = Ref(tmp[t])]
            /\ Goto(t, onSuccess)
       ELSE /\ nxt' = [nxt EXCEPT ![tmp[t]] = Ref(curr[t])]
            /\ Goto(t, "F_head")
  /\ UNCHANGED <<scratch, rvars>>

\* insert, lines 202-218: fail if the key is present (tmpNode is deleted,
\* never published), else publish tmpNode.
InsertStep(t) ==
  /\ pc[t] = "I"
  /\ IF found[t]
       THEN /\ res' = Set(res, t, FALSE)
            /\ Leave(t)
            /\ UNCHANGED nxt
       ELSE /\ res' = Set(res, t, TRUE)
            /\ Install(t, "Ret")
  /\ UNCHANGED <<nkey, nval, alloc, kind, key, val, opsLeft>>

\* put, lines 151-185: install tmpNode in front of the node found (then go
\* mark it) or at the position found.
PutStep(t) ==
  /\ pc[t] = "P"
  /\ res' = Set(res, t, IF found[t] THEN nval[curr[t]] ELSE NoVal)
  /\ Install(t, IF found[t] THEN "P_mark" ELSE "Ret")
  /\ UNCHANGED <<nkey, nval, alloc, kind, key, val, opsLeft>>

\* replace, lines 268-294: like put when found; otherwise return none
\* (tmpNode is deleted, never published).
ReplaceStep(t) ==
  /\ pc[t] = "Rp"
  /\ IF found[t]
       THEN /\ res' = Set(res, t, nval[curr[t]])
            /\ Install(t, "P_mark")
       ELSE /\ res' = Set(res, t, NoVal)
            /\ Leave(t)
            /\ UNCHANGED nxt
  /\ UNCHANGED <<nkey, nval, alloc, kind, key, val, opsLeft>>

\* Mutant: the failed CAS does not refresh next, so the loop retries with
\* a stale expected value.
MarkOldStale(t) ==
  /\ pc[t] = "P_mark"
  /\ IF nxt[curr[t]] = next[t]
       THEN /\ nxt' = [nxt EXCEPT ![curr[t]] = SetMark(next[t])]
            /\ Goto(t, "P_splice")
       ELSE UNCHANGED <<nxt, pc>>
  /\ UNCHANGED <<nkey, nval, alloc, kind, key, val, prev, curr, next, cmark, tmp, res,
                 found, fret, opsLeft, rvars>>

\* put / replace, lines 161 and 277: while(!curr->next.CAS(next,
\* setMark(next))); a failed CAS loads the current value into next.
MarkOld(t) ==
  /\ pc[t] = "P_mark"
  /\ IF nxt[curr[t]] = next[t]
       THEN /\ nxt' = [nxt EXCEPT ![curr[t]] = SetMark(next[t])]
            /\ Goto(t, "P_splice")
            /\ UNCHANGED next
       ELSE /\ next' = Set(next, t, nxt[curr[t]])
            /\ UNCHANGED <<nxt, pc>>
  /\ UNCHANGED <<nkey, nval, alloc, kind, key, val, prev, curr, cmark, tmp, res,
                 found, fret, opsLeft, rvars>>

\* Mutant: curr is retired whether or not the splice CAS succeeded.
SpliceOldRetireAlways(t) ==
  /\ pc[t] = "P_splice"
  /\ R!Retire(curr[t])
  /\ IF nxt[tmp[t]] = Ref(curr[t])
       THEN /\ nxt' = [nxt EXCEPT ![tmp[t]] = next[t]]
            /\ Goto(t, "Ret")
            /\ UNCHANGED fret
       ELSE /\ Goto(t, "F_head")
            /\ fret' = Set(fret, t, "Ret")
            /\ UNCHANGED nxt
  /\ UNCHANGED <<nkey, nval, alloc, kind, key, val, prev, curr, next, cmark, tmp,
                 res, found, opsLeft>>

\* put / replace, lines 164-170 and 280-286: CAS tmpNode->next from curr
\* to next and retire curr; if that fails, one findNode to help unlink.
SpliceOld(t) ==
  /\ pc[t] = "P_splice"
  /\ IF nxt[tmp[t]] = Ref(curr[t])
       THEN /\ nxt' = [nxt EXCEPT ![tmp[t]] = next[t]]
            /\ R!Retire(curr[t])
            /\ Goto(t, "Ret")
            /\ UNCHANGED fret
       ELSE /\ Goto(t, "F_head")
            /\ fret' = Set(fret, t, "Ret")
            /\ UNCHANGED <<nxt, rvars>>
  /\ UNCHANGED <<nkey, nval, alloc, kind, key, val, prev, curr, next, cmark, tmp,
                 res, found, opsLeft>>

\* remove, lines 233-241: none if absent; else read the value and CAS
\* curr->next to its marked form, retrying from findNode on failure.
RemoveStep(t) ==
  /\ pc[t] = "Rm"
  /\ IF ~found[t]
       THEN /\ res' = Set(res, t, NoVal)
            /\ Leave(t)
            /\ UNCHANGED nxt
       ELSE /\ res' = Set(res, t, nval[curr[t]])
            /\ IF nxt[curr[t]] = next[t]
                 THEN /\ nxt' = [nxt EXCEPT ![curr[t]] = SetMark(next[t])]
                      /\ Goto(t, "R_unlink")
                 ELSE /\ Goto(t, "F_head")
                      /\ UNCHANGED nxt
            /\ UNCHANGED <<scratch, rvars>>
  /\ UNCHANGED <<nkey, nval, alloc, kind, key, val, opsLeft>>

\* Mutant: curr is retired whether or not the unlink CAS succeeded.
RemoveUnlinkRetireAlways(t) ==
  /\ pc[t] = "R_unlink"
  /\ R!Retire(curr[t])
  /\ IF nxt[prev[t]] = Ref(curr[t])
       THEN /\ nxt' = [nxt EXCEPT ![prev[t]] = next[t]]
            /\ Goto(t, "Ret")
            /\ UNCHANGED fret
       ELSE /\ Goto(t, "F_head")
            /\ fret' = Set(fret, t, "Ret")
            /\ UNCHANGED nxt
  /\ UNCHANGED <<nkey, nval, alloc, kind, key, val, prev, curr, next, cmark, tmp,
                 res, found, opsLeft>>

\* remove, lines 244-251: CAS prev from curr to next and retire curr; if
\* that fails, one findNode to help unlink.
RemoveUnlink(t) ==
  /\ pc[t] = "R_unlink"
  /\ IF nxt[prev[t]] = Ref(curr[t])
       THEN /\ nxt' = [nxt EXCEPT ![prev[t]] = next[t]]
            /\ R!Retire(curr[t])
            /\ Goto(t, "Ret")
            /\ UNCHANGED fret
       ELSE /\ Goto(t, "F_head")
            /\ fret' = Set(fret, t, "Ret")
            /\ UNCHANGED <<nxt, rvars>>
  /\ UNCHANGED <<nkey, nval, alloc, kind, key, val, prev, curr, next, cmark, tmp,
                 res, found, opsLeft>>

\* tracker.end_op(tid) and return (lines 187, 220, 253, 296).
Finish(t) ==
  /\ pc[t] = "Ret"
  /\ Leave(t)
  /\ UNCHANGED <<heap, kind, key, val, res, opsLeft>>

-----------------------------------------------------------------------------
Step(t) ==
  \/ Invoke(t)
  \/ FindHead(t) \/ FindNext(t) \/ FindCheck(t) \/ FindUnlink(t)
  \/ GetDone(t) \/ InsertStep(t) \/ PutStep(t) \/ ReplaceStep(t)
  \/ MarkOld(t) \/ SpliceOld(t) \/ RemoveStep(t) \/ RemoveUnlink(t)
  \/ Finish(t)

\* History: every thread inside an operation records each value its key
\* takes in the table.
Observe ==
  LET table == [k \in Keys |-> View(k)]' IN
  seen' = [u \in Threads |->
             IF pc'[u] = "idle" THEN {}
             ELSE IF pc[u] = "idle" THEN {table[key'[u]]}
             ELSE seen[u] \cup {table[key'[u]]}]

Next ==
  \E t \in Threads :
    \/ Invoke(t) /\ Observe
    \/ FindHead(t) /\ Observe
    \/ FindNext(t) /\ Observe
    \/ FindCheck(t) /\ Observe
    \/ FindUnlink(t) /\ Observe
    \/ GetDone(t) /\ Observe
    \/ InsertStep(t) /\ Observe
    \/ PutStep(t) /\ Observe
    \/ ReplaceStep(t) /\ Observe
    \/ MarkOld(t) /\ Observe
    \/ SpliceOld(t) /\ Observe
    \/ RemoveStep(t) /\ Observe
    \/ RemoveUnlink(t) /\ Observe
    \/ Finish(t) /\ Observe

\* Threads are OS threads: each one that can take a step eventually does.
Fairness == \A t \in Threads : WF_vars(Step(t) /\ Observe)

Spec     == Init /\ [][Next]_vars
FairSpec == Spec /\ Fairness
-----------------------------------------------------------------------------
(***************************************************************************)
(* Properties.                                                             *)
(***************************************************************************)
InOp(t) == pc[t] # "idle"

\* The update of t has taken effect: its publishing or marking CAS
\* succeeded and what is left is clean-up and end_op.
PastLinPoint(t) ==
  \/ pc[t] \in {"P_mark", "P_splice", "R_unlink", "Ret"}
  \/ pc[t] \in {"F_head", "F_next", "F_check", "F_unlink"} /\ fret[t] = "Ret"

\* insert returns bool, the others optional<string>.
ResultType == [o \in {"get", "insert", "put", "replace", "remove"} |->
                IF o = "insert" THEN BOOLEAN ELSE Vals \cup {NoVal}]

TypeOK ==
  /\ nxt     \in [Locs -> Ptrs]
  /\ nkey    \in [Nodes -> Keys \cup {NoKey}]
  /\ nval    \in [Nodes -> Vals \cup {NoVal}]
  /\ alloc   \in 0..MaxNodes
  /\ pc      \in [Threads -> {"idle", "F_head", "F_next", "F_check", "F_unlink",
                              "G", "I", "P", "Rp", "Rm", "P_mark", "P_splice",
                              "R_unlink", "Ret"}]
  /\ prev    \in [Threads -> Locs \cup {Null}]
  /\ curr    \in [Threads -> Nodes \cup {Null}]
  /\ next    \in [Threads -> Ptrs]
  /\ tmp     \in [Threads -> Nodes \cup {Null}]
  /\ \A t \in Threads : res[t] \in ResultType[kind[t]] \cup {NoRet}
  /\ opsLeft \in 0..MaxOps
  /\ R!RTypeOK

\* Linearizability (spec.md 4.2, 5): the table, read as findNode would read
\* it, is a map that changes only at the publishing CAS of insert, put and
\* replace and at the marking CAS of remove, each update returning the
\* value the map held at that instant; an operation that changes nothing
\* returns what the map held at some instant while it ran.
AbsMap   == [k \in Keys |-> View(k)]
AbsOp    == [t \in Threads |-> [kind |-> kind[t], key |-> key[t], val |-> val[t]]]
AbsStage == [t \in Threads |-> IF ~InOp(t) THEN "idle"
                               ELSE IF PastLinPoint(t) THEN "done"
                               ELSE "pending"]
AbsRet   == [t \in Threads |-> IF InOp(t) /\ ~PastLinPoint(t) THEN NoRet ELSE res[t]]

Abs == INSTANCE PHTMap WITH
         map <- AbsMap, op <- AbsOp, stage <- AbsStage, ret <- AbsRet, seen <- seen

Linearizable == Abs!ASpec

\* Bucket chains (spec.md 3, 8.1): along each chain the unmarked keys
\* ascend; an unmarked node repeats the key of the one before it only while
\* it is the old node of a put/replace that has installed its tmpNode in
\* front of it and not yet marked it.
ChainOrdered ==
  \A b \in Buckets :
    LET live == SelectSeq(ChainFrom(b), LAMBDA n : ~nxt[n].mark) IN
    \A i \in 1..(Len(live) - 1) :
      \/ nkey[live[i]] < nkey[live[i+1]]
      \/ /\ nkey[live[i]] = nkey[live[i+1]]
         /\ \E t \in Threads : pc[t] = "P_mark" /\ curr[t] = live[i+1]

\* retire(ptr) requires ptr to be unreachable from the structure (spec.md
\* 4.1): no node handed to the tracker by findNode, put, replace or remove
\* is still on a bucket chain.
RetiredUnreachable == retired \cap Reachable = {}

\* No thread holds a node it is about to dereference (prev, curr,
\* tmpNode) that the tracker has already freed.  At the start of findNode
\* and at end_op the locals are dead.
NoUseAfterFree ==
  \A t \in Threads :
    pc[t] \notin {"idle", "F_head", "Ret"} => {prev[t], curr[t], tmp[t]} \cap freed = {}

\* Lock-freedom with a finite workload: every thread completes all of its
\* operations.
AllOpsComplete == <>(opsLeft = 0 /\ \A t \in Threads : pc[t] = "idle")

=============================================================================
