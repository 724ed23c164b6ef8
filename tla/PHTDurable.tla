------------------------------ MODULE PHTDurable ------------------------------
(***************************************************************************)
(* PLockfreeHashTable with its persistence (src/unnamed/part_000, lines    *)
(* 126-338): the steps of PHT, each with the clwb / sfence calls the code *)
(* makes around it, and a crash after which the table is what reached     *)
(* persistent memory.                                                      *)
(*                                                                         *)
(* pnxt is the persisted copy of every MarkPtr.  clwb(x) puts x's line in  *)
(* pend[t]; sfence() by t writes back every line in pend[t], with the      *)
(* value it holds at the fence (a value it held between clwb and fence,   *)
(* as the hardware allows).  Where the code fences right after a CAS, the  *)
(* fence is the thread's next step (due[t]), so a crash can fall between   *)
(* them.  Evict writes back any line at any time (a cache eviction).  Node *)
(* keys and values are written once in the constructor and flushed by the *)
(* sfence before the node is published (lines 56-57, 155-156), so they    *)
(* are persistent from the start; so is the RP_malloc counter alloc.       *)
(* A crash restarts every thread idle on nxt = pnxt; RCUTracker's state is *)
(* volatile, so nodes retired but not yet freed are leaked.                 *)
(***************************************************************************)
EXTENDS PHT

CONSTANT MaxCrashes   \* bound: crashes in one behaviour

VARIABLES
  pnxt,     \* pnxt[l]: the value of MarkPtr l in persistent memory
  pend,     \* pend[t]: lines t has clwb'ed and not yet fenced
  due,      \* due[t]: the code's next call for t is sfence()
  crashes,
  surv,     \* history for the refinement: PHTDurableMap's surv and since
  since

dvars   == <<pnxt, pend, due, crashes, surv, since>>
allvars == <<vars, dvars>>

\* The nodes reachable from the buckets in persistent memory.
RECURSIVE PChainFrom(_, _)
PChainFrom(p, fuel) ==
  LET c == pnxt[p].ptr IN
  IF c = Null \/ fuel = 0 THEN {} ELSE {c} \cup PChainFrom(c, fuel - 1)

PReachable == UNION {PChainFrom(b, MaxNodes) : b \in Buckets}

\* pnxt after an sfence() by t.
Fenced(t) == [l \in Locs |-> IF l \in pend[t] THEN nxt[l] ELSE pnxt[l]]

\* clwb of the lines L, no fence.
Clwb(t, L) ==
  /\ pend' = [pend EXCEPT ![t] = @ \cup L]
  /\ UNCHANGED <<pnxt, due>>

\* clwb(L); sfence() after a CAS that succeeded (ok); nothing if it failed.
ClwbFence(t, ok, L) ==
  /\ pend' = [pend EXCEPT ![t] = IF ok THEN @ \cup L ELSE @]
  /\ due'  = [due EXCEPT ![t] = ok]
  /\ UNCHANGED pnxt

DInvoke(t) == Invoke(t) /\ UNCHANGED <<pnxt, pend, due>>

\* Lines 305-307: load the bucket, clwb(prev).
DFindHead(t) == FindHead(t) /\ Clwb(t, {Hash[key[t]]})

\* Lines 309-311: return false at the end (no fence), or load curr->next
\* and clwb(curr).
DFindNext(t) == FindNext(t) /\ Clwb(t, IF curr[t] = Null THEN {} ELSE {curr[t]})

\* Mutant: no sfence() before findNode returns true.
DFindCheckNoFence(t) ==
  /\ FindCheck(t)
  /\ pend' = [pend EXCEPT ![t] = IF nxt[prev[t]] = Ref(curr[t]) THEN @ \cup {prev[t]} ELSE @]
  /\ due'  = [due EXCEPT ![t] = pc'[t] = "F_unlink"]
  /\ UNCHANGED pnxt

\* Lines 315-326: if prev still holds curr, clwb(prev); sfence() before
\* returning true (319) and before unlinking a marked curr (326); none
\* before returning false at a greater key (322).
DFindCheck(t) ==
  /\ FindCheck(t)
  /\ pend' = [pend EXCEPT ![t] = IF nxt[prev[t]] = Ref(curr[t]) THEN @ \cup {prev[t]} ELSE @]
  /\ due'  = [due EXCEPT ![t] = pc'[t] = "F_unlink" \/ (pc'[t] = fret[t] /\ found'[t])]
  /\ UNCHANGED pnxt

\* Lines 327-329: the unlinking CAS, then clwb(prev); sfence().
DFindUnlink(t) == FindUnlink(t) /\ ClwbFence(t, nxt[prev[t]] = Ref(curr[t]), {prev[t]})

\* Mutant: tmpNode->next is not flushed before the node is published.
PublishNoTmpFlush(t, installs) ==
  LET ok == installs /\ nxt[prev[t]] = Ref(curr[t]) IN
  /\ pnxt' = IF installs THEN [l \in Locs |-> IF l \in pend[t] THEN nxt[l] ELSE pnxt[l]]
                         ELSE pnxt
  /\ pend' = [pend EXCEPT ![t] = IF ok THEN {prev[t]} ELSE IF installs THEN {} ELSE @]
  /\ due'  = [due EXCEPT ![t] = ok]

\* Lines 154-159 (put), 177-182, 209-214 (insert), 270-276 (replace):
\* tmpNode->next = curr; clwb(tmpNode); sfence() fences it and every line
\* still pending; then the CAS on prev, and clwb(prev); sfence() if it
\* succeeded.  installs is false where the operation returns instead.
Publish(t, installs) ==
  LET ok == installs /\ nxt[prev[t]] = Ref(curr[t]) IN
  /\ pnxt' = IF installs THEN [Fenced(t) EXCEPT ![tmp[t]] = Ref(curr[t])] ELSE pnxt
  /\ pend' = [pend EXCEPT ![t] = IF ok THEN {prev[t]} ELSE IF installs THEN {} ELSE @]
  /\ due'  = [due EXCEPT ![t] = ok]

DGetDone(t)     == GetDone(t) /\ UNCHANGED <<pnxt, pend, due>>
DInsertStep(t)  == InsertStep(t) /\ Publish(t, ~found[t])
DPutStep(t)     == PutStep(t) /\ Publish(t, TRUE)
DReplaceStep(t) == ReplaceStep(t) /\ Publish(t, found[t])

\* Lines 161-163 (277-279): the marking CAS, then clwb(curr); sfence().
DMarkOld(t) == MarkOld(t) /\ ClwbFence(t, nxt[curr[t]] = next[t], {curr[t]})

\* Lines 164-166 (280-282): the splicing CAS, then clwb(tmpNode); sfence().
DSpliceOld(t) == SpliceOld(t) /\ ClwbFence(t, nxt[tmp[t]] = Ref(curr[t]), {tmp[t]})

\* Lines 238-243: sfence() (nothing is pending after findNode's own
\* fence), the marking CAS, then clwb(curr); sfence().
DRemoveStep(t) == RemoveStep(t) /\ ClwbFence(t, found[t] /\ nxt[curr[t]] = next[t], {curr[t]})

\* Mutant: remove's unlinking CAS is not flushed before curr is retired.
RemoveUnlinkNoFlush(t) == RemoveUnlink(t) /\ ClwbFence(t, FALSE, {})

\* Lines 244-246: the unlinking CAS, then clwb(prev); sfence().
DRemoveUnlink(t) == RemoveUnlink(t) /\ ClwbFence(t, nxt[prev[t]] = Ref(curr[t]), {prev[t]})

DFinish(t) == Finish(t) /\ UNCHANGED <<pnxt, pend, due>>

\* The sfence() that follows a clwb: t's pending lines reach persistence.
SFence(t) ==
  /\ due[t]
  /\ pnxt' = Fenced(t)
  /\ pend' = [pend EXCEPT ![t] = {}]
  /\ due'  = [due EXCEPT ![t] = FALSE]
  /\ UNCHANGED <<vars, crashes, surv, since>>

\* The cache writes a line back on its own.
Evict(l) ==
  /\ pnxt[l] # nxt[l]
  /\ pnxt' = [pnxt EXCEPT ![l] = nxt[l]]
  /\ UNCHANGED <<vars, pend, due, crashes, surv, since>>

\* Power failure and restart: the heap is what was persisted, every
\* thread is idle with no operation in progress, the tracker starts empty.
Crash ==
  /\ crashes < MaxCrashes
  /\ crashes' = crashes + 1
  /\ nxt'   = pnxt
  /\ pc'    = [t \in Threads |-> "idle"]
  /\ prev'  = [t \in Threads |-> Null]
  /\ curr'  = [t \in Threads |-> Null]
  /\ next'  = [t \in Threads |-> Ref(Null)]
  /\ cmark' = [t \in Threads |-> FALSE]
  /\ tmp'   = [t \in Threads |-> Null]
  /\ res'   = [t \in Threads |-> NoRet]
  /\ found' = [t \in Threads |-> FALSE]
  /\ fret'  = [t \in Threads |-> "G"]
  /\ active'  = [t \in Threads |-> FALSE]
  /\ retired' = freed
  /\ waitFor' = [o \in Nodes |-> {}]
  /\ seen'  = [t \in Threads |-> {}]
  /\ pend'  = [t \in Threads |-> {}]
  /\ due'   = [t \in Threads |-> FALSE]
  /\ UNCHANGED <<nkey, nval, alloc, kind, key, val, opsLeft, freed, pnxt>>
  /\ surv'  = [k \in Keys |-> {AbsMap'[k]}]
  /\ since' = [t \in Threads |-> {}]

DInit ==
  /\ Init
  /\ pnxt    = nxt
  /\ pend    = [t \in Threads |-> {}]
  /\ due     = [t \in Threads |-> FALSE]
  /\ crashes = 0
  /\ surv    = [k \in Keys |-> {AbsMap[k]}]
  /\ since   = [t \in Threads |-> {}]

\* The durable map of PHTDurableMap, read off the table as in PHT; its
\* history variables surv and since are carried along by DAbs!Track.
DAbs == INSTANCE PHTDurableMap WITH
          map <- AbsMap, op <- AbsOp, stage <- AbsStage, ret <- AbsRet, seen <- seen,
          surv <- surv, since <- since

\* One code step of t; the fence owed after a clwb comes first.
DStep(t) ==
  /\ ~due[t]
  /\ UNCHANGED crashes
  /\ \/ DInvoke(t) \/ DFindHead(t) \/ DFindNext(t) \/ DFindCheck(t)
     \/ DFindUnlink(t) \/ DGetDone(t) \/ DInsertStep(t) \/ DPutStep(t)
     \/ DReplaceStep(t) \/ DMarkOld(t) \/ DSpliceOld(t) \/ DRemoveStep(t)
     \/ DRemoveUnlink(t) \/ DFinish(t)
  /\ Observe
  /\ DAbs!Track

DNext ==
  \/ \E t \in Threads : DStep(t) \/ SFence(t)
  \/ \E l \in Locs : Evict(l)
  \/ Crash

DSpec == DInit /\ [][DNext]_allvars

\* Threads are OS threads: each one that can take a step (its next call,
\* or the sfence it owes) eventually does.  Crashes and evictions need
\* not happen.
DFairness == \A t \in Threads : WF_allvars(DStep(t) \/ SFence(t))
DFairSpec == DSpec /\ DFairness
-----------------------------------------------------------------------------
(***************************************************************************)
(* Properties.                                                             *)
(***************************************************************************)

\* Durable linearizability (spec.md 5): the table is linearizable, and a
\* crash keeps, for each key, a prefix of its updates that contains every
\* update that had returned (insert, put, replace and remove return only
\* after the clwb/sfence of their CAS); the threads then go on from there.
DurablyLinearizable == DAbs!DSpec

\* A node is retired, and freed by RCUTracker, only after the CAS that
\* unlinked it is clwb'ed and fenced (lines 167, 247, 330): no chain in
\* persistent memory reaches freed memory, so a restart never does.
PersistedNotFreed == PReachable \cap freed = {}

\* What get returns is durable: once findNode's sfence (line 319) has
\* run, the node get reads curr->val from is on a persisted chain, even if
\* the insert or put that published it has not flushed prev yet, unless a
\* later update has already marked it.
GetFoundDurable ==
  \A t \in Threads :
    pc[t] = "G" /\ found[t] /\ ~due[t] => curr[t] \in PReachable \/ nxt[curr[t]].mark
=============================================================================
