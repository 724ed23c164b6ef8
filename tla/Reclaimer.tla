----------------------------- MODULE Reclaimer -----------------------------
(***************************************************************************)
(* The safe memory reclamation facility (RCUTracker) that PHT and TGraph  *)
(* include.  Its source is not part of the repository snapshot, so this   *)
(* module follows the contract of spec.md section 4.1: start_op / end_op  *)
(* bracket an operation, retire(ptr, tid) hands an unlinked object over,  *)
(* and an object is freed only after every thread that was inside an      *)
(* operation when it was retired has since left it (one grace period).    *)
(*                                                                         *)
(* The module owns its variables; a client module declares variables of   *)
(* the same names and INSTANCEs it.                                        *)
(***************************************************************************)
CONSTANTS Threads, Objects

VARIABLES
  active,    \* active[t]: thread t is between start_op and end_op
  retired,   \* objects handed to retire(), freed or not
  waitFor,   \* waitFor[o]: threads whose current operation may still use o
  freed      \* objects returned to the allocator

rvars == <<active, retired, waitFor, freed>>

RInit ==
  /\ active  = [t \in Threads |-> FALSE]
  /\ retired = {}
  /\ waitFor = [o \in Objects |-> {}]
  /\ freed   = {}

\* tracker.start_op(tid)
StartOp(t) ==
  /\ active' = [active EXCEPT ![t] = TRUE]
  /\ UNCHANGED <<retired, waitFor, freed>>

\* tracker.end_op(tid): leaving ends t's share of every pending grace
\* period, and the tracker drains its retire list.  Freeing every object
\* whose grace period is over at once is the earliest the tracker may free
\* it: after retirement an object is unreachable, so the set of threads
\* that may still use it only shrinks, and a later free is never less safe.
EndOp(t) ==
  LET wait == [o \in Objects |-> waitFor[o] \ {t}] IN
  /\ active'  = [active EXCEPT ![t] = FALSE]
  /\ waitFor' = wait
  /\ freed'   = freed \cup {o \in retired : wait[o] = {}}
  /\ UNCHANGED retired

\* Mutant: retire frees at the next end_op of any thread, ignoring the
\* threads still inside an operation.
RetireNoGrace(o) ==
  /\ retired' = retired \cup {o}
  /\ waitFor' = [waitFor EXCEPT ![o] = {}]
  /\ UNCHANGED <<active, freed>>

\* tracker.retire(ptr, tid): the grace period of o covers every thread that
\* is inside an operation now, the retiring one included.
Retire(o) ==
  /\ retired' = retired \cup {o}
  /\ waitFor' = [waitFor EXCEPT ![o] = {u \in Threads : active[u]}]
  /\ UNCHANGED <<active, freed>>

RTypeOK ==
  /\ active  \in [Threads -> BOOLEAN]
  /\ retired \subseteq Objects
  /\ waitFor \in [Objects -> SUBSET Threads]
  /\ freed   \subseteq retired
=============================================================================
