------------------------------ MODULE Affinity ------------------------------
(***************************************************************************)
(* Thread pinning of the test harness (src/src/TestConfig.cpp, lines      *)
(* 161-301): GlobalTestConfig::buildAffinity walks the hwloc topology tree *)
(* and fills aff, the PU each thread index is pinned to.                   *)
(*                                                                         *)
(* A topology object is a record [type, kids], kids the sequence           *)
(* obj->children[0 .. arity-1].  An object is named by its path from the   *)
(* root (the child indices, 1-based), which is what distinguishes two      *)
(* hwloc_obj_t pointers; Null is the nullptr aff.resize() pads with.       *)
(* The vector aff is passed by reference through the recursions: here it   *)
(* is threaded through as an argument and returned.                        *)
(*                                                                         *)
(* obj->children[i] with i >= arity reads past the array (undefined        *)
(* behaviour); the walk then stops and reports it in the field oob.        *)
(***************************************************************************)
EXTENDS Integers, Sequences, SequencesExt

CONSTANTS
  Null,
  Topologies,   \* the hwloc trees the machine can present
  Modes,        \* values of the -a option
  TaskNums      \* values of the -t option

\* The object at path p of topology T.
RECURSIVE Obj(_, _)
Obj(T, p) == IF p = <<>> THEN T ELSE Obj(T.kids[Head(p)], Tail(p))

Arity(T, p) == Len(Obj(T, p).kids)
TypeAt(T, p) == Obj(T, p).type

\* hwloc_get_nbobjs_by_depth at the PU depth (line 122).
RECURSIVE PUs(_, _)
PUs(T, p) == IF TypeAt(T, p) = "PU" THEN {p}
             ELSE UNION {PUs(T, p \o <<i>>) : i \in 1..Arity(T, p)}
NumProcs(T) == Cardinality(PUs(T, <<>>))

\* Every object at or below path p.
RECURSIVE Objs(_, _)
Objs(T, p) == {p} \cup UNION {Objs(T, p \o <<i>>) : i \in 1..Arity(T, p)}

\* The elements of S listed by the strict total order lt: the i-th is the
\* one with i - 1 elements before it.
SortedBy(S, lt(_, _)) ==
  [i \in 1..Cardinality(S) |-> CHOOSE x \in S : Cardinality({y \in S : lt(y, x)}) = i - 1]

\* p comes before q in a depth-first walk.
Before(p, q) ==
  \E k \in 1..Min({Len(p), Len(q)}) :
     SubSeq(p, 1, k - 1) = SubSeq(q, 1, k - 1) /\ p[k] < q[k]


-----------------------------------------------------------------------------
(* DFS affinity, lines 167-180: the PUs in depth-first order, stopping     *)
(* (only at an object that is not a PU) once task_num are collected.       *)

RECURSIVE DFSHelper(_, _, _, _), DFSKids(_, _, _, _, _)
DFSHelper(T, n, aff, p) ==
  CASE TypeAt(T, p) = "PU" -> Append(aff, p)
    [] Len(aff) >= n       -> aff
    [] OTHER               -> DFSKids(T, n, aff, p, 1)
DFSKids(T, n, aff, p, i) ==
  IF i > Arity(T, p) THEN aff
  ELSE DFSKids(T, n, DFSHelper(T, n, aff, p \o <<i>>), p, i + 1)

BuildDFSAffinity(T, n, aff) == DFSHelper(T, n, aff, <<>>)

-----------------------------------------------------------------------------
(* Default affinity, lines 182-246.                                        *)

\* buildDefaultAffinity_findCoresInSocket, lines 185-198: the cores below
\* a socket in DFS order; 0 if a PU is reached first.  ret && f(child)
\* skips the remaining children once ret is 0.
RECURSIVE FindCores(_, _, _), FindCoresKids(_, _, _, _)
FindCores(T, p, cores) ==
  CASE TypeAt(T, p) = "Core" -> [ret |-> TRUE, cores |-> Append(cores, p)]
    [] TypeAt(T, p) = "PU"   -> [ret |-> FALSE, cores |-> cores]
    [] OTHER                 -> FindCoresKids(T, p, 1, [ret |-> TRUE, cores |-> cores])
FindCoresKids(T, p, i, r) ==
  IF i > Arity(T, p) THEN r
  ELSE FindCoresKids(T, p, i + 1,
                     IF r.ret THEN FindCores(T, p \o <<i>>, r.cores) ELSE r)

\* buildDefaultAffinity_buildPUsInCores, lines 200-217: PU coreIndex of
\* every core, for coreIndex = 0, 1, ..., until every core has had its
\* coreIndex == arity once.  A core already past its arity is indexed
\* past its children.
RECURSIVE PUsInCores(_, _, _, _, _, _)
PUsInCores(T, cores, aff, coreIndex, coresFilled, i) ==
  IF i > Len(cores)
    THEN IF coresFilled < Len(cores)
           THEN PUsInCores(T, cores, aff, coreIndex + 1, coresFilled, 1)
           ELSE [ret |-> TRUE, aff |-> aff, oob |-> FALSE]
  ELSE LET c == cores[i] IN
       CASE coreIndex = Arity(T, c) ->
              PUsInCores(T, cores, aff, coreIndex, coresFilled + 1, i + 1)
         [] coreIndex > Arity(T, c) ->
              [ret |-> FALSE, aff |-> aff, oob |-> TRUE]
         [] TypeAt(T, c \o <<coreIndex + 1>>) # "PU" ->
              [ret |-> FALSE, aff |-> aff, oob |-> FALSE]
         [] OTHER ->
              PUsInCores(T, cores, Append(aff, c \o <<coreIndex + 1>>),
                         coreIndex, coresFilled, i + 1)

BuildPUsInCores(T, aff, cores) == PUsInCores(T, cores, aff, 0, 0, 1)

\* buildDefaultAffinity_findAndBuildSockets, lines 220-237: descend to
\* each socket and build it; ret && f(child) as above.
RECURSIVE FindAndBuildSockets(_, _, _), SocketKids(_, _, _, _)
FindAndBuildSockets(T, aff, p) ==
  IF TypeAt(T, p) = "Socket"
    THEN LET fc == FindCores(T, p, <<>>) IN
         IF ~fc.ret THEN [ret |-> FALSE, aff |-> aff, oob |-> FALSE]
         ELSE BuildPUsInCores(T, aff, fc.cores)
    ELSE SocketKids(T, p, 1, [ret |-> TRUE, aff |-> aff, oob |-> FALSE])
SocketKids(T, p, i, r) ==
  IF i > Arity(T, p) \/ r.oob THEN r
  ELSE SocketKids(T, p, i + 1,
                  IF r.ret THEN FindAndBuildSockets(T, r.aff, p \o <<i>>) ELSE r)

\* buildDefaultAffinity, lines 239-246: on failure, empty aff and fall
\* back to the DFS affinity.
BuildDefaultAffinity(T, n, aff) ==
  LET r == FindAndBuildSockets(T, aff, <<>>) IN
  IF r.oob THEN r
  ELSE IF r.ret THEN r
  ELSE [ret |-> TRUE, aff |-> BuildDFSAffinity(T, n, <<>>), oob |-> FALSE]

-----------------------------------------------------------------------------
(* Single affinity, lines 250-262: task_num copies of the first PU         *)
(* reached through children[0].                                            *)
RECURSIVE SingleHelper(_, _, _, _)
SingleHelper(T, n, aff, p) ==
  CASE TypeAt(T, p) = "PU" -> [aff |-> aff \o [i \in 1..n |-> p], oob |-> FALSE]
    [] Arity(T, p) = 0     -> [aff |-> aff, oob |-> TRUE]
    [] OTHER               -> SingleHelper(T, n, aff, p \o <<1>>)

BuildSingleAffinity(T, n, aff) == SingleHelper(T, n, aff, <<>>)

-----------------------------------------------------------------------------
(* Per-core affinity, lines 264-281: PU pu of every core in DFS order.     *)
(* No -a option selects it.  The asserts at 269-270 are the field bad.     *)

\* Mutant: the first PU of each core whatever pu is.
PerCoreFirstPU(T, pu, aff, p) ==
  [aff |-> aff \o SortedBy({c \o <<1>> : c \in {q \in Objs(T, p) : TypeAt(T, q) = "Core"}}, Before),
   bad |-> FALSE]

RECURSIVE PerCoreHelper(_, _, _, _), PerCoreKids(_, _, _, _, _)
PerCoreHelper(T, pu, aff, p) ==
  IF TypeAt(T, p) = "Core"
    THEN IF pu < Arity(T, p) /\ TypeAt(T, p \o <<pu + 1>>) = "PU"
           THEN [aff |-> Append(aff, p \o <<pu + 1>>), bad |-> FALSE]
           ELSE [aff |-> aff, bad |-> TRUE]
    ELSE PerCoreKids(T, pu, [aff |-> aff, bad |-> FALSE], p, 1)
PerCoreKids(T, pu, r, p, i) ==
  IF i > Arity(T, p) \/ r.bad THEN r
  ELSE PerCoreKids(T, pu, PerCoreHelper(T, pu, r.aff, p \o <<i>>), p, i + 1)

BuildPerCoreAffinity(T, pu) == PerCoreHelper(T, pu, <<>>, <<>>)

-----------------------------------------------------------------------------
\* buildAffinity, lines 285-301: build by the -a option, pad to task_num
\* with nullptr, then give thread i >= num_procs the PU of i % num_procs.
\* Mutant: no loop giving threads past num_procs a PU.
WrapPadOnly(aff, n, np) ==
  IF Len(aff) < n THEN aff \o [i \in 1..(n - Len(aff)) |-> Null] ELSE aff

Wrap(aff, n, np) ==
  LET padded == IF Len(aff) < n THEN aff \o [i \in 1..(n - Len(aff)) |-> Null] ELSE aff
  IN [i \in 1..Len(padded) |->
        IF i - 1 >= np /\ i - 1 < n THEN padded[((i - 1) % np) + 1] ELSE padded[i]]

BuildAffinity(T, mode, n) ==
  LET r == CASE mode = "dfs"    -> [aff |-> BuildDFSAffinity(T, n, <<>>), oob |-> FALSE]
             [] mode = "single" -> BuildSingleAffinity(T, n, <<>>)
             [] OTHER           -> BuildDefaultAffinity(T, n, <<>>)
  IN IF r.oob THEN [aff |-> r.aff, oob |-> TRUE]
     ELSE [aff |-> Wrap(r.aff, n, NumProcs(T)), oob |-> FALSE]

-----------------------------------------------------------------------------
(* parseCommandLine calls buildAffinity once (line 125), after hwloc has   *)
(* loaded the topology and counted its PUs.                                *)

VARIABLES topo, mode, taskNum, aff, oob, built
vars == <<topo, mode, taskNum, aff, oob, built>>

Init ==
  /\ topo \in Topologies
  /\ mode \in Modes
  /\ taskNum \in TaskNums
  /\ aff = <<>>
  /\ oob = FALSE
  /\ built = FALSE

Build ==
  /\ ~built
  /\ LET r == BuildAffinity(topo, mode, taskNum) IN
       /\ aff' = r.aff
       /\ oob' = r.oob
  /\ built' = TRUE
  /\ UNCHANGED <<topo, mode, taskNum>>

Next == Build

Spec == Init /\ [][Next]_vars

-----------------------------------------------------------------------------
(* Reference orders, defined from the tree rather than by the walks.       *)

\* The order each -a mode documents.  default (comment at lines 182-183):
\* the PUs of one core, then the other cores of the socket, then the next
\* socket, which on a tree of sockets, cores and PUs is depth-first order;
\* the fallback message at 241-242 says DFS where there are no sockets.
Reference(T, m) ==
  LET dfs == SortedBy(PUs(T, <<>>), Before) IN
  IF m = "single" THEN <<dfs[1]>> ELSE dfs

-----------------------------------------------------------------------------
(* Properties.                                                             *)

\* Threads are pinned in the order each -a option documents: dfs in
\* depth-first order, default filling a core's PUs before the next core of
\* the socket and a socket before the next, single all on one PU; thread i
\* beyond the PUs shares the PU of thread i % num_procs (lines 291-300).
PinningOrder ==
  built =>
    LET ref == Reference(topo, mode) IN
    /\ Len(aff) >= taskNum
    /\ \A i \in 1..Len(aff) : aff[i] = ref[((i - 1) % Len(ref)) + 1]

\* Every thread index below task_num is pinned to a PU of the machine
\* (not to the nullptr that aff.resize pads with), and building the list
\* never read obj->children[i] past obj->arity: buildAffinity's contract
\* with parallelWork, on any topology hwloc can report.
ThreadsPinned ==
  /\ ~oob
  /\ built => /\ Len(aff) >= taskNum
              /\ \A i \in 1..taskNum : aff[i] \in PUs(topo, <<>>)

\* buildPerCoreAffinity(aff, pu) pins one thread to PU pu of every core, the
\* cores in DFS order, and its asserts fail exactly when some core has no
\* PU pu (fewer hardware threads than pu + 1).
PerCoreOrder ==
  built =>
    \A pu \in 0..1 :
      LET r     == BuildPerCoreAffinity(topo, pu)
          cores == {c \in Objs(topo, <<>>) : TypeAt(topo, c) = "Core"}
      IN IF \A c \in cores : pu < Arity(topo, c)
           THEN ~r.bad /\ r.aff = SortedBy({c \o <<pu + 1>> : c \in cores}, Before)
           ELSE r.bad
=============================================================================
