---------------------------- MODULE MC_TestConfig ---------------------------
(***************************************************************************)
(* Command lines of up to two options for GlobalTestConfig, on a machine  *)
(* with one socket of two cores with two PUs each.                         *)
(***************************************************************************)
EXTENDS TestConfig

\* A token with only the fields its option uses set.
Tok(o, n, k, v, eq) == [o |-> o, n |-> n, k |-> k, v |-> v, eq |-> eq]

\* -m -r -t take atoi of their argument; -a a mode; -d key[=value].
TokensWith(ns) ==
     {Tok(o, n, "k", "", FALSE) : o \in {"m", "r", "t"}, n \in ns}
  \cup {Tok("a", 0, "k", m, FALSE) : m \in {"dfs", "single", "default"}}
  \cup {Tok("d", 0, "k", "", FALSE)}
  \cup {Tok("d", 0, "k", v, TRUE) : v \in {"true", "false", ""}}
  \cup {Tok(o, 0, "k", "", FALSE) : o \in {"h", "other"}}

ArgvsOver(ts) == {<<>>} \cup {<<t>> : t \in ts} \cup {<<t, u>> : t, u \in ts}

\* Adds a negative index, which atoi returns for "-1".
NegArgvs == ArgvsOver(TokensWith({-1, 0, 1}))

\* Initial field values: index 0, one thread, and no or the default -a mode.
MCDefaults == [testType : {0}, rideableType : {0}, taskNum : {1},
               affinity : {"", "default"}]

PU   == [type |-> "PU", kids |-> <<>>]
Core == [type |-> "Core", kids |-> <<PU, PU>>]
MCTopo == [type |-> "Machine",
           kids |-> <<[type |-> "Socket", kids |-> <<Core, Core>>]>>]
=============================================================================
