----------------------------- MODULE MC_Affinity ----------------------------
(***************************************************************************)
(* Topologies for checking buildAffinity.  An hwloc tree has a Machine    *)
(* root and PU leaves; in between, each level is present throughout the   *)
(* tree or not at all (hwloc keeps objects of a type at one depth).  Every *)
(* object above a PU has one or two children.                              *)
(***************************************************************************)
EXTENDS Affinity

MaxArity == 2

\* All trees whose levels, from the root down, are the types of ch.
RECURSIVE Trees(_)
Trees(ch) ==
  IF Len(ch) = 1 THEN {[type |-> ch[1], kids |-> <<>>]}
  ELSE LET below == Trees(Tail(ch)) IN
       {[type |-> ch[1], kids |-> ks] :
          ks \in UNION {[1..k -> below] : k \in 1..MaxArity}}

Chain(mid) == <<"Machine">> \o mid \o <<"PU">>

\* The socket above core c, the cores of T; Uniform: every core of a socket has the
\* same number of PUs.
SocketOf(T, c) == CHOOSE s \in Objs(T, <<>>) :
                    TypeAt(T, s) = "Socket" /\ s = SubSeq(c, 1, Len(s))
CoresOf(T) == {c \in Objs(T, <<>>) : TypeAt(T, c) = "Core"}
Uniform(T) ==
  \A c, d \in CoresOf(T) :
    SocketOf(T, c) = SocketOf(T, d) => Arity(T, c) = Arity(T, d)

\* Machines with sockets whose cores are alike: every -a option is sound.
SocketTopologies ==
  {T \in UNION {Trees(Chain(m)) : m \in {<<"Socket">>, <<"Socket", "Core">>,
                                          <<"Socket", "Cache", "Core">>}} :
     Uniform(T)}

\* Hybrid machines: cores of one socket with different numbers of PUs.
HybridTopologies == Trees(Chain(<<"Socket", "Core">>))

\* Machines on which hwloc reports no socket level.
NoSocketTopologies ==
  UNION {Trees(Chain(m)) : m \in {<<>>, <<"Core">>, <<"Cache", "Core">>}}

\* Both shapes together.
UnsupportedTopologies == HybridTopologies \cup NoSocketTopologies
=============================================================================
