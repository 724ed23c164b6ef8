----------------------------- MODULE TestConfig -----------------------------
(***************************************************************************)
(* GlobalTestConfig (src/src/TestConfig.cpp): the benchmark's registry of  *)
(* test modes and rideables, its command-line parser, its environment and  *)
(* argument maps, and its lifetime.                                        *)
(*                                                                         *)
(* main registers options, parses the command line, allocates rideables,  *)
(* runs the test and destroys the object; this module lets those calls     *)
(* come in any order the methods admit.  A command-line token is a record  *)
(* [o, n, k, v, eq]: the option letter, atoi of its argument, and for -d   *)
(* the key, the text after '=' and whether there was one.  Options that    *)
(* only set output fields (-s -i -v -w -o -z) are the letter "other".      *)
(* errexit (not in this file) ends the process with a failure status;      *)
(* printargdef ends it with exit(0).                                       *)
(***************************************************************************)
EXTENDS Integers, Sequences, FiniteSets

CONSTANTS
  Argvs,         \* the command lines tried: sequences of tokens
  Keys,          \* environment and argument keys
  MaxReg,        \* bound: options registered of each kind
  Topo,          \* the machine's hwloc topology
  Defaults,      \* the fields' initial values: [testType, rideableType, taskNum, affinity]
  Null

Absent == "absent"               \* a key not in the std::map

A == INSTANCE Affinity WITH Topologies <- {Topo}, Modes <- {}, TaskNums <- {},
                            topo <- Topo, mode <- "", taskNum <- 0, aff <- <<>>,
                            oob <- FALSE, built <- FALSE

VARIABLES
  nTests, nFactories,   \* tests.size(), rideableFactories.size()
  argv, pos,            \* the command line and getopt's optind
  phase,
  testType, rideableType, taskNum, affinity,
  environment,          \* [Keys -> value or Absent]
  arguments,            \* [Keys -> "ptr", "null" or Absent]
  aff,                  \* the affinities built at the end of parsing
  allocated,            \* allocatedRideables.size()
  freed,                \* freed[o]: times object o was deleted
  badTest,              \* tests / testNames indexed out of range
  badRide,              \* rideableFactories / rideableNames indexed out of range
  exitCode

vars == <<nTests, nFactories, argv, pos, phase, testType, rideableType, taskNum,
          affinity, environment, arguments, aff, allocated, freed, badTest,
          badRide, exitCode>>

\* What the destructor may delete: the recorder, each factory, each test.
Objects == {<<"recorder", 0>>} \cup ({"factory", "test"} \X (0..(MaxReg - 1)))

\* The constructor, lines 344-351, starts every container empty.  The
\* scalar fields take the initializers of GlobalTestConfig.hpp, which is not
\* in the repository: they range over Defaults.
Init ==
  /\ nTests = 0 /\ nFactories = 0
  /\ argv \in Argvs /\ pos = 1
  /\ phase = "setup"
  /\ \E d \in Defaults : /\ testType = d.testType /\ rideableType = d.rideableType
                        /\ taskNum = d.taskNum /\ affinity = d.affinity
  /\ environment = [k \in Keys |-> Absent]
  /\ arguments = [k \in Keys |-> Absent]
  /\ aff = <<>>
  /\ allocated = 0
  /\ freed = [o \in Objects |-> 0]
  /\ badTest = FALSE
  /\ badRide = FALSE
  /\ exitCode = "none"

-----------------------------------------------------------------------------
\* addTestOption / addRideableOption, lines 365-375.
AddTestOption ==
  /\ phase = "setup" /\ nTests < MaxReg
  /\ nTests' = nTests + 1
  /\ UNCHANGED <<nFactories, argv, pos, phase, testType, rideableType, taskNum,
                 affinity, environment, arguments, aff, allocated, freed,
                 badTest, badRide, exitCode>>

AddRideableOption ==
  /\ phase = "setup" /\ nFactories < MaxReg
  /\ nFactories' = nFactories + 1
  /\ UNCHANGED <<nTests, argv, pos, phase, testType, rideableType, taskNum,
                 affinity, environment, arguments, aff, allocated, freed,
                 badTest, badRide, exitCode>>

Exit(code) == phase' = "exited" /\ exitCode' = code

\* parseCommandLine, lines 35-47: no arguments print the usage and exit;
\* no test registered is an error.
ParseStart ==
  /\ phase = "setup"
  /\ CASE argv = <<>> -> Exit("success")
       [] nTests = 0  -> Exit("failure")
       [] OTHER       -> phase' = "parse" /\ UNCHANGED exitCode
  /\ UNCHANGED <<nTests, nFactories, argv, pos, testType, rideableType, taskNum,
                 affinity, environment, arguments, aff, allocated, freed,
                 badTest, badRide>>

\* The value -d stores (lines 94-105): the text after the first '=', or
\* "1" without one; "true" and "false" become "1" and "0".
EnvValue(tok) ==
  LET v == IF tok.eq THEN tok.v ELSE "1" IN
  CASE v = "true" -> "1" [] v = "false" -> "0" [] OTHER -> v

\* One iteration of the getopt loop, lines 50-108.  -m and -r out of range
\* print the usage, which exits; so does -h.
ParseOption ==
  LET tok == argv[pos] IN
  /\ phase = "parse"
  /\ pos <= Len(argv)
  /\ pos' = pos + 1
  /\ testType'     = IF tok.o = "m" THEN tok.n ELSE testType
  /\ rideableType' = IF tok.o = "r" THEN tok.n ELSE rideableType
  /\ taskNum'      = IF tok.o = "t" THEN tok.n ELSE taskNum
  /\ affinity'     = IF tok.o = "a" THEN tok.v ELSE affinity
  /\ environment'  = IF tok.o = "d" THEN [environment EXCEPT ![tok.k] = EnvValue(tok)]
                                    ELSE environment
  /\ IF \/ tok.o = "h"
        \/ tok.o = "m" /\ tok.n >= nTests
        \/ tok.o = "r" /\ tok.n >= nFactories
       THEN Exit("success")
       ELSE UNCHANGED <<phase, exitCode>>
  /\ UNCHANGED <<nTests, nFactories, argv, arguments, aff, allocated, freed,
                 badTest, badRide>>

\* The end of parseCommandLine, lines 111-158: test = tests[testType],
\* buildAffinity, and the recorder's report of getRideableName() and
\* getTestName().
ParseFinish ==
  /\ phase = "parse"
  /\ pos > Len(argv)
  /\ badTest' = (badTest \/ testType \notin 0..(nTests - 1))
  /\ badRide' = (badRide \/ rideableType \notin 0..(nFactories - 1))
  /\ aff' = A!BuildAffinity(Topo, affinity, taskNum).aff
  /\ phase' = "parsed"
  /\ UNCHANGED <<nTests, nFactories, argv, pos, testType, rideableType, taskNum,
                 affinity, environment, arguments, allocated, freed, exitCode>>

\* allocRideable, lines 17-21.
AllocRideable ==
  /\ phase = "parsed"
  /\ allocated < MaxReg
  /\ badRide' = (badRide \/ rideableType \notin 0..(nFactories - 1))
  /\ allocated' = allocated + 1
  /\ UNCHANGED <<nTests, nFactories, argv, pos, phase, testType, rideableType,
                 taskNum, affinity, environment, arguments, aff, freed, badTest,
                 exitCode>>

\* runTest, lines 386-398: warm up, run the threads, write the results.
RunTest ==
  /\ phase = "parsed"
  /\ phase' = "ran"
  /\ UNCHANGED <<nTests, nFactories, argv, pos, testType, rideableType, taskNum,
                 affinity, environment, arguments, aff, allocated, freed,
                 badTest, badRide, exitCode>>

Alive == phase \in {"setup", "parsed", "ran"}

\* setEnv, checkEnv, getEnv, lines 305-322.  environment[key] inserts an
\* empty value for a key not in the map.
SetEnv(k, v) ==
  /\ Alive
  /\ environment' = [environment EXCEPT ![k] = v]
  /\ UNCHANGED <<nTests, nFactories, argv, pos, phase, testType, rideableType,
                 taskNum, affinity, arguments, aff, allocated, freed, badTest, badRide,
                 exitCode>>

Lookup(m, k, empty) == IF m[k] = Absent THEN [m EXCEPT ![k] = empty] ELSE m

\* checkEnv returns the value # "", getEnv the value itself.
ReadEnv(k) ==
  /\ Alive
  /\ environment' = Lookup(environment, k, "")
  /\ UNCHANGED <<nTests, nFactories, argv, pos, phase, testType, rideableType,
                 taskNum, affinity, arguments, aff, allocated, freed, badTest, badRide,
                 exitCode>>

\* setArg, checkArg, getArg, lines 324-341: the same over void* values;
\* a missing key is inserted as NULL.
SetArg(k, v) ==
  /\ Alive
  /\ arguments' = [arguments EXCEPT ![k] = v]
  /\ UNCHANGED <<nTests, nFactories, argv, pos, phase, testType, rideableType,
                 taskNum, affinity, environment, aff, allocated, freed, badTest, badRide,
                 exitCode>>

ReadArg(k) ==
  /\ Alive
  /\ arguments' = Lookup(arguments, k, "null")
  /\ UNCHANGED <<nTests, nFactories, argv, pos, phase, testType, rideableType,
                 taskNum, affinity, environment, aff, allocated, freed, badTest, badRide,
                 exitCode>>

\* ~GlobalTestConfig, lines 353-362: delete the recorder (made by
\* parseCommandLine), every factory and every test; not test itself, which
\* is one of tests.
Destroy ==
  /\ Alive
  /\ freed' = [o \in Objects |->
                 freed[o] + (IF \/ o = <<"recorder", 0>> /\ phase # "setup"
                                \/ o \in {"factory"} \X (0..(nFactories - 1))
                                \/ o \in {"test"} \X (0..(nTests - 1))
                             THEN 1 ELSE 0)]
  /\ phase' = "destroyed"
  /\ UNCHANGED <<nTests, nFactories, argv, pos, testType, rideableType, taskNum,
                 affinity, environment, arguments, aff, allocated, badTest, badRide,
                 exitCode>>

Next ==
  \/ AddTestOption \/ AddRideableOption
  \/ ParseStart \/ ParseOption \/ ParseFinish
  \/ AllocRideable \/ RunTest \/ Destroy
  \/ \E k \in Keys : \/ \E v \in {"", "1"} : SetEnv(k, v)
                     \/ ReadEnv(k)
                     \/ \E v \in {"ptr", "null"} : SetArg(k, v)
                     \/ ReadArg(k)

Spec == Init /\ [][Next]_vars

-----------------------------------------------------------------------------
\* Both indices parseCommandLine uses exist: the test it selects
\* (tests[testType], line 111) and the rideable it names and allocRideable
\* builds (rideableNames[rideableType] at 132, rideableFactories at 18);
\* the checks at lines 45, 69 and 76 are what keep them in range.
IndicesInRange == ~badTest /\ ~badRide
=============================================================================
