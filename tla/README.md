# TLA+ models of Montage's data structures and test harness

The modules model four parts of the repository:

- **PLockfreeHashTable** (`src/unnamed/part_000`, lines 1-340): a lock-free chained hash table whose nodes live in persistent memory. Modelled with and without its clwb/sfence persistence and crashes.
- **TGraph** (lines 341-854): a lock-based transient graph.
- **Thread pinning** (`src/src/TestConfig.cpp`, lines 161-301): `GlobalTestConfig::buildAffinity`, which maps thread indices to hwloc PUs.
- **GlobalTestConfig** (the rest of `TestConfig.cpp`): registration of tests and rideables, `parseCommandLine`, the environment and argument maps, and the object's lifetime.

## 1. The system and how its parts interact

The harness (`GlobalTestConfig`) registers test modes and rideables, parses the command line, builds the thread-to-PU pinning, allocates the rideable (PHT or TGraph) and runs the test with `task_num` threads. Every thread then calls the rideable's operations concurrently.

**PHT**

- `get`, `insert`, `put`, `replace` and `remove` each bracket their work with `tracker.start_op` / `end_op` (RCUTracker).
- Each calls `findNode`, which walks one bucket's sorted chain. It unlinks marked nodes with a CAS, retires them, and restarts from the bucket when a CAS or the re-read of `prev` fails.
- `insert` publishes a new node with a CAS on `prev`.
- `put` and `replace` on a present key work in three steps:
  1. install `tmpNode` in front of the old node (CAS on `prev`);
  2. mark the old node (a CAS loop);
  3. splice the old node out of `tmpNode->next` and retire it.
- `remove` marks the node (CAS on `curr->next`), then unlinks it (CAS on `prev`).
- Every CAS that succeeds is followed by `clwb` of the changed line and `sfence()`. `findNode` also `clwb`s what it reads and fences before it returns true (line 319).

Threads interact only through these CASes and through the tracker. A power failure keeps only what has reached persistent memory.

**TGraph**

- Every operation locks the vertex mutexes it needs in ascending id order and releases them in reverse.
- Every change to a vertex's relations increments that vertex's sequence number.
- `remove_vertex` collects the neighbours under `vid`'s lock, releases it, then relocks everything and compares `vid`'s sequence number. If it moved, it starts over.

## 2. Modules

| Module | Models | Kind |
|---|---|---|
| `Reclaimer.tla` | RCUTracker `start_op`/`end_op`/`retire`, from spec.md 4.1 (its code is not under src/) | component, instanced by PHT |
| `PHT.tla` | PLockfreeHashTable: heap, `findNode`, all five operations | detailed spec |
| `PHTMap.tla` | the linearizable map PHT promises | abstract spec |
| `PHTDurable.tla` | PHT plus every `clwb`/`sfence`, cache evictions and crashes | detailed spec, extends PHT |
| `PHTDurableMap.tla` | the durably linearizable map: PHTMap plus a crash | abstract spec, extends PHTMap |
| `MC_PHT.tla`, `MC_PHTDurable.tla` | keys, hash function, symmetry | TLC instantiation |
| `TGraph.tla` | TGraph: vertex slots, mutexes, sequence numbers, all five operations | detailed spec |
| `GraphSpec.tla` | the atomic graph TGraph promises (RGraph interface) | abstract spec |
| `MC_TGraph.tla` | thread symmetry | TLC instantiation |
| `Affinity.tla` | `buildAffinity` and its dfs, single, default and per-core builders, as recursive operators over a topology tree | component |
| `MC_Affinity.tla` | every topology tree with at most two children per object, sorted by shape | TLC instantiation |
| `TestConfig.tla` | GlobalTestConfig's methods as actions; instances Affinity for the pinning | composition |
| `MC_TestConfig.tla` | the command lines tried and a two-core machine | TLC instantiation |

### PHT state and actions

The heap:

- `nxt[l]` is the `MarkPtr` at location `l`, a record `[ptr, mark]`. A location is a bucket sentinel or a node.
- `nkey` and `nval` are the node fields. A key is an integer, so `string::compare` becomes `<`. A value is a model value.
- `alloc` is the last node allocated.

Per-thread locals have the code's names (`prev curr next cmark tmp res`), plus:

- `pc`, the position in the code;
- `found`, findNode's result;
- `fret`, where findNode returns to;
- `opsLeft`, the remaining workload.

One action is one shared-memory access (a load or a CAS), with the local work around it:

- findNode is split into `FindHead` (303-307), `FindNext` (309-313), `FindCheck` (314-326) and `FindUnlink` (327-335).
- The operation steps are `GetDone`, `InsertStep`, `PutStep`, `ReplaceStep`, `MarkOld` (the loop at 161/277), `SpliceOld` (164-170, 280-286), `RemoveStep`, `RemoveUnlink` and `Finish`.
- Reading `curr->val` and storing `tmpNode->next` happen in the same step as the CAS that follows them. Both are private to the thread, or immutable, until that CAS.

**Refinement.** `Abs == INSTANCE PHTMap WITH map <- AbsMap, ...` and `Linearizable == Abs!ASpec`.

- `AbsMap[k] = View(k)`, what a solitary `findNode` would return.
- An update is "done" from its linearization point: the publishing CAS (insert, put, replace) or the marking CAS (remove).
- A read-only outcome must return a value the key held at some instant of the call. `seen` records those values.

### PHTDurable: persistence and crashes

`PHTDurable` EXTENDS PHT and wraps every step with what the code does to persistent memory.

- `pnxt[l]` is the persisted copy of `nxt[l]`.
- `pend[t]` is the set of lines `t` has `clwb`ed and not yet fenced. `SFence(t)` writes them back at their current value.
- `due[t]` records that the code's next call for `t` is `sfence()`. After a CAS that succeeded, `clwb; sfence()` is not atomic with it: the fence is the thread's next step, so a crash can fall between them.
- `Publish` models lines 154-159 (and 177-182, 209-214, 270-276). `tmpNode->next` is flushed and fenced, together with every line still pending, before the CAS. The CAS on `prev` is then flushed and fenced.
- `Evict(l)` is the cache writing a line back on its own, at any time. It and `Crash` are events of the hardware, not of the code, and the map gives them no lines.
- `Crash` restarts on `nxt = pnxt`:
  - every thread is idle;
  - RCUTracker's volatile state is reset, and nodes retired but not yet freed are leaked.
- Node keys and values are persistent from construction: their `clwb_range_nofence` is fenced before the node is published. So is the allocator counter.

**Abstract crash.** `PHTDurableMap` adds `ACrash` to PHTMap. For each key, a crash keeps a prefix of that key's updates, in linearization order. The prefix holds every update that had returned, and every update linearized before one that had. Later updates may be lost. Two history variables carry this:

- `surv[k]` is the set of values k may revert to;
- `since[t]` is the set of values t's key has held since t's update took effect.

PHTDurable updates both in every step, through `DAbs!Track`, and resets them in `Crash`. They are auxiliary variables: no code line corresponds to them. `DurablyLinearizable == DAbs!DSpec`, where `DAbs` is PHTDurableMap under the same mapping as `Abs`.

Two gaps remain.

- A reader's own durability is not encoded. A `get` that returned a value whose insert had not yet been flushed is caught only by `GetFoundDurable`, and only for the found case.
- Cuts are per key, not one global cut across keys.

### TGraph state and actions

The state:

- `present[v]`, `out[v]` (`adjacency_list` destinations), `inc[v]` (`dest_list` sources), `seq[v]` (`vertexSeqs`), and `owner[v]` (the holder of `vertexLocks[v]`).
- `relHeap[e]` and `vHeap[v]`: how many `Relation` objects of pair e, and `Vertex` objects of id v, are allocated and not yet deleted. `Alloc` is `new` and `Delete` is `delete`.
- Per-thread locals: `pc`, the call, `toLock`, `verts`, `snap`, `ret` and `opsLeft`.

A step is one `lock()` (`Acquire`), or a whole locked section together with the releases that end it:

- `Invoke` makes add_vertex's random draw (639-650). It reads no shared state. `Draws` gives the samples K draws can produce.
- `EdgeBegin`, `HasEdgeBegin`, `AddVertexBegin` and `RemoveVertexBegin` fix the ascending lock order.
- `AddEdgeSection`, `HasEdgeSection`, `RemoveEdgeSection` and `AddVertexSection` are the locked bodies.
- `RemoveVertexScan` (689-704), `RemoveVertexLock` (707-720) and `RemoveVertexCommit` (722-787) keep remove_vertex's structure.
- Both `std::abort()` calls lead to `pc = "abort"`.

The heap steps follow the code:

- `add_edge` allocates `r` before it locks (531), and deletes it when the section fails (573).
- `add_vertex` allocates `new_v` before it locks (655), allocates one relation per new neighbour, and deletes `new_v` when vid exists (678).
- `remove_edge` deletes the relation it took out of `source(src)` (622).
- `RemoveVertexFree` (761-778) deletes `ret1`, the relation other → vid taken out of `source(other)`, for each neighbour. It then deletes every relation of `source(vid)` through `toDelete`, and destroys the vertex.

`Linearizable == Atomic!GSpec` refines the atomic graph of GraphSpec.

`HeapOwned` states the ownership rule of the comments at 397-398 and 764. Every `Relation` object is either a relation of the graph or the `r` of an `add_edge` still before its section. Every `Vertex` object is either a present vertex or the `new_v` of an `add_vertex` still before its section. So nothing leaks and nothing is deleted twice, whatever calls interleave.

### Affinity

A topology is a record `[type, kids]`, and an object is named by its path from the root. The walks are RECURSIVE operators that thread the `aff` vector through their recursion as the code passes it by reference:

- `DFSHelper` / `DFSKids` is `buildDFSAffinity_helper` (167-180).
- `FindCores` and `PUsInCores` are `findCores` and `buildPUsInCores` (189-221). The `coreIndex` / `coresFilled` round robin is kept exactly.
- `FindAndBuildSockets` is lines 222-238.
- `SingleHelper` is the single builder.
- `Wrap` is the wrap-around at the end of `buildAffinity` (282-301).
- `PerCoreHelper` / `PerCoreKids` / `BuildPerCoreAffinity` is `buildPerCoreAffinity` (267-281). No `-a` option selects it, so it is checked as an operator on every built topology. Its two asserts (269-270) are the field `bad`.

A read of `children[i]` past `arity` (undefined behaviour) stops the walk and sets `oob`. The one action, `Build`, picks a topology, a mode and a thread count and runs `buildAffinity`.

`PinningOrder` compares the result with `Reference`, the order each mode documents, defined from the tree itself and not by the walks:

- depth-first for dfs;
- for default, the comment at 182-183: the PUs of one core, then the other cores of the socket, then the next socket. On a tree of sockets, cores and PUs that is depth-first order too, and the fallback message at 241-242 promises DFS where there are no sockets;
- one PU for single.

`PerCoreOrder` says that, for pu 0 and 1, the per-core builder returns PU pu of every core in depth-first core order when every core has more than pu PUs. Otherwise its asserts fail.

### TestConfig

Its actions are the methods `main` calls. A token of the command line is a record `[o, n, k, v, eq]`, carrying the option letter and `atoi` of its argument.

- `AddTestOption` and `AddRideableOption` are the registration methods.
- `ParseStart`, `ParseOption` and `ParseFinish` are `parseCommandLine`, option by option. `ParseFinish` calls `A!BuildAffinity` of the instanced Affinity module.
- `AllocRideable`, `RunTest`, `SetEnv`, `ReadEnv`, `SetArg` and `ReadArg` are the methods of the same names. `ReadEnv` and `ReadArg` model `std::map::operator[]`, which inserts a missing key.
- `Destroy` is the destructor.
- `Init` is the constructor (344-351), which leaves every container empty. The scalar fields' initializers are in `GlobalTestConfig.hpp`, which is not in the repository, so `Init` ranges over the constant set `Defaults`.
- `Exit` is `errexit` or `printargdef`.

`badTest` and `badRide` record an index read out of range.

## 3. Runs

| Run | Module | Bounds | Checks | Result |
|---|---|---|---|---|
| `pht_durable` | MC_PHTDurable | get, insert, remove; 2 threads; MaxOps 3; 1 crash | TypeOK, ChainOrdered, RetiredUnreachable, NoUseAfterFree, PersistedNotFreed, GetFoundDurable, DurablyLinearizable | pass, 333k states, ~1.2 min |
| `pht_put` | MC_PHT | get, put; MaxOps 3; 2 values | Linearizable | pass, 620k states |
| `pht_replace` | MC_PHT | insert, replace; MaxOps 3; 2 values | Linearizable | pass, 976k states |
| `pht_memsafety` | MC_PHT | all five; MaxOps 3; 1 value | TypeOK, ChainOrdered, RetiredUnreachable, NoUseAfterFree | pass, ~45 s |
| `pht_live` | MC_PHTDurable | all five; key {1}; MaxOps 2; 1 crash; `DFairSpec` | PersistedNotFreed, GetFoundDurable, AllOpsComplete | pass, 44k states, ~15 s |
| `pht_put_remove` | MC_PHTDurable | get, put, remove; 2 threads; MaxOps 3; 1 crash | DurablyLinearizable | **violation** |
| `tgraph_live` | MC_TGraph | all five; N 2; K 2; MaxOps 2; `FairSpec` | RelationsConsistent, NoAbort, HeapOwned, Linearizable, AllOpsComplete | pass, 51k states, ~12 s |
| `tgraph_sample` | MC_TGraph | add_vertex; SampleMax = N | LockInRange | **violation** |
| `affinity_pass` | MC_Affinity | socket/core/PU trees; dfs, single; 0-5 threads | PinningOrder, PerCoreOrder | pass, ~20 s |
| `affinity_default` | MC_Affinity | socket/core/PU trees; default; 0-5 threads | PinningOrder | **violation** |
| `affinity_unsupported` | MC_Affinity | hybrid cores; no socket | ThreadsPinned | **violation** |
| `testconfig_indices` | MC_TestConfig | values -1, 0, 1 | IndicesInRange | **violation** |

`CHECK_DEADLOCK FALSE` is set because every workload is finite: once `opsLeft = 0` and every thread is idle, or the harness has exited or been destroyed, the system has stopped.

### What the runs show

1. **put/replace racing remove is not linearizable** (`pht_put_remove`, the trace TLC prints). There are two paths:
   - A remove that runs between put's install (157) and its mark (161) marks `tmpNode` (239), and the replaced value comes back.
   - A remove that marks the old node just after the install has its marked pointer copied into `tmpNode->next` by the splice (164).
2. **A crash in the same window is enough, without concurrency** (`pht_put_remove`; with `Threads = {t1}` in its cfg TLC prints this trace).
   - put persists its install (`clwb(prev); sfence()`, 158-159) before the old node's mark is persisted (161-163). A crash in between leaves two unmarked nodes of one key in persistent memory.
   - After the restart, one thread's `remove(k)` marks only `tmpNode`, and `get(k)` returns the value put replaced.
   - replace does the same at 275-279.
3. **get, insert and remove are durably linearizable** (`pht_durable`). The bounds are two threads, any crash point and any eviction order.
   - Every fence the code makes is needed:
     - without the flush of `tmpNode` before publication, a crash loses the chain behind a new node;
     - without the flush of the unlink before `retire`, a persisted chain reaches freed memory;
     - without the sfence at 319, get returns a node a crash then loses.
   - Each of these has a mutant that TLC rejects.
4. **Reclamation is safe, even where linearizability fails** (`pht_memsafety`, `pht_durable`). `pht_put` and `pht_replace` check only linearizability of their operation mixes; their memory safety is covered by `pht_memsafety`, which runs all five kinds. Even with put and replace racing remove, nodes are retired only once unlinked. A grace period over the threads active at retirement is enough, and after a crash no persisted pointer reaches a freed node.
5. **Every PHT operation of a finite workload completes** (`pht_live`), even with a crash in the middle. This is termination under weak fairness of each thread, not lock-freedom: a thread that is never scheduled is not shown to be overtaken, and an unbounded workload is not checked.
6. **add_vertex can lock one past `vMeta`** (`tgraph_sample`). The inclusive `uniform_int_distribution<>(0, numVertices)` at 640 is the cause.
7. **remove_vertex's validation is sound and the lock order deadlock-free** (`tgraph_live`). Neither abort is reachable, the relation sets stay mirrored, every `Relation` and `Vertex` object is deleted exactly once, and every workload completes. Deleting `ret2` as well as `ret1` at 764 would double-free the relation vid → other, which `toDelete` frees; `HeapOwned` catches that.
8. **The default pinning reads past `children[]` on hybrid cores, and pins nobody on a machine without sockets** (`affinity_unsupported`).
9. **The default pinning does not follow its documented order** (`affinity_default`). The comment at 182-183 says it fills a core's PUs before the next core. `buildPUsInCores` strides instead (line 205): with two cores of two PUs, threads 1 and 2 go to the first PU of each core. Which order is intended is for the authors to say; the model checks the one the comment documents. dfs and single follow their documented orders on every socketed topology (`affinity_pass`).
10. **`-m -1` passes the test-index check** (`testconfig_indices`), and an unregistered or negative rideable index reaches `rideableNames[rideableType]`. The environment and argument maps, `RunTest` and the destructor are actions of the model, but no property reads their state: `testconfig_indices` is the only TestConfig run.

### Bounds and why they are enough

- **PHT.** Two threads and keys {1,2} in one bucket, so one operation can traverse past another's node. There are one or two values and at most 2-4 operations.
  - Every race in the hazard list needs two threads and at most two keys.
  - A third operation is what observes a race's result.
  - The op kinds are split across runs to keep each under 5 minutes: `{get, put, insert, replace}` took 7.5 minutes. `pht_memsafety` has every kind but one value, since memory safety does not depend on values; MaxOps 4 took over 6 minutes.
  - With persistence the state space grows about tenfold, so `pht_durable` uses MaxOps 3. MaxOps 4 took over 4 minutes with persistence and a crash.
  - One crash suffices: after a restart the model is the same system on a different initial heap.
  - `pht_live` has one key. Liveness is checked without symmetry, and with two keys the run took almost 2 minutes. The stuck mark loop it must exclude (line 161) then lay about 200k states deep. On one key every CAS of every operation targets the same node or bucket, so every retry loop still meets contention: findNode's restart, the mark loops of put, replace and remove, and the help-unlink. What is lost is one operation stepping past another key's node, which has no loop of its own. MaxOps 3 on one key took 3.5 minutes.
  - The initial table is any subset of keys with any values.
- **TGraph.** Two threads and N = 2 vertices with all five operations: two removers, or an edge call and a remover, is what each race needs. A separate N = 3 edge run was dropped to keep the run list within budget. The passing runs sample from `0..N-1`, and only `tgraph_sample` uses the code's bound `N`. `tgraph_live` at N = 3 takes over 9 minutes.
- **Affinity.** Every tree of depth ≤ 4 with at most two children per object, and 0-5 threads, so that threads outnumber PUs and the wrap-around happens.
- **TestConfig.** Command lines of up to two options, up to two registered tests and rideables, and one environment key.

### Fairness

`FairSpec` (TGraph) and `DFairSpec` (PHTDurable) give each thread weak fairness over its own steps. For PHTDurable these are its next call or the sfence it owes.

- The threads are OS threads. PHT never blocks.
- A free TGraph mutex is eventually taken by a waiter, and its holder's remaining steps stay enabled until it releases it.
- Crashes and evictions are not fair: they may never happen.

### Symmetry

Threads, and PHT values, are interchangeable in every definition, so the safety runs declare `Permutations`. Liveness runs use none.

## 4. Not modelled

- **The bucket array as persistent memory.** The model assumes, as spec.md (external dependencies) does, that the bucket array survives a crash and is found again. The code allocates it with plain `new padded<MarkPtr>[idxSize]` (line 80) and registers no persistent root, so as written a restart finds nothing. There is no recovery code to model.
- **String contents, hashing and `idxSize`.** Keys are integers, and a function `Hash` maps them to buckets.
- **`my_alloc`, `RP_malloc` and `RP_free` internals.** Node ids are fresh and never reused. The properties are about when nodes are freed, not about reuse.
- **RCUTracker internals** (epochs, thresholds). Only its contract is modelled. A node retired twice is not checked for: `Reclaimer` keeps a set of retired nodes, so a second `retire` of the same node would not be told apart. In the code each node is retired by the one thread whose splice or unlink CAS succeeded, which `RetiredUnreachable` and `NoUseAfterFree` exercise but do not state.
- **`grab_stats` and `clear`.** `grab_stats` only reads and prints, and `clear` only asserts, so neither changes state. The single-threaded constructor is TGraph's `Init`.
- **The factories.**
- **The parts of TestConfig that only print or set output fields.** Examples are the `-s -i -v -w -o -z` options, CSV recording and the warm-up allocation.
- **`pblk_naked.hpp`.** It is preprocessor macros and inline functions that forward to `EpochSys` (`begin_op`, `openread_pblk`, `openwrite_pblk`, `register_update_pblk`, `pretire`...). `EpochSys` is outside src/ and the spec names the persistent-transaction framework a non-goal. Nothing in src/ includes the header, so no caller fixes how it is used. Its own logic is a handful of asserts on `EpochSys::tid` and `epochs[tid]`, which can only be stated relative to an invented client. Two things were noted while reading it, and are not model-checked:
  - `finalize` (32-35) does not reset `EpochSys::tid`, so a second `init` on the same thread trips the assert at line 20;
  - the array `get_unsafe_` (153-156) asserts that the thread is inside an operation, while the field version (117-122) falls back to the raw field. Both carry the same comment. The array accessors also stay under `protected:` (line 145), while the field's are made `public:`.
