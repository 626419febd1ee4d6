# A TLA+ verification of foreactor

foreactor is a library that is preloaded into an application and issues some of
its system calls before the application asks for them. A *plugin* describes a
function of the application as a *foreaction graph*: syscall nodes, branch nodes,
loops, and "weak" edges at which the function may return early. While the
function runs, every hijacked syscall looks ahead ("peeks") along the graph, up
to `DEPTH` syscalls, and hands those it may run early to an asynchronous engine.
The promise is that the application cannot tell.

This directory models the library in TLA+, checks the models with TLC on small
instances, and proves the central invariants and refinements with TLAPS for all
instances.

## 1. Parts of the system

| Part | Source (under `src/`) | Module | State |
| --- | --- | --- | --- |
| Pre-issuing algorithm, `SyscallNode::Issue` | `libforeactor/core/scg_nodes.cpp` | `PreIssue`, `PreIssue_proofs`; its promise in `Speculation`, `PreIssueRefines` | modelled, proved |
| Graph, epochs, value pools, `GetFrontier` | `libforeactor/core/scg_graph.*`, `value_pool.*` | `SCGraph` | modelled |
| Engine interface | `libforeactor/engine/io_engine.*` | `IOEngine`, `EntryId`, `EntryId_proofs` | modelled, `EntryId` proved |
| io_uring backend | `libforeactor/engine/io_uring.*` | `IOUring`, `IOUring_proofs` | modelled, safety and refinement proved |
| Thread pool backend | `libforeactor/engine/thread_pool.*` | `ThreadPool`, `ThreadPool_proofs` | modelled, safety and refinement proved |
| Plugin API, sessions | `libforeactor/core/foreactor.cpp` | `PosixItf`, `PosixItf_proofs`, `PreIssue`, `SCGraph` | sessions, proved; not graph construction |
| Syscall classes | `libforeactor/syscalls/syscalls.*` | `Buffers`, `Buffers_proofs`, `BuffersData_proofs` (pread, pwrite); `Syscalls`, `Syscalls_proofs` (the others) | modelled, safety proved |
| Hijacked POSIX calls | `libforeactor/syscalls/posix_itf.*` | `PosixItf`, `PosixFile`, `PosixItf_proofs`; actions `*Call`, `DuFiles!Fstatat` | modelled; sessions and `read`, `write`, `lseek` proved |
| Environment variables | `libforeactor/utils/env_vars.*` | `PosixItf` | modelled |
| demo-cpp plugins | `demoapps/demo-cpp/demo-cpp-plg` | `Plugins`, `DemoPlugins`, `AppPlugins`, `Buffers` | all 11 |
| coreutils plugins | `realapps/coreutils/coreutils-plg` | `Plugins`, `Buffers`, `DuFiles` | sparse_copy, du_files |
| Calls inserted in coreutils | `realapps/coreutils/coreutils-src` (`fts.c`, `du.c`) | `DuFiles` | the walk of du |
| B+-tree and its plugins | `realapps/bptree` | `BPTree`, `AppPlugins` | modelled |
| LevelDB plugin | `realapps/leveldb/leveldb-plg` | `AppPlugins` | its graph |

Who acts: the *application thread*, which runs the wrapped function, the
algorithm and the graph (all of it thread-local), and the *engine*: the kernel
behind two rings, or worker threads behind two queues. Everything hard comes from
three sources: the engine completes requests in any order and at any time; the
peek runs ahead of the application and keeps its state in counters and pools that
are updated one call at a time; and the function may leave the graph early.

## 2. How the modules fit together

```
                         Speculation
                             ^
                             | implements (PreIssueRefines; proved)
  Buffers, Syscalls --- extend --- PreIssue  <---- proofs: PreIssue_proofs
   (Buffers_proofs,          ^
    BuffersData_proofs,      |
    Syscalls_proofs)         |
                             | implements (nodes, epochs, pools -> positions)
                          SCGraph --- keeps to ---> IOEngine      EntryId
                             ^                       ^    ^
  Plugins, DemoPlugins, AppPlugins        implements |    | implements (both proved)
                                                IOUring   ThreadPool

  PosixItf --- implements (proved) ---> PosixFile   (threads, sessions, read() and write())
  DuFiles  (du's walk, sessions and the du_files plugin)
  BPTree   (the B+-tree and its pager)
```

* `Speculation` is what the library promises: the calls of a session run once each,
  before they return; what runs early is on the path, and a side effect runs early
  only if the function cannot return before asking for it; nothing of a session runs
  after it. It has no window, counter or engine. `PreIssueRefines` maps `PreIssue` to it.
* `PreIssue` abstracts the graph to the *path* the function takes: positions
  0, 1, 2, ... each standing for one syscall instance (node and epoch). What a
  plugin decides at run time is nondeterministic: whether an argument generator is
  ready, whether a branch can be decided. It has every counter of `SCGraph` and
  `IOEngine` (`peekhead_distance`, `weakedge_distance`, `prepared_distance`,
  `num_prepared`, stages, `prepared`, `onthefly`).
* `Buffers` and `Syscalls` extend `PreIssue`: each of their actions is an action of
  `PreIssue` together with what it does to argument pools, buffers, submission
  entries, results and files. `Buffers` is about pread and pwrite, the internal
  buffers and the reference counts that let a linked pwrite use one; `Syscalls`
  about the other classes, which differ in a few attributes (a record per class).
* `SCGraph` has the graph itself: branch nodes, back edges that increment an epoch
  dimension, pools keyed by the *sum* of a node's epochs, decisions kept in pools
  until the frontier passes. The arguments of a session are chosen when it is
  entered and decide its path, so decisions differ from session to session.
  `ImplementsPreIssue` states that, read as positions on that path, it behaves as
  `PreIssue`; so what is proved of `PreIssue` holds for the graph instances checked.
* `IOEngine` is the protocol between algorithm and backend. `UsesEngine` states
  that the graph keeps to it, `ImplementsIOEngine` that each backend provides it. Its
  variable `splits` never changes: with `splits` false the module is what the algorithm
  assumes, with `splits` true links may be lost (`Cut`), as by a kernel that takes a
  batch in parts (section 6).
* `EntryId` is the word in which node and epoch travel through a backend.
* `Plugins`, `DemoPlugins` and `AppPlugins` hold the graphs plugins build, with their
  decisions and generators.
* `PosixItf` is the interface on both sides, for several threads: which graph is
  active, paused and how deep it is nested (Enter, Leave, Pause, Resume), which calls
  it intercepts, the settings it is created with, and `read` and `write`, which are
  made of three calls. `PosixFile` has the same calls as atomic steps.
* `BPTree` is the application with the most state of its own: Put and Load are
  sequences of page writes, each of which may fail and after each of which the process
  may be killed. Get and Scan only read and are operators; the properties evaluate
  them for all their arguments.
* `DuFiles` is the longest interaction between an application and a plugin: the
  depth-first walk of `fts_read`, the Pause and Resume calls inside it, and the
  look-ahead of `du_files` along the list of siblings. The graph is one loop, so
  the window is a record of a few numbers and the peek of one call is one step. A
  *setup* fixes which trees are walked, the depths, how many entries fts reads at
  once, and whether assertions are compiled in.

### State and actions against the code

| Module | Action | Code |
| --- | --- | --- |
| `PreIssue`, `SCGraph` | `Enter`, `Leave`, `DrainOne`, `ResetToStart` | `foreactor_EnterSCGraph`, `foreactor_LeaveSCGraph` (`ClearAllReqs`, `CleanUp`, `ResetToStart`) |
| | `CallNoPeek`, `CallPeek` | a hijacked call: `GetFrontier`, `CheckArgs`, head of `Issue`, catch-up |
| | `PeekDone`, `PeekBarrier`, `PeekEnd`, `PeekNotReady`, `PeekUnforeactable`, `PeekPrepare` | the ways a round of the peek loop ends |
| | `SubmitAll`, `SubmitNone` | the submission policy |
| | `SyscallSync`, `CmplAsync`, `PushForward` | "handle myself", `CmplAsync`, "push frontier forward" |
| | `EngineRun` | the engine runs a request (any order that respects links) |
| `IOUring` | `GetSqe`, `ClearPrepared`, `Submit` | the loops of `SubmitAll`; `io_uring_submit` may take a part, and a chain that goes on in the next part is cut (`Severed`) |
| | `WaitCqe`, `CqeSeen`, `ReadRes` | `CompleteOne`, between whose steps the kernel goes on |
| | `KernelRun` | the kernel (external) |
| `ThreadPool` | `Dequeue`, `HandleSQEntry` | `WorkerThreadFunc` |
| | `Destroy`, `Joined` | the destructor |
| `Buffers`, `Syscalls` | `DataX`, `NodesX` | action `X` of `PreIssue`, with `CheckArgs`, `GenerateArgs`, `PrepUringSqe`/`PrepUpoolSqe`, `SyscallSync`, `ReflectResult`, `RemoveOneEpoch`, `ResetValuePools` of the class |
| `PosixItf` | `Enter`, `Leave`, `PauseCurrentSCGraph`, `ResumeCurrentSCGraph` | beginning and end of a wrapper function of a plugin; the calls of these names |
| | `Lseek`; `AskOffset`, then `Pread`, `Pwrite` or `CallFails`, then `Advance` | `lseek`; the three calls of `read` and `write` |
| | `Panic` | `ParseEnvValues` and the `Env*` functions on settings they reject |
| `BPTree` | `Put`, `Load` | the operation, as the page writes it is going to make |
| | `Write`, `WriteFails`, `Reopen` | `Pager::WritePage`, its failure; a kill and `Pager::CheckStats` |
| | `ScanFails` | a read that fails in Scan's session |
| `EntryId` | `Prepare`, `CompleteOne`, `PushForward` | `EncodeEntryId`, `DecodeEntryId` and what surrounds them |
| `DuFiles` | `FtsOpen`, `FtsRead*`, `FtsClose` | a call of `fts_read` by the way it returns; `fts_open` and `fts_close` with Enter and Leave |
| | `ProcessFile` | `process_file` of du and its wrapper in the plugin |

A round of the peek is one step: only the application thread reads or writes the
state it touches. Definitions named `X_Something` and marked *Mutation* are wrong
variants of `X`; no specification uses them. They serve to show that a property
can fail: put in the place of `X`, each one makes TLC report the property it is
listed with in `PROJECT.json`.

## 3. Runs

| Run | Checks | Bounds |
| --- | --- | --- |
| `preissue` | the algorithm implements `Speculation` (`ImplementsSpeculation`): it is invisible; the peek never comes back (`PeekFresh`), the thread never waits for an unsubmitted request, the engine is never given more than the window; every call and every leave returns; the inductive invariant `IInv`, with the types, the truth of the counters (`DistancesTrue`), the agreement of stages and engine (`EngineAgrees`) and clean sessions among its conjuncts | 10 syscalls with links, side effects, weak edges and branches, Depth 4: the window covers two weak edges and crosses iterations |
| `graph` | epoch sums and decisions are never confused, between iterations or sessions; no call overtakes one it depends on; the graph, catch-up after a stuck peek included, implements `PreIssue` and keeps to the engine protocol | one of the plugins below, chosen at the start |
| `buffers_sparse_copy` | the copy is exact, no buffer is reused while needed, all come back | 5 blocks of 2 cells and a read at the end of the file, Depth 3 |
| `buffers_streaming` | reads reach the application's buffer at the right call, whatever is written meanwhile | the streaming and crossing demos, 4 blocks, Depth 3 |
| `syscalls` | results come through statx buffers to the right call, failures are seen, descriptors are passed on by rcsave functions, nothing of a session left early gets into the next | 8 calls of 7 classes, two of them lookups that may fail and end the session, thread pool, Depth 3 |
| `du` | the assertions of Pause, Resume, Enter and Leave hold in walks over trees in which no directory is empty or as long as a list of fts (`NoEmptyList`), also right after a walk over one that has such a directory, where the graph is lost; du's own fstatat finds its branch decided; every pre-issued fstatat is the one du makes; files from the third of a list on are pre-issued | directories of up to 8 entries; lists of 4 at Depth 0 to 2, of 10 at Depth 3 to 5; a build without assertions for the directories with which they fail |
| `entry_id` | ids of live instances decode to their own instance | an epoch field of 8 values, 8 iterations, Depth 3 |
| `uring` | the result read after `io_uring_cqe_seen` is the right one, an SQE is always available, `CleanUp` returns; the rings implement `IOEngine`: with a kernel that takes linked requests together as the algorithm assumes it, with one that takes them apart except for the links | 5 requests, 2 of them linked, Depth 3, a ring of Depth + 1 |
| `thread_pool` | requests are handled once, even if the pool is destroyed with requests queued; destructor and `CleanUp` return; the pool implements `IOEngine` | 3 requests, 2 workers, Depth 2 |
| `interface` | no assertion of the session interface fails; the frontier of a graph moves by its own function's calls, through recursion and pauses (`ProgressKept`); `read` and `write` in three calls behave as atomic ones (`ImplementsFile`), short reads, failures and another thread's writes included | 2 threads with a descriptor each on one file, 2 graphs; one thread nests 3 deep and makes 2 calls, the other 1; accepted and rejected settings |
| `bptree` | Get and Scan return what was stored, for all keys and bounds; the chain of leaves is complete between any two page writes of Put; the free list, also the one rebuilt from a file left by a kill, has no page of the tree; the tree's own checks hold | degrees 2 and 3, up to three internal levels, loads of 1 to 10 keys, puts of 4 records in any order, repeated; 1 failure or kill |
| `du_subdir` | expected violation, section 6 | |

The plugins of `graph`, each of which a process keeps to: looping, 2 x (2 writes,
2 read pairs), Depth 4, so a window spans both inner loops; sparse_copy, 3 blocks,
Depth 3 (odd, so links dangle at the window's end); du_files, 5 files, Depth 3,
decisions ready or not at any time; weak_edge, 3 iterations, Depth 3, left early in
any of them, with its own generators and with generators that are ready or not at
any time; branching at Depth 8 and ldb_get at Depth 5, whose tables are open or not
from session to session; the B+-tree's scan and load (and read_seq and write_seq,
which have the same graph), 4 leaves, Depth 3; LevelDB's version_get, Depth 3, with 0
to 2 tables on level 0 and any of two deeper levels, tables in the cache or not;
simple1 at Depth 1 and simple2 at Depth 4, whose open may fail.

Sessions repeat without bound (in `entry_id` there is one), so state that survives
`ResetToStart` shows. Ring indices are kept modulo twice the ring's length, which
changes nothing the code can observe. Bounds are chosen so that the window slides
over several iterations and does not cover the whole path; the proofs of section 4
remove them where they apply.

**Fairness.** The application may stop calling at any time: nothing is assumed of
it. Inside the library its thread goes on (weak fairness of the library's steps),
because a thread that is running is scheduled. The engine runs every request it
can (weak fairness per request): the kernel and the workers are threads of their
own, and a request on storage ends. Four runs are without deadlock detection, because
the system really may stop: `thread_pool` after the destructor, `entry_id` at the end
of its loop, `interface` when a setting is rejected or every thread has made its calls,
`bptree` when the file is refused or torn.

## 4. Proofs

`PreIssue_proofs` proves, for every path length, depth and placement of side
effects, weak edges, links and branches that meets two assumptions:
`PathAssumption` (types) and `LinkAssumption` (a linked request has a successor
that is not linked and that no weak edge in the window keeps back; the plugins
that link have this shape):

`TypeCorrect`, `StagesAgree`, `DistancesCorrect`, `SpeculationSafe`,
`EffectsCorrect`, `RunsOnce`, `SessionCleanedUp`, `FrontierIsSubmitted`,
`PeekIsFresh`, `InFlightBounded`, all from `Invariance`.

The properties are not inductive alone. `IInv` adds
* `SessionBounds`, `PeekWindow`: where the frontier, the peek and the requests on
  the fly can be;
* `StageWindow`: pool entries exist only between frontier and peekhead, the reason
  why the peek never meets an instance twice;
* `PreparedOrder`: `prepared` is in path order, so `prepared_distance`, the
  distance of the earliest request, decides for all of them;
* `LinkPending`: a dangling link is the last thing the peek saw, dangles only
  because the window is full, and delays the submission by one call. This is why
  the frontier is never found prepared and not submitted;
* `RunCount`: a syscall has run exactly if it is behind the frontier, finished, or
  its completion is posted.

`InitInv`, one lemma per action, and `NextInv` make up the induction. In the longer
inductions of `Buffers_proofs` and `BuffersData_proofs` the lemma of an action that only
one induction needs is a named step of it (`<1>CallPools` in `NextPools`). Leaves name
their prover: `Zenon` where no arithmetic is needed, which is most of them, and the SMT
solver, by default or with more time as `SMTT(30)`, for the rest.

The last theorem of `PreIssue_proofs` is `Refinement`: `PreIssue` implements
`Speculation`, for all the same constants. Engine, pools and window are mapped away; a step of the algorithm
is a call, a run, a return, the end of a session, or a stutter. That a run is allowed
needs `NoStrayEffect`, that a return is allowed `RunCount`, and that a session may end
`EffectsAreCalls`, all from `IInv`.

`ThreadPool_proofs` proves, for any requests, depth and number of workers, that every
request is handled once (`PoolSafe`) and that the pool implements `IOEngine`
(`PoolImplementsEngine`). The invariant `PoolInv` says that a request on the fly is in
exactly one place (once in the queue, with one worker, or completed), that it has been
handled exactly if it is completed, and that from the destructor on the queue ends with
exactly one termination entry for every worker that is alive: no worker can exit while
a request is queued, and none is left when all have exited. `WorkersAssumption` (finitely
many, and at least one) is the constructor's assertion, `EntriesAssumption` says that
the termination id is no request's.

`IOUring_proofs` proves that an SQE is always available (`SqesSuffice`) and that the
result read after `io_uring_cqe_seen` is the right one (`RingSafe`), for any requests and
depth. The invariant `RingInv` counts: what is in the submission ring, in the kernel and
posted is at most what is on the fly, and that is at most `Depth + 1` by the client's
window (proved for `PreIssue` as `InFlightBounded`). So in the moment between the two
steps of `CompleteOne` at most `Depth` completions can follow, and the completion ring,
which has twice the slots, does not come round to the one given back (`SlotInv`). The
theorems have the hypothesis `RingIsLonger`, more slots than `Depth`: what `README.md:140`
asks for. The number of slots is the next power of two, that is not smaller than the
length asked for.

From the same hypothesis the rings implement `IOEngine` (`RingImplementsEngine`).
`EngineInv` adds two things to `RingInv`. A request on the fly is in at most one place:
once in the submission ring, in the kernel, or posted once (`PlaceInv`); this is what
makes the kernel's step a first run and the request `CompleteOne` returns one that nobody
else holds. While `SubmitAll` fills the ring, the ring is the beginning of the batch with
its links (`LinkInv`); the abstract engine takes the batch at once, so the requests and
links still to come are counted as there already. `ReadRes` is the step that hands a
request back; the other steps of `SubmitAll` and `CompleteOne` are stutters, but for an
`io_uring_submit` that ends inside a chain: it is a `Cut` of one link (`SubmitImplements`),
which only a kernel with `splits` can make. So the theorem gives the engine the algorithm
assumes for a kernel that takes linked requests together, and for any other one what is
left without links.

`PosixItf_proofs` is about any threads, graphs and settings, and any depth of recursion.

* `SessionsSafe`: the assertions of Enter, Leave, Pause, Resume, Register and Unregister
  hold. The invariant `SessionInv` relates the thread-local variables to the shape of the
  call stack: some invocations of one function, then maybe a pause and some invocations
  of another; the innermost graph is active, the one below the pause is paused, and
  `scgraph_nest_cnts` is the number of invocations of each. Without the shape the counts
  say nothing about which graph is active. `GraphsAssumption` says that a null pointer is
  no graph.
* `ProgressCorrect`: the frontier of every graph has moved by the calls its function has
  made. `SessionInv` gives whose graph a call is served by; the rest is what a push, a
  pop and a call do to the sum over the frames of one function. `SumFunctionOnSet` is a
  recursive function inside a `LET`; that it exists, is unique and does not depend on the
  order is proved from the well-foundedness of the subset ordering (`SetInduction`, over a
  set of sets instead of an operator).
* `FileRefined`: `read`, `write` and `lseek` implement the atomic ones of `PosixFile`. A
  call takes effect when its pread or pwrite does; from then on the abstract position
  counts the bytes that the descriptor has still to be moved by. `FileInv` says why that is
  sound: until the pread or pwrite the descriptor is where it was asked for
  (`FdAssumption`: threads do not share one), and with the bytes counted it stays within the
  file, whatever other threads have written to it. `CountAssumption` says that a count is a
  `size_t`.

`Syscalls_proofs` extends the induction of `PreIssue_proofs` by the pools: for every path
through a graph of nodes, every depth, and every choice of calls that fail,

* `ArgsCorrect`: the assertions at the end of `CheckArgs` hold. `ArgsInv` says that a pool
  entry has the arguments of the call to come, or none, and is gone between sessions.
* `InternalsCorrect`: each internal buffer is free or belongs to one instance, and
  `Depth + 1` of them for a node are enough. `InternalInv` ties a buffer in use to an
  instance that has a stage, and `StageWindow` of the algorithm leaves room for `Depth + 1`
  such instances; the assertion of `GenerateArgs` is a pigeonhole argument.
* `ResultsCorrect`: what a call returns, and what it leaves in the application's buffer,
  are those of a plain call. `ResultInv` follows the data: in the buffer that the
  submission entry names, then in the application's. The theorem has the hypothesis
  `DestinationsKnown`, that a getdents is generated with its destination (section 6).

`NodesAssumption` keeps the names of buffers apart, and `ClassAssumption` has what the
table of classes says.

`Buffers_proofs` does the same for pread and pwrite. For any plugin, depth, file and block
length, and order of the engine, and loops that run to their end (`LoopAssumption`):

* `BuffersSafe`: a buffer that a request reads or fills is not free, and has one owner;
* `BuffersSuffice`: `Depth + 1` internal buffers are enough;
* `BuffersCorrect`: a session gives back every buffer and every reference. A session left
  early is not covered: it leaves counts behind (section 6).

The invariant `PoolsInv` says when a block holds a buffer: from the peek at its pread until
this returns, and beyond that exactly as long as its pwrite refers to it (`HoldInv`), which
is what the reference count counts (`RefInv`). With these a pool of `Depth + 1` cannot be
empty, because a block that holds a buffer has one of its two calls in the window.

`BuffersData_proofs` goes on to the data, on top of the pools:

* `ReadsCorrect`: a pread returns what a plain one would, and its data are in the
  application's buffer;
* `WritesCorrect`: the output file has what the program would have written, and has it when
  the pwrite returns.

These two have the hypothesis `Claimed`: every plugin is of one of two kinds. With a
`PlainPlugin` (streaming, crossing) nothing is linked and a pwrite does not take its data
from an internal buffer. With a `LinkedPlugin` (linking, cp's copy) every pwrite is linked
to its pread, blocks that are written are whole, nothing is computed, and the depth is at
least 2; section 6 shows what happens at depth 1 and with a short last block. `Plugged`
proves that the plugins of the runs are of these kinds. The invariant `DataInv` says where
data are (`MemInv`), how long they are (`CountInv`) and what each block of the output
file holds (`FileInv`). It rests on `RequestInv`, in `Buffers_proofs`, which has two facts
about the algorithm that are not needed for its own properties. A request is submitted before its own call, and with links the peek is as far
ahead as it may be, so that a batch always ends behind the frontier's block (`BatchInv`).
Hence a pread linked to a pwrite goes to the internal buffer that the pwrite takes its data
from (`PlaceInv`, `WriteInv`) and never to the application's: at depth 1 it can.
`BufferAssumption` and `DistinctAssumption` say that there are `Depth + 1` internal buffers,
which are not the application's; `LoopAssumption` that the loop is not left early.

`EntryId_proofs` proves, for any set of node addresses and any field widths, that
decoding undoes encoding (`RoundTrip`, from a lemma on division), and that in a
loop of at most `EpochMod` iterations (65536 in the code) ids are sound
(`IdsAreSound`). The inductive invariant `IdInv` says that what the engine holds
are exactly the ids of the live instances. The bound is needed: see `IdsMatch` in
section 6.

Only model-checked:
* liveness (`CallReturns`, `LeaveReturns`, `CleanUpReturns`, `DestructorReturns`): fairness
  is outside the prover;
* `SCGraph`, its properties, its refinement of `PreIssue` and its use of the engine: the
  walk along branch nodes and back edges is a recursive operator, which the prover cannot
  reason about;
* `BPTree`: the same, for recursion over the tree;
* `DuFiles`: the position in the walk, the sessions and the plugin's pointer are computed by
  folds over trees of directories. A statement for all trees needs an induction over each
  of those folds, and holds for directories of the benchmarks' layout only (section 6).

## 5. Abstractions and what is not modelled

* In `PreIssue` and `SCGraph` a syscall instance is its node and epoch. Arguments,
  buffers, results and file contents are in `Buffers` and `Syscalls`, names of files
  in `DuFiles`. A block is a few cells, a file name a value.
* That generators give the arguments of the later call is a duty of the plugin.
  `Syscalls` takes it for granted (what is checked there is that the library keeps
  them apart); for sparse_copy and du_files it is checked, by `WritesFaithful` and
  `PathnamesAgree`.
* All argument pools of a class except the destination's are filled and emptied
  together; `Syscalls` has one pool for them. What earlier sessions left in
  buffers is one value, "old".
* Failures are modelled where the application goes on or gives up in a known way:
  the lookups of `Syscalls`. errno is not modelled:
  a pre-issued call that fails returns `-errno` on io_uring and -1 on the thread
  pool, in both cases without setting errno.
* A run takes its graph's branch decisions from the plugin's own generators: the
  application and the plugin agree (the plugin's duty). When a decision or an
  argument is *known* is what varies.
* Links are kept by the engine of `PreIssue`, `SCGraph`, `Buffers` and `Syscalls`, as by
  `IOEngine` with `splits` false. For io_uring this is an assumption on the kernel: that
  `io_uring_submit` does not stop between two linked requests (section 6).
* An early return is modelled at weak edges only, as the library's documentation
  asks; a function that returns across another edge (on an I/O error) is outside.
* In `DuFiles` a directory entry is a file or a directory that can be read; errors
  of fts, symbolic links and hard links are left out. Every session walks one
  argument, as du's main does.
* In `PosixItf` a graph is how far its frontier is from the start; what a call does in
  a graph is in `SCGraph`. A wrapped function calls itself, and another one only in a
  pause, where it does not call itself: so do the calls inserted in the applications.
* In `BPTree` a page is written as a whole, and a kill is that of the process, not of
  the machine: what was written is in the file. After a failure or a kill in an
  operation that had already written to a page of the tree nothing is claimed of Get
  and Scan (the operation is half done, as its exception says); `ChainComplete` and
  `FreePagesUnused` go on for Put.
* `AppPlugins!VersionGet` has the levels and tables a lookup may visit, not what is in
  them; tables are opened in a pause, so the branch with the open is never taken.
* The construction calls of `foreactor.cpp` (lines 157 to 551) are not actions: a plugin
  makes them once, in straight line, and the graphs of `Plugins`, `DemoPlugins` and
  `AppPlugins` are what they build.
* getdents as a call that moves its descriptor's position: no plugin has such a node
  (du_files has one commented out).
* A failed pread or getdents through an internal buffer copies a negative number of
  bytes (`syscalls.cpp:1175`); this has no defined outcome to model.
* Not modelled: drawing (`DumpDotImg`), timers, debug output, the vendored queue
  `concurrent_queue.hpp` (external: FIFO per producer), the rest of coreutils,
  LevelDB and the benchmark clients, `motivation/`.

## 6. Findings

One has a run that ends in a counterexample:

* `du_subdir`: the plugin's pointer leaves the order of du's walk after a
  subdirectory; the fstatat pre-issued is then that of another entry. Directories
  of files read in one list, the layout of the benchmarks, are not affected.

Limits of what the passing runs show. With the constants given, TLC reports the
property named:

| Property | With | What happens |
| --- | --- | --- |
| `SqeAvailable` | `IOUring.cfg`: `Depth = 1`, `sq_length = 1` | a dangling link holds a submission back and the next peek prepares one more, so `SubmitAll` may need `DEPTH + 1` SQEs. `README.md:140` asks for a queue *greater* than the depth; `scg_graph.hpp:41`, `foreactor.h:27` and the check in `env_vars.cpp` for one not smaller |
| `ImplementsIOEngine` | `IOUring`: `splits <- FALSE` in the mapping `E` | a batch is never submitted with a link at its end (`scg_nodes.cpp:363`: "could be problematic, so we prohibit that"), but the loop around `io_uring_submit` (`io_uring.cpp:77`) goes round again when only a part was taken; if the part ends in a link, the kernel ends the chain there, and the linked request may run first. `PreIssue`, `SCGraph` and `Buffers` assume that this does not happen |
| `WritesFaithful` | `Buffers_sparse_copy.cfg`: `Depth = 1`, `IBufs = {b1, b2}` | a linked pread is held back until the application calls it and then reads into the application's buffer (`syscalls.cpp:418`), while the pwrite linked to it takes the internal one, against the comment at `syscalls.cpp:392` |
| `WritesFaithful` | `Buffers_sparse_copy.cfg`: `Size = 9` | the pwrite of a short last block is generated with the length of a whole one (`sparse_copy_wrap.c:65`), which `CheckArgs` asserts against (`syscalls.cpp:698`) |
| `DependenciesKept` | `MCSCGraph`: `Built(WeakEdge, 1)` | the weak_edge demo's next `pwrite` can overtake the last `pread` of the iteration before, of the same bytes; its test uses depth 2, where the weak edge keeps the `pwrite` back |
| `SessionAsserts` | `DuFiles`: without its condition `NoEmptyList` | `fts_read` returns an empty directory between Pause and Resume (`fts.c:939`), and goes up from a directory of exactly `FTS_MAX_READDIR_ENTRIES` entries in the pause (`fts.c:965`); the next Pause fails the assertion at `foreactor.cpp:588`. In a build without assertions it forgets the paused graph, and the rest of the walk is not pre-issued |
| `PathnamesAgree` | `MCDuFiles`: `PlainTrees` at depth 3 | from `DEPTH=3` on the pointer also leaves the walk at the end of a list (`du_files_wrap.c:91`) |
| `IdsMatch` | `EntryId.cfg`: `Iterations = 9` | an epoch sum of 65536 does not fit its field; the assertion of `EncodeEntryId` catches it, a build without it packs a wrong id. For cp this is a file of 8 GiB, four times the benchmarks' size |
| `ResultsTransparent` | `MCSyscalls`: `MCReady == {}` | a pre-issued getdents whose destination is not known is submitted without a buffer (`syscalls.cpp:1168`; the comment at 1203 has it use the internal one). No plugin adds such a node |

Read from the code and outside the models:

* When cp leaves a session at a failed write, the reference counts of writes pre-issued
  further on survive `ResetValuePools` (`syscalls.cpp:518`). Such a buffer, once taken in a
  later session, is not given back before that session ends, and the pool may run empty.
* A wrapped function called inside another without a pause is served by the outer one's
  graph, and its Leave unregisters that graph (`foreactor.cpp:556`, `573`); a pause
  inside a pause, or recursion into a paused graph, is not supported either.
* Two threads that `read` or `write` on one descriptor may use the same offset
  (`posix_itf.cpp:187`, `221`); neither `O_APPEND` nor descriptors that cannot seek are
  provided for.
* version_get expects one pread per table searched. A block found in LevelDB's block
  cache, or a key that a filter excludes, makes none; the benchmarks turn the cache off
  (`--no_fill_cache`) and use no filter.
* The fstat of simple2's directory waits for nothing and may be pre-issued before the
  openat that creates a file in it. `Simple2Depends` leaves this pair out.
* B+-tree: Scan on a tree of one page indexes before the start of its path
  (`bptree.tpl.hpp:440`), so `ScansAgree` is about larger ones; a read that fails in
  Scan's loop, or a write in Load's, is thrown past the end of the session
  (`bptree.tpl.hpp:482`, `680`); Load rejects the key 0 that its description allows
  (`bptree.tpl.hpp:549`, `bptree.hpp:127`); a kill between `ftruncate` and the write of a
  new page leaves a file that is refused on opening; a kill in Load leaves pages of the
  tree that are still empty, which reopening puts on the free list.

## 7. What is left

What could be added: the construction calls with their panics; a proof about `DuFiles`
for directories read in one list; and `SCGraph` with its walks written as recursive
functions, as a first step to a proof that it implements `PreIssue`. The rest of the
repository is third-party code (coreutils, LevelDB, the vendored queue), benchmarks and
scripts.
