# Verification of the mcTriton compiler and runtime in TLA+

This directory holds TLA+ models of parts of mcTriton (the MetaX fork of the
Triton compiler, built with `USE_MACA`), TLC configurations that check them on
small instances, and proofs for the TLA+ proof system.

## The system and its parts

A kernel written in Python is translated to Triton IR, lowered through TritonGPU
IR by a list of passes, given shared memory and barriers, lowered to LLVM IR and
to a binary, cached on disk, and launched by the Python runtime. Proton profiles
launches.

| part | state | operations | hard behaviour |
|---|---|---|---|
| Membar (`lib/Analysis/Membar.cpp`) | per block input and output sets of pending reads and writes, a worklist, the barriers inserted so far | visit a block, insert a barrier, propagate to successors, summarise the function | a fixed-point loop that changes the program it analyses; stale sets; termination |
| Allocation (`lib/Analysis/Allocation.cpp`) | live ranges, offsets, interference graph | place, colour, move, repeat | buffers that share memory must not be live together; termination |
| Call graph (`include/triton/Analysis/Utility.h`) | functions, edges, visit order | post-order walk | callees before callers; recursion |
| Alias analysis | lattice values per SSA value | transfer functions, join | soundness |
| AxisInfo (`lib/Analysis/AxisInfo.cpp`) | contiguity, divisor, constancy and constant per value; the solver's queue | transfer functions, join, visit of loop counters | arithmetic facts that must hold of every element, at the boundaries of integers; facts of a loop found before its bounds |
| Layouts, LinearLayout (`Dialect/TritonGPU/IR`, `lib/Tools`) | layouts, bases | conversion, product, composition | two derivations of the same indices must agree, for tensors smaller and larger than the layout |
| Lowering of reductions, scans, conversions | registers, scratch memory | shuffles, stores, barriers, loads | warps in any order between barriers; lanes that hold copies |
| Software pipeliner (`Transforms/Pipeliner`) | stage and cluster of each operation, versions of values, buffers | schedule, expand, insert waits | each operation once per iteration, in an order that respects dependences; buffers reused too early; waits that are too weak |
| MACA pipelines (`PipelineAsyncBase.cpp`, `PipelineMACA.cpp`, `PrefetchMACA.cpp` of `third_party/metax`) | slots of buffers, copies in flight, warps | copy, arrive, barrier, local load and store, dot | barriers placed by hand that no analysis checks |
| Compile cache, `compile()` | files, groups of files | get, put, put_group | processes racing, crashes between writes, evicted entries |
| JIT (`jit.py`) | hashes, globals seen, kernels in memory and on disk | run, set source, set global, restart | stale hashes; a key that does not tell two launches apart |
| Autotuner (`autotuner.py`) | choices per key, choices on disk, the caller's tensors | call, benchmark with hooks, choose, persist | state left over after a failure, processes that share a file |
| Proton sessions (`Session.cpp`, `profile.py`, `scope.py`) | sessions, active ones, paths, interface counts, scopes of threads | start, activate, deactivate, finalize, scopes, operations | sessions that share one profiler and change inside scopes |
| Proton profilers (`CuptiProfiler.cpp`, `RoctracerProfiler.cpp`, `GPUProfiler.h`) | correlations, records in flight, data objects | launch callbacks, buffer callback, flush | activity records arriving late, out of order and on another thread |
| Front end, IR bindings, rewriting passes, other backends, tools | | | not modelled, see `PROJECT.json` |

The parts interact by calls in one process (the passes), by shared memory
offsets (Allocation feeds Membar), by the file system (cache) and by callbacks
(Proton).

## What is modelled, and how it corresponds to the code

Source paths are relative to `src/`. The line numbers behind every definition
are in `PROJECT.json`, under `map`. Each module begins with a comment that says
what a state and a step of it are.

### Barriers in one function: `BlockInfo`, `Membar`, `MembarKernel`

`BlockInfo` has the intervals and the pairs of interval sets of
`Allocation.h` and `Membar.h`: `Join`, `IsIntersected` (read after write, write
after read, write after write) and, independently of the code, what a race on a
byte is.

`Membar` is `MembarAnalysis::resolve` and `update` on one function. One action
is one step of the sequential code:

| action | code |
|---|---|
| `PopFront` | `blockList.pop_front()`, and the copy of the block's input |
| `SkipIntrinsic`, `SyncAtBarrier`, `BarrierAfterWait`, `UpdateAccess` | `update()` of one operation, by kind: it may insert a barrier and joins the operation's accesses |
| `SkipSuccessors`, `UpdateSuccessors` | the test for a fixed point, or the join of the output and of the successors' inputs |
| `Summarise` | the join over the returning blocks into `funcBlockInfoMap` |

The barriers are a set of places in the code, so that a revisit finds those an
earlier visit has inserted. What the local copy `inputBlockInfo` held at every
operation is kept as history, for the invariant; the code has the last of these
values only. `DisableOptMACA` is the environment variable
`TRITON_DISABLE_MACA_OPT_MMA`.

`MembarKernel` composes it with the execution of the function it has rewritten:
one thread block runs along any path, and `pending` holds what its threads have
accessed since the last barrier on that path. The lowered operations are outside
these sources and marked external. Operations `update()` skips (intrinsic ones,
unless the variable is set) are skipped in the execution too: the passes that
create them place their barriers themselves, which is not modelled. `NoRace`
says nothing of them.

### Modules of functions: `ModuleMembar`

`CallGraph::build` and `doWalk` with an explicit stack of activations,
`ModuleMembarAnalysis::run` on each function in post order, and the execution of
the lowered module: calls pass a base of shared memory to their callee as
`promoteOperands`, `getStackPointer` and `getSharedMemoryBase` compute it. A
function is one block here; control flow inside functions is what `Membar` is
for. The places of buffers and the sizes of functions, which `ModuleAllocation`
has computed, are inputs; `MCModuleMembar!Allocated` keeps those it may compute.

### Offsets: `Allocation`, `MemoryLayout`

`Allocation` is `computeOffsets` on N buffers with a size, an alignment and a
live range each. `DropTriple` and `PlaceStart` are the packing loop of
`calculateStarts` over its multimap of triples, `FirstRound` and `NextRound`
build the interference graph, `Color` is the first-fit colouring, `Bump` moves
the coloured buffers and accumulates the total size, `Finish` ends the loop.
Buffers are numbered in the order in which the code iterates over them; the runs
try every assignment of requests to numbers, because scratch and virtual buffers
come in the hash order of a DenseMap.

`MemoryLayout` is what the rest of the compiler relies on: in one step every
buffer gets an aligned place, buffers that are live together are apart, all is
within the total size. `Allocation` is shown to implement it
(`LayoutSpec`, an `INSTANCE` with the offsets shown once `pc = "done"`).

### The cache of compiled kernels: `CompileCache`

`compile()`, `FileCacheManager` and `CompiledKernel` for one key. Processes act
at the same time on the files of one directory; one action is one system call
that matters to others (existence test, open and read, replace) or the local
step between them. `LookUp` to `ChildrenChecked` are `get_group`, `Decide` is the
test for a hit, `OpenTemp`, `WriteTemp` and `Replace` are `put()`, called for
each stage, the metadata and the group in this order, `ReadMetadata` to
`TakeKernel` are `CompiledKernel.__init__`. Every read has a failing counterpart
(FileNotFoundError, StopIteration, KeyError). A process may be interrupted
between any two steps (`Crash`; an exception of a stage is the same), start again
(`Restart`), and a file may be deleted (`Evict`). A file's content is what it was
compiled from (`version`: whatever compilation depends on and the key leaves
out), whether it was written to its end and, in the group file, its
`child_paths`. Temporary files have unique names (pid, uuid): each is local to
its process. `evicted` and `evictions` are history variables.

### Layouts: `DistributedLayout`, `LinearLayout`, `LinearLayoutAlgebra`, `LinearLayoutConversion`, `ConvertLayout`

`DistributedLayout` has blocked layouts, slices of them and the layouts of matrix
instructions (versions 2 and 3): tile shapes, replication, the elements each
register of each lane holds (`emitIndices` without linear layouts).
`LinearLayout` is the class of that name over sets of bits, `LinearLayoutAlgebra`
multiplies and composes layouts and compares the result with the functions they
stand for, `LinearLayoutConversion` is `toLinearLayout`, one operation a step,
with its assertions as a property. `ConvertLayout` is the program a
`convert_layout` is lowered to, run by warps: replicas, vectors, scratch buffer.

### Reductions and scans: `ReduceLowering`, `ScanLowering`

The lowered programs run by the warps of a block, in any order between barriers.
A value of a reduction is the set of elements it combines and whether each went
in once, a value of a scan the sequence of them, as the combine function is not
commutative. What lies outside what a warp has written is garbage.

### Facts about integers: `AxisInfoVisitors`, `AxisInfo`, `AxisInfoFlow`

`AxisInfoVisitors` has the rule of every operation next to what the operation
computes, on 16-bit integers (`Width`). `AxisInfo` applies chains of operations;
`AxisInfoFlow` is the data-flow solver on functions with loops, and then the function
as it runs. The solver visits the points of the function once in order (`VisitFirst`),
and then those whose operands changed since, in any order (`VisitAgain`), which
includes MLIR's first-in-first-out worklist. The bounds of the inner loops do not
lose a divisor after the counter was visited: the code does not pass that on
(`:1231` below).

### Software pipelining: `LoopDataflow`, `PipelineExpander`, `CoarseSchedule`, `AsyncCopies`

`LoopDataflow` is what pipelining promises: every operation once per iteration
after what it reads, in any other order, and the results of the last iteration.
`PipelineExpander` is `pipelineForLoop`: prologue, kernel and epilogue are
emitted and run one operation a step, with the versions of values, the
predication, the selects and the rotated arguments of the kernel; it is shown to
implement `LoopDataflow` (`ImplementsLoop`). `CoarseSchedule` is
`preProcessLoopAndGetSchedule` on a loop with one dot and chains of loads,
`AsyncCopies` runs its schedule on a device where a copy lands at any time after
its commit and a wait counts groups (`updateWaits`).

### Kernels of the MetaX pipelines: `WarpKernel`, `MacaAsyncPipeline`, `MacaPipeline`

`WarpKernel` runs a straight-line kernel of copies, arrives, barriers, local
loads, stores and dots on several warps. A kernel is a sequence of blocks (an iteration's
copies in the prologue, a pass through the loop's body, the epilogue), and a warp's
place (`at`) is a block and an operation of it. The other two write that kernel as
`PipelineAsyncBase.cpp` ("cpasync"), `PipelineMACA.cpp` ("basic") and
`PrefetchMACA.cpp` do, unrolled. What the device does is external and taken from
how the passes use it: a warp's copies land in order, an arrive waits for the
warp's own, a local load is over at the warp's next barrier. A load's tile has `parts`
copies a thread; `other` is what the source program gives masked elements.

### The runtime: `JITSpecialize`, `JITFunction`, `Autotuner`

`JITSpecialize` has the two derivations of `JITFunction.run`: the key the
generated binder computes on every launch, and what a kernel is compiled to rely
on. `JITFunction` has the hashes, the values of globals, the kernels in memory
and on disk, for kernels that call functions; the program assigns sources and
globals between launches and is run again. A launch that finds no kernel is a
step for each call that is visited: `finders` is the stack of `DependenciesFinder`s
that reading `cache_key` recursively makes, so that an exception leaves what it
leaves. `KernelsCurrent` has the conditions under which the code finds the right
kernel in its premises (assigned sources, callees' sources, runs, exceptions). `Autotuner` has a call from the look-up
of its key to the launch: hooks, repetitions of the benchmark, failures, the
choice, the temporary file and its replacement, in several processes that
restart. `Tables` to `TunerInv` are its invariant.

### Proton: `ProtonSession`, `ProtonProfiler`

A call of the Python interface holds the interpreter lock and the manager's
mutex: in `ProtonSession` it is one step. Calls are made in every order, by every
thread and on every id, also of sessions that are gone or never were, inside
scopes and operations; `makeSession` may throw, the driver may raise in a call that
starts, flushes or stops the profiler (`Interrupted`; the call ends there and what
it has assigned stays), a launch may fail after its enter hook (`LaunchFails`). Where
the code uses an object that does not exist the process ends, and `died` says by
which call. `midScope` and `midOp` are histories: the sessions that have missed the
beginning or the end of a scope or an operation, `failed` those an error of the
driver was about. `ProtonProfiler` has a launch as the
steps of its callbacks (runtime and driver API, nested or not), the buffer
callback record by record, and the user's thread through activation, flush with
its retries, and finalisation, for both backends (`driver`). Histories (`launch`,
`watchers`, ...) say what happened and guard nothing.

### Instances: the `MC*` modules

A run that has several components follows one of them, chosen by a variable in
the initial state (`part`, `pass`, `layouts`, `lowering`); the others stay in
their initial states. They share no state, so this checks what one run for each
would, and a property that is a conjunction of implications names the component
of each conjunct.

## What the runs check

| run | module, cfg | shows |
|---|---|---|
| membar_loops | MCMembar, MembarLoops | for a one-block loop and a nest of two, filled with all short lists of operations: no race on any path of the rewritten function (`NoRace`), the summary covers what is pending at a return, the loop invariant of `resolve()` (`FixpointInv`) |
| membar_acyclic | MCMembar, MembarAcyclic | the analysis ends on conditionals, early returns and one-branch conditionals (the exit is visited before the branch), with intrinsic operations analysed |
| module_membar | MCModuleMembar, ModuleMembar | callees first, every function analysed once the walk is over (`AllAnalysed`), no race between an operation and its own function or one that has returned to it (`NoRaceAfterCall`), the invariant of the walk |
| allocation_rounds | MCAllocation, AllocationRounds | five buffers in every order, dense ones and those where bumping makes new conflicts and several rounds are needed: each round separates, nothing moves down, the rounds end, the layout is correct (`LayoutSpec`) |
| compile_cache | MCCompileCache, CompileCache | two processes, two runs each, one deletion: entries complete, no failure without a deletion, no needless compilation |
| proton | MCProton, Proton | sessions, with two threads, errors of the driver, starts that throw and launches that fail: manager, profiler and interfaces agree and the process ends in the known ways only (`RegistryAgrees`), no profile is lost or written twice, a session that misses no scope has those that are open, and one that misses no operation has none in progress after it (`ScopesMatched`); profiler: a launch is counted at most once, under its scope, and by every data object registered throughout; a flush returns |
| pipelining | MCPipelining, Pipelining | the expanded loop, however short, runs every operation once per iteration on the operands of that iteration and implements the source loop; coarse schedules are valid; buffers and operands hold the data of their own iteration, with copies landing late and warps in any order; none is in flight after the loop (`QuietAfterLoop`) |
| layouts | MCLayouts, Layouts | conversions deliver every element, within the buffer and aligned; linear layouts hold the indices the other lowering computes; products and compositions mean what they should |
| lowering | MCLowering, Lowering | rows are reduced and scanned, each element once and in order, within the scratch buffer |
| axis_info | MCAxisInfo, AxisInfo | what is claimed of a tensor is true of its elements along chains and through loops, and the solver ends |
| runtime | MCRuntime, Runtime | a tuned launch has a configuration found for its key, one that fits where it was timed, on tensors updated once (`TunedLaunch`); launches run kernels of the current sources and globals, under the conditions it names (`KernelsCurrent`); a key decides (`KeyDecides`); calls end |

One run is violated, and is the finding in `PROJECT.json`:

| run | finding |
|---|---|
| membar_loop_ends | `Membar.cpp:64` joins a block's output but compares the stored output with the recomputed one: after a barrier is inserted on a revisit the two stay different and the worklist never empties (`dot C; store B` in a loop body is enough, for which no test exists) |

### Where the code does not do what it says

These were met while modelling. Each was seen as a counterexample of TLC, for the
definition named or for a property without the exception named; no run is kept for
them. The models do what the code does there, and the properties of the passing runs
except it, as narrowly as they can, or are stated for instances without it.

* Barriers and memory.
  `Allocation.cpp:544`: the rounds are argued to end because conflicts shrink; their
  number may stay the same (`ConflictsReduce`). The rounds end in every instance.
  `ControlFlowOpToLLVM.cpp:83` asks the function, not the call, for its offset;
  the attribute is never there, and a callee works on top of its caller's live
  buffers (`CallerBuffersKept` of `ModuleMembar`). `Membar.cpp:72`: a summary
  holds what dangles at a return only, so that an access before a barrier inside
  the callee is not ordered after the caller's (`NoRace` of `ModuleMembar`).
  `Utility.h:337`: nothing is ever inserted in `visited`; recursion is walked
  without end and the fatal error is unreachable (`NoReentry`).
* Compile cache. The key has the environment variables of one list only; the MACA
  code reads others with `std::getenv` (`Membar.cpp:104` among them), and a process
  gets a kernel compiled under another setting (`KernelAsAsked`).
* Pipeliner. `PipelineExpander.cpp:159`: the number of iterations is compared with
  `maxStage` before it is computed, and a constant loop that is too short is
  pipelined: its prologue runs operations of iterations there are none of
  (excepted in `RunsOnce`). `:597`: a value used after the loop and defined before
  the last stage is not that of the last iteration if the loop ends before the
  prologue has come to the definition (excepted by `Returned`). `:322`: an argument
  yielded a value from outside the loop has its first value too long (excepted in
  `RightOperands`). `MatmulLoopPipeline.cpp:700`: with two
  stages, or more levels of loads than stages, a load is scheduled with or before
  that of its pointer; `:852`: a map is keyed by the address of a local variable;
  `:892`: an iterator to nothing is read (`ScheduleValid`, `ScheduleDefined`).
* MetaX pipelines. The asynchronous copy writes zero for masked elements whatever
  `other` is, and no pass skips such a load (`LoadedOrZero` says where); with `is-single-shm` a warp that is ahead
  overwrites the operand another has yet to load (`DotsUseOwnIteration`).
* Reductions and scans. A slice reduced along another dimension combines lanes
  that hold one element when the order is not row-major, delinearises lanes
  without those of the sliced dimension, and stores beyond the buffer when warps
  hold copies (`RowsReduced`, `InScratch`); lanes that hold copies of the scanned
  elements take them in again (`CopiesScanned`), and with `reverse` their results
  replace the right ones; with one lane along the axis the carry between blocks is
  the block's own last element (`RowsScanned`).
* Layouts. The batch index of a matrix instruction is not taken modulo the batch
  (`SameIndices`); the constructor of linear layouts checks surjectivity of each
  out dimension alone (`EveryIndexCovered`).
* AxisInfo (`AxisInfo.cpp`). `:281` differences get the contiguity of sums; `:425`
  quotients of negative numbers are not grouped as claimed; `:311`, `:1118`, `:1332`
  divisors of sums of ranges, of minima and of joins are of groups of another length,
  which makes `getPtrAlignment` (`:1378`) too large; `:1023` a shift by a divisor
  instead of the distance; `:565` the `other` of a masked load is not looked at;
  `:248` negative constants are read as unsigned; `:1231` a loop counter keeps its
  first divisor when the bound changes (`ContiguityHolds`, `ConstancyHolds`,
  `ConstantHolds`, `DivisibilityHolds`, `VectorsAligned`).
* JIT (`jit.py`). `:392` `None` for an annotated parameter may have the key of an integer,
  and a kernel compiled for the one is launched with the other (`NoneMissed`); `True`
  has that of 1, of which the kernel is not another but its constant is
  (`TrueIsOne`);
  `:819` kernels in memory survive an assignment of `src`; `:759` a caller's hash does
  not follow its callee's source; `:667` a kernel compiled for a global's new value
  is found when the old one is back; `:763` a kernel on disk knows nothing of globals
  (`KeyDecides`; the premises of `KernelsCurrent`, each of which is needed).
* Autotuner (`autotuner.py`). `:114` what a configuration's hook writes is in the copy
  that restores the tensor, so that a call that was benchmarked is launched on what
  the hooks of all configurations have written; `:163` a persisted choice has no
  hook; `:196` the key's places ignore arguments that are not given, and a key need
  not tell calls apart whose resources differ; `:204` an edited list of
  configurations is not seen. `TunedLaunch` does not promise otherwise (below).
* Proton. `CuptiProfiler.cpp:210`: a launch that creates its context is correlated
  with the dummy scope. `RoctracerProfiler.cpp:318`: flush compares largest ids and
  stops before earlier launches are reported. `unregisterData` is not seen by a
  buffer callback in progress (`DeactivatedStaysQuiet`), and finalising destroys
  data that callbacks still use (`DataInUseExists`).
* Proton's sessions (`Session.cpp` unless said otherwise). `:82` activating a session
  that was finalised or never started dereferences null, and is the end of the
  process: neither `activateSession` nor `profile.py:75` asks whether there is one
  (`died = "activate"`). `:117` the path is entered before `makeSession` may throw
  for an unknown backend, context or data; it stays taken, and the next `start()`
  with it dereferences null (`died = "start"`). `:81`, `:91`, `:138` an error of the
  driver while the profiler starts, flushes or stops leaves a session active that is
  not registered, inactive that still is, or written but not removed; later a source
  or data object may be called that was destroyed (`died = "freed"`). `:53`
  finalising a session stops the profiler of all (`ActiveProfiled`). A session
  deactivated inside a scope keeps it (`ContextsOpen`); one activated or started
  inside a scope makes its end raise, and the sessions after it are not told; a
  session deactivated while a kernel is launched, or told of a launch that then fails
  (`driver.py:256`), keeps the operation in progress, and the next one is not
  recorded. `Data.cpp:17` does not notice that a file cannot be opened: what
  `NoProfileLost` counts as written is the attempt.

As long as calls pass on the caller's own base, the intervals of a summary are in
the coordinates of the caller. If that is mended, `update()` must shift a summary
by the offset of the call, too, which it does not do today.

### Bounds, and why they are enough

* Functions of `Membar` have up to four blocks and two operations in a block,
  out of nine kinds over three buffers: two that overlap and one that touches the
  second. A hazard needs two operations and a path between them; a loop, a nest
  and a merge visited before one of its predecessors are the ways the order of
  visits can differ from the order of execution. `MaxBlockList` bounds the worklist
  in the run without termination; functions on which the analysis does not end
  (the finding above) are followed until the worklist gets that long. Infinite
  visiting is seen in membar_loop_ends, where the state space itself is finite.
* Three functions of up to three operations give a call graph with a shared
  callee (a diamond) and two levels of calls, two roots when 1 does not call all
  others, and calls repeated in one function. `MaxDepth` bounds the walk; it is
  reached under recursion only.
* The five live ranges of allocation_rounds were chosen because with them bumping
  out of one conflict causes the next one. `SizeMax` bounds the sum of rounds and is
  not reached.
* Two processes can overtake each other at every point; a second run of each finds
  what the first left behind when it was cut off. Two stages are one that is
  kept on demand (`llir`) and one that is the kernel (`mcfatbin`); further stages
  behave as one of them. `MaxEvictions = 1`: after a deletion only
  `EntryComplete` claims anything, and it is about a single file.
* Two sessions over two paths, two threads, two scopes open and one error of the
  driver (`MaxSessions`, `MaxDepth`, `MaxErrors`): enough for sessions that replace,
  follow and overlap one another, for one that changes inside a scope while the other
  does not, and for one that an error has left behind. A behaviour has scopes or
  operations (`part`), which share no state but the sessions; `FewOpen` bounds what
  both threads have open together, and the second thread's scopes to behaviours with
  one session; after the error one scope and one thread are left. Threads, paths and
  names can be exchanged, so the first of each that is used is t1, p1 and n1
  (`FirstOfEach`). The profiler has one data object, two launches on two streams and
  one retry: two launches are needed for records out of order, one retry for a flush
  that gives up.
* Three operations in up to three stages (all schedules, each operation reading one
  other value, one argument carried) have every distance between definition and use
  that the kernel distinguishes: none, one and two stages; none to three iterations
  are fewer than, and as many as, there are stages, or more. A peeled loop has more
  iterations than stages, or none, which `PipelineExpander.cpp:135` means to check and
  no pass needs, as none has an epilogue peeled. Chains have up to three loads;
  those with masks or operations after the dot are scheduled but not run. Two warps and
  two or three stages of the MetaX pipelines, up to three iterations: each buffer is
  used again.
* Tensors are smaller, as large as and larger than a tile; warps have four lanes and
  blocks have up to four warps: each of the dimensions can be replicated, split
  and wrapped. Linear layouts of the algebra have up to two bases a dimension of
  two bits. All are in the constants of the `MC` modules.
* Chains of AxisInfo have two to six operations over ranges of four or eight
  elements, with the constants, multiples and pointers kernels use; loops run up to
  twice. A rule is local: a wrong one shows on the first operation, or on the second
  that relies on it.
* Two tuning processes with two calls each and one failure or restart between them;
  two kinds of calls the key does not tell apart, for one of which a configuration
  does not fit, and one that leaves an argument out, which moves the key's place; two
  lists of two configurations and one of one, between which a restart changes; hooks
  that write the restored tensor; two repetitions of a benchmark and two timings.
  `Bits32` and `Bits64` are 6 and 8: what matters is that the types nest and end where
  they do. Two parameters a launch.
* Four programs: two kernels that call one function, whose global one of the kernels
  uses too, with all sources edited between two runs, or with globals assigned three
  times; a kernel whose source is assigned in each of two runs; a kernel that calls
  itself after another function. Each premise of `KernelsCurrent` is met by one.

### Fairness

Safety runs assume none. Termination of `resolve()` is checked under weak
fairness of the analysis, termination of `computeOffsets` under weak fairness of
its next step: both are sequential loops of one thread that nothing blocks.
`AnalysisEnds` assumes the same of the solver's visits. `FlushReturns` assumes weak
fairness of the flushing thread's own steps and of the driver's delivery of a
buffer that a forced flush waits for, which its documentation promises.
`CallsEnd` assumes weak fairness of each process that is in a call: nothing there
waits for another process. Kernels, compiling processes and launches get no
fairness; nothing live is claimed of them.

## What is proved

TLAPS checks the following for all values of the constants, from the named
assumptions in the modules (well-formed functions, modules and loops, requests
with a positive alignment and a non-empty live range, distinct names, arguments
of the kinds a launch can have). The theorems about cpasync kernels have one hypothesis
besides `Spec`, `Vectors`: a condition on constants that the layouts the code makes
satisfy and TLC evaluates. No other theorem has any.

* **`MembarProofs`.** `FixpointInv` is inductive. `NoRace` alone is not: while the
  loop runs, nothing has been executed. The invariant says, for every block
  visited, that what reaches each operation (`visitInfo`) is behind a barrier or
  does not conflict with it and flows on to the next (`PrefixCovered`,
  `VisitedCovered`), that stored outputs flow into the successors' inputs unless
  the successor is still queued (`OutputsFlow`), and, once resolved, that what is
  pending in the execution is below what the analysis found there
  (`ExecutionCovered`). Barriers are only ever added, which shrinks what is in
  flight: this is why a revisit that cuts off accesses keeps the invariant, and
  why the same fact defeats termination. `NoRace`, `SummaryCoversDangling` and
  `TypeOK` follow.
* **`ModuleMembarProofs`.** `ModuleInv`: the activations below the top of the walk
  lead to final functions but for the call they are in (`WalkSound`), the passed
  roots are final, the analysis of each function is right as far as it has got,
  and every entry pending in an execution frame is below what was in flight
  there. `CalleesFirst` and `NoRaceAfterCall` follow, for every call graph and
  every depth.
* **`AllocationProofs`.** `RoundInv`: while a buffer is unplaced some triple meets
  its live range, the graph of a round is symmetric, the colouring is proper, and a
  bumped buffer is above every neighbour that will not move any more.
  From it: `TripleMapCovers`, `RoundSeparates`, `OffsetsGrow`, and that
  `Allocation` implements `MemoryLayout`.
* **`CompileCacheProofs`.** `CacheInv`: files that have got their names are whole; a
  group file names what a kernel needs, and what it names has been there; what a
  process that looks up, stores or reads has in its `metadata_group`. Another
  process's step can only add files, or delete them with a mark, which every
  part of the invariant survives (`OthersKept`). From it: `EntryComplete`,
  `FailsOnlyAfterEviction`, `NothingPartialRead`, `EntryUsed`.
* **`ProtonProofs`, sessions.** All hold for any number of threads, sessions and
  errors, without further hypotheses. `SessionInv` is the type invariant with
  `RegistryAgrees` and `NoProfileLost`; an error interrupts a session and is noted
  (`failed`), the process ends by a null session only if the id has none.
  `ScopesMatched` has an invariant of its own, `ScopeInv`: with profiling off, the
  sessions left are those of an interrupted call (`OffInv`); a data object that has
  missed nothing is in an operation only while its thread launches, is active, and
  will be told of the end (`OpInv`); a source that has missed nothing holds the one
  thread's open scopes if its session is active, and else nothing (`StackInv`); and
  as long as no session has missed anything, what is open was begun with profiling
  as it is (`CalmInv`). A session that misses a beginning or an end
  leaves the promise, and the theorem says that it takes no other with it.
* **`ProtonProofs`, profiler.** `LaunchesCountedOnce` says at most once, under the
  right scope and by whoever was registered throughout; that holds at the end of a
  long chain: correlation recorded, kernel enqueued, record delivered, external id
  known, data object told. `ProfilerInv` says of every launch where in this chain it
  is, for each thread's callback, the record being processed and the user's flush;
  what is in the streams and in the buffer is counted once between them.
* **`PipeliningProofs`, expander.** `ExpanderInv`: with a clock that counts the parts of
  prologue, kernel and epilogue, stage s works on iteration clock - s (`Clock`,
  `Passed`); every version recorded for a value is what its part computed, and every
  rotated argument of the kernel what was computed that many parts ago. From it:
  `OperationsRunOnce`, and step by step the refinement `ImplementsLoop`, for all
  loops. Where the code fails (above) the properties say how far: operations beyond
  the last iteration run in the prologue of constant loops only, and count as none of
  the source loop's; an argument yielded from outside has no definition to be early
  or late with; what is returned is the last value of every argument but those
  `Returned` names.
* **`PipeliningProofs`, cpasync.** Nothing in the kernel counts iterations: the
  invariant does. `Issued`, `Arrives`, `Barriers` and `HeldIter` say, of a place in the
  kernel, how many iterations of a load have been copied there, how many arrives and
  barriers passed, and which iteration's operands are held. `AsyncInv`: warps have
  passed the same number of barriers (`InStep`); a warp's copies in flight have been issued and are not
  of an iteration waited for (`CopiesIssued`), are in the order of iterations
  (`CopiesOrdered`), and with one all later ones are in flight (`CopiesClosed`); what has
  landed stays until its buffer is copied to again (`BuffersFilled`), which a warp does
  only behind the barrier at which all have loaded it; operands are those of
  `HeldIter` (`OperandsHeld`). The step that matters is an arrive: if a copy waited for
  were still in flight, so would be all copies of the iterations after it, which are
  more than the arrive allows. That needs `Vectors`, that a thread issues no fewer copies
  than `getGVMNumberPerOp` counts, which holds because a vector has 128 bits at most and
  a thread's elements are whole vectors. `StagesAssumption` is the pass's own test
  (a loop is pipelined with two stages or more). Masks and what the source gives masked
  elements are arbitrary: `DotsUseOwnIteration` says that these are zero where the
  load became a copy, which is what the code does (above). `MCPipelining` has TLC
  evaluate `Vectors` on its instance.
* **`RuntimeProofs`.** `KeyDecides`: what the key tells of an argument (`TypeTells`,
  `KeyTells`) is all that the specialisation asks about it, for all parameters and all
  integers of the widths, for all arguments a launch can give (`Accepted`), `None` and
  booleans for annotated parameters among them. What the key misses is named in the
  property, parameter by parameter: one that is given `None` in one of the two launches
  only, behind an annotation, is excepted; one that is given `True` and 1 is not, but
  that the two would have been compiled with the one constant or the other.
  `TunedLaunch`: `TunerInv` says, of every process at every point of a call, what it has
  found, evaluated and measured and how the tensors stand (`CallInv`, `BenchInv`,
  `ChosenInv`), and of memory and files that each choice was evaluated for its key
  (`CacheInv`, `FileInv`). It needs no condition on hooks, lists or keys: hooks write
  the restored tensor, a restart may change the list, and calls with one key may have
  different resources. It promises accordingly: that what is launched was found for
  the key from a list that was benchmarked as a whole, that it fits only where this
  call timed it, and that its hook was called unless it came from a file.
  `KernelsCurrent`, for every program, calls that never end among them:
  `JitInv` says of the finders at work that their functions are different and have no
  hash, and that all they were found to call has one (`FindersInv`); of a hash that it
  is that of the sources there are, and of what is noted of a function that it covers
  what is noted of those it calls (`HashInv`); and of each kernel, in memory
  (`MemoryInv`) and on disk (`DiskInv`), that it is right for the place where it is
  found. A hash on disk belongs to sources of another run; that these are the present
  ones if the hash is (`HashDecides`) would be an induction over calls: in its place,
  the functions on which both agree are a set closed under calls, and what a function
  reaches is the smallest one.

Only model-checked:

* liveness, which is out of the prover's reach: the two `Termination` properties,
  `FlushReturns`, `AnalysisEnds`, `CallsEnd`;
* what rests on recursive operators, for which the provers lose their SMT backend:
  the properties of layouts, lowerings and AxisInfo (`TensorConverted`,
  `LinearLayoutSame`, `AlgebraMeans`, `RowsReducedInScratch`, `RowsScanned`,
  `ChainsKnown`, `LoopsKnown`);
* `ScheduleValid` and `BuffersHoldOwnData`, and `DotsUseOwnIteration` and
  `QuietAfterLoop` for the kernels of `MacaPipeline`: see the plan;
* `AllAnalysed` of `ModuleMembar`: that every function lies below a root needs
  induction over paths of the call graph.

The definitions in parentheses in the list above are violated by the code and are
neither in a run nor proved.

## What is not modelled

* Where buffers, sizes and live ranges come from (`getValuesAndSizes`,
  `resolveLiveness`, the alias analysis): inputs of the models.
* `mapFuncOp` and `mapCallOp` of the call graph; functions of several blocks that
  also call each other.
* Casts, hints, unsigned operations, `scf.if` and `scf.while` in AxisInfo; layouts of
  version 1 matrix instructions, dot operands and shared memory; the lowering of
  elementwise operations, histograms, asserts and atomics.
* In the pipeliners: the choice of loads and layouts, TMA copies and stores,
  outer loops; the full-stage variant, swizzled masks and the saddr optimisation of
  the MetaX pipelines.
* `RemoteCacheManager` and the override and dump managers; errors of the disk
  other than missing files; the effect of a partial write of the operating system
  under an already replaced name (no fsync).
* Launch hooks, preload and several devices of the JIT; `prune_configs`, user
  hooks, `Heuristics` and warm-up of the autotuner.
* Proton's trees, metric values and output; the scope that the launch hook opens
  around the computation of metadata (`hook.py`). Python contexts are told apart from
  shadow ones only by not being told of scopes.
* Everything listed in `PROJECT.json` as `not_modelled`: IR rewrites whose
  correctness is a statement about tensors, code generation, other targets.

## Plan

1. Prove `DotsUseOwnIteration` of `MacaPipeline` as for `MacaAsyncPipeline`: its
   kernel has stores in the place of copies, and arguments that go from one iteration
   to the next, which must become a function of the iteration.
2. Prove `BuffersHoldOwnData` of `AsyncCopies`, from `ScheduleValid` as an
   assumption on the order of operations; then the schedule itself.
3. Safety forms of the termination arguments: barriers and stored outputs only
   grow, the solver's facts only fall.
4. Liveness and alias analysis as the source of `Allocation`'s requests, and the
   composition of Allocation and Membar: an execution never reads a byte that
   another buffer's owner has written.
5. `RemoteCache` (`cache.py` 169-243): a backend that loses entries.
