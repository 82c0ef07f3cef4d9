---------------------------- MODULE MCPipelining ----------------------------
(***************************************************************************)
(* Instances of the software pipeliners.  A behaviour follows one of        *)
(*   - PipelineExpander, on every schedule and every dependence of a small  *)
(*     loop body, for every small number of iterations,                     *)
(*   - CoarseSchedule, on loops with up to two chains of up to three loads, *)
(*     and AsyncCopies on those of them the device is modelled for,         *)
(*   - MacaAsyncPipeline, on two loads of a tile that takes two             *)
(*     instructions of which the pass counts one, one that takes one and    *)
(*     counts as none, one that counts as two, with a masked element that   *)
(*     the source program fills with a value of its own,                    *)
(*   - MacaPipeline, likewise.                                              *)
(* The passes are alternatives: no kernel goes through two of them.         *)
(***************************************************************************)
EXTENDS PipelineExpander, MacaAsyncPipeline, TLC

CONSTANTS
    a1, Filler, a, b,
    Stages,         \* the stages operations are put in
    Iterations,     \* the numbers of iterations
    MaxReads,       \* how many values an operation reads, besides IV
    MaxStages, MaxDepth, MaxTail, MaxIterations

\* An operation does not read its own result.
MCReads(o) == {{IV} \cup S : S \in {T \in SUBSET (Op \cup Arg) : Cardinality(T) <= MaxReads /\ o \notin T}}

MCBodies ==
    {r \in [Op -> UNION {MCReads(o) : o \in Op}] : \A o \in Op : r[o] \in MCReads(o)}

\* The first operation of the schedule has effects, the others have none.
MCLoop(r, s, y, n, u, how) ==
    [reads |-> r, yield |-> y, used |-> u, stage |-> s, pure |-> [o \in Op |-> o # 1],
     n |-> n, constant |-> how # "dynamic", peel |-> how = "peel"]

MCLoops ==
    {MCLoop(r, s, y, n, Arg, how) :
        r \in MCBodies, s \in [Op -> Stages], y \in [Arg -> Op \cup {Outside}],
        n \in Iterations, how \in {"dynamic", "constant", "peel"}}

MCLoopsPeeledRight == {l \in MCLoops : l.peel => l.n = 0 \/ l.n > StagesOf(l)}
MCAnyLoop == CHOOSE l \in MCLoopsPeeledRight : TRUE

MCChain == [depth : 1..MaxDepth, pointer : {"add", "load", "none"}]
MCPrograms ==
    [numStages : 2..MaxStages, chains : {<<x>> : x \in MCChain} \cup (MCChain \X MCChain),
     mma3 : BOOLEAN, ifBefore : BOOLEAN, ifAfter : BOOLEAN, tail : 0..MaxTail]

MCLayout(s, p, v) == [shape |-> <<s, 4>>, tile |-> <<4, 4>>, perThread |-> <<1, p>>, minVec |-> v, bits |-> 16]
MCLayouts == {MCLayout(4, 4, 2), MCLayout(2, 2, 2), MCLayout(8, 2, 2)}
MCMasks == {{<<1, 1>>}}
MCOthers == {[l \in Loads |-> Filler]}
MCSymmetry == Permutations(Warps)

ASSUME MCVectors == Vectors

VARIABLES
    pipeline,
    program, phase, schedule, clusters, todo, dist1Cluster, opToCluster, opOrder,
    iterations, step, position, slots, issued, groups, dots, read,
    prefetch

scheduleVars == <<program, phase, schedule, clusters, todo, dist1Cluster, opToCluster, opOrder>>
deviceVars == <<iterations, step, position, slots, issued, groups, dots, read>>
kernelVars == <<warpVars, numStages, layout, prefetch>>

Coarse == INSTANCE AsyncCopies
    WITH Programs <- {}, n <- iterations, part <- step, next <- position, event <- read, buffers <- slots

\* The conditions under which the schedule is valid.
MCValid ==
    {p \in MCPrograms :
        /\ Coarse!Shallow(p) /\ Coarse!ShallowFirst(p) /\ (p.ifAfter => p.tail < 2)
        /\ p.mma3 => \A c \in DOMAIN p.chains : p.chains[c].depth = 1}

\* The device reads no masks and follows no operation after the dot; the others
\* are only scheduled, whatever the number of iterations.
OnDevice(p) ==
    /\ ~p.ifBefore /\ ~p.ifAfter /\ (p.mma3 \/ p.tail = 0)
    /\ \A c \in DOMAIN p.chains : p.chains[c].depth < 3 /\ p.chains[c].pointer = "add"

Pipeliner == INSTANCE AsyncCopies
    WITH Programs <- MCValid, n <- iterations, part <- step, next <- position, event <- read, buffers <- slots
Maca == INSTANCE MacaPipeline
    WITH Masks <- {{<<1, 1>>, <<2, 2>>}}, Others <- MCOthers, SingleShm <- FALSE, Halves <- <<{1}, {2}>>

NoProgram ==
    /\ program = 0 /\ phase = 0 /\ schedule = 0 /\ clusters = 0 /\ todo = 0
    /\ dist1Cluster = 0 /\ opToCluster = 0 /\ opOrder = 0 /\ iterations = 0
    /\ step = 0 /\ position = 0 /\ slots = 0 /\ issued = 0 /\ groups = 0
    /\ dots = 0 /\ read = 0
NoKernel ==
    /\ prog = <<>> /\ trip = 0 /\ masked = {} /\ other \in MCOthers
    /\ parts = [l \in Loads |-> 0] /\ Started(0)
    /\ numStages = 0 /\ layout = 0 /\ prefetch = 0

MCInit ==
    \/ pipeline = "expander" /\ Init /\ NoProgram /\ NoKernel
    \/ /\ pipeline = "matmul" /\ loop = MCAnyLoop /\ Init /\ Pipeliner!DeviceInit /\ NoKernel
       /\ OnDevice(program) \/ iterations = 0
    \/ pipeline = "cpasync" /\ loop = MCAnyLoop /\ Init /\ NoProgram /\ AsyncInit /\ prefetch = 0
    \/ pipeline = "basic" /\ loop = MCAnyLoop /\ Init /\ NoProgram /\ Maca!Init /\ layout = 0

MCNext ==
    \/ pipeline = "expander" /\ Next /\ UNCHANGED <<pipeline, scheduleVars, deviceVars, kernelVars>>
    \/ /\ pipeline = "matmul"
       /\ Pipeliner!Schedule \/ (OnDevice(program) /\ Pipeliner!Device)
       /\ UNCHANGED <<pipeline, vars, kernelVars>>
    \/ /\ pipeline \in {"cpasync", "basic"}
       /\ WarpNext
       /\ UNCHANGED <<pipeline, vars, scheduleVars, deviceVars, numStages, layout, prefetch>>

MCSpec == MCInit /\ [][MCNext]_<<pipeline, vars, scheduleVars, deviceVars, kernelVars>>

\* Every operation has a stage and a cluster, and unrolled, none comes before
\* one it reads (scheduleLoads, createSchedule).
ScheduleValid == pipeline = "matmul" => Pipeliner!ScheduleDefined /\ Pipeliner!ScheduleValid

\* A load from a buffer, and a dot that reads its buffers as long as it is in
\* flight, read what the copies of their own iteration wrote; no wait waits for
\* more, and nothing is in flight when the buffers are deallocated
\* (createAsyncCopy, the number of buffers, updateWaits).
BuffersHoldOwnData ==
    pipeline = "matmul" =>
        /\ Pipeliner!LoadsReadOwnData /\ Pipeliner!DotsReadOwnData
        /\ Pipeliner!WaitsForNoMore /\ Pipeliner!NothingInFlight

=============================================================================
