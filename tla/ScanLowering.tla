---------------------------- MODULE ScanLowering -----------------------------
(***************************************************************************)
(* The program an associative scan is lowered to, run by the warps of a     *)
(* CTA: each thread scans the registers that are next to each other along   *)
(* the axis, the lanes of a warp scan the last of these, and what the warps *)
(* and the blocks before have is then put in front: by shared memory, with  *)
(* a barrier, if several warps share the axis, by shuffles if one has it.   *)
(*                                                                         *)
(* The combine function is associative only, so a value is the sequence of  *)
(* the elements it was combined from, in order.                             *)
(***************************************************************************)
EXTENDS DistributedLayout, FiniteSets

CONSTANT Ops    \* scans: the layout and shape of the source, the axis, reverse

VARIABLES
    op,
    pc,         \* of each warp
    values,     \* srcValues, of each warp, lane and register
    smem        \* the scratch buffer: what has been stored, by offset

vars == <<op, pc, values, smem>>

src == op.layout
shape == op.shape
axis == op.axis
Lane == Lanes(src)
Warp == Warps(src)
Register == 1..getTotalElemsPerThread(src, shape)

-----------------------------------------------------------------------------
(* ScanLoweringHelper. *)

scanElementsPerThreads == src.size[axis]
parallelElementsPerThread == product([src.size EXCEPT ![axis] = 1])
scanDim == getThreadsPerWarpWithUniqueData(src, shape)[axis]
axisNumWarps == getWarpsPerCTAWithUniqueData(src, shape)[axis]
getNonAxisNumThreadsPerWarp == product([src.threads EXCEPT ![axis] = 1])
numParallelLane == getNonAxisNumThreadsPerWarp * product([src.warps EXCEPT ![axis] = 1])

Blocks == [d \in DOMAIN shape |-> ceil(shape[d], getShapePerCTATile(src)[d])]
numScanBlocks == Blocks[axis]
numParallelBlocks == product([Blocks EXCEPT ![axis] = 1])

elementStride == Stride(src.size, src.order, axis)
threadStride == Stride(src.threads, src.order, axis)
blockStride == Stride(Blocks, src.order, axis)

\* Mutant: the blocks are not counted.
getScratchSizeInElems_block == product(src.warps) * getNonAxisNumThreadsPerWarp * parallelElementsPerThread

getScratchSizeInElems ==
    product(src.warps) * getNonAxisNumThreadsPerWarp * parallelElementsPerThread
        * numScanBlocks * numParallelBlocks

-----------------------------------------------------------------------------
(* Lanes and warps along the axis, and across it. *)

laneIdAxis(lane) == delinearize(lane, src.threads, src.order)[axis]

warpIdAxis(w) ==
    LET id == delinearize(w, src.warps, src.order)[axis] % axisNumWarps
    IN  IF op.reverse THEN axisNumWarps - 1 - id ELSE id

parallelLaneId(w, lane) ==
    LET flat(id, sizes) ==
            linearize([delinearize(id, sizes, src.order) EXCEPT ![axis] = 0], [sizes EXCEPT ![axis] = 1], src.order)
    IN  flat(lane, src.threads) + flat(w, src.warps) * getNonAxisNumThreadsPerWarp

\* The lane that a lane gets a value from: its own if none is so far below.
shuffleUp(lane, delta) == IF lane >= delta THEN lane - delta ELSE lane

\* Registers and lanes, both reversed.
flipSrcValues(v) ==
    [lane \in Lane |->
        [n \in Register |-> v[Cardinality(Lane) - 1 - lane][Cardinality(Register) + 1 - n]]]


-----------------------------------------------------------------------------
(* Within a thread and a warp. *)

\* Mutant: registers count as next to each other as they are numbered.
accIndex_flat(n) == (n - 1) \div scanElementsPerThreads

\* The chunk register n is in: the ones next to each other along the axis.
accIndex(n) ==
    ((n - 1) % elementStride) + (((n - 1) \div elementStride) \div scanElementsPerThreads) * elementStride

scanThreadContiguousElements(v) ==
    [n \in Register |->
        FoldLeft(LAMBDA acc, m : IF accIndex(m) = accIndex(n) THEN acc \o v[m] ELSE acc,
                 <<>>, [m \in 1..n |-> m])]

isLast(n) == ((n - 1) \div elementStride) % scanElementsPerThreads = scanElementsPerThreads - 1
LastElements == SelectSeq([n \in Register |-> n], isLast)

\* One round: take in what the lane i before has.
ScanLanes(f, i) ==
    [lane \in Lane |-> IF laneIdAxis(lane) < i THEN f[lane]
                       ELSE f[shuffleUp(lane, i * threadStride)] \o f[lane]]

RECURSIVE ScanRounds(_, _)
ScanRounds(f, i) == IF i > scanDim \div 2 THEN f ELSE ScanRounds(ScanLanes(f, i), 2 * i)

warpScan(v) ==
    LET scanned == [n \in ToSet(LastElements) |-> ScanRounds([lane \in Lane |-> v[lane][n]], 1)]
    IN  [lane \in Lane |-> [n \in Register |-> IF isLast(n) THEN scanned[n][lane] ELSE v[lane][n]]]

-----------------------------------------------------------------------------
(* Chunks, numbered from 0 as their last elements are, and the accumulator  *)
(* each goes into: the chunks of a row share one.                           *)

LastOf(m) ==
    CHOOSE n \in ToSet(LastElements) : \E i \in 0..scanElementsPerThreads - 1 : m = n - i * elementStride

chunkId(n) == IndexIn(LastElements, n) - 1
blockId(n) == chunkId(n) \div parallelElementsPerThread
axisBlockId(n) == (blockId(n) \div blockStride) % numScanBlocks

accumulatorIndex(n) ==
    LET parallelBlockId == (blockId(n) % blockStride) + ((blockId(n) \div blockStride) \div numScanBlocks) * blockStride
    IN  (chunkId(n) % parallelElementsPerThread) + parallelBlockId * parallelElementsPerThread

\* The chunks that went into the accumulator of a chunk before it.
Before(n) == SelectSeq(LastElements, LAMBDA m : m < n /\ accumulatorIndex(m) = accumulatorIndex(n))

\* The registers of v with what is before them: own(n, lane) is the last of a
\* chunk, before(n, lane) goes in front of the others unless there is nothing.
UpdateChunks(v, own(_, _), before(_, _), nothing(_, _)) ==
    [lane \in Lane |->
        [m \in Register |->
            LET n == LastOf(m)
            IN  IF m = n THEN own(n, lane)
                ELSE IF nothing(n, lane) THEN v[lane][m]
                ELSE before(n, lane) \o v[lane][m]]]

-----------------------------------------------------------------------------
(* One warp has all of the axis. *)

laneIdLast(lane) ==
    linearize([delinearize(lane, src.threads, src.order) EXCEPT ![axis] = scanDim - 1], src.threads, src.order)

\* The last of chunk n, with what its accumulator has: the last of the chunk
\* before, from the last lane.
RECURSIVE OneWarp(_, _, _)
OneWarp(v, n, lane) ==
    IF axisBlockId(n) = 0 THEN v[lane][n]
    ELSE OneWarp(v, Last(Before(n)), IF scanDim = 1 THEN lane ELSE laneIdLast(lane)) \o v[lane][n]

\* What the rest of the chunk is given.
OneWarpBefore(v, n, lane) ==
    IF scanDim = 1 THEN OneWarp(v, n, lane)
    ELSE IF laneIdAxis(lane) = 0
         THEN IF axisBlockId(n) = 0 THEN v[lane][n] ELSE OneWarp(v, Last(Before(n)), laneIdLast(lane))
    ELSE OneWarp(v, n, shuffleUp(lane, threadStride))

AddPartialReduceOneWarp(v) ==
    UpdateChunks(v, LAMBDA n, lane : OneWarp(v, n, lane),
                    LAMBDA n, lane : OneWarpBefore(v, n, lane),
                    LAMBDA n, lane : axisBlockId(n) = 0 /\ laneIdAxis(lane) = 0)

-----------------------------------------------------------------------------
(* Several warps share the axis, and meet in shared memory. *)

Cell(chunk, warpId, parallel) == parallel + numParallelLane * (warpId + chunk * axisNumWarps)

Read(offset) == IF offset \in DOMAIN smem THEN smem[offset] ELSE <<"garbage">>

\* Where two of these writes meet with different values, anything is left.
Stored(writes) ==
    [o \in DOMAIN smem \cup {w[1] : w \in writes} |->
        LET now == {w[2] : w \in {u \in writes : u[1] = o}}
        IN  IF now = {} THEN smem[o] ELSE IF Cardinality(now) = 1 THEN CHOOSE x \in now : TRUE ELSE <<"garbage">>]

\* What `warps' of a chunk have stored, combined.
Partials(n, warps, w, lane) ==
    FoldLeft(LAMBDA acc, i : acc \o Read(Cell(chunkId(n), i - 1, parallelLaneId(w, lane))), <<>>, [i \in 1..warps |-> i])

\* The masked accumulator at chunk n: the blocks before, of all warps, and of
\* this block the warps before.  (The first warp has no use for the first.)
maskedAcc(n, w, lane) ==
    FoldLeft(LAMBDA acc, m : acc \o Partials(m, axisNumWarps, w, lane), <<>>, Before(n))
        \o Partials(n, warpIdAxis(w), w, lane)

FirstWarp(n, w) == axisBlockId(n) = 0 /\ warpIdAxis(w) = 0

ManyWarps(v, n, lane, w) == IF FirstWarp(n, w) THEN v[lane][n] ELSE maskedAcc(n, w, lane) \o v[lane][n]

AddPartialReduce(v, w) ==
    UpdateChunks(v, LAMBDA n, lane : ManyWarps(v, n, lane, w),
                    LAMBDA n, lane : IF laneIdAxis(lane) = 0 THEN maskedAcc(n, w, lane)
                                     ELSE ManyWarps(v, n, shuffleUp(lane, threadStride), w),
                    LAMBDA n, lane : FirstWarp(n, w) /\ laneIdAxis(lane) = 0)

-----------------------------------------------------------------------------
Init ==
    /\ op \in Ops
    /\ pc = [w \in Warp |-> "scan"]
    /\ values = [w \in Warp |-> [lane \in Lane |->
                    LET index == emitIndices(src, shape, lane, w) IN [n \in DOMAIN index |-> <<index[n]>>]]]
    /\ smem = <<>>

Goto(w, from, to) == pc[w] = from /\ pc' = [pc EXCEPT ![w] = to]

FlipIfReverse(v) == IF op.reverse THEN flipSrcValues(v) ELSE v

LastLanes == {lane \in Lane : laneIdAxis(lane) = scanDim - 1}

\* If several warps share the axis, the last of the lanes along the axis store
\* what they have.
storeWarpAccumulator(w) ==
    smem' = IF axisNumWarps = 1 THEN smem
            ELSE Stored({<<Cell(chunkId(n), warpIdAxis(w), parallelLaneId(w, lane)), values'[w][lane][n]>> :
                            lane \in LastLanes, n \in ToSet(LastElements)})

\* A warp scans on its own.
ScanWithinWarp(w) ==
    /\ Goto(w, "scan", "add")
    /\ LET v == FlipIfReverse(values[w])
       IN  values' = [values EXCEPT ![w] = warpScan([lane \in Lane |-> scanThreadContiguousElements(v[lane])])]
    /\ storeWarpAccumulator(w)
    /\ UNCHANGED op

\* A single register is done.
ScanAcrossBlocks(w) ==
    /\ axisNumWarps = 1
    /\ Goto(w, "add", "done")
    /\ values' = [values EXCEPT ![w] =
                     FlipIfReverse(IF Cardinality(Register) > 1 THEN AddPartialReduceOneWarp(values[w]) ELSE values[w])]
    /\ UNCHANGED <<op, smem>>

\* After the barrier: every warp has stored.
ScanAcrossWarps(w) ==
    /\ axisNumWarps > 1
    /\ \A u \in Warp : pc[u] # "scan"
    /\ Goto(w, "add", "done")
    /\ values' = [values EXCEPT ![w] = FlipIfReverse(AddPartialReduce(values[w], w))]
    /\ UNCHANGED <<op, smem>>

Step(w) == ScanWithinWarp(w) \/ ScanAcrossBlocks(w) \/ ScanAcrossWarps(w)

Over == (\A w \in Warp : pc[w] = "done") /\ UNCHANGED vars

Next == (\E w \in Warp : Step(w)) \/ Over

Spec == Init /\ [][Next]_vars

-----------------------------------------------------------------------------
\* The elements that come before an element in its row, and it, in order.
Prefix(e) ==
    IF op.reverse THEN [i \in 1..shape[axis] - e[axis] |-> [e EXCEPT ![axis] = shape[axis] - i]]
    ELSE [i \in 1..e[axis] + 1 |-> [e EXCEPT ![axis] = i - 1]]

Holds(w, lane) ==
    LET index == emitIndices(src, shape, lane, w)
    IN  values[w][lane] = [n \in DOMAIN index |-> Prefix(index[n])]

\* Every register of a lane that is not a copy of another along the axis
\* ends up with the elements up to its own, each once and in their order: for
\* every order in which the warps run, also in the warps that are copies.
RowsScanned ==
    \A w \in Warp, lane \in Lane :
        pc[w] = "done" /\ laneIdAxis(lane) * scanElementsPerThreads < shape[axis] => Holds(w, lane)

\* ... and so does a lane that is a copy.
CopiesScanned == \A w \in Warp, lane \in Lane : pc[w] = "done" => Holds(w, lane)

\* The scratch buffer is as large as the helper says.
InScratch == LET size == getScratchSizeInElems IN \A o \in DOMAIN smem : o < size

TypeOK ==
    /\ op \in Ops
    /\ pc \in [Warp -> {"scan", "add", "done"}]
    /\ \A w \in Warp, lane \in Lane : DOMAIN values[w][lane] = Register
    /\ smem # <<>> => axisNumWarps > 1

=============================================================================
