--------------------------- MODULE ReduceLowering ----------------------------
(***************************************************************************)
(* The program a reduction is lowered to, run by the warps of a CTA: each   *)
(* thread reduces its registers, the lanes of a warp exchange their values  *)
(* by butterfly shuffles, and if several warps hold a row they meet in      *)
(* shared memory: the warps store, a second round of shuffles reduces what  *)
(* they stored, and every thread loads its results, with a barrier between. *)
(* The lanes of a warp run in step; the warps interleave.                   *)
(*                                                                         *)
(* A value is the set of elements it was combined from, and whether each of *)
(* them went in just once.                                                  *)
(***************************************************************************)
EXTENDS DistributedLayout, Bitwise, FiniteSets

CONSTANT Ops    \* reductions: the layout and shape of the source, and the axis

VARIABLES
    op,
    pc,         \* of each warp
    round,      \* the round of the second reduction
    partial,    \* acc, in the second reduction
    smem,       \* the scratch buffer: what has been stored, by offset
    result      \* the registers of the result

vars == <<op, pc, round, partial, smem, result>>

src == op.layout
shape == op.shape
axis == op.axis
Lane == Lanes(src)
Warp == Warps(src)

Garbage == [of |-> {}, once |-> FALSE]
Combine(x, y) == [of |-> x.of \cup y.of, once |-> x.once /\ y.once /\ x.of \cap y.of = {}]

-----------------------------------------------------------------------------
(* ReduceOpHelper. *)

getIntraWarpSizeWithUniqueData ==
    atMost(shape[axis] \div getUniqueContigPerThread(src, shape)[axis],
           getThreadsPerWarpWithUniqueData(src, shape)[axis])

getInterWarpSizeWithUniqueData ==
    atMost(shape[axis] \div getIntraWarpSizeWithUniqueData, getWarpsPerCTAWithUniqueData(src, shape)[axis])

isWarpSynchronous == getWarpsPerCTAWithUniqueData(src, shape)[axis] = 1

getScratchConfig == [shape EXCEPT ![axis] = getInterWarpSizeWithUniqueData]

getOrderWithAxisAtBeginning == <<axis>> \o SelectSeq(getOrder(src), LAMBDA d : d # axis)

\* The dimension of the blocked layout that dimension d of a slice of it is.
RECURSIVE getParentAxis(_, _)
getParentAxis(L, d) ==
    IF isSlice(L) THEN getParentAxis(getParent(L), IF d < getDim(L) THEN d ELSE d + 1) ELSE d

\* How far apart lanes are that are next to each other along the axis.
getThreadOffsetOnReductionAxis ==
    LET offset == Stride(getThreadsPerWarp(src), getOrder(src), axis)
    IN  IF getParentAxis(src, axis) = src.order[1] THEN 1
        ELSE IF isSlice(src) /\ getOrder(src)[axis] = 1 /\ getOrder(getParent(src))[getDim(src)] = 1
             THEN offset * getThreadsPerWarp(getParent(src))[getDim(src)]
             ELSE offset

-----------------------------------------------------------------------------
(* Within a warp. *)

\* Registers of the source, by the row of the result they go into.
KeyOf(offset) == [offset EXCEPT ![axis] = 0]
RegistersOf(key) ==
    LET offset == emitOffsetForLayout(src, shape) IN {n \in DOMAIN offset : KeyOf(offset[n]) = key}
Keys == {KeyOf(offset) : offset \in ToSet(emitOffsetForLayout(src, shape))}

\* Registers with offsets of their own.
UniqueOffsets ==
    LET offset == emitOffsetForLayout(src, shape)
    IN  {n \in DOMAIN offset : \A m \in 1..n - 1 : offset[m] # offset[n]}

\* The registers' elements combined: each went in once if no two are the same.
Combined(index, registers) ==
    LET elements == {index[n] : n \in registers}
    IN  [of |-> elements, once |-> Cardinality(elements) = Cardinality(registers)]

reduceWithinThreads(lane, warp, key) ==
    Combined(emitIndices(src, shape, lane, warp), RegistersOf(key) \cap UniqueOffsets)

shuffleXor(values, lane, mask) ==
    IF (lane ^^ mask) \in DOMAIN values THEN values[lane ^^ mask] ELSE Garbage

\* Reduce `size' lanes that are `interleave' apart.
RECURSIVE warpReduce(_, _, _)
warpReduce(values, size, interleave) ==
    IF size < 2 THEN values
    ELSE warpReduce([lane \in DOMAIN values |->
                        Combine(values[lane], shuffleXor(values, lane, (size \div 2) * interleave))],
                    size \div 2, interleave)

\* For each row and lane.
reduceWithinWarps(warp) ==
    [key \in Keys |-> warpReduce([lane \in Lane |-> reduceWithinThreads(lane, warp, key)],
                                 getIntraWarpSizeWithUniqueData, getThreadOffsetOnReductionAxis)]

-----------------------------------------------------------------------------
(* The result: a slice of the source along the axis, or a scalar. *)

resultLayout == Slice(axis, src)
resultShape == RemoveAt(shape, axis)

resultIndices(lane, warp) ==
    IF resultShape = <<>> THEN <<<<>>>> ELSE emitIndices(resultLayout, resultShape, lane, warp)

packResults(acc, lane) ==
    IF resultShape = <<>> THEN <<acc[CHOOSE key \in Keys : TRUE][lane]>>
    ELSE LET offset == emitOffsetForLayout(resultLayout, resultShape)
         IN  [n \in DOMAIN offset |-> acc[InsertAt(offset[n], axis, 0)][lane]]

-----------------------------------------------------------------------------
(* Shared memory. *)

Read(offset) == IF offset \in DOMAIN smem THEN smem[offset] ELSE Garbage

\* Lanes of a warp store together: where two store different values at one
\* offset, what is there then is anything.
Stored(writes) ==
    [o \in DOMAIN smem \cup {w[1] : w \in writes} |->
        LET values == {w[2] : w \in {u \in writes : u[1] = o}}
        IN  IF values = {} THEN smem[o]
            ELSE IF Cardinality(values) = 1 THEN CHOOSE v \in values : TRUE ELSE Garbage]

\* Mutant: the warps that are copies of others along the axis keep their numbers.
getMultiDimWarpId_all(warp) == delinearize(warp, src.warps, src.order)

\* Only the immediate parent of a slice is asked.
getMultiDimWarpId(warp) ==
    IF isSlice(src)
    THEN RemoveAt(delinearize(warp, getWarpsPerCTA(getParent(src)), getOrder(getParent(src))), getDim(src))
    ELSE delinearize(warp, [src.warps EXCEPT ![axis] = getWarpsPerCTAWithUniqueData(src, shape)[axis]], src.order)

\* The element a key stands for: its first register.
IndexOfKey(key, lane, warp) ==
    emitIndices(src, shape, lane, warp)[Min(RegistersOf(key))]

laneZero(lane) ==
    delinearize(lane, getThreadsPerWarpWithUniqueData(src, shape), getOrder(src))[axis] = 0

-----------------------------------------------------------------------------
Init ==
    /\ op \in Ops
    /\ pc = [w \in Warp |-> "store"]
    /\ round = [w \in Warp |-> 0]
    /\ partial = [w \in Warp |-> <<>>]
    /\ smem = <<>>
    /\ result = [w \in Warp |-> <<>>]

Goto(w, from, to) == pc[w] = from /\ pc' = [pc EXCEPT ![w] = to]

\* All of a row is in one warp: its lanes have the results.
ReduceWarpSynchronous(w) ==
    /\ isWarpSynchronous
    /\ Goto(w, "store", "done")
    /\ result' = [result EXCEPT ![w] = LET acc == reduceWithinWarps(w)
                                       IN  [lane \in Lane |-> packResults(acc, lane)]]
    /\ UNCHANGED <<op, round, partial, smem>>

\* Several warps share a row: each stores what it has of it.
storeWarpReduceToSharedMemory(w) ==
    /\ ~isWarpSynchronous
    /\ Goto(w, "store", "load")
    /\ LET acc == reduceWithinWarps(w)
           warpIdAxis == getMultiDimWarpId(w)[axis]
       IN  smem' = Stored({<<linearize([IndexOfKey(key, lane, w) EXCEPT ![axis] = warpIdAxis],
                                       getScratchConfig, getOrderWithAxisAtBeginning),
                             acc[key][lane]>> : key \in Keys, lane \in {l \in Lane : laneZero(l)}})
    /\ UNCHANGED <<op, round, partial, result>>

\* A barrier: no warp is still at one of these places.
sync(before) == \A v \in Warp : pc[v] \notin before

elems == product(getScratchConfig)
numThreads == Cardinality(Warp) * Cardinality(Lane)
elemsPerThread == IF elems < numThreads THEN 1 ELSE elems \div numThreads
threadId(w, lane) == w * Cardinality(Lane) + lane
readOffset(w, lane) == threadId(w, lane) + round[w] * numThreads
threadIsNeeded(w, lane) == threadId(w, lane) < elems

\* Mutant: no barrier before the second reduction.
AccumulateLoad_early(w) ==
    /\ Goto(w, "load", "write")
    /\ partial' = [partial EXCEPT ![w] =
                      warpReduce([lane \in Lane |-> IF threadIsNeeded(w, lane) THEN Read(readOffset(w, lane))
                                                    ELSE Garbage],
                                 getInterWarpSizeWithUniqueData, 1)]
    /\ UNCHANGED <<op, round, smem, result>>

\* accumulatePartialReductions: a round's loads and shuffles, after the first
\* barrier.
AccumulateLoad(w) ==
    /\ sync({"store"})
    /\ Goto(w, "load", "write")
    /\ partial' = [partial EXCEPT ![w] =
                      warpReduce([lane \in Lane |-> IF threadIsNeeded(w, lane) THEN Read(readOffset(w, lane))
                                                    ELSE Garbage],
                                 getInterWarpSizeWithUniqueData, 1)]
    /\ UNCHANGED <<op, round, smem, result>>

\* The first lane of each group stores what the group has reduced.
AccumulateStore(w) ==
    /\ Goto(w, "write", IF round[w] + 1 < elemsPerThread THEN "load" ELSE "result")
    /\ smem' = Stored({<<readOffset(w, lane), partial[w][lane]>> :
                          lane \in {l \in Lane : threadIsNeeded(w, l) /\ l % getInterWarpSizeWithUniqueData = 0}})
    /\ round' = [round EXCEPT ![w] = @ + 1]
    /\ partial' = [partial EXCEPT ![w] = <<>>]
    /\ UNCHANGED <<op, result>>

\* Where a thread finds a result: the tile of the result may be larger than
\* the scratch buffer, which then holds it once.
ReadIdx(index) ==
    [d \in DOMAIN shape |->
        IF d = axis THEN 0
        ELSE LET r == IF d < axis THEN d ELSE d - 1
             IN  IF getShapePerCTATile(resultLayout)[r] > getScratchConfig[d] \/ resultShape[r] > getScratchConfig[d]
                 THEN index[r] % getScratchConfig[d] ELSE index[r]]

\* The results, after the second barrier.
loadReductionAndPackResult(w) ==
    /\ sync({"store", "load", "write"})
    /\ Goto(w, "result", "done")
    /\ result' = [result EXCEPT ![w] =
                     [lane \in Lane |->
                         LET index == resultIndices(lane, w)
                         IN  [n \in DOMAIN index |->
                                 IF resultShape = <<>> THEN Read(0)
                                 ELSE Read(linearize(ReadIdx(index[n]), getScratchConfig,
                                                     getOrderWithAxisAtBeginning))]]]
    /\ UNCHANGED <<op, round, partial, smem>>

Step(w) ==
    \/ ReduceWarpSynchronous(w)
    \/ storeWarpReduceToSharedMemory(w)
    \/ AccumulateLoad(w)
    \/ AccumulateStore(w)
    \/ loadReductionAndPackResult(w)

Over == (\A w \in Warp : pc[w] = "done") /\ UNCHANGED vars

Next == (\E w \in Warp : Step(w)) \/ Over

Spec == Init /\ [][Next]_vars

-----------------------------------------------------------------------------
\* The elements of the source that an element of the result stands for.
Row(index) == {e \in Elements(shape) : RemoveAt(e, axis) = index}

\* Every register of the result holds the reduction of its row, with every
\* element of the row in it, and in it once: for every order in which the
\* warps run, and in every lane and warp that holds a copy.
RowsReduced ==
    \A w \in Warp : pc[w] = "done" =>
        \A lane \in Lane :
            LET index == resultIndices(lane, w)
            IN  result[w][lane] = [n \in DOMAIN index |-> [of |-> Row(index[n]), once |-> TRUE]]

\* The scratch buffer is as large as the helper says: what is stored beyond
\* it is stored over another buffer.
InScratch == smem = <<>> \/ LET size == elems IN \A o \in DOMAIN smem : o < size

\* Each warp is at a step of the reduction, with results only at its end
\* (ReduceOpConversion::matchAndRewrite).
TypeOK ==
    /\ op \in Ops
    /\ pc \in [Warp -> {"store", "load", "write", "result", "done"}]
    /\ round \in [Warp -> 0..elemsPerThread]
    /\ \A w \in Warp : /\ partial[w] # <<>> <=> pc[w] = "write"
                       /\ result[w] # <<>> <=> pc[w] = "done"

=============================================================================
