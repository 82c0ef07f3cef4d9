-------------------------- MODULE DistributedLayout --------------------------
(***************************************************************************)
(* Distributed layouts: which elements of a tensor each lane of each warp   *)
(* holds, and in which registers.  A layout is a blocked layout, or the     *)
(* slices taken of one: a record with the size, threads and warps per       *)
(* dimension, the order of the dimensions, fastest first, and the           *)
(* dimensions sliced off, the first slice first.  Dimensions are counted    *)
(* from 1.  There is one CTA.                                               *)
(***************************************************************************)
EXTENDS Integers, Sequences, SequencesExt

Blocked(size, threads, warps, order) ==
    [size |-> size, threads |-> threads, warps |-> warps, order |-> order, sliced |-> <<>>]
Slice(dim, parent) == [parent EXCEPT !.sliced = Append(@, dim)]

isSlice(L) == L.sliced # <<>>
getParent(L) == [L EXCEPT !.sliced = Front(@)]
getDim(L) == Last(L.sliced)

ceil(a, b) == (a + b - 1) \div b
atMost(a, b) == IF a < b THEN a ELSE b
product(s) == FoldLeft(LAMBDA x, y : x * y, 1, s)

-----------------------------------------------------------------------------
(* Linear indices. *)

IndexIn(s, e) == CHOOSE i \in DOMAIN s : s[i] = e

\* The step of dimension d in an array of this shape and order.
Stride(shape, order, d) ==
    product([i \in 1..IndexIn(order, d) - 1 |-> shape[order[i]]])

linearize(index, shape, order) ==
    FoldLeft(LAMBDA x, y : x + y, 0, [d \in DOMAIN shape |-> index[d] * Stride(shape, order, d)])

delinearize(linear, shape, order) ==
    [d \in DOMAIN shape |-> (linear \div Stride(shape, order, d)) % shape[d]]

\* As delinearize, but the slowest dimension is not wrapped.
getMultiDimIndex(linear, shape, order) ==
    [d \in DOMAIN shape |->
        IF d = Last(order) THEN linear \div Stride(shape, order, d)
        ELSE (linear \div Stride(shape, order, d)) % shape[d]]

-----------------------------------------------------------------------------
(* What a layout says of each dimension. *)

eraseOrder(order, dim) ==
    LET kept == SelectSeq(order, LAMBDA d : d # dim)
    IN  [i \in DOMAIN kept |-> IF kept[i] > dim THEN kept[i] - 1 ELSE kept[i]]

RECURSIVE getOrder(_)
getOrder(L) == IF isSlice(L) THEN eraseOrder(getOrder(getParent(L)), getDim(L)) ELSE L.order

paddedShape(shape, dim) == InsertAt(shape, dim, 1)

\* A slice counts the threads and warps of the sliced dimension in the next.
Folded(parent, dim) ==
    LET rest == RemoveAt(parent, dim)
        next == IF dim <= Len(rest) THEN dim ELSE dim - 1
    IN  [rest EXCEPT ![next] = @ * parent[dim]]

RECURSIVE getSizePerThread(_)
getSizePerThread(L) ==
    IF isSlice(L) THEN RemoveAt(getSizePerThread(getParent(L)), getDim(L)) ELSE L.size

RECURSIVE getThreadsPerWarp(_)
getThreadsPerWarp(L) ==
    IF isSlice(L) THEN Folded(getThreadsPerWarp(getParent(L)), getDim(L)) ELSE L.threads

RECURSIVE getWarpsPerCTA(_)
getWarpsPerCTA(L) ==
    IF isSlice(L) THEN Folded(getWarpsPerCTA(getParent(L)), getDim(L)) ELSE L.warps

getWarpSize(L) == product(getThreadsPerWarp(L))

RECURSIVE getThreadsPerWarpWithUniqueData(_, _)
getThreadsPerWarpWithUniqueData(L, shape) ==
    IF isSlice(L)
    THEN RemoveAt(getThreadsPerWarpWithUniqueData(getParent(L), paddedShape(shape, getDim(L))), getDim(L))
    ELSE [d \in DOMAIN shape |-> atMost(L.threads[d], shape[d])]

RECURSIVE getWarpsPerCTAWithUniqueData(_, _)
getWarpsPerCTAWithUniqueData(L, shape) ==
    IF isSlice(L)
    THEN RemoveAt(getWarpsPerCTAWithUniqueData(getParent(L), paddedShape(shape, getDim(L))), getDim(L))
    ELSE [d \in DOMAIN shape |-> atMost(L.warps[d], ceil(shape[d], L.size[d] * L.threads[d]))]

RECURSIVE getUniqueContigPerThread(_, _)
getUniqueContigPerThread(L, shape) ==
    IF isSlice(L)
    THEN RemoveAt(getUniqueContigPerThread(getParent(L), paddedShape(shape, getDim(L))), getDim(L))
    ELSE [d \in DOMAIN shape |-> atMost(shape[d], L.size[d])]

RECURSIVE getShapePerCTATile(_)
getShapePerCTATile(L) ==
    IF isSlice(L) THEN RemoveAt(getShapePerCTATile(getParent(L)), getDim(L))
    ELSE [d \in DOMAIN L.size |-> L.size[d] * L.threads[d] * L.warps[d]]

RECURSIVE getElemsPerThread(_, _)
getElemsPerThread(L, shape) ==
    IF isSlice(L)
    THEN RemoveAt(getElemsPerThread(getParent(L), paddedShape(shape, getDim(L))), getDim(L))
    ELSE [d \in DOMAIN shape |-> ceil(shape[d], getShapePerCTATile(L)[d]) * L.size[d]]

getTotalElemsPerThread(L, shape) == product(getElemsPerThread(L, shape))

-----------------------------------------------------------------------------
(* The elements of a lane: a base that depends on lane and warp, and an     *)
(* offset for each register.                                                *)

emitOffsetForBlockedLayout(L, shape) ==
    LET tile == getShapePerCTATile(L)
        tilesPerDim == [d \in DOMAIN shape |-> ceil(shape[d], tile[d])]
        total == product(L.size)
    IN  [n \in 1..getTotalElemsPerThread(L, shape) |->
            LET tileId == getMultiDimIndex((n - 1) \div total, tilesPerDim, L.order)
                elemId == getMultiDimIndex((n - 1) % total, L.size, L.order)
            IN  [d \in DOMAIN shape |-> (tileId[d] * tile[d] + elemId[d]) % shape[d]]]

\* A sequence without the elements that occurred before.
Deduplicated(s) == FoldLeft(LAMBDA t, x : IF Contains(t, x) THEN t ELSE Append(t, x), <<>>, s)

RECURSIVE emitOffsetForLayout(_, _)
emitOffsetForSliceLayout(L, shape) ==
    LET parent == emitOffsetForLayout(getParent(L), paddedShape(shape, getDim(L)))
        unique == Deduplicated([n \in DOMAIN parent |-> RemoveAt(parent[n], getDim(L))])
    IN  [n \in 1..getTotalElemsPerThread(L, shape) |-> unique[((n - 1) % Len(unique)) + 1]]
emitOffsetForLayout(L, shape) ==
    IF isSlice(L) THEN emitOffsetForSliceLayout(L, shape) ELSE emitOffsetForBlockedLayout(L, shape)

emitBaseIndexWithinCTAForBlockedLayout(L, shape, lane, warp) ==
    LET warpId == delinearize(warp, L.warps, L.order)
        threadId == delinearize(lane, L.threads, L.order)
    IN  [d \in DOMAIN shape |->
            L.size[d] * ((threadId[d] % ceil(shape[d], L.size[d]))
                         + (warpId[d] % ceil(shape[d], L.size[d] * L.threads[d])) * L.threads[d])]

RECURSIVE emitBaseIndexForLayout(_, _, _, _)
emitBaseIndexForLayout(L, shape, lane, warp) ==
    IF isSlice(L)
    THEN RemoveAt(emitBaseIndexForLayout(getParent(L), paddedShape(shape, getDim(L)), lane, warp), getDim(L))
    ELSE emitBaseIndexWithinCTAForBlockedLayout(L, shape, lane, warp)

emitIndices(L, shape, lane, warp) ==
    LET base == emitBaseIndexForLayout(L, shape, lane, warp)
        offset == emitOffsetForLayout(L, shape)
    IN  [n \in DOMAIN offset |-> [d \in DOMAIN shape |-> base[d] + offset[n][d]]]

-----------------------------------------------------------------------------
Lanes(L) == 0..getWarpSize(L) - 1
Warps(L) == 0..product(getWarpsPerCTA(L)) - 1

\* The elements of a tensor.
Elements(shape) ==
    {[d \in DOMAIN shape |-> (x \div product(SubSeq(shape, 1, d - 1))) % shape[d]] : x \in 0..product(shape) - 1}

-----------------------------------------------------------------------------
(* The layouts of the results of matrix instructions, versions 2 and 3: the *)
(* last two dimensions of a tensor, with rows of 4 lanes that hold 2        *)
(* elements each, 8 rows of lanes, and the same again 8 rows below.  A      *)
(* layout is a record with the version, the shape of the instruction and    *)
(* the warps per dimension; M and N are the last two dimensions.            *)

Mma(version, instr, warps) == [version |-> version, instr |-> instr, warps |-> warps, sliced |-> <<>>]
isMma(L) == "version" \in DOMAIN L

DimM(L) == Len(L.warps) - 1
DimN(L) == Len(L.warps)

\* Slowest dimension last; version 3 takes the warps column by column.
warpOrder(L) == IF L.version = 3 THEN <<1, 2>> ELSE Reverse([d \in DOMAIN L.warps |-> d])

mmaShapePerCTATile(L) ==
    [d \in DOMAIN L.warps |->
        L.warps[d] * (IF d = DimM(L) THEN 16 ELSE IF d # DimN(L) THEN 1 ELSE IF L.version = 3 THEN L.instr[2] ELSE 8)]

\* The two elements of a lane in a row, and those 8 rows below.
Fragment(L, i, j) ==
    LET at(row, column) == [d \in DOMAIN L.warps |-> IF d = DimM(L) THEN row ELSE IF d = DimN(L) THEN column ELSE 0]
    IN  <<at(i, j), at(i, j + 1), at(i + 8, j), at(i + 8, j + 1)>>

\* The multiples of step below n.
Strided(n, step) == [k \in 1..ceil(n, step) |-> (k - 1) * step]

emitOffsetForMmaLayoutV2(L, shape) ==
    FlattenSeq([k \in 1..ceil(shape[DimM(L)], mmaShapePerCTATile(L)[DimM(L)]) |->
        FlattenSeq([l \in 1..ceil(shape[DimN(L)], mmaShapePerCTATile(L)[DimN(L)]) |->
            Fragment(L, (k - 1) * mmaShapePerCTATile(L)[DimM(L)], (l - 1) * mmaShapePerCTATile(L)[DimN(L)])])])

emitOffsetForMmaLayoutV3(L, shape) ==
    FlattenSeq([k \in 1..ceil(shape[1], mmaShapePerCTATile(L)[1]) |->
        FlattenSeq([l \in 1..ceil(shape[2], mmaShapePerCTATile(L)[2]) |->
            FlattenSeq([h \in 1..ceil(L.instr[2], 8) |->
                Fragment(L, (k - 1) * mmaShapePerCTATile(L)[1],
                         (l - 1) * mmaShapePerCTATile(L)[2] + (h - 1) * 8)])])])

\* The warps that hold different elements along M or N.
mmaWarps(L, shape, perCTA, d) ==
    LET rep == (L.warps[d] * L.instr[d]) \div perCTA[d]
    IN  IF rep > 1 THEN L.warps[d] \div rep ELSE shape[d] \div L.instr[d]

emitBaseIndexWithinCTAForMmaLayoutV2V3(L, shape, perCTA, lane, warp) ==
    LET warpId == delinearize(warp, L.warps, warpOrder(L))
        offWarp(d) == (warpId[d] % mmaWarps(L, shape, perCTA, d)) * L.instr[d]
    IN  [d \in DOMAIN L.warps |->
            IF d = DimM(L) THEN (lane \div 4) + offWarp(d)
            ELSE IF d = DimN(L) THEN 2 * (lane % 4) + offWarp(d)
            ELSE warpId[d]]

\* A lane's elements per dimension; perCTA is the part of the shape that a CTA has.
mmaElemsPerThread(L, perCTA) ==
    [d \in DOMAIN L.warps |->
        IF d = DimM(L) THEN 2 * ceil(perCTA[d], 16 * L.warps[d])
        ELSE IF d # DimN(L) THEN ceil(perCTA[d], L.warps[d])
        ELSE IF L.version = 3 THEN (L.instr[2] \div 4) * ceil(perCTA[d], L.instr[2] * L.warps[d])
        ELSE 2 * ceil(perCTA[d], 8 * L.warps[d])]

\* Where the lowering is defined: the dimensions that are not sliced away are no
\* smaller than the instruction.
mmaDefined(L, shape, perCTA) ==
    \A d \in {DimM(L), DimN(L)} \ ToSet(L.sliced) : mmaWarps(L, shape, perCTA, d) # 0

\* The indices of a lane, with at most one dimension sliced away.
mmaIndices(L, shape, perCTA, lane, warp) ==
    LET kept == SelectSeq([d \in DOMAIN shape |-> d], LAMBDA d : d \notin ToSet(L.sliced))
        base == emitBaseIndexWithinCTAForMmaLayoutV2V3(L, shape, perCTA, lane, warp)
        offset == IF L.version = 3 THEN emitOffsetForMmaLayoutV3(L, perCTA) ELSE emitOffsetForMmaLayoutV2(L, perCTA)
        keptOffset == [n \in DOMAIN offset |-> [k \in DOMAIN kept |-> offset[n][kept[k]]]]
        unique == IF L.sliced = <<>> THEN keptOffset ELSE Deduplicated(keptOffset)
        elems == product([k \in DOMAIN kept |-> mmaElemsPerThread(L, perCTA)[kept[k]]])
    IN  [n \in 1..(IF L.sliced = <<>> THEN Len(offset) ELSE elems) |->
            [k \in DOMAIN kept |-> base[kept[k]] + unique[((n - 1) % Len(unique)) + 1][k]]]

=============================================================================
