----------------------- MODULE LinearLayoutConversion ------------------------
(***************************************************************************)
(* The conversion of a blocked layout, slices of one, or the layout of a    *)
(* matrix instruction to a linear layout, one operation a step.  The layout of the CTA   *)
(* is grown and shrunk to the part of the shape that a CTA has; blocks come *)
(* on top; then the slices drop dimensions, innermost first.                *)
(***************************************************************************)
EXTENDS LinearLayout, DistributedLayout

CONSTANTS
    Ops        \* records layout (see DistributedLayout), shape, ctas, split and ctaOrder

Dims(n) == [d \in 1..n |-> d]      \* standardOutDimNames

VARIABLES
    op,        \* what is converted
    pc,
    ll,        \* the linear layout in hand
    cga,       \* that of the blocks
    todo,      \* <<out, in>>: the dimensions yet to be shrunk, in order
    level      \* the slices applied

vars == <<op, pc, ll, cga, todo, level>>

-----------------------------------------------------------------------------
\* The layout before slices are taken, and its shape.
RECURSIVE rootShape(_, _)
rootShape(L, shape) ==
    IF isSlice(L) THEN rootShape(getParent(L), paddedShape(shape, getDim(L))) ELSE shape

SlicedTo(L, n) == [L EXCEPT !.sliced = SubSeq(@, 1, n)]

RECURSIVE shapeAt(_, _, _)
shapeAt(L, shape, n) ==
    IF Len(L.sliced) = n THEN shape ELSE shapeAt(getParent(L), paddedShape(shape, getDim(L)), n)

\* What is said of each dimension of the parent, without the sliced ones.
Dropped(L, s) == FoldLeft(LAMBDA t, dim : RemoveAt(t, dim), s, L.sliced)

Shape == rootShape(op.layout, op.shape)
Rank == Len(Shape)

\* The product of identities of the sizes, the fastest dimension first.
identityND(in, shape, order) ==
    FoldLeft(LAMBDA L, dim : Times(L, identity1D(shape[dim], in, dim)), emptyLayout, order)

makeCgaLayout(ctas, split, order) ==
    transposeOuts(FoldLeft(LAMBDA L, dim :
                      Times(L, Times(identity1D(split[dim], "block", dim),
                                     zeros1D(ctas[dim] \div split[dim], "block", dim))),
                      emptyLayout, order),
                  Dims(Len(order)))

-----------------------------------------------------------------------------
(* Shrinking: locations of one dimension are made to hold the same index.   *)

\* Mutant: bases that are zero already count.
basesToZero_any(L, in, out, desiredZeros) ==
    {L.bases[in][i][out] : i \in {j \in DOMAIN L.bases[in] : Len(L.bases[in]) - j < desiredZeros}} \ {{}}

\* The slowest bases of a dimension that are not zero, as many as asked for.
basesToZero(L, in, out, desiredZeros) ==
    LET nonZero == {i \in DOMAIN L.bases[in] : L.bases[in][i][out] # {}}
    IN  {L.bases[in][i][out] : i \in {j \in nonZero : Cardinality({k \in nonZero : k > j}) < desiredZeros}}

\* The map of coordinates that takes out the bits.
removeBits(L, out, bits) ==
    [outs |-> L.outs,
     bases |-> [in \in OutDims(L) |-> [i \in 1..getOutDimSizeLog2(L, in) |-> [o \in OutDims(L) |->
        IF o # in THEN {}
        ELSE IF in # out THEN {i - 1}
        ELSE IF i - 1 \in bits THEN {}
        ELSE {(i - 1) - Cardinality({b \in bits : b < i - 1})}]]]]

shrinkCodomain(L, in, out, desiredSize) ==
    LET desiredZeros == Log2(getOutDimSize(L, out) \div desiredSize)
        bases == basesToZero(L, in, out, desiredZeros)
    IN  IF bases = {} THEN L ELSE compose(L, removeBits(L, out, UNION bases))

\* What ensureLayoutNotLargerThan shrinks: each dimension that is too large,
\* along warps, lanes, registers and blocks.
ToShrink(L, shape) ==
    LET large == SelectSeq(L.outs, LAMBDA o : getOutDimSize(L, o) > shape[o])
        ins == SelectSeq(<<"warp", "lane", "register", "block">>, LAMBDA i : hasInDim(L, i))
    IN  FlattenSeq([k \in DOMAIN large |-> [i \in DOMAIN ins |-> <<large[k], ins[i]>>]])

ensureLayoutNotSmallerThan(L, shape) ==
    FoldLeft(LAMBDA M, out : Times(M, identity1D(shape[out] \div getOutDimSize(L, out), "register", out)),
             L, L.outs)

ctaShape == [d \in 1..Rank |-> LET part == Shape[d] \div getOutDimSize(cga, d) IN IF part < 1 THEN 1 ELSE part]

-----------------------------------------------------------------------------
\* Removes a dimension; those above are numbered anew.
sliceTransform(L, dim) ==
    FoldLeft(LAMBDA T, out :
        Times(T, IF out = dim THEN zeros1D(getOutDimSize(L, out), out, 1)
                 ELSE identity1D(getOutDimSize(L, out), out, IF out < dim THEN out ELSE out - 1)),
        emptyLayout, L.outs)

isZero(basis) == \A o \in DOMAIN basis : basis[o] = {}

\* Mutant: registers that do not move along some dimension are dropped.
withoutZeroRegisters_any(L) ==
    [L EXCEPT !.bases["register"] = SelectSeq(@, LAMBDA basis : \A o \in DOMAIN basis : basis[o] # {})]

withoutZeroRegisters(L) ==
    [L EXCEPT !.bases["register"] = SelectSeq(@, LAMBDA basis : ~ isZero(basis))]

\* Registers are added until there are as many as the layout's own count.
padRegisters(L, expected) ==
    IF getInDimSize(L, "register") = expected THEN L
    ELSE Times(L, zeros1D(expected \div getInDimSize(L, "register"), "register", 1))

\* The part of the shape that a CTA has.
getShapePerCTA(split, shape) == [d \in DOMAIN shape |-> shape[d] \div atMost(shape[d], split[d])]

-----------------------------------------------------------------------------
Init ==
    /\ op \in Ops
    /\ pc = "cga"
    /\ ll = emptyLayout
    /\ cga = emptyLayout
    /\ todo = <<>>
    /\ level = 0

MakeCga ==
    /\ pc = "cga"
    /\ LET L == makeCgaLayout(op.ctas, op.split, op.ctaOrder)
       IN  /\ ll' = L
           /\ todo' = ToShrink(L, Shape)
    /\ pc' = "shrinkCga"
    /\ UNCHANGED <<op, cga, level>>

ShrinkStep(shape) ==
    /\ todo # <<>>
    /\ ll' = shrinkCodomain(ll, Head(todo)[2], Head(todo)[1], shape[Head(todo)[1]])
    /\ todo' = Tail(todo)
    /\ UNCHANGED <<op, pc, cga, level>>

ShrinkCga == pc = "shrinkCga" /\ ShrinkStep(Shape)
ShrinkCta == pc = "shrinkCta" /\ ShrinkStep(ctaShape)

\* The product of identities for registers, lanes and warps.
BlockedCta ==
    /\ pc = "shrinkCga"
    /\ todo = <<>>
    /\ ~ isMma(op.layout)
    /\ cga' = transposeOuts(ll, op.layout.order)
    /\ ll' = Times(Times(identityND("register", op.layout.size, op.layout.order),
                         identityND("lane", op.layout.threads, op.layout.order)),
                   identityND("warp", op.layout.warps, op.layout.order))
    /\ pc' = "grow"
    /\ UNCHANGED <<op, todo, level>>

\* The lanes and registers of an instruction on 16 x 8 elements.
fragmentLayout(rank) ==
    LET Basis(m, n) == [o \in {rank - 1, rank} |-> IF o = rank THEN n ELSE m]
    IN  [outs |-> <<rank, rank - 1>>,
         bases |-> [in \in {"register", "lane"} |->
            IF in = "register" THEN <<Basis({}, {0}), Basis({3}, {})>>
            ELSE <<Basis({}, {1}), Basis({}, {2}), Basis({0}, {}), Basis({1}, {}), Basis({2}, {})>>]]

ampereMma(L) ==
    Times(fragmentLayout(Len(L.warps)), identityND("warp", L.warps, Reverse(Dims(Len(L.warps)))))

\* Mutant: the warps are row by row, as in version 2.
hopperMma_rows(L) ==
    Times(Times(fragmentLayout(2), identity1D(L.instr[2] \div 8, "register", 2)),
          identityND("warp", L.warps, <<2, 1>>))

\* Wider instructions have more registers, and the warps are column by column.
hopperMma(L) ==
    Times(Times(fragmentLayout(2), identity1D(L.instr[2] \div 8, "register", 2)),
          transposeOuts(identityND("warp", L.warps, <<1, 2>>), <<2, 1>>))

MmaCta ==
    /\ pc = "shrinkCga"
    /\ todo = <<>>
    /\ isMma(op.layout)
    /\ LET L == IF op.layout.version = 3 THEN hopperMma(op.layout) ELSE ampereMma(op.layout)
       IN  /\ ll' = L
           /\ cga' = transposeOuts(ll, L.outs)
    /\ pc' = "grow"
    /\ UNCHANGED <<op, todo, level>>

Grow ==
    /\ pc = "grow"
    /\ LET L == ensureLayoutNotSmallerThan(ll, ctaShape)
       IN  /\ ll' = L
           /\ todo' = ToShrink(L, ctaShape)
    /\ pc' = "shrinkCta"
    /\ UNCHANGED <<op, cga, level>>

CombineCtaCga ==
    /\ pc = "shrinkCta"
    /\ todo = <<>>
    /\ ll' = transposeOuts(Times(ll, cga), Dims(Rank))
    /\ pc' = "slice"
    /\ UNCHANGED <<op, cga, todo, level>>

DropDim ==
    /\ pc = "slice"
    /\ level < Len(op.layout.sliced)
    /\ ll' = compose(ll, sliceTransform(ll, op.layout.sliced[level + 1]))
    /\ pc' = "registers"
    /\ UNCHANGED <<op, cga, todo, level>>

\* The number of registers that the layout itself gives.
totalElems(slice) ==
    LET shape == shapeAt(op.layout, op.shape, level + 1)
    IN  IF isMma(slice)
        THEN product(Dropped(slice, mmaElemsPerThread(slice, getShapePerCTA(op.split, Shape))))
        ELSE getTotalElemsPerThread(slice, getShapePerCTA(Dropped(slice, op.split), shape))

FixRegisters ==
    /\ pc = "registers"
    /\ ll' = padRegisters(withoutZeroRegisters(ll), totalElems(SlicedTo(op.layout, level + 1)))
    /\ level' = level + 1
    /\ pc' = "slice"
    /\ UNCHANGED <<op, cga, todo>>

Next == MakeCga \/ ShrinkCga \/ BlockedCta \/ MmaCta \/ Grow \/ ShrinkCta \/ CombineCtaCga \/ DropDim \/ FixRegisters

Spec == Init /\ [][Next]_vars

-----------------------------------------------------------------------------
Done == pc = "slice" /\ level = Len(op.layout.sliced)

\* The types of the variables: locations and indices as in the source, and the
\* sizes that are shrunk a multiple of those they are shrunk to.
TypeOK ==
    /\ op \in Ops
    /\ pc \in {"cga", "shrinkCga", "grow", "shrinkCta", "slice", "registers"}
    /\ \A in \in InDims(ll) : \A i \in DOMAIN ll.bases[in] :
          /\ DOMAIN ll.bases[in][i] = OutDims(ll)
          /\ \A o \in OutDims(ll) : ll.bases[in][i][o] \subseteq 0..15
    /\ InDims(ll) \subseteq {"register", "lane", "warp", "block"}
    /\ level \in 0..Len(op.layout.sliced)

\* Every linear layout on the way passes the check of the constructor and,
\* beyond that, has every index of the tensor at some location: a check of each
\* dimension alone does not say so.
AlwaysSurjective == validateSurjectivity(ll) /\ Surjective(ll)

\* The assertions of the conversion: shrunk bases are powers of two, products
\* are of dimensions in one order, what has been shrunk has the size asked for,
\* and the result has the shape of the tensor.
NoAssertFails ==
    /\ todo # <<>> => \A i \in DOMAIN ll.bases[Head(todo)[2]] :
                         LET bits == ll.bases[Head(todo)[2]][i][Head(todo)[1]] IN bits = {} \/ IsPowerOf2(bits)
    /\ pc = "shrinkCga" /\ todo = <<>> => \A d \in 1..Rank : getOutDimSize(ll, d) <= Shape[d]
    /\ pc = "shrinkCta" => checkCommonDims(ll, cga)
    /\ pc = "shrinkCta" /\ todo = <<>> => \A d \in 1..Rank : getOutDimSize(ll, d) = ctaShape[d]
    /\ Done => \A d \in DOMAIN op.shape : getOutDimSize(ll, d) = op.shape[d]

\* The offset of a block in the tensor (emitCTAOffsetForLayout).
ctaOffset(block) ==
    LET id == delinearize(block, op.ctas, op.ctaOrder)
        perCTA == getShapePerCTA(op.split, Shape)
    IN  [d \in 1..Rank |-> (id[d] % atMost(Shape[d], op.split[d])) * perCTA[d]]

\* The index that a register holds (emitIndicesUsingLinearLayouts).
indexOf(register, lane, warp, block) ==
    apply(ll, [in \in InDims(ll) |->
        CASE in = "register" -> register [] in = "lane" -> lane [] in = "warp" -> warp [] in = "block" -> block])

\* The indices that a lane has without linear layouts (emitIndices).
legacyDefined == isMma(op.layout) => mmaDefined(op.layout, Shape, getShapePerCTA(op.split, Shape))
legacyIndices(lane, warp) ==
    IF isMma(op.layout) THEN mmaIndices(op.layout, Shape, getShapePerCTA(op.split, Shape), lane, warp)
    ELSE emitIndices(op.layout, getShapePerCTA(Dropped(op.layout, op.split), op.shape), lane, warp)

LanesOf(L) == IF isMma(L) THEN 0..31 ELSE Lanes(L)
NumWarpsOf(L) == product(L.warps)

\* Each register, of every lane, warp and block, holds the index that the
\* lowering without linear layouts gives it: the two ways are interchangeable.
SameIndices ==
    Done /\ legacyDefined =>
        \A lane \in LanesOf(op.layout), warp \in 0..NumWarpsOf(op.layout) - 1, block \in 0..product(op.ctas) - 1 :
            LET indices == legacyIndices(lane, warp)
                offset == Dropped(op.layout, ctaOffset(block))
            IN  /\ getInDimSize(ll, "register") = Len(indices)
                /\ \A n \in DOMAIN indices :
                    LET index == indexOf(n - 1, lane, warp, block)
                    IN  \A d \in DOMAIN op.shape : Value(index[d]) = indices[n][d] + offset[d]

=============================================================================
