---------------------------- MODULE ConvertLayout ----------------------------
(***************************************************************************)
(* The program that the conversion of a tensor from one distributed layout  *)
(* to another is lowered to, run by the warps of a CTA: for each replica of *)
(* the larger of the two tiles, every thread stores its registers that lie  *)
(* in the replica to a scratch buffer, in vectors, and after a barrier      *)
(* loads those of the new layout; another barrier precedes the next         *)
(* replica.  The lanes of a warp run in step; the warps interleave.  A      *)
(* value is the index of the element that it is.                            *)
(***************************************************************************)
EXTENDS DistributedLayout, FiniteSetsExt

CONSTANT Ops    \* conversions: layouts src and dst, shape, and pad: whether rows are padded

VARIABLES
    op,
    plan,       \* once lowered: what is computed for the conversion as a whole
    code,       \* once lowered: the accesses to store and load, by replica, warp and lane
    vals,       \* the registers of the operand, by warp and lane
    stage,      \* of each warp: 2 * replica to store it, one more to load it
    smem,       \* the scratch buffer, by offset: the values stored there together
    outVals     \* the registers of the result, by warp and lane

vars == <<op, plan, code, vals, stage, smem, outVals>>

src == op.src
dst == op.dst
shape == op.shape
Rank == Len(shape)
Dim == 1..Rank

-----------------------------------------------------------------------------
(* What layouts of either kind say of each dimension; a slice is of a       *)
(* blocked layout.                                                           *)

orderOf(L) == IF isMma(L) THEN Reverse([d \in DOMAIN L.warps |-> d]) ELSE getOrder(L)

sizePerThreadOf(L) ==
    IF ~ isMma(L) THEN getSizePerThread(L)
    ELSE IF L.version = 3 THEN <<2, L.instr[2] \div 4>>
    ELSE [d \in Dim |-> IF d >= DimM(L) THEN 2 ELSE 1]

shapePerCTATileOf(L) == IF isMma(L) THEN mmaShapePerCTATile(L) ELSE getShapePerCTATile(L)

\* The elements next to each other that a thread holds.
uniqueContigPerThreadOf(L) ==
    IF ~ isMma(L) THEN getUniqueContigPerThread(L, shape)
    ELSE [d \in Dim |-> IF d = DimN(L) THEN atMost(shape[d], 2) ELSE 1]

indicesOf(L, lane, warp) ==
    IF isMma(L) THEN mmaIndices(L, shape, shape, lane, warp) ELSE emitIndices(L, shape, lane, warp)

LanesOf(L) == IF isMma(L) THEN 0..31 ELSE Lanes(L)
Lane == LanesOf(src)
Warp == 0..product(src.warps) - 1

-----------------------------------------------------------------------------
(* The replicas and the scratch buffer. *)

PerCTA(L) == [d \in Dim |-> atMost(shape[d], shapePerCTATileOf(L)[d])]

getRepShapeForCvtLayout ==
    [d \in Dim |-> IF PerCTA(src)[d] < PerCTA(dst)[d] THEN PerCTA(dst)[d] ELSE PerCTA(src)[d]]
numReplicates == [d \in Dim |-> ceil(shape[d], getRepShapeForCvtLayout[d])]
numCTAsEachRep(L) == [d \in Dim |-> getRepShapeForCvtLayout[d] \div PerCTA(L)[d]]

\* A matrix instruction's layout has no order of its own: the other one's is taken.
getCvtOrder == [in |-> orderOf(IF isMma(src) THEN dst ELSE src), out |-> orderOf(IF isMma(dst) THEN src ELSE dst)]
inOrd == getCvtOrder.in
outOrd == getCvtOrder.out

isBlocked(L) == ~ isMma(L) /\ ~ isSlice(L)

\* Vectors need both layouts to be fastest in the last dimension, but those
\* loaded from what matrix instructions left need not.
inVec == IF outOrd[1] = Rank /\ inOrd[1] = Rank THEN uniqueContigPerThreadOf(src)[inOrd[1]] ELSE 1
outVec ==
    IF outOrd[1] = Rank \/ (isMma(src) /\ isBlocked(dst)) THEN uniqueContigPerThreadOf(dst)[outOrd[1]] ELSE 1

paddedDim == IF isBlocked(dst) THEN dst.order[1] ELSE Rank

\* Mutant: rows are padded by the vectors that are stored, not the longer ones.
getScratchConfigForCvtLayout_stored ==
    IF Rank = 1 \/ ~ op.pad THEN getRepShapeForCvtLayout
    ELSE [getRepShapeForCvtLayout EXCEPT ![paddedDim] = @ + inVec]

getScratchConfigForCvtLayout ==
    IF Rank = 1 \/ ~ op.pad THEN getRepShapeForCvtLayout
    ELSE [getRepShapeForCvtLayout EXCEPT ![paddedDim] = @ + (IF inVec < outVec THEN outVec ELSE inVec)]

-----------------------------------------------------------------------------
(* Where a register goes. *)

\* As the base index of the layout, but warps wrap at whole instructions.
mmaOffset(L, elemId, ctaInRep, lane, warp) ==
    LET warpId == delinearize(warp, L.warps, warpOrder(L))
        at(d) == (warpId[d] % ceil(shape[d], L.instr[d])) * L.instr[d]
        quarter == elemId % 4
    IN  [d \in Dim |-> ctaInRep[d] * mmaShapePerCTATile(L)[d] +
            (IF d = DimM(L) THEN (lane \div 4) + at(d) + (IF quarter < 2 THEN 0 ELSE 8)
             ELSE IF d = DimN(L) THEN 2 * (lane % 4) + at(d) + (quarter % 2) + 8 * (elemId \div 4)
             ELSE warpId[d])]

blockedOffset(L, s, elemId, ctaInRep, lane, warp) ==
    LET base == emitBaseIndexForLayout(L, s, lane, warp)
        elem == getMultiDimIndex(elemId, L.size, L.order)
    IN  [d \in DOMAIN s |-> base[d] + ctaInRep[d] * getShapePerCTATile(L)[d] + elem[d]]

\* The parent's register of the slice's, found by their offsets.
parentElem(L, s, elemId) ==
    LET offset == emitOffsetForLayout(L, s)[elemId + 1]
        parentOffset == emitOffsetForLayout(getParent(L), paddedShape(s, getDim(L)))
    IN  IndexIn(parentOffset, InsertAt(offset, getDim(L), 0)) - 1

RECURSIVE getMultiDimOffset(_, _, _, _, _, _)
getMultiDimOffset(L, s, elemId, ctaInRep, lane, warp) ==
    IF isMma(L) THEN mmaOffset(L, elemId, ctaInRep, lane, warp)
    ELSE IF isBlocked(L) THEN blockedOffset(L, s, elemId, ctaInRep, lane, warp)
    ELSE RemoveAt(getMultiDimOffset(getParent(L), paddedShape(s, getDim(L)), parentElem(L, s, elemId),
                                    paddedShape(ctaInRep, getDim(L)), lane, warp), getDim(L))

\* Mutant: offsets of a tile larger than the tensor are not wrapped.
getWrappedMultiDimOffset_not(L, offset) == offset

getWrappedMultiDimOffset(L, offset) ==
    [d \in Dim |-> IF shapePerCTATileOf(L)[d] > shape[d] THEN offset[d] % plan.origRepShape[d] ELSE offset[d]]

\* The accesses of a lane to replica repId: <<register, offset in the buffer>>,
\* by vectors of registers that lie next to each other.
processReplica(side, repId, lane, warp) ==
    LET L == side.layout
        rep == getMultiDimIndex(repId, plan.numReplicates, plan.order)
        Vector(ctaId, elemId) ==
            LET inRep == getMultiDimIndex(ctaId, side.numCTAsEachRep, side.order)
                cta == [d \in Dim |-> rep[d] * side.numCTAsEachRep[d] + inRep[d]]
                register == elemId + linearize(cta, side.numCTATiles, side.order) * side.accumSizePerThread
                offset == linearize(getWrappedMultiDimOffset(L, getMultiDimOffset(L, shape, elemId, inRep, lane, warp)),
                                    plan.paddedRepShape, plan.order)
            IN  {<<register + v + 1, offset + v>> : v \in 0..side.vec - 1}
    IN  {Vector(ctaId, side.vec * k) : ctaId \in 0..product(side.numCTAsEachRep) - 1,
                                       k \in 0..ceil(side.accumSizePerThread, side.vec) - 1}

-----------------------------------------------------------------------------
(* The lowering, and the program that it emits. *)

Nothing == <<>>

Init ==
    /\ op \in Ops
    /\ plan = Nothing
    /\ code = Nothing
    /\ vals = Nothing
    /\ stage = [w \in Warp |-> 0]
    /\ smem = <<>>
    /\ outVals = [w \in Warp |-> [lane \in Lane |-> <<>>]]

Side(L, n) ==
    [layout |-> L, vec |-> n, order |-> orderOf(L), numCTAsEachRep |-> numCTAsEachRep(L),
     numCTATiles |-> [d \in Dim |-> ceil(shape[d], shapePerCTATileOf(L)[d])],
     accumSizePerThread |-> product(sizePerThreadOf(L))]

\* Replicas, vectors and the shape of the buffer.
Plan ==
    /\ plan = Nothing
    /\ plan' = [in |-> Side(src, inVec), out |-> Side(dst, outVec), order |-> orderOf(dst),
                numReplicates |-> numReplicates, origRepShape |-> getRepShapeForCvtLayout,
                paddedRepShape |-> getScratchConfigForCvtLayout]
    /\ UNCHANGED <<op, code, vals, stage, smem, outVals>>

Replicas == 0..product(plan.numReplicates) - 1

\* The loop over the replicas; the operand is in registers.
Emit ==
    /\ plan # Nothing
    /\ code = Nothing
    /\ LET accesses(side) == [rep \in Replicas |-> [w \in Warp |-> [lane \in Lane |->
               processReplica(side, rep, lane, w)]]]
       IN  code' = [in |-> accesses(plan.in), out |-> accesses(plan.out)]
    /\ vals' = [w \in Warp |-> [lane \in Lane |-> indicesOf(src, lane, w)]]
    /\ UNCHANGED <<op, plan, stage, smem, outVals>>

repOf(w) == stage[w] \div 2
Running(w) == code # Nothing /\ repOf(w) \in Replicas

\* Mutant: no barrier before the next replica is stored.
barrier_once(w) == stage[w] % 2 = 1 => \A u \in Warp : stage[u] >= stage[w]

\* A warp passes a barrier when every warp has done what lies before it.
barrier(w) == \A u \in Warp : stage[u] >= stage[w]

Advance(w) ==
    /\ barrier(w)
    /\ stage' = [stage EXCEPT ![w] = @ + 1]
    /\ UNCHANGED <<op, plan, code, vals>>

StoreReplica(w) ==
    /\ Running(w)
    /\ stage[w] % 2 = 0
    /\ LET stores == UNION {{<<a[2], vals[w][lane][a[1]]>> : a \in UNION code.in[repOf(w)][w][lane]} : lane \in Lane}
           cells == {a[1] : a \in stores}
       IN  smem' = [o \in DOMAIN smem \union cells |->
                       IF o \in cells THEN {a[2] : a \in {b \in stores : b[1] = o}} ELSE smem[o]]
    /\ Advance(w)
    /\ UNCHANGED outVals

\* A cell that was never stored to, or to which lanes stored different values,
\* may hold anything.
valueAt(o) == IF o \in DOMAIN smem /\ Cardinality(smem[o]) = 1 THEN CHOOSE v \in smem[o] : TRUE ELSE <<>>

LoadReplica(w) ==
    /\ Running(w)
    /\ stage[w] % 2 = 1
    /\ outVals' = [outVals EXCEPT ![w] = [lane \in Lane |->
           LET loads == UNION code.out[repOf(w)][w][lane]
               loaded == {a[1] : a \in loads}
           IN  [r \in DOMAIN outVals[w][lane] \union loaded |->
                   IF r \in loaded THEN valueAt((CHOOSE a \in loads : a[1] = r)[2]) ELSE outVals[w][lane][r]]]]
    /\ Advance(w)
    /\ UNCHANGED smem

Next ==
    \/ Plan
    \/ Emit
    \/ \E w \in Warp : StoreReplica(w) \/ LoadReplica(w)

Spec == Init /\ [][Next]_vars

-----------------------------------------------------------------------------
(* What the lowering is for. *)

\* The buffer and the registers hold elements of the tensor.
TypeOK ==
    LET elements == Elements(shape)
    IN  /\ stage \in [Warp -> Nat]
        /\ \A o \in DOMAIN smem : o \in Nat /\ smem[o] \subseteq elements
        /\ \A w \in Warp, lane \in Lane : \A r \in DOMAIN outVals[w][lane] :
               outVals[w][lane][r] \in elements \union {<<>>}

\* When every warp is done, each lane holds in each of its registers the
\* element that the new layout puts there, however the warps interleaved.
Converted ==
    (code # Nothing /\ \A w \in Warp : ~ Running(w)) =>
        \A w \in Warp, lane \in Lane :
            LET want == indicesOf(dst, lane, w)
            IN  outVals[w][lane] = [r \in DOMAIN want |-> want[r]]

\* The vectors that the program stores or loads.
Vectors(accesses) == UNION {accesses[rep][w][lane] : rep \in Replicas, w \in Warp, lane \in Lane}

\* No access leaves the buffer that the allocation analysis sized.
InScratch ==
    code # Nothing =>
        \A a \in UNION (Vectors(code.in) \union Vectors(code.out)) : a[2] \in 0..product(plan.paddedRepShape) - 1

\* Every vector starts at a multiple of its length, as its type promises.
VectorsAligned ==
    code # Nothing =>
        \A V \in Vectors(code.in) \union Vectors(code.out) : Min({a[2] : a \in V}) % Cardinality(V) = 0

=============================================================================
