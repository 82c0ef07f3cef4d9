------------------------- MODULE LinearLayoutAlgebra -------------------------
(***************************************************************************)
(* What products and compositions of linear layouts mean: two layouts that  *)
(* the constructor accepts are multiplied or composed, and the result is    *)
(* compared with the functions that the two stand for.                      *)
(***************************************************************************)
EXTENDS LinearLayout

CONSTANTS
    InNames, OutNames,    \* sets of the in dimensions, sequences of the out dimensions
    MaxBases, MaxOuter,   \* bounds: bases of a layout, and of a dimension of the outer one
    Bits                  \* bound: the bits of a coordinate

VARIABLES left, right, result, op

vars == <<left, right, result, op>>

\* Layouts as the constructor is given them.
Layouts(perDim) ==
    {[outs |-> outs, bases |-> b] :
        <<outs, b>> \in UNION {{os} \X UNION {
            {f \in [ins -> BoundedSeq([ToSet(os) -> SUBSET (0..Bits - 1)], perDim)] :
                MapThenSumSet(LAMBDA d : Len(f[d]), ins) <= MaxBases} : ins \in InNames} : os \in OutNames}}

Accepted(perDim) == {L \in Layouts(perDim) : validateSurjectivity(L)}

Init ==
    /\ left \in Accepted(MaxBases)
    /\ right \in Accepted(MaxOuter)
    /\ result = emptyLayout
    /\ op = "none"

Multiply ==
    /\ op = "none"
    /\ checkCommonDims(left, right)
    /\ result' = Times(left, right)
    /\ op' = "times"
    /\ UNCHANGED <<left, right>>

Compose ==
    /\ op = "none"
    /\ OutDims(left) = InDims(right)
    /\ result' = compose(left, right)
    /\ op' = "compose"
    /\ UNCHANGED <<left, right>>

Next == Multiply \/ Compose

Spec == Init /\ [][Next]_vars

-----------------------------------------------------------------------------
\* The locations of a layout.
Locations(L) ==
    {x \in [InDims(L) -> 0..Max({getInDimSize(L, d) : d \in InDims(L)}) - 1] :
        \A d \in InDims(L) : x[d] < getInDimSize(L, d)}

SizeIn(L, d) == IF hasInDim(L, d) THEN getInDimSize(L, d) ELSE 1
CoordinateAt(L, x, o) == IF hasOutDim(L, o) THEN Value(apply(L, [d \in InDims(L) |-> x[d]])[o]) ELSE 0

\* The product is the outer layout with each element replaced by the inner
\* layout: the low part of a location goes through the inner, the rest through
\* the outer; and the constructor accepts it.
ProductReplacesElements ==
    op = "times" =>
        /\ validateSurjectivity(result)
        /\ \A x \in Locations(result), o \in OutDims(result) :
            LET low == [d \in InDims(result) |-> x[d] % SizeIn(left, d)]
                high == [d \in InDims(result) |-> x[d] \div SizeIn(left, d)]
                size == IF hasOutDim(left, o) THEN getOutDimSize(left, o) ELSE 1
            IN  CoordinateAt(result, x, o) = CoordinateAt(left, low, o) + size * CoordinateAt(right, high, o)

\* The composition gives every location what running one layout after the other
\* does.
ComposeIsFunctionComposition ==
    op = "compose" =>
        \A x \in Locations(result) :
            apply(result, x) =
                apply(right, [d \in InDims(right) |-> Value(apply(left, x)[d])])

\* What LinearLayout.h requires of every layout: each index is at some location.
EveryIndexCovered == Surjective(left)

=============================================================================
