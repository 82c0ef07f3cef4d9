---------------------------- MODULE LinearLayout -----------------------------
(***************************************************************************)
(* Linear layouts: functions from hardware locations (a register, lane,     *)
(* warp, block) to tensor indices, linear over the bits.  A coordinate of a *)
(* basis is the set of its bits, so that "xor" is the symmetric difference  *)
(* and a power of two a set of one element.  bases[in][i][out] is the       *)
(* coordinate out of the location with bit i - 1 of in set, and no other;   *)
(* outs are the out dimensions in order.                                    *)
(***************************************************************************)
EXTENDS Integers, Sequences, SequencesExt, FiniteSetsExt

Value(bits) == MapThenSumSet(LAMBDA b : 2^b, bits)
HasBit(n, b) == (n \div 2^b) % 2 = 1
Log2(n) == CHOOSE k \in 0..n : 2^k <= n /\ n < 2^(k + 1)
IsPowerOf2(bits) == Cardinality(bits) = 1

\* The coordinates that an odd number of the family has set: its "xor".
Xor(family) ==
    {b \in UNION {family[i] : i \in DOMAIN family} :
        Cardinality({i \in DOMAIN family : b \in family[i]}) % 2 = 1}

-----------------------------------------------------------------------------
InDims(L) == DOMAIN L.bases
OutDims(L) == ToSet(L.outs)
hasInDim(L, in) == in \in InDims(L)
hasOutDim(L, out) == out \in OutDims(L)
getInDimSizeLog2(L, in) == Len(L.bases[in])
getInDimSize(L, in) == 2^getInDimSizeLog2(L, in)

\* The coordinates of a dimension among the bases, by place in the matrix.
Columns(L, out) ==
    [p \in UNION {{in} \X DOMAIN L.bases[in] : in \in InDims(L)} |-> L.bases[p[1]][p[2]][out]]

getOutDimSizeLog2(L, out) ==
    LET columns == Columns(L, out)
    IN  Max({0} \cup {b + 1 : b \in UNION {columns[p] : p \in DOMAIN columns}})
getOutDimSize(L, out) == 2^getOutDimSizeLog2(L, out)

\* The coordinates that sums of columns reach.
Span(columns) == {Xor([p \in S |-> columns[p]]) : S \in SUBSET DOMAIN columns}

getMatrixRank(L, out) == Log2(Cardinality(Span(Columns(L, out))))

\* The constructor's check, which is fatal if it fails.
validateSurjectivity(L) ==
    \A out \in OutDims(L) : getMatrixRank(L, out) = getOutDimSizeLog2(L, out)

-----------------------------------------------------------------------------
emptyLayout == [outs |-> <<>>, bases |-> <<>>]

Layout1D(in, out, columns) ==
    [outs |-> <<out>>, bases |-> [i \in {in} |-> [k \in DOMAIN columns |-> [o \in {out} |-> columns[k]]]]]

identity1D(size, in, out) ==
    IF size = 0 THEN emptyLayout ELSE Layout1D(in, out, [k \in 1..Log2(size) |-> {k - 1}])

zeros1D(size, in, out) ==
    IF size = 0 THEN emptyLayout ELSE Layout1D(in, out, [k \in 1..Log2(size) |-> {}])

transposeOuts(L, outs) == [L EXCEPT !.outs = outs]

\* Common dimensions must come in the same order, or the product is fatal.
checkCommonDims(inner, outer) ==
    SelectSeq(outer.outs, LAMBDA d : hasOutDim(inner, d)) = SelectSeq(inner.outs, LAMBDA d : hasOutDim(outer, d))

\* Mutant: the outer layout is not moved out of the way.
Times_flat(inner, outer) ==
    LET outs == inner.outs \o SelectSeq(outer.outs, LAMBDA d : ~ hasOutDim(inner, d))
        Padded(L, basis) == [o \in ToSet(outs) |-> IF hasOutDim(L, o) THEN basis[o] ELSE {}]
        BasesOf(L, in) == IF hasInDim(L, in) THEN L.bases[in] ELSE <<>>
    IN  [outs |-> outs,
         bases |-> [in \in InDims(inner) \cup InDims(outer) |->
            [i \in 1..Len(BasesOf(inner, in)) + Len(BasesOf(outer, in)) |->
                IF i <= Len(BasesOf(inner, in)) THEN Padded(inner, BasesOf(inner, in)[i])
                ELSE Padded(outer, BasesOf(outer, in)[i - Len(BasesOf(inner, in))])]]]

\* operator*: inner is the fastest part of the product.
Times(inner, outer) ==
    LET outs == inner.outs \o SelectSeq(outer.outs, LAMBDA d : ~ hasOutDim(inner, d))
        shift == [o \in ToSet(outs) |-> IF hasOutDim(inner, o) THEN getOutDimSizeLog2(inner, o) ELSE 0]
        Inner(basis) == [o \in ToSet(outs) |-> IF hasOutDim(inner, o) THEN basis[o] ELSE {}]
        Outer(basis) == [o \in ToSet(outs) |-> IF hasOutDim(outer, o) THEN {b + shift[o] : b \in basis[o]} ELSE {}]
        BasesOf(L, in) == IF hasInDim(L, in) THEN L.bases[in] ELSE <<>>
    IN  [outs |-> outs,
         bases |-> [in \in InDims(inner) \cup InDims(outer) |->
            LET n == Len(BasesOf(inner, in))
            IN  [i \in 1..n + Len(BasesOf(outer, in)) |->
                    IF i <= n THEN Inner(BasesOf(inner, in)[i]) ELSE Outer(BasesOf(outer, in)[i - n])]]]

\* The bases whose bits are set in the location.
BasesAt(L, ins) ==
    UNION {{in} \X {i \in DOMAIN L.bases[in] : HasBit(ins[in], i - 1)} : in \in InDims(L)}

apply(L, ins) ==
    [o \in OutDims(L) |-> Xor([p \in BasesAt(L, ins) |-> L.bases[p[1]][p[2]][o]])]

\* Mutant: only the first out dimension is carried through the outer layout.
compose_first(L, outer) ==
    [outs |-> outer.outs,
     bases |-> [in \in InDims(L) |-> [i \in DOMAIN L.bases[in] |->
        apply(outer, [o \in OutDims(L) |-> IF o = L.outs[1] THEN Value(L.bases[in][i][o]) ELSE 0])]]]

compose(L, outer) ==
    [outs |-> outer.outs,
     bases |-> [in \in InDims(L) |-> [i \in DOMAIN L.bases[in] |->
        apply(outer, [o \in OutDims(L) |-> Value(L.bases[in][i][o])])]]]

-----------------------------------------------------------------------------
\* The indices that the locations of a layout hold: one location per set of bases.
Places(L) == UNION {{in} \X DOMAIN L.bases[in] : in \in InDims(L)}
Image(L) ==
    {[o \in OutDims(L) |-> Xor([p \in S |-> L.bases[p[1]][p[2]][o]])] : S \in SUBSET Places(L)}

\* Every index is held by some location: not only in each dimension alone.
Surjective(L) ==
    Cardinality(Image(L)) = 2^MapThenSumSet(LAMBDA o : getOutDimSizeLog2(L, o), OutDims(L))

=============================================================================
