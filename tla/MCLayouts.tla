----------------------------- MODULE MCLayouts ------------------------------
(***************************************************************************)
(* Instances of ConvertLayout, LinearLayoutConversion and                   *)
(* LinearLayoutAlgebra.  A behaviour follows one of                         *)
(*   - the conversion of a tensor between blocked layouts of two warps of   *)
(*     four lanes, between their slices, or between blocked layouts and     *)
(*     those of matrix instructions, smaller and larger than a tile,        *)
(*   - the making of the linear layout of a blocked layout over several     *)
(*     blocks, of slices of such layouts, or of a matrix instruction's,     *)
(*   - a product or composition of two linear layouts.                      *)
(* They share no state.                                                     *)
(***************************************************************************)
EXTENDS ConvertLayout

CONSTANTS MaxBases, MaxOuter, Bits

-----------------------------------------------------------------------------
(* Conversions of a tensor. *)

Cvt(L, K, s, p) == [src |-> L, dst |-> K, shape |-> s, pad |-> p]

Orders2 == {<<1, 2>>, <<2, 1>>}
Pairs == {<<2, 1>>, <<1, 2>>}

MCBlocked == {Blocked(z, t, w, o) : z \in {<<1, 4>>, <<2, 2>>}, t \in {<<1, 4>>, <<2, 2>>}, w \in Pairs, o \in Orders2}
MCBlockedOps ==
    {Cvt(L, K, s[1], s[2]) : L \in MCBlocked, K \in MCBlocked, s \in {<<<<2, 2>>, TRUE>>, <<<<4, 8>>, TRUE>>, <<<<4, 8>>, FALSE>>}}

MCSlices ==
    {Slice(dim, Blocked(<<4, 2>>, <<2, 2>>, w, o)) : dim \in 1..2, w \in Pairs, o \in Orders2}
    \cup {Blocked(<<z>>, <<4>>, <<2>>, <<1>>) : z \in {1, 4}}
MCSliceOps == {Cvt(L, K, <<n>>, TRUE) : L \in MCSlices, K \in MCSlices, n \in {2, 16}}

\* The instructions of a layout are no larger than the tensor.
MCWide == {Blocked(z, <<4, 8>>, <<2, 1>>, o) : z \in {<<1, 4>>, <<4, 1>>}, o \in Orders2}
MCMmaPairs == {<<Mma(2, <<16, 8>>, <<2, 1>>), <<16, 8>>>>, <<Mma(2, <<16, 8>>, <<1, 2>>), <<32, 16>>>>,
               <<Mma(3, <<16, 16>>, <<2, 1>>), <<32, 16>>>>}
MCMmaOps ==
    {Cvt(p[1], K, p[2], TRUE) : p \in MCMmaPairs, K \in MCWide}
    \cup {Cvt(K, p[1], p[2], TRUE) : p \in MCMmaPairs, K \in MCWide}
    \cup {Cvt(Mma(2, <<16, 8>>, <<2, 1>>), Mma(2, <<16, 8>>, <<1, 2>>), <<32, 16>>, TRUE)}

MCConversions == MCBlockedOps \cup MCSliceOps \cup MCMmaOps

-----------------------------------------------------------------------------
(* Linear layouts.  Ctas: the blocks, and into how many parts they split    *)
(* each dimension.                                                          *)

Factors(d, x) == {s \in [1..d -> {1, 2, 4}] : product(s) = x}

One == <<<<1, 1>>, <<1, 1>>>>
Ctas == {One, <<<<4, 1>>, <<2, 1>>>>, <<<<2, 2>>, <<1, 2>>>>}

Linear(L, s, c) ==
    [layout |-> L, shape |-> s, ctas |-> c[1], split |-> c[2], ctaOrder |-> Reverse([d \in DOMAIN c[1] |-> d])]

MCTiles == {Blocked(z, t, w, o) : z \in Factors(2, 2), t \in Factors(2, 4), w \in Factors(2, 2), o \in Orders2}

\* One dimension of two sliced away, or one or two of three.
MCSliced ==
    {Linear(Slice(d, L), <<n>>, c) : d \in 1..2, L \in MCTiles, n \in {1, 8}, c \in {<<<<4, 1>>, <<2, 1>>>>}}
    \cup {Linear(L, [d \in 1..3 - Len(L.sliced) |-> s[d]], <<<<1, 2, 1>>, <<1, 2, 1>>>>) :
             L \in {[Blocked(z, <<2, 1, 2>>, <<1, 2, 1>>, <<3, 1, 2>>) EXCEPT !.sliced = c] :
                       z \in Factors(3, 2), c \in {<<2>>, <<2, 1>>, <<3, 1>>}},
             s \in {<<1, 8>>, <<8, 1>>, <<8, 8>>}}

MmaOps(versions, instrs, warps, shapes, ctas) ==
    {Linear(Mma(v, i, w), s, c) : v \in versions, i \in instrs, w \in warps, s \in shapes, c \in ctas}

\* Matrix instructions, on tensors larger and smaller than them, and slices.
MCInstructions ==
    MmaOps({2}, {<<16, 8>>}, {<<1, 2>>, <<2, 1>>}, {2, 16, 32, 64} \X {2, 8, 16, 32}, {One})
    \cup MmaOps({2}, {<<16, 8>>}, {<<2, 2>>}, {<<32, 16>>}, Ctas)
    \cup MmaOps({3}, {<<16, 16>>}, {<<4, 1>>, <<4, 2>>}, {16, 64} \X {16, 64}, {One})
    \cup UNION {{[r EXCEPT !.layout = Slice(d, @), !.shape = RemoveAt(@, d)] : d \in 1..2} :
                   r \in MmaOps({2}, {<<16, 8>>}, {<<1, 2>>, <<2, 2>>}, {<<n, n>> : n \in {1, 16, 64}}, {One})}

MCMatrices ==
    {Linear(L, s, c) : L \in MCTiles, s \in {<<1, 16>>, <<16, 2>>, <<16, 16>>}, c \in Ctas}

MCLinear == MCMatrices \cup MCSliced \cup MCInstructions

MCInNames == {{"a", "b"}}
MCOutNames == {<<"b">>, <<"b", "a">>}

-----------------------------------------------------------------------------
VARIABLES layouts, linear, pc, ll, cga, todo, level, left, right, result, operation

Conversion == INSTANCE LinearLayoutConversion WITH Ops <- MCLinear, op <- linear
Algebra == INSTANCE LinearLayoutAlgebra WITH InNames <- MCInNames, OutNames <- MCOutNames, op <- operation

linearVars == <<linear, pc, ll, cga, todo, level>>
algebraVars == <<left, right, result, operation>>

NoTensor == op = 0 /\ plan = 0 /\ code = 0 /\ vals = 0 /\ stage = 0 /\ smem = 0 /\ outVals = 0
NoLinear == linear = 0 /\ pc = 0 /\ ll = 0 /\ cga = 0 /\ todo = 0 /\ level = 0
NoAlgebra == left = 0 /\ right = 0 /\ result = 0 /\ operation = 0

MCInit ==
    \/ layouts = "tensor" /\ Init /\ NoLinear /\ NoAlgebra
    \/ layouts = "linear" /\ NoTensor /\ Conversion!Init /\ NoAlgebra
    \/ /\ layouts = "algebra" /\ NoTensor /\ NoLinear /\ Algebra!Init
       /\ Len(left.bases["a"]) >= Len(left.bases["b"])     \* the two in dimensions may be renamed

MCNext ==
    \/ layouts = "tensor" /\ Next /\ UNCHANGED <<layouts, linearVars, algebraVars>>
    \/ layouts = "linear" /\ Conversion!Next /\ UNCHANGED <<layouts, vars, algebraVars>>
    \/ layouts = "algebra" /\ Algebra!Next /\ UNCHANGED <<layouts, vars, linearVars>>

MCSpec == MCInit /\ [][MCNext]_<<layouts, vars, linearVars, algebraVars>>

-----------------------------------------------------------------------------
\* When every warp is done each lane holds the elements that the new layout
\* puts in it, however the warps interleaved, and no access of a vector has left
\* the scratch buffer or was unaligned (ConvertLayoutOpConversion,
\* getScratchConfigForCvtLayout, processReplica).
TensorConverted == layouts = "tensor" => TypeOK /\ Converted /\ InScratch /\ VectorsAligned

\* The linear layout holds the indices that the lowering without linear
\* layouts computes (emitIndices); on the way no assertion fails, and every
\* linear layout has every index of the tensor at some location, which the
\* constructor does not check (toLinearLayout).
LinearLayoutSame ==
    layouts = "linear" =>
        /\ Conversion!TypeOK /\ Conversion!SameIndices
        /\ Conversion!AlwaysSurjective /\ Conversion!NoAssertFails

\* The product is the outer layout with each element replaced by the inner
\* layout (LinearLayout::operator*); the composition is running one layout
\* after the other (LinearLayout::compose).
AlgebraMeans ==
    layouts = "algebra" => Algebra!ProductReplacesElements /\ Algebra!ComposeIsFunctionComposition

=============================================================================
