----------------------------- MODULE MCLowering -----------------------------
(***************************************************************************)
(* Instances of ReduceLowering and of ScanLowering: matrices and slices in  *)
(* blocked layouts of small warps, with tensors smaller, as large and       *)
(* larger than the layout.  A behaviour follows the program of one of them: *)
(* each has a scratch buffer and barriers of its own.                       *)
(***************************************************************************)
EXTENDS ReduceLowering

CONSTANTS WarpSize, MaxWarps

\* Sequences of d powers of two with a product of x.
Factors(d, x) == {s \in [1..d -> {1, 2, 4, 8}] : product(s) = x}

\* Two registers along one axis; the order runs along the other one first.
Registers2 == {<<<<1, 2>>, <<1, 2>>>>, <<<<2, 1>>, <<2, 1>>>>}
Layouts2(registers, warps) ==
    {Blocked(r[1], t, w, r[2]) : r \in registers, t \in Factors(2, WarpSize), w \in Factors(2, warps)}

\* Along the first axis: the layouts hold with each layout the one that has
\* its dimensions swapped.
MCMatrices ==
    {[layout |-> l, shape |-> s, axis |-> 1] :
        l \in Layouts2(Registers2, 2), s \in {<<2, 4>>, <<8, 2>>}}
    \cup {[layout |-> l, shape |-> <<8, 4>>, axis |-> 1] : l \in Layouts2(Registers2, MaxWarps)}

\* The second reduction of a tensor of rank 3, whose source is a slice:
\* row-major layouts that the tensor is as large as.
MCSlices ==
    {r \in {[layout |-> Slice(d, Blocked(<<1, 1, 1>>, t, w, <<3, 2, 1>>)), shape |-> s, axis |-> a] :
                d \in 1..3, a \in 1..2, t \in Factors(3, WarpSize), w \in {<<2, 1, 1>>, <<1, 2, 1>>}, s \in {<<4, 4>>}} :
        \A d \in 1..2 : getShapePerCTATile(r.layout)[d] <= r.shape[d]}

MCReductions == MCMatrices \cup MCSlices
MCAnyReduction == CHOOSE r \in MCMatrices : TRUE

\* Scans that the lowering is right for: if the lanes outnumber the elements
\* of the axis then forward, and with blocks only if there are lanes.
MCScans ==
    {r \in {[layout |-> l, shape |-> s, axis |-> 1, reverse |-> b] :
                l \in Layouts2(Registers2 \cup {<<<<2, 2>>, <<2, 1>>>>}, 2), s \in {<<2, 4>>, <<8, 2>>}, b \in BOOLEAN} :
        LET threads == r.layout.threads[1]
            size == r.layout.size[1]
        IN  /\ r.reverse => r.shape[1] >= size * threads
            /\ threads = 1 /\ size > 1 /\ r.layout.warps[1] = 1 => r.shape[1] <= size}
MCAnyScan == CHOOSE r \in MCScans : TRUE

VARIABLES lowering, scan, scanPc, values, scanSmem

Scan == INSTANCE ScanLowering WITH Ops <- MCScans, op <- scan, pc <- scanPc, smem <- scanSmem

scanVars == <<scan, scanPc, values, scanSmem>>

MCInit ==
    /\ lowering \in {"reduce", "scan"}
    /\ lowering = "reduce" => scan = MCAnyScan
    /\ lowering = "scan" => op = MCAnyReduction
    /\ Init
    /\ Scan!Init

MCNext ==
    \/ lowering = "reduce" /\ Next /\ UNCHANGED <<lowering, scanVars>>
    \/ lowering = "scan" /\ Scan!Next /\ UNCHANGED <<lowering, vars>>

MCSpec == MCInit /\ [][MCNext]_<<lowering, vars, scanVars>>

\* A row's result is the reduction of its elements, each once, in every lane
\* that holds it, for every order in which the warps run; what is stored is
\* within the buffer allocated for it (ReduceOpConversion, getScratchSizeInBytes).
RowsReducedInScratch == lowering = "reduce" => TypeOK /\ RowsReduced /\ InScratch

\* Every register that is not a copy along the axis ends up with the elements
\* of its row up to its own, each once and in their order, for every order in
\* which the warps run; what is stored is within the buffer (emitFastScan,
\* getScratchSizeInElems).
RowsScanned == lowering = "scan" => Scan!TypeOK /\ Scan!RowsScanned /\ Scan!InScratch

=============================================================================
