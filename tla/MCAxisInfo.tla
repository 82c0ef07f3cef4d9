----------------------------- MODULE MCAxisInfo -----------------------------
(***************************************************************************)
(* Instances of AxisInfo, on ranges of 4 and 8 integers and on matrices of  *)
(* 4 rows and columns, with the operands that kernels add, multiply, divide *)
(* and compare them with; and of AxisInfoFlow, on kernels with one loop and *)
(* with two, one in the other.  A behaviour follows one of the two: what    *)
(* the first finds out of operations the second finds out of loops.         *)
(***************************************************************************)
EXTENDS AxisInfo

MCWidth == 16
MCMaxDivisor == 1024
MCLimit == 512

Constants(shape, ns) == {Constant(shape, n) : n \in ns}
Arguments(shape, pairs) == {Splat(Argument(p[1], p[2], 0), shape) : p \in pairs}
Pointers(shape, bytes) == {Splat(Argument(32, 16, b), shape) : b \in bytes}

MCLayouts ==
    {Blocked(<<n>>, <<2>>, <<1>>, <<1>>) : n \in {1, 2, 4}}
    \cup {Blocked(p[1], <<2, 2>>, <<1, 1>>, p[2]) : p \in {<<1, 4>>, <<2, 2>>, <<4, 1>>} \X {<<1, 2>>, <<2, 1>>}}

-----------------------------------------------------------------------------
(* Chains. *)

Chain(starts, sources, operations, bound) ==
    [starts |-> starts, sources |-> sources, operations |-> operations, length |-> bound]

Ranges == {MakeRange(0, 4), MakeRange(4, 8), MakeRange(2, 6)}
Scalars == {Constant(<<>>, 4), Argument(8, 8, 0), Argument(3, 1, 0)}
Columns == Broadcast(ExpandDims(MakeRange(0, 4), 1), <<4, 4>>)
Mask == Cmp("lt", MakeRange(0, 4), Constant(<<4>>, 2))

\* Arithmetic on a range, as on the offsets of a program's block.
Index ==
    Chain(Ranges \cup Scalars \cup {Loaded(<<4>>, [x \in Elements(<<4>>) |-> (5 * x[1]) % 8])},
          Constants(<<4>>, {0, 4, 6}) \cup Arguments(<<4>>, {<<8, 8>>, <<3, 1>>}) \cup Pointers(<<4>>, {1, 4})
              \cup Scalars \cup {Constant(<<>>, 1)},
          {"add", "mul", "div", "and", "or", "xor", "addptr", "cmp"}, 3)

\* Ranges that are wrapped or grouped.
Wrap ==
    Chain({MakeRange(0, 4), MakeRange(0, 8)},
          UNION {Constants(s, {1, 2, 4, 6}) \cup Arguments(s, {<<8, 8>>, <<2, 2>>, <<3, 1>>})
                     \cup {Splat(Argument(36, 4, 2), s)} : s \in {<<4>>, <<8>>}},
          {"rem", "div", "mul", "addptr"}, 4)

\* Sums, products, shifts and bounds of ranges and of what is equal everywhere.
Group ==
    Chain(Ranges \cup Constants(<<4>>, {2, 8}),
          Constants(<<4>>, {1, 2}) \cup Arguments(<<4>>, {<<4, 4>>}) \cup {MakeRange(0, 4)},
          {"add", "mul", "shl", "shr", "max", "min", "and"}, 3)

\* Offsets into a matrix: rows by their stride, and columns.
Matrix ==
    Chain({MakeRange(0, 4), MakeRange(4, 8)},
          Constants(<<4>>, {2, 16}) \cup Arguments(<<4>>, {<<16, 16>>, <<3, 1>>}) \cup {Columns}
              \cup Arguments(<<4, 4>>, {<<4, 4>>}) \cup Pointers(<<4, 4>>, {1, 4}),
          {"add", "mul", "expand", "broadcast", "addptr"}, 6)

\* Masks, and what is selected by them.
Masks ==
    Chain(Ranges,
          Constants(<<4>>, {1, 2}) \cup {Mask, Constant(<<>>, 0), Argument(1, 1, 0), MakeRange(4, 8)},
          {"cmp", "select", "and", "div"}, 4)

\* What is loaded by masks.
Loads ==
    Chain(Ranges \cup Pointers(<<4>>, {4}), Constants(<<4>>, {1, 2, 4}) \cup {Mask} \cup Pointers(<<4>>, {1, 4}),
          {"div", "mul", "cmp", "addptr", "load"}, 4)

MCChains ==
    [index |-> Index, wrap |-> Wrap, group |-> Group, matrix |-> Matrix, masks |-> Masks, loads |-> Loads]

-----------------------------------------------------------------------------
VARIABLES part, program, lattice, fresh, queue, env, pc, trips

\* Without the programs: for the constructors of statements.
Code == INSTANCE AxisInfoFlow WITH Programs <- {}, MaxTrips <- 2

Program(code) == [code |-> code]
Four == <<4>>

Number(n) == Constant(<<>>, n)
Numbers == {Number(n) : n \in {0, 4, 6}} \cup {Argument(16, 16, 0), Argument(3, 1, 0)}
Offsets == {MakeRange(0, 4), Constant(Four, 4), Splat(Argument(16, 16, 0), Four)}

\* A loop that advances a tensor of offsets, or of pointers, by a constant or
\* by its counter.
Advance(first, increment, offsets, by, op, what) ==
    Program(<<
        Code!Let("lb", first), Code!Let("step", increment), Code!Let("offs", offsets), Code!Let("by", by),
        Code!For("k", "lb", "step", <<Code!Carried("x", "offs", "next", "last")>>, 8),
            Code!Op("ks", "splat", <<"k">>, Four, 1),
            Code!Op("next", op, <<"x", what>>, Four, larger(1, offsets.elemSize)),
        Code!End(5),
        Code!Op("sum", op, <<"last", "by">>, Four, larger(1, offsets.elemSize)) >>)

Increments == {Number(1), Number(4), Argument(16, 16, 0)}
MCAdvances ==
    {Advance(a, b, offs, Constant(Four, n), "add", what) :
        a \in Numbers, b \in Increments, offs \in Offsets, n \in {1, 4}, what \in {"by", "ks"}}
    \cup
    {Advance(a, b, ptr, by, "addptr", what) :
        a \in Numbers, b \in Increments, ptr \in Pointers(Four, {1, 4}),
        by \in {Constant(Four, 4), Splat(Argument(3, 1, 0), Four)}, what \in {"by", "ks"}}

\* Ranges and what is equal everywhere, scaled, wrapped and added in a loop.
MCScaled ==
    {Advance(Number(0), Number(1), offs, by, op, "by") :
        offs \in Offsets \cup {MakeRange(2, 6)}, op \in {"add", "mul", "rem", "div"},
        by \in {MakeRange(4, 8), MakeRange(2, 6), Constant(Four, 2), Constant(Four, 1), Splat(Argument(3, 1, 0), Four)}}

\* Two loops: the inner one starts at the counter of the outer one, and its
\* result is carried on.
Nest(first, increment, init, by, op, base) ==
    Program(<<
        Code!Let("lb", first), Code!Let("step", increment), Code!Let("init", init), Code!Let("by", by),
        Code!For("i", "lb", "step", <<Code!Carried("x", "init", "z", "last")>>, 10),
            Code!For("j", base, "step", <<Code!Carried("y", "x", "y1", "z")>>, 9),
                Code!Op("t", "mul", <<"j", "by">>, <<>>, 1),
                Code!Op("y1", op, <<"y", "t">>, <<>>, 1),
            Code!End(6),
        Code!End(5),
        Code!Op("sum", "mul", <<"last", "by">>, <<>>, 1) >>)

MCNests ==
    {Nest(a, b, init, by, op, base) :
        a \in {Number(0), Number(6), Argument(16, 16, 0)}, b \in {Number(4), Argument(3, 1, 0)},
        init \in {Number(0), Number(4), Argument(3, 1, 0)}, by \in {Number(2), Argument(16, 16, 0)},
        op \in {"add", "mul"}, base \in {"i", "lb"}}

MCPrograms == MCAdvances \cup MCScaled \cup MCNests

Flow == INSTANCE AxisInfoFlow WITH Programs <- MCPrograms, MaxTrips <- 2

-----------------------------------------------------------------------------
flowVars == <<program, lattice, fresh, queue, env, pc, trips>>
NoProgram == program = 0 /\ lattice = 0 /\ fresh = 0 /\ queue = 0 /\ env = 0 /\ pc = 0 /\ trips = 0
NoChain == kind = "none" /\ value = 0 /\ length = 0

MCInit ==
    \/ part = "chain" /\ Init /\ NoProgram
    \/ part = "function" /\ NoChain /\ Flow!Init

MCNext ==
    \/ part = "chain" /\ Next /\ UNCHANGED <<part, flowVars>>
    \/ part = "function" /\ Flow!Next /\ UNCHANGED <<part, vars>>

MCSpec ==
    /\ MCInit /\ [][MCNext]_<<part, vars, flowVars>>
    /\ WF_flowVars(part = "function" /\ Flow!Solve /\ UNCHANGED <<part, vars>>)

-----------------------------------------------------------------------------
\* Along each dimension a value is made of sequences of consecutive integers,
\* and of sequences of equal ones, of the lengths that are known; a constant
\* that is known is the value (getContiguity, getConstancy, getConstantValue).
\* The first integer of each contiguous sequence has the known divisor; not so
\* if ranges are summed, wrapped or selected, the chains left out here
\* (getDivisibility).  The elements of a vector access are adjacent, and aligned
\* to its size (getPtrContiguity, getPtrAlignment).
ChainsKnown ==
    part = "chain" =>
        /\ TypeOK /\ ContiguityHolds /\ ConstancyHolds /\ ConstantHolds
        /\ kind \in {"index", "loads"} => DivisibilityHolds
        /\ VectorsAligned

\* What is known of a value is so in every iteration and after each loop, of
\* counters too (AxisInfo::join, visitForOpInductionVar); in the end no visit
\* would change anything (visitOperation).
LoopsKnown ==
    part = "function" =>
        /\ Flow!ContiguityHolds /\ Flow!ConstancyHolds /\ Flow!ConstantHolds
        /\ program \notin MCScaled => Flow!DivisibilityHolds
        /\ Flow!Settled

\* The solver ends (visitForOpInductionVar).
AnalysisEnds == part = "function" ~> part = "function" /\ Flow!Solved

=============================================================================
