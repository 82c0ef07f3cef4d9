----------------------------- MODULE Allocation -----------------------------
(***************************************************************************)
(* AllocationAnalysis::computeOffsets on the buffers of one function: a     *)
(* first placement that packs live ranges (calculateStarts), then rounds of *)
(* first-fit colouring of the interference graph and bumping of the buffers *)
(* that did not get colour 0, until nothing interferes.                     *)
(*                                                                         *)
(* Buffers are numbered in the order of bufferRange.                        *)
(***************************************************************************)
EXTENDS BlockInfo, Sequences, FiniteSets

CONSTANTS
    N,          \* the number of buffers
    Requests,   \* the sizes, alignments and live ranges they may come with
    SizeMax     \* std::numeric_limits<size_t>::max()

Buffers == 1..N

Request == [size : Nat \ {0}, alignment : Nat \ {0}, live : Interval]

ASSUME NAssumption == N \in Nat /\ SizeMax \in Nat
\* A live range is not empty and lies below the end of the first triple.
RequestOK(r) ==
    /\ r \in [Buffers -> Request]
    /\ \A b \in Buffers : r[b].live.start < r[b].live.end
                          /\ r[b].live.end <= SizeMax
ASSUME RequestAssumption == \A r \in Requests : RequestOK(r)

VARIABLES
    request,            \* what the buffers ask for
    offset,             \* BufferT::offset
    tripleMap,          \* the free places of calculateStarts, by offset
    xBuffers,           \* the buffers calculateStarts has not placed yet
    interference,       \* the edges of the interference graph
    colors,
    next,               \* the buffer a loop of allocate() is at
    sharedMemorySize,
    pc

vars == <<request, offset, tripleMap, xBuffers, interference, colors, next,
          sharedMemorySize, pc>>

Live(b) == request[b].live

\* getAllocatedInterval
Memory(b) == [start |-> offset[b], end |-> offset[b] + request[b].size]

\* llvm::alignTo
AlignTo(off, alignment) == ((off + alignment - 1) \div alignment) * alignment

Smaller(m, n) == IF m < n THEN m ELSE n
Larger(m, n) == IF m < n THEN n ELSE m

Triple(off, start, end) ==
    [offset |-> off, range |-> [start |-> start, end |-> end]]

\* multimap::insert: after the entries whose key is not greater.
Insert(s, t) ==
    LET n == Cardinality({k \in 1..Len(s) : s[k].offset <= t.offset})
    IN  [k \in 1..(Len(s) + 1) |->
            IF k <= n THEN s[k] ELSE IF k = n + 1 THEN t ELSE s[k - 1]]

InsertIf(cond, s, t) == IF cond THEN Insert(s, t) ELSE s

NoColor == N + 1     \* -1 in the code

-----------------------------------------------------------------------------
Init ==
    /\ request \in Requests
    /\ offset = [b \in Buffers |-> 0]
    /\ tripleMap = <<Triple(0, 0, SizeMax)>>
    /\ xBuffers = Buffers
    /\ interference = {}
    /\ colors = [b \in Buffers |-> NoColor]
    /\ next = 1
    /\ sharedMemorySize = 0
    /\ pc = "starts"

\* The lowest triple is taken; the buffers it could hold are those whose live
\* range meets its range and that of no other triple.
Lowest == Head(tripleMap)
Others == Tail(tripleMap)

Fits(b) == /\ Intersects(Live(b), Lowest.range)
           /\ \A k \in 1..Len(Others) : ~Intersects(Others[k].range, Live(b))

Fitting == {b \in xBuffers : Fits(b)}

Starting == pc = "starts" /\ xBuffers # {} /\ tripleMap # <<>>

\* No buffer fits: the triple is dropped.
DropTriple ==
    /\ Starting
    /\ Fitting = {}
    /\ tripleMap' = Others
    /\ UNCHANGED <<request, offset, xBuffers, interference, colors, next,
                   sharedMemorySize, pc>>

\* The first fitting buffer is put at the triple's offset, aligned; the triple
\* is replaced by the place above the buffer and the places beside it.
PlaceStart ==
    /\ Starting
    /\ \E b \in Fitting :
        LET off == AlignTo(Lowest.offset, request[b].alignment)
            r == Lowest.range
            x == Live(b)
            above == Insert(Others,
                       Triple(off + request[b].size, Larger(r.start, x.start),
                                                     Smaller(r.end, x.end)))
            left == InsertIf(r.start < x.start, above,
                             Triple(Lowest.offset, r.start, x.end))
        IN  /\ \A c \in Fitting : b <= c
            /\ offset' = [offset EXCEPT ![b] = off]
            /\ tripleMap' = InsertIf(x.end < r.end, left,
                                     Triple(Lowest.offset, x.start, r.end))
            /\ xBuffers' = xBuffers \ {b}
    /\ UNCHANGED <<request, interference, colors, next, sharedMemorySize, pc>>

\* buildInterferenceGraph: pairs that are live together and overlap in memory.
InterferenceGraph ==
    {e \in Buffers \X Buffers :
        /\ e[1] # e[2]
        /\ Intersects(Live(e[1]), Live(e[2]))
        /\ Intersects(Memory(e[1]), Memory(e[2]))}

Neighbors(x) == {y \in Buffers : <<x, y>> \in interference}

\* allocate() starts: the first buffer has colour 0, the others none.
StartRound ==
    /\ colors' = [b \in Buffers |-> IF b = 1 THEN 0 ELSE NoColor]
    /\ sharedMemorySize' = 0
    /\ next' = 1
    /\ pc' = "color"

\* The first interference graph, and the first round, which runs whether or
\* not the graph is empty.
FirstRound ==
    /\ pc = "starts" /\ xBuffers = {}
    /\ interference' = InterferenceGraph
    /\ StartRound
    /\ UNCHANGED <<request, offset, tripleMap, xBuffers>>

\* The colours no neighbour has.
Available(x) == {c \in 0..(N - 1) : \A y \in Neighbors(x) : colors[y] # c}

\* A version that gives colour 0 again to every buffer without a coloured
\* neighbour to its left.
ColorLeftOnly ==
    /\ pc = "color" /\ next <= N
    /\ colors' = [colors EXCEPT ![next] =
                    IF <<next, next - 1>> \in interference THEN 1 ELSE 0]
    /\ next' = next + 1
    /\ UNCHANGED <<request, offset, tripleMap, xBuffers, interference,
                   sharedMemorySize, pc>>

\* One buffer gets the first available colour; N is the end of `available'.
Color ==
    /\ pc = "color" /\ next <= N
    /\ colors' = [colors EXCEPT ![next] =
                    IF Available(next) = {} THEN N
                    ELSE CHOOSE c \in Available(next) :
                           \A d \in Available(next) : c <= d]
    /\ next' = next + 1
    /\ UNCHANGED <<request, offset, tripleMap, xBuffers, interference,
                   sharedMemorySize, pc>>

\* Every buffer is coloured: the second loop of allocate() starts.
StartBumping ==
    /\ pc = "color" /\ next = N + 1
    /\ next' = 1
    /\ pc' = "bump"
    /\ UNCHANGED <<request, offset, tripleMap, xBuffers, interference, colors,
                   sharedMemorySize>>

\* A version that looks at the start of the neighbours.
NewOffsetByStart(x) ==
    LET starts == {0} \cup {Memory(y).start : y \in Neighbors(x)}
    IN  CHOOSE m \in starts : \A n \in starts : n <= m

\* newOffset: the highest end of a neighbour, as the neighbours stand now.
NewOffset(x) ==
    LET ends == {0} \cup {Memory(y).end : y \in Neighbors(x)}
    IN  CHOOSE m \in ends : \A n \in ends : n <= m

\* A version that measures the buffer before it is moved.
BumpStaleSize ==
    /\ pc = "bump" /\ next <= N
    /\ offset' = [offset EXCEPT ![next] =
                    IF colors[next] # 0
                    THEN AlignTo(NewOffset(next), request[next].alignment)
                    ELSE @]
    /\ sharedMemorySize' = Larger(sharedMemorySize, Memory(next).end)
    /\ next' = next + 1
    /\ UNCHANGED <<request, tripleMap, xBuffers, interference, colors, pc>>

\* A buffer without colour 0 is moved above its neighbours.
Bump ==
    /\ pc = "bump" /\ next <= N
    /\ offset' = [offset EXCEPT ![next] =
                    IF colors[next] # 0
                    THEN AlignTo(NewOffset(next), request[next].alignment)
                    ELSE @]
    /\ sharedMemorySize' =
         Larger(sharedMemorySize, offset'[next] + request[next].size)
    /\ next' = next + 1
    /\ UNCHANGED <<request, tripleMap, xBuffers, interference, colors, pc>>

RoundOver == pc = "bump" /\ next = N + 1

\* Something interferes after the bump: another round.
NextRound ==
    /\ RoundOver
    /\ InterferenceGraph # {}
    /\ interference' = InterferenceGraph
    /\ StartRound
    /\ UNCHANGED <<request, offset, tripleMap, xBuffers>>

\* Nothing interferes: the offsets are final.
Finish ==
    /\ RoundOver
    /\ InterferenceGraph = {}
    /\ interference' = {}
    /\ pc' = "done"
    /\ UNCHANGED <<request, offset, tripleMap, xBuffers, colors, next,
                   sharedMemorySize>>

\* The analysis has returned.
Done == pc = "done" /\ UNCHANGED vars

Next == \/ DropTriple \/ PlaceStart \/ FirstRound \/ Color \/ StartBumping
        \/ Bump \/ NextRound \/ Finish \/ Done

Spec == Init /\ [][Next]_vars

\* computeOffsets is a sequential computation.
FairSpec == Spec /\ WF_vars(Next)

-----------------------------------------------------------------------------
\* Offsets are natural numbers, colours and positions are of the buffers, and
\* the triples are intervals of memory (AllocationAnalysis::computeOffsets).
TypeOK ==
    /\ RequestOK(request)
    /\ offset \in [Buffers -> Nat]
    /\ tripleMap \in Seq([offset : Nat, range : Interval])
    /\ xBuffers \subseteq Buffers
    /\ interference \subseteq Buffers \X Buffers
    /\ colors \in [Buffers -> 0..NoColor]
    /\ next \in 1..(N + 1)
    /\ sharedMemorySize \in Nat
    /\ pc \in {"starts", "color", "bump", "done"}

\* While a buffer is left to be placed, some triple's range meets its live
\* range: begin() of tripleMap is never taken from an empty map.
TripleMapCovers ==
    pc = "starts" =>
        \A b \in xBuffers : \E k \in 1..Len(tripleMap) :
            Intersects(tripleMap[k].range, Live(b))

\* A round separates every pair that interfered when it began.
RoundSeparates ==
    RoundOver => \A e \in interference : ~Intersects(Memory(e[1]), Memory(e[2]))

\* A round never moves a buffer down.
OffsetsGrow ==
    [][pc = "bump" => \A b \in Buffers : offset'[b] >= offset[b]]_vars

\* The loops end, with every buffer placed.
Termination == <>(pc = "done")

\* computeOffsets is one Place step of MemoryLayout.
Layout == INSTANCE MemoryLayout WITH
    placed <- pc = "done",
    offset <- IF pc = "done" THEN offset ELSE [b \in Buffers |-> 0],
    total  <- IF pc = "done" THEN sharedMemorySize ELSE 0

\* The rounds give the layout that a caller is promised: disjoint, aligned
\* places in the total (AllocationAnalysis::computeOffsets).
LayoutSpec == Layout!Spec

\* What the comment on computeOffsets says of its rounds: each leaves fewer
\* conflicts than it found.
ConflictsReduce ==
    [][RoundOver => Cardinality(interference') < Cardinality(interference)
                    \/ interference' = {}]_vars

-----------------------------------------------------------------------------
(***************************************************************************)
(* The inductive invariant behind RoundSeparates, OffsetsGrow and Layout.   *)
(***************************************************************************)
InRound == pc \in {"color", "bump"}

\* The graph of a round is symmetric and joins buffers that are live together.
GraphSound ==
    InRound => \A e \in interference :
                 /\ e[1] # e[2]
                 /\ <<e[2], e[1]>> \in interference

\* The first-fit colouring so far: neighbours differ, and only a buffer with a
\* neighbour is denied colour 0.
HasColor(x) == pc = "bump" \/ x < next

ColoringSound ==
    InRound => \A x \in Buffers : HasColor(x) =>
                 /\ colors[x] \in 0..(N - 1)
                 /\ colors[x] # 0 => Neighbors(x) # {}
                 /\ \A y \in Neighbors(x) : HasColor(y) => colors[x] # colors[y]

\* A buffer bumped in this round is above every neighbour that will not move
\* any more; one that is still to be bumped starts below its neighbours' ends.
BumpSound ==
    InRound => \A x \in Buffers : \A y \in Neighbors(x) :
        IF pc = "bump" /\ x < next
        THEN colors[x] # 0 /\ (y < x \/ colors[y] = 0)
               => offset[x] >= Memory(y).end
        ELSE offset[x] < Memory(y).end

AllAligned ==
    \A b \in Buffers : Layout!Aligned(offset[b], request[b].alignment)

\* sharedMemorySize covers the buffers the round has passed.
SizeCovers ==
    pc \in {"bump", "done"} =>
        \A b \in Buffers : b < next => Memory(b).end <= sharedMemorySize

AllDisjoint == pc = "done" => Layout!Disjoint(request, offset) /\ next = N + 1

\* What holds between the steps of every round, in each of its phases
\* (AllocationAnalysis::computeOffsets).
RoundInv ==
    /\ TypeOK
    /\ TripleMapCovers
    /\ GraphSound
    /\ ColoringSound
    /\ BumpSound
    /\ AllAligned
    /\ SizeCovers
    /\ AllDisjoint

=============================================================================
