------------------------------- MODULE Membar -------------------------------
(***************************************************************************)
(* MembarAnalysis on one function: a worklist analysis of the control-flow  *)
(* graph that inserts a gpu.barrier wherever an operation's shared-memory   *)
(* accesses may meet accesses that no barrier separates from it.            *)
(*                                                                         *)
(* A block's local copy `inputBlockInfo' is kept for every operation it     *)
(* reached, in visitInfo[block][i]: the current value is the one at i, the  *)
(* earlier ones are history.  Inserted barriers are a set of places: i \in  *)
(* barriers[b] stands for a gpu.barrier right before operation i of b, and  *)
(* place Len(code) + 1 is the one right before the terminator.              *)
(***************************************************************************)
EXTENDS BlockInfo, Sequences

CONSTANTS
    Blocks,          \* basic blocks of the function
    Entry,           \* the block isEntryBlock() holds of
    Functions,       \* the functions the analysis may be given
    MaxOps,          \* the longest block, not counting its terminator
    DisableOptMACA,  \* TRITON_DISABLE_MACA_OPT_MMA is set
    MaxBlockList     \* a bound on the length of blockList

Index == 1..(MaxOps + 1)

\* What update() reads of an operation.  `reads' and `writes' are the
\* intervals of its memory effects, `operands' those of a dot's operands,
\* `scratch' the interval of its scratch buffer, if it has one.
\* Barriers and async waits access no buffer.
OpRecord == [kind : {"access", "barrier", "async_wait"}, intrinsic : BOOLEAN,
             reads : SUBSET Interval, writes : SUBSET Interval,
             operands : SUBSET Interval, scratch : SUBSET Interval]
Op == {op \in OpRecord :
         op.kind # "access" => /\ op.reads = {} /\ op.writes = {}
                               /\ op.operands = {} /\ op.scratch = {}}

\* A block without successors ends in a return.
Function == [code : [Blocks -> Seq(Op)], succ : [Blocks -> Seq(Blocks)]]

ASSUME EntryAssumption == Entry \in Blocks
ASSUME BoundAssumption == MaxOps \in Nat /\ MaxBlockList \in Nat
ASSUME OptionAssumption == DisableOptMACA \in BOOLEAN
WellFormed(f) == /\ f \in Function
                 /\ \A b \in Blocks : Len(f.code[b]) <= MaxOps

ASSUME FunctionAssumption == \A f \in Functions : WellFormed(f)

VARIABLES
    func,                \* the function under analysis
    blockList,           \* the worklist
    working,             \* a block has been popped and is being visited
    block,               \* that block
    i,                   \* the operation of `block' to be visited next
    visitInfo,           \* inputBlockInfo, as it was at each operation
    inputBlockInfoMap,
    outputBlockInfoMap,
    seen,                \* the blocks outputBlockInfoMap has an entry for
    barriers,            \* the places that hold an inserted gpu.barrier
    funcBlockInfo,       \* the function's summary for its callers
    resolved             \* resolve() has returned

membarVars == <<func, blockList, working, block, i, visitInfo,
                inputBlockInfoMap, outputBlockInfoMap, seen, barriers,
                funcBlockInfo, resolved>>

Code(b) == func.code[b]
Succ(b) == {func.succ[b][k] : k \in 1..Len(func.succ[b])}
Returns(b) == func.succ[b] = <<>>
Queued(b) == \E k \in 1..Len(blockList) : blockList[k] = b

\* An operation marked as a MACA intrinsic is not analysed, unless the
\* environment asks for it.
Skipped(op) == ~DisableOptMACA /\ op.intrinsic

\* The accesses of one operation without those of its scratch buffer.
CurBlockInfoNoScratch(op) ==
    [reads |-> op.reads \cup op.operands, writes |-> op.writes]

\* The accesses of one operation; scratch memory is both read and written.
CurBlockInfo(op) == [reads  |-> op.reads \cup op.operands \cup op.scratch,
                     writes |-> op.writes \cup op.scratch]

-----------------------------------------------------------------------------
MembarInit ==
    /\ func \in Functions
    /\ blockList = <<Entry>>
    /\ working = FALSE
    /\ block = Entry
    /\ i = 1
    /\ visitInfo = [b \in Blocks |-> [k \in Index |-> NoInfo]]
    /\ inputBlockInfoMap = [b \in Blocks |-> NoInfo]
    /\ outputBlockInfoMap = [b \in Blocks |-> NoInfo]
    /\ seen = {}
    /\ barriers = [b \in Blocks |-> {}]
    /\ funcBlockInfo = NoInfo
    /\ resolved = FALSE

\* A version that leaves the block it visits in the worklist.
PopFrontKeeps ==
    /\ ~working /\ ~resolved /\ blockList # <<>>
    /\ block' = Head(blockList)
    /\ i' = 1
    /\ visitInfo' = [visitInfo EXCEPT ![block'][1] = inputBlockInfoMap[block']]
    /\ working' = TRUE
    /\ UNCHANGED <<func, blockList, inputBlockInfoMap, outputBlockInfoMap, seen,
                   barriers, funcBlockInfo, resolved>>

\* Pop the next block and copy its input.
PopFront ==
    /\ ~working /\ ~resolved /\ blockList # <<>>
    /\ block' = Head(blockList)
    /\ blockList' = Tail(blockList)
    /\ i' = 1
    /\ visitInfo' = [visitInfo EXCEPT ![block'][1] = inputBlockInfoMap[block']]
    /\ working' = TRUE
    /\ UNCHANGED <<func, inputBlockInfoMap, outputBlockInfoMap, seen, barriers,
                   funcBlockInfo, resolved>>

\* inputBlockInfo when operation k of b is reached: a barrier inserted before it
\* on an earlier visit, or by the async wait before it, is visited first.
ReachedAt(b, k) == IF k \in barriers[b] THEN NoInfo ELSE visitInfo[b][k]

Reached == ReachedAt(block, i)

\* The visit of operation i leaves inputBlockInfo with the value `info'.
Leave(info) ==
    /\ visitInfo' = [visitInfo EXCEPT ![block][i + 1] = info]
    /\ i' = i + 1
    /\ UNCHANGED <<func, blockList, working, block, inputBlockInfoMap,
                   outputBlockInfoMap, seen, funcBlockInfo, resolved>>

Visiting == working /\ i <= Len(Code(block))

\* isa<BarrierOp>(op->getNextNode())
NextIsBarrier ==
    \/ i + 1 \in barriers[block]
    \/ i < Len(Code(block)) /\ Code(block)[i + 1].kind = "barrier"

\* update() on an intrinsic operation: the early returns.
SkipIntrinsic ==
    /\ Visiting
    /\ Skipped(Code(block)[i])
    /\ Leave(Reached)
    /\ UNCHANGED barriers

\* update() on a barrier of the program.
SyncAtBarrier ==
    /\ Visiting
    /\ Code(block)[i].kind = "barrier"
    /\ ~Skipped(Code(block)[i])
    /\ Leave(NoInfo)
    /\ UNCHANGED barriers

\* update() on an async wait that no barrier follows: one is put after it.
BarrierAfterWait ==
    /\ Visiting
    /\ Code(block)[i].kind = "async_wait"
    /\ ~Skipped(Code(block)[i])
    /\ ~NextIsBarrier
    /\ barriers' = [barriers EXCEPT ![block] = @ \cup {i + 1}]
    /\ Leave(NoInfo)

\* Operations that get as far as curBlockInfo.
Analysed(op) == /\ ~Skipped(op)
                /\ op.kind # "barrier"
                /\ op.kind = "async_wait" => NextIsBarrier

\* A version that drops the current operation's accesses once a barrier
\* has been put before it.
UpdateAccessNoJoin ==
    /\ Visiting
    /\ Analysed(Code(block)[i])
    /\ LET cur == CurBlockInfo(Code(block)[i])
       IN  IF IsIntersected(Reached, cur)
           THEN /\ barriers' = [barriers EXCEPT ![block] = @ \cup {i}]
                /\ Leave(NoInfo)
           ELSE Leave(Join(Reached, cur)) /\ UNCHANGED barriers

\* update() on an operation that accesses shared memory.
UpdateAccess ==
    /\ Visiting
    /\ Analysed(Code(block)[i])
    /\ LET cur == CurBlockInfo(Code(block)[i])
       IN  IF IsIntersected(Reached, cur)
           THEN /\ barriers' = [barriers EXCEPT ![block] = @ \cup {i}]
                /\ Leave(Join(NoInfo, cur))
           ELSE Leave(Join(Reached, cur)) /\ UNCHANGED barriers

AtTerminator == working /\ i = Len(Code(block)) + 1

\* The stop test: seen before, with the same result.
Unchanged == block \in seen /\ Reached = outputBlockInfoMap[block]

\* The block ends as it did before: its successors are left alone.
SkipSuccessors ==
    /\ AtTerminator
    /\ Unchanged
    /\ working' = FALSE
    /\ UNCHANGED <<func, blockList, block, i, visitInfo, inputBlockInfoMap,
                   outputBlockInfoMap, seen, barriers, funcBlockInfo, resolved>>

\* The block's output is joined into that of its previous visits, and into
\* the input of each successor, which is queued.
UpdateSuccessors ==
    /\ AtTerminator
    /\ ~Unchanged
    /\ Len(blockList) + Len(func.succ[block]) <= MaxBlockList
    /\ LET output == Join(outputBlockInfoMap[block], Reached)
       IN  /\ outputBlockInfoMap' = [outputBlockInfoMap EXCEPT ![block] = output]
           /\ inputBlockInfoMap' =
                [b \in Blocks |-> IF b \in Succ(block)
                                  THEN Join(inputBlockInfoMap[b], output)
                                  ELSE inputBlockInfoMap[b]]
    /\ seen' = seen \cup {block}
    /\ blockList' = blockList \o func.succ[block]
    /\ working' = FALSE
    /\ UNCHANGED <<func, block, i, visitInfo, barriers, funcBlockInfo, resolved>>

\* The worklist is empty: the summary is what may dangle at a return.
Summarise ==
    /\ ~working /\ ~resolved /\ blockList = <<>>
    /\ LET outputs == {outputBlockInfoMap[b] : b \in {c \in Blocks : Returns(c)}}
       IN  funcBlockInfo' = [reads  |-> UNION {o.reads : o \in outputs},
                             writes |-> UNION {o.writes : o \in outputs}]
    /\ resolved' = TRUE
    /\ UNCHANGED <<func, blockList, working, block, i, visitInfo,
                   inputBlockInfoMap, outputBlockInfoMap, seen, barriers>>

Visit == SkipIntrinsic \/ SyncAtBarrier \/ BarrierAfterWait \/ UpdateAccess

MembarNext == PopFront \/ Visit \/ SkipSuccessors \/ UpdateSuccessors \/ Summarise

-----------------------------------------------------------------------------
MembarTypeOK ==
    /\ WellFormed(func)
    /\ blockList \in Seq(Blocks)
    /\ working \in BOOLEAN
    /\ block \in Blocks
    /\ i \in Index
    /\ i <= Len(Code(block)) + 1
    /\ visitInfo \in [Blocks -> [Index -> Info]]
    /\ inputBlockInfoMap \in [Blocks -> Info]
    /\ outputBlockInfoMap \in [Blocks -> Info]
    /\ seen \subseteq Blocks
    /\ barriers \in [Blocks -> SUBSET Index]
    /\ funcBlockInfo \in Info
    /\ resolved \in BOOLEAN

=============================================================================
