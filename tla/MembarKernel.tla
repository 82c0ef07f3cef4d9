---------------------------- MODULE MembarKernel ----------------------------
(***************************************************************************)
(* Membar composed with the execution of the function it has rewritten.     *)
(* One thread block runs the function along some path of the control-flow   *)
(* graph; `pending' holds the accesses its threads have made since the last *)
(* barrier on that path.  An operation that races with them can see or      *)
(* destroy data another thread has not finished with.                       *)
(***************************************************************************)
EXTENDS Membar

VARIABLES
    at,         \* the block being executed
    next,       \* its next operation
    pending,    \* accesses since the last barrier executed
    returned    \* the function has returned

kernelVars == <<at, next, pending, returned>>

vars == <<func, blockList, working, block, i, visitInfo, inputBlockInfoMap,
          outputBlockInfoMap, seen, barriers, funcBlockInfo, resolved,
          at, next, pending, returned>>

KernelInit == at = Entry /\ next = 1 /\ pending = NoInfo /\ returned = FALSE

Running == resolved /\ ~returned

\* What is pending when the next operation starts: an inserted gpu.barrier
\* in front of it has been executed first.
Arriving == IF next \in barriers[at] THEN NoInfo ELSE pending

AtOp == Running /\ next <= Len(Code(at))
AtEnd == Running /\ next = Len(Code(at)) + 1

\* What the threads do to shared memory when they execute op: a dot reads its
\* operands, scratch memory is written and then read.
Touches(op) == [reads  |-> UNION {op.reads, op.operands, op.scratch},
                writes |-> UNION {op.writes, op.scratch}]

\* What is pending after op when `info' is pending before it.
AfterOp(op, info) == IF Skipped(op) THEN info
                     ELSE IF op.kind = "barrier" THEN NoInfo
                     ELSE Join(info, Touches(op))

Execute ==
    /\ AtOp
    /\ pending' = AfterOp(Code(at)[next], Arriving)
    /\ next' = next + 1
    /\ UNCHANGED membarVars
    /\ UNCHANGED <<at, returned>>

Branch ==
    /\ AtEnd
    /\ \E b \in Succ(at) : at' = b
    /\ next' = 1
    /\ pending' = Arriving
    /\ UNCHANGED membarVars
    /\ UNCHANGED returned

Return ==
    /\ AtEnd
    /\ Returns(at)
    /\ pending' = Arriving
    /\ returned' = TRUE
    /\ UNCHANGED membarVars
    /\ UNCHANGED <<at, next>>

\* The kernel has returned; nothing follows.
Finished == returned /\ UNCHANGED vars

Analyse == MembarNext /\ UNCHANGED kernelVars

Next == Analyse \/ Execute \/ Branch \/ Return \/ Finished

Init == MembarInit /\ KernelInit

Spec == Init /\ [][Next]_vars

\* The compiler thread keeps running: resolve() is a sequential loop.
FairSpec == Spec /\ WF_vars(Analyse)

-----------------------------------------------------------------------------
\* The analysis keeps block infos, and an execution stands at an operation of
\* the function (MembarAnalysis::resolve).
TypeOK ==
    /\ MembarTypeOK
    /\ at \in Blocks
    /\ next \in Index
    /\ next <= Len(Code(at)) + 1
    /\ pending \in Info
    /\ returned \in BOOLEAN

\* On every path of the rewritten function, an operation the analysis looks
\* at never touches a byte that an earlier operation on that path has touched
\* since the last barrier, when one of the two writes it.
NoRace ==
    AtOp => LET op == Code(at)[next]
            IN  ~Skipped(op) => ~Races(Arriving, Touches(op))

\* Whatever path the function returned on, the accesses its callers have to
\* order against are in the summary it published.
SummaryCoversDangling == returned => Within(pending, funcBlockInfo)

\* The analysis of a function ends.
Termination == <>resolved

-----------------------------------------------------------------------------
(***************************************************************************)
(* The inductive invariant behind NoRace.                                   *)
(***************************************************************************)

\* What operation k of b leaves behind, given what the last visit of b found
\* when it reached it and the barriers there are now.
LeftBehind(b, k) == AfterOp(Code(b)[k], ReachedAt(b, k))

\* Operation k of b meets nothing that is pending when it is reached, and what
\* it leaves behind is seen by the next operation or cut off by a barrier.
Covered(b, k) ==
    /\ \/ k + 1 \in barriers[b]
       \/ Within(LeftBehind(b, k), visitInfo[b][k + 1])
    /\ \/ Skipped(Code(b)[k])
       \/ ~IsIntersected(ReachedAt(b, k), CurBlockInfo(Code(b)[k]))

InProgress(b) == working /\ b = block

\* The visit in progress has dealt with the operations before i.
PrefixCovered ==
    working => /\ ~resolved
               /\ Within(inputBlockInfoMap[block], visitInfo[block][1])
               /\ \A k \in 1..(i - 1) : Covered(block, k)

\* A block that has been visited is dealt with as a whole, from the input it
\* has now unless it is queued, up to its output.
VisitedCovered ==
    \A b \in seen : ~InProgress(b) =>
        /\ \A k \in 1..Len(Code(b)) : Covered(b, k)
        /\ Within(ReachedAt(b, Len(Code(b)) + 1), outputBlockInfoMap[b])
        /\ Queued(b) \/ Within(inputBlockInfoMap[b], visitInfo[b][1])

Known(b) == b \in seen \/ Queued(b) \/ InProgress(b)

\* The output of a visited block is in its successors' inputs, and they have
\* been, are being or will be visited.
OutputsFlow ==
    /\ Known(Entry)
    /\ \A b \in seen : \A s \in Succ(b) :
          Known(s) /\ Within(outputBlockInfoMap[b], inputBlockInfoMap[s])

SummaryComplete ==
    resolved => /\ blockList = <<>>
                /\ \A b \in Blocks :
                     Returns(b) => Within(outputBlockInfoMap[b], funcBlockInfo)

\* A running kernel is at a visited block and has no more pending than the
\* analysis found there.
ExecutionCovered ==
    /\ ~resolved => at = Entry /\ next = 1 /\ pending = NoInfo /\ ~returned
    /\ Running => at \in seen /\ Within(Arriving, ReachedAt(at, next))
    /\ returned => resolved /\ Within(pending, funcBlockInfo)

\* Every operation of every visited block is covered, the blocks' inputs and
\* outputs are consistent along the edges up to what is still queued, and the
\* execution stays within them: the invariant resolve()'s loop maintains.
FixpointInv ==
    /\ TypeOK
    /\ PrefixCovered
    /\ VisitedCovered
    /\ OutputsFlow
    /\ SummaryComplete
    /\ ExecutionCovered

=============================================================================
