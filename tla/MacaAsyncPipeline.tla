-------------------------- MODULE MacaAsyncPipeline ---------------------------
(***************************************************************************)
(* The kernel PipelineAsyncBase.cpp makes of a loop with one dot (pipeline  *)
(* "cpasync"): loads become asynchronous copies into one of numStages - 1   *)
(* buffers, numStages - 1 iterations ahead of the dot, and the operands of  *)
(* the next dot are loaded from shared memory an iteration ahead.           *)
(***************************************************************************)
EXTENDS WarpKernel, SequencesExt

CONSTANTS
    NumStages,  \* the values of num_stages
    MaxTrip,    \* a bound: the iterations of the source loop
    Layouts,    \* [shape, tile, perThread, minVec, bits] of the tiles
    Masks,      \* the sets of masked <<load, iteration>>
    Others      \* what the source programs give masked elements, by load

\* A loop is pipelined with two stages or more.
ASSUME StagesAssumption == NumStages \subseteq Nat \ {0, 1} /\ MaxTrip \in Nat

VARIABLES
    numStages,  \* the pass's numStages
    layout      \* load -> its layout

pass == <<numStages, layout>>

\* One more than num_stages.
initialize(s) == s + 1

Product(seq) == FoldSeq(LAMBDA x, y : x * y, 1, seq)
AtLeastOne(x) == IF x < 1 THEN 1 ELSE x

\* The copies a thread is taken to issue for a load: a tile of the block is
\* covered by tiles of the layout; ceil(bits, 128) is one.
getGVMNumberPerOp(y) ==
    LET instrs == (y.bits + 127) \div 128
    IN  instrs * Product([d \in DOMAIN y.shape |-> y.shape[d] \div y.tile[d]])

\* The copies a thread does issue, one for minVec of its elements.
AsyncCopyInstructions(y) ==
    (Product([d \in DOMAIN y.shape |-> AtLeastOne(y.shape[d] \div y.tile[d])]) * Product(y.perThread))
        \div y.minVec

\* The copies of an iteration that the pass counts, all loads together.
Counted == UNION {{l} \X (1..getGVMNumberPerOp(layout[l])) : l \in Loads}
gvmNumberPerOp == Cardinality(Counted)

-----------------------------------------------------------------------------
(* The kernel. *)

buffers == numStages - 1

ReadAll(s) == ForLoads(LAMBDA l : Read(l, s, 1..parts[l]))

\* Iterations 0..numStages - 2 are copied; then the operands of the first.
emitPrologue ==
    [i \in 1..numStages - 1 |-> ForLoads(LAMBDA l : Copy(l, i - 1, i - 1))]
    \o <<<<Arrive(gvmNumberPerOp * (numStages - 2)), Barrier>> \o ReadAll(0)>>

\* pipelineIterIdx starts at numStages - 1, loopIterIdx at 2.
insertSliceIndex(k) == (numStages - 1 + k) % (numStages - 1)
extractSliceIndex(k) == (2 + k) % (numStages - 1)

\* The slice the body reads: the loop argument, stage 1 at first.
loadsExtract(k) == IF k = 0 THEN 1 ELSE extractSliceIndex(k - 1)

\* Waits as the prologue does.
prefetchNextIteration_prologue(k) ==
    <<Arrive(gvmNumberPerOp * (numStages - 2)), Barrier>>
    \o ForLoads(LAMBDA l : Copy(l, k + numStages - 1, insertSliceIndex(k)))
    \o <<Dot(k)>>
    \o ReadAll(loadsExtract(k))

\* The body for iteration k: the copies come after the barrier, the local
\* loads for the next iteration after the dot.
prefetchNextIteration(k) ==
    <<Arrive(gvmNumberPerOp * (numStages - 3)), Barrier>>
    \o ForLoads(LAMBDA l : Copy(l, k + numStages - 1, insertSliceIndex(k)))
    \o <<Dot(k)>>
    \o ReadAll(loadsExtract(k))

emitEpilogue_noArrive == <<Barrier>>

emitEpilogue == <<Arrive(0), Barrier>>

LoopPipeliner ==
    emitPrologue \o [k \in 1..trip |-> prefetchNextIteration(k - 1)] \o <<emitEpilogue>>

AsyncInit ==
    /\ numStages \in {initialize(s) : s \in NumStages}
    /\ layout \in [Loads -> Layouts]
    /\ trip \in 0..MaxTrip
    /\ masked \in Masks /\ other \in Others
    /\ parts = [l \in Loads |-> AsyncCopyInstructions(layout[l])]
    /\ prog = LoopPipeliner
    /\ Started(buffers)

AsyncSpec == AsyncInit /\ [][WarpNext /\ UNCHANGED pass]_<<warpVars, pass>>

-----------------------------------------------------------------------------
(* What the pass takes for granted. *)

\* A thread issues the copies that the pass counts for a load, or more, and one
\* at least: a thread's elements are a number of vectors, of 128 bits at most.
Vectors ==
    \A y \in Layouts :
        /\ getGVMNumberPerOp(y) \in Nat /\ AsyncCopyInstructions(y) \in Nat \ {0}
        /\ getGVMNumberPerOp(y) <= AsyncCopyInstructions(y)

=============================================================================
