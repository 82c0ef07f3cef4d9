----------------------------- MODULE MacaPipeline -----------------------------
(***************************************************************************)
(* The kernel PipelineMACA.cpp makes of a loop with one dot (pipeline       *)
(* "basic"), and what PrefetchMACA.cpp makes of that.  The loads of an      *)
(* iteration are issued numStages - 1 iterations ahead and carried in       *)
(* registers through the loop's arguments; an iteration ahead of the dot    *)
(* they are stored to shared memory, in one of two buffers.                 *)
(***************************************************************************)
EXTENDS WarpKernel, SequencesExt

CONSTANTS
    NumStages,  \* the values of num_stages
    MaxTrip,    \* a bound: the iterations of the source loop
    Masks,      \* the sets of masked <<load, iteration>>
    Others,     \* what the source programs give masked elements, by load
    SingleShm,  \* is-single-shm: one buffer instead of two
    Halves      \* the parts in each half of the dot's K

VARIABLES
    numStages,
    prefetch    \* PrefetchMACA runs too

pass == <<numStages, prefetch>>

AllParts == UNION {Halves[h] : h \in DOMAIN Halves}

numStagesForSHM == IF SingleShm THEN 1 ELSE 2

\* The results of the loads of iteration i.
Results(i) == [l \in Loads |-> <<l, i>>]

-----------------------------------------------------------------------------
(* The arguments of the new loop that carry results of loads. *)

\* What the prologue has loaded and not stored: iteration 1, then the rest.
prologueArgs ==
    [newOps   |-> IF numStages > 2 THEN Results(1) ELSE <<>>,
     newLoads |-> IF numStages > 3 THEN FlattenSeq([i \in 1..numStages - 3 |-> Results(i + 1)]) ELSE <<>>]

\* The loads the iteration can store, oldest first.
nextLoads(args, k) ==
    (IF numStages = 3 THEN args.newOps ELSE <<>>) \o args.newLoads \o Results(k + numStages - 1)

curLoads(args, k) == SubSeq(nextLoads(args, k), 1, Len(Results(0)))
laterLoads(args, k) == SubSeq(nextLoads(args, k), Len(Results(0)) + 1, Len(nextLoads(args, k)))

\* With more than three stages a load is worked on in one iteration and
\* stored in the next.
stored(args, k) == IF numStages > 3 THEN args.newOps ELSE curLoads(args, k)

\* The values the body yields are the next iteration's arguments.
finalizeYield(args, k) ==
    IF numStages = 3 THEN [newOps |-> laterLoads(args, k), newLoads |-> <<>>]
    ELSE [newOps   |-> IF numStages > 3 THEN curLoads(args, k) ELSE <<>>,
          newLoads |-> laterLoads(args, k)]

Args[k \in 0..MaxTrip] ==
    IF k = 0 THEN prologueArgs ELSE finalizeYield(Args[k - 1], k - 1)

-----------------------------------------------------------------------------
(* The kernel. *)

\* pipelineIterIdx is not used; loopIterIdx starts at 1.
extractSliceIndex(k) == (1 + k) % numStagesForSHM
sliceArg(k) == IF k = 0 THEN 0 ELSE extractSliceIndex(k - 1)

emitPrologue == ForLoads(LAMBDA l : Store(l, 0, l, 0))

Reads(k, ps) == ForLoads(LAMBDA l : Read(l, sliceArg(k), ps))

\* The barrier at the start of the body, then the body's own operations.
cloneForOp(k) == <<Barrier>> \o Reads(k, AllParts) \o <<Dot(k)>>

\* Takes the barrier out and does not put it back.
Prefetcher_noBarrier(k) ==
    Reads(k, Halves[1]) \o <<Dot(k)>> \o Reads(k, Halves[2]) \o <<Dot(k)>>

\* PrefetchMACA takes the body's arrives and barriers out, and makes of the
\* dot a barrier and two dots of half the K.
Prefetcher(k) ==
    <<Barrier>> \o Reads(k, Halves[1]) \o <<Dot(k)>> \o Reads(k, Halves[2]) \o <<Dot(k)>>

\* The stores of the next iteration come after the dot.
genStoredDeps(k) ==
    ForLoads(LAMBDA l : LET v == stored(Args[k], k)[l]
                        IN  Store(l, extractSliceIndex(k), v[1], v[2]))

Body(k) == (IF prefetch THEN Prefetcher(k) ELSE cloneForOp(k)) \o genStoredDeps(k)

emitEpilogue == <<Barrier>>

LoopPipeliner ==
    <<emitPrologue>> \o [k \in 1..trip |-> Body(k - 1)] \o <<emitEpilogue>>

Init ==
    /\ numStages \in NumStages
    /\ prefetch \in BOOLEAN
    /\ trip \in 0..MaxTrip
    /\ masked \in Masks /\ other \in Others
    /\ parts = [l \in Loads |-> 2]
    /\ prog = LoopPipeliner
    /\ Started(numStagesForSHM)

Spec == Init /\ [][WarpNext /\ UNCHANGED pass]_<<warpVars, pass>>

=============================================================================
