----------------------------- MODULE AsyncCopies -----------------------------
(***************************************************************************)
(* The pipelined loop as it runs on the device, with the schedule           *)
(* preProcessLoopAndGetSchedule gives it.  Part r of prologue and kernel    *)
(* runs the operations of stage s for iteration r - s.  A copy goes into    *)
(* the buffer of its iteration modulo numBuffers; once committed it lands   *)
(* at any later time, and only a wait, with the number updateWaits gives    *)
(* it, tells the threads that it has.  An MMAv3 dot is launched, and reads  *)
(* its buffers until it is done (asyncLaunchDots).                          *)
(***************************************************************************)
EXTENDS CoarseSchedule

CONSTANT MaxIterations  \* a bound: the number of iterations

VARIABLES
    n,          \* the number of iterations
    part,       \* the part of prologue or kernel
    next,       \* the position in opOrder
    buffers,    \* <<load, index>> -> the iteration whose data it holds, or -1
    issued,     \* the copies since the last commit: <<load, iteration>>
    groups,     \* the committed groups that may not have landed, oldest first
    dots,       \* the iterations whose dots have been launched and not done
    event       \* history: the buffer just read, if one was

device == <<n, part, next, buffers, issued, groups, dots, event>>

maxStage == numStages - 1
InPart(o, r) == Stage(o) <= r

\* The index that counts up and starts again at numBuffers.
Index(k) == k % numBuffers

DeviceInit ==
    /\ Init
    /\ n \in 0..MaxIterations
    /\ part = 0 /\ next = 1
    /\ buffers = <<>>
    /\ issued = {} /\ groups = <<>> /\ dots = {} /\ event = {}

\* The loop is entered with a valid schedule.
Start ==
    /\ phase = "scheduled"
    /\ phase' = "run"
    /\ buffers' = [b \in Loads \X (0..numBuffers - 1) |-> -1]
    /\ UNCHANGED <<program, schedule, clusters, todo, dist1Cluster, opToCluster, opOrder>>
    /\ UNCHANGED <<n, part, next, issued, groups, dots, event>>

-----------------------------------------------------------------------------
(* The number of a wait. *)

\* Commits in part r from one position of opOrder to another.
Commits(r, from, to) ==
    Cardinality({i \in from..to : opOrder[i][1] = "commit" /\ InPart(opOrder[i], r)})

RECURSIVE CommitsOfParts(_, _)
CommitsOfParts(first, last) ==
    IF first > last THEN 0
    ELSE Commits(first, 1, Len(opOrder)) + CommitsOfParts(first + 1, last)

\* Commits between the one a wait in part r waits for and the wait.
CommitsBetween(o, r) ==
    LET commit == <<"commit", o[2]>>
        first == r - (Stage(o) - Stage(commit))
    IN  IF first = r THEN Commits(r, Position(commit) + 1, Position(o) - 1)
        ELSE Commits(first, Position(commit) + 1, Len(opOrder))
             + CommitsOfParts(first + 1, r - 1)
             + Commits(r, 1, Position(o) - 1)

\* Mutant: the commit itself is counted as well.
minNumInterleavedCommitOps_itself(o, r) ==
    IF r < maxStage THEN CommitsBetween(o, r)
    ELSE 1 + Min({CommitsBetween(o, x) : x \in maxStage..maxStage + Stage(o)})

\* In the kernel the least of all the ways its token may have come: from any
\* part of the prologue, or from an iteration before.
minNumInterleavedCommitOps(o, r) ==
    IF r < maxStage THEN CommitsBetween(o, r)
    ELSE Min({CommitsBetween(o, x) : x \in maxStage..maxStage + Stage(o)})

\* Waits with only views in between become one, with the least number.
Combined(o, p) ==
    \A i \in Min({Position(o), Position(p)})..Max({Position(o), Position(p)}) :
        opOrder[i][1] \in {"wait", "view"}

combineRedundantWaitOps(o, r) ==
    Min({minNumInterleavedCommitOps(p, r) :
            p \in {x \in Ops : x[1] = "wait" /\ InPart(x, r) /\ Combined(o, x)}})

-----------------------------------------------------------------------------
(* The operations. *)

\* The operations that touch the buffers, in part r.
Touches(o, r) == o[1] \in {"copy", "commit", "wait", "local_load", "dot"} /\ InPart(o, r)
From(i, r) == Min({j \in i..Len(opOrder) : Touches(opOrder[j], r)} \cup {Len(opOrder) + 1})

Operation == opOrder[From(next, part)]
Iteration == part - Stage(Operation)

\* Only the next dot, the yield and perhaps an if use the result of the dot.
properlyAsync == program.mma3 /\ program.tail = 0

\* A dot is followed by a wait that leaves it alone in flight or, if it is
\* not asynchronous, nothing.
Pendings == IF properlyAsync THEN 1 ELSE 0

Runs(kind) ==
    /\ phase = "run" /\ part < maxStage + n /\ Cardinality(dots) <= Pendings
    /\ From(next, part) \in DOMAIN opOrder /\ Operation[1] = kind

Advance == next' = Position(Operation) + 1 /\ UNCHANGED vars /\ UNCHANGED <<n, part>>

\* A copy for an iteration beyond the last writes zeros.
AsyncCopy ==
    /\ Runs("copy")
    /\ issued' = issued \cup {<<Operation[2], Iteration>>}
    /\ event' = {}
    /\ Advance /\ UNCHANGED <<buffers, groups, dots>>

AsyncCommitGroup ==
    /\ Runs("commit")
    /\ groups' = Append(groups, issued)
    /\ issued' = {} /\ event' = {}
    /\ Advance /\ UNCHANGED <<buffers, dots>>

\* A copy lands, in any order.
Land ==
    /\ phase = "run"
    /\ \E i \in DOMAIN groups : \E c \in groups[i] :
          /\ buffers' = [buffers EXCEPT ![<<c[1], Index(c[2])>>] = c[2]]
          /\ groups' = [groups EXCEPT ![i] = @ \ {c}]
    /\ event' = {}
    /\ UNCHANGED vars /\ UNCHANGED <<n, part, next, issued, dots>>

\* All groups but the last num have landed.
Landed(num) == \A i \in DOMAIN groups : i <= Len(groups) - num => groups[i] = {}

AsyncWait ==
    /\ Runs("wait")
    /\ Landed(combineRedundantWaitOps(Operation, part))
    /\ event' = {}
    /\ Advance /\ UNCHANGED <<buffers, issued, groups, dots>>

\* What a buffer holds, and what is on its way there.
MayHold(l, k) ==
    {buffers[<<l, Index(k)>>]}
    \cup {c[2] : c \in {x \in issued \cup UNION ToSet(groups) : x[1] = l /\ Index(x[2]) = Index(k)}}

LocalLoad ==
    /\ Runs("local_load")
    /\ event' = {[iter |-> Iteration, data |-> MayHold(Operation[2], Iteration)]}
    /\ Advance /\ UNCHANGED <<buffers, issued, groups, dots>>

Dot ==
    /\ Runs("dot")
    /\ dots' = IF program.mma3 THEN dots \cup {Iteration} ELSE dots
    /\ event' = {}
    /\ Advance /\ UNCHANGED <<buffers, issued, groups>>

\* The first dot in flight is done.
DotDone ==
    /\ phase = "run" /\ dots # {}
    /\ dots' = dots \ {Min(dots)}
    /\ event' = {}
    /\ UNCHANGED vars /\ UNCHANGED <<n, part, next, buffers, issued, groups>>

NextPart ==
    /\ phase = "run" /\ part < maxStage + n /\ Cardinality(dots) <= Pendings
    /\ From(next, part) = Len(opOrder) + 1
    /\ part' = part + 1 /\ next' = 1 /\ event' = {}
    /\ UNCHANGED vars /\ UNCHANGED <<n, buffers, issued, groups, dots>>

\* After the loop all dots and all copies are waited for.
Deallocate ==
    /\ phase = "run" /\ part = maxStage + n
    /\ dots = {} /\ Landed(0)
    /\ phase' = "done" /\ event' = {}
    /\ UNCHANGED <<program, schedule, clusters, todo, dist1Cluster, opToCluster, opOrder>>
    /\ UNCHANGED <<n, part, next, buffers, issued, groups, dots>>

Schedule == Next /\ UNCHANGED device

Device ==
    \/ Start \/ AsyncCopy \/ AsyncCommitGroup \/ Land \/ AsyncWait \/ LocalLoad
    \/ Dot \/ DotDone \/ NextPart \/ Deallocate

DeviceNext == Schedule \/ Device

DeviceSpec == DeviceInit /\ [][DeviceNext]_<<vars, device>>

-----------------------------------------------------------------------------
\* A load from a buffer reads what the copy of its own iteration wrote: it
\* has landed, and no copy of another iteration can be writing there.
LoadsReadOwnData == \A e \in event : e.iter < n => e.data = {e.iter}

\* So does a dot that reads its buffers itself, for as long as it is in flight:
\* with the next iteration's dot launched, the copies issued meanwhile go to
\* other buffers.
DotsReadOwnData == \A k \in dots, c \in Chains : MayHold(<<c, 0>>, k) = {k}

\* When the buffers are deallocated nothing writes or reads them any more.
NothingInFlight == phase = "done" => dots = {} /\ issued = {} /\ \A i \in DOMAIN groups : groups[i] = {}

\* The wait in the kernel does not wait for more than the wait of the same
\* iteration needs: whatever way its token came, the number is the same.
WaitsForNoMore ==
    phase = "run" /\ part >= maxStage =>
        \A o \in Ops : o[1] = "wait" =>
            minNumInterleavedCommitOps(o, part) = CommitsBetween(o, part)

=============================================================================
