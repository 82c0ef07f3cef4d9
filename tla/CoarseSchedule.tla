--------------------------- MODULE CoarseSchedule ----------------------------
(***************************************************************************)
(* preProcessLoopAndGetSchedule: the loads a dot depends on become copies   *)
(* into buffers in shared memory, and the operations of the loop are put in *)
(* stages and, within an iteration of the kernel, in an order of clusters.  *)
(*                                                                         *)
(* The loop has one dot.  Each of its operands comes from a chain of loads: *)
(* level 0 feeds the dot, level d + 1 gives level d its pointer, the last   *)
(* level has a pointer that is advanced from one iteration to the next.     *)
(* <<"load", c, d>> is level d of chain c; createAsyncCopy makes of it a    *)
(* copy, its commit, a wait for it, the view of its buffer and the load     *)
(* from there.  A load used by an MMAv3 dot is read by the dot itself.      *)
(***************************************************************************)
EXTENDS Integers, Sequences, FiniteSets, FiniteSetsExt, SequencesExt

CONSTANT Programs

\* A program: num_stages; for each operand of the dot the loads of its chain
\* and how the last pointer is advanced, by an addition, by a load, or not at
\* all; whether the dot is MMAv3; whether an if gives the first chain its
\* mask, whether one follows the dot, and how many operations follow that.
Program == [numStages : Nat, chains : Seq([depth : Nat, pointer : {"add", "load", "none"}]),
            mma3 : BOOLEAN, ifBefore : BOOLEAN, ifAfter : BOOLEAN, tail : Nat]

VARIABLES
    program,
    phase,
    schedule,       \* opToStageAndCluster: operation -> [stage, cluster]
    clusters,       \* the clusters in order
    todo,           \* the operations a phase has still to look at
    dist1Cluster,   \* the cluster before the one it was made for, or <<>>
    opToCluster,    \* those of the operations that remain
    opOrder         \* the final order

vars == <<program, phase, schedule, clusters, todo, dist1Cluster, opToCluster, opOrder>>

-----------------------------------------------------------------------------
(* The loop. *)

numStages == program.numStages
Chains == DOMAIN program.chains
Deepest(c) == program.chains[c].depth - 1
Loads == UNION {{<<c, d>> : d \in 0..Deepest(c)} : c \in Chains}
maxIndirectionLevel == Max({l[2] : l \in Loads})

\* The operations of one load, in program order; the dot reads the buffer of
\* an MMAv3 load.
OfLoad(l) ==
    <<<<"copy", l>>, <<"commit", l>>, <<"wait", l>>, <<"view", l>>>>
    \o IF program.mma3 /\ l[2] = 0 THEN <<>> ELSE <<<<"local_load", l>>>>

OfChain(c) == FlattenSeq([i \in 1..Deepest(c) + 1 |-> OfLoad(<<c, Deepest(c) + 1 - i>>)])

When(b, s) == IF b THEN s ELSE <<>>

\* The body of the loop in program order.
Body ==
    <<<<"insertIdx">>, <<"extractIdx">>>>
    \o When(program.ifBefore, <<<<"ifBefore">>>>)
    \o FlattenSeq([c \in Chains |-> OfChain(c)])
    \o <<<<"dot">>>>
    \o When(program.ifAfter, <<<<"ifAfter">>>>)
    \o [i \in 1..program.tail |-> <<"tail", i>>]
    \o FlattenSeq([c \in Chains |-> When(program.chains[c].pointer # "none", <<<<"next", c>>>>)])

Ops == ToSet(Body)

\* What an operation reads: operations, of this iteration or the one before.
Operands(o) ==
    LET l == o[2]
    IN  CASE o[1] \in {"insertIdx", "extractIdx", "next"} -> {<<o, 1>>}
          [] o[1] = "ifBefore" -> {}
          [] o[1] = "copy" ->
                 {<<<<"insertIdx">>, 0>>}
                 \cup (IF l[2] < Deepest(l[1]) THEN {<<<<"local_load", <<l[1], l[2] + 1>>>>, 0>>}
                       ELSE {<<<<"next", c>>, 1>> :
                                c \in {x \in {l[1]} : program.chains[x].pointer # "none"}})
                 \cup {<<<<"ifBefore">>, 0>> :
                          x \in {y \in {1} : program.ifBefore /\ l = <<1, Deepest(1)>>}}
          [] o[1] = "commit" -> {<<<<"copy", l>>, 0>>}
          [] o[1] = "wait" -> {<<<<"commit", l>>, 0>>}
          [] o[1] = "view" -> {<<<<"extractIdx">>, 0>>}
          [] o[1] = "local_load" -> {<<<<"view", l>>, 0>>, <<<<"wait", l>>, 0>>}
          [] o[1] = "dot" ->
                 {<<<<IF program.mma3 THEN "view" ELSE "local_load", <<c, 0>>>>, 0>> : c \in Chains}
                 \cup {<<<<"dot">>, 1>>}
          [] o[1] = "ifAfter" -> {<<<<"dot">>, 0>>}
          [] o[1] = "tail" ->
                 {<<IF l > 1 THEN <<"tail", l - 1>>
                    ELSE IF program.ifAfter THEN <<"ifAfter">> ELSE <<"dot">>, 0>>}

IsLoad(o) == o[1] = "next" /\ program.chains[o[2]].pointer = "load"

-----------------------------------------------------------------------------
(* The schedule. *)

Stage(o) == schedule[o].stage
Cluster(o) == schedule[o].cluster
ClusterAt(x) == CHOOSE i \in DOMAIN clusters : clusters[i] = x

\* Mutant: the new cluster is the last.
Before_back(x, new) == Append(clusters, new)

\* newBefore: the clusters with a new one before x.
Before(x, new) ==
    SubSeq(clusters, 1, ClusterAt(x) - 1) \o <<new>>
    \o SubSeq(clusters, ClusterAt(x), Len(clusters))

\* insertIfAbsent.
Put(s, ops, stage, cluster) ==
    [o \in DOMAIN s \cup ops |->
        IF o \in DOMAIN s THEN s[o] ELSE [stage |-> stage, cluster |-> cluster]]

\* getOpsInOrder: by cluster, then by program order.
OpsInOrder ==
    FlattenSeq([i \in DOMAIN clusters |->
        SelectSeq(Body, LAMBDA o : o \in DOMAIN schedule /\ Cluster(o) = clusters[i])])

\* The operations an operation depends on; with includeArg, those of the
\* iteration before as well.
Deps(o, includeArg) == {x[1] : x \in {y \in Operands(o) : includeArg \/ y[2] = 0}}

\* insertDepsOfOp: all that o depends on through operations not yet in s.
RECURSIVE DepsOfOps(_, _, _)
DepsOfOps(ops, s, includeArg) ==
    LET new == UNION {Deps(o, includeArg) : o \in ops} \ (DOMAIN s \cup ops)
    IN  IF new = {} THEN ops ELSE DepsOfOps(ops \cup new, s, includeArg)

DepsOfOp(o, s, includeArg) ==
    LET first == Deps(o, includeArg) \ DOMAIN s
    IN  IF first = {} THEN {} ELSE DepsOfOps(first, s, includeArg)

\* The operations of this iteration o depends on, however they are scheduled.
BackwardSlice(o) == DepsOfOp(o, <<>>, FALSE)

stagesBetweenLoads ==
    (numStages - 2 + maxIndirectionLevel) \div (maxIndirectionLevel + 1)
LoadStage(l) == (maxIndirectionLevel - l[2]) * stagesBetweenLoads
LoadCluster(l) == <<"loads", l[2]>>

\* The stage of what uses a load: the dot's or that of the load it points.
distToUse(l) ==
    (IF l[2] = 0 THEN numStages - 1 ELSE LoadStage(<<l[1], l[2] - 1>>)) - LoadStage(l)

\* Mutant: no buffer more for MMAv3.
numBuffers_noExtra == Max({distToUse(l) : l \in Loads})

\* The most any load needs; one more if a dot reads its buffers itself.
numBuffers == Max({distToUse(l) : l \in Loads}) + (IF program.mma3 THEN 1 ELSE 0)

-----------------------------------------------------------------------------
Init ==
    /\ program \in Programs
    /\ phase = "loads"
    /\ schedule = <<>> /\ clusters = <<>> /\ todo = <<>>
    /\ dist1Cluster = <<>> /\ opToCluster = <<>> /\ opOrder = <<>>

\* scheduleLoads and createAsyncOps: the dot in the last stage, in the first
\* cluster; the loads of a level in a cluster, the deepest in the first stage;
\* the waits for what the dot reads, and the views, at the end of the stage
\* before it.
scheduleLoads ==
    /\ phase = "loads"
    /\ clusters' = <<<<"root">>>>
                   \o [i \in 1..maxIndirectionLevel + 1 |-> <<"loads", i - 1>>]
                   \o <<<<"prefetch">>>>
    /\ LET copies == {<<"copy", l>> : l \in Loads} \cup {<<"commit", l>> : l \in Loads}
           prefetched == IF program.mma3 THEN {} ELSE
               {<<x, <<c, 0>>>> : x \in {"wait", "view"}, c \in Chains}
       IN  schedule' = [o \in {<<"dot">>} \cup copies \cup prefetched |->
               IF o = <<"dot">> THEN [stage |-> numStages - 1, cluster |-> <<"root">>]
               ELSE IF o \in copies
               THEN [stage |-> LoadStage(o[2]), cluster |-> LoadCluster(o[2])]
               ELSE [stage |-> numStages - 2, cluster |-> <<"prefetch">>]]
    /\ phase' = "ifs"
    /\ UNCHANGED <<program, todo, dist1Cluster, opToCluster, opOrder>>

\* schedulePrologueAndEpilogue: an if that scheduled operations depend on goes
\* to the front, in the stage of the first of them, one that depends on the dot
\* to the back.  scheduleDependencies starts.
schedulePrologueAndEpilogue ==
    /\ phase = "ifs"
    /\ LET users == {o \in DOMAIN schedule : <<"ifBefore">> \in BackwardSlice(o)}
           before == IF users = {} THEN <<>> ELSE
               Put(<<>>, {<<"ifBefore">>}, Min({Stage(o) : o \in users}), <<"prologue">>)
           after == IF ~program.ifAfter THEN <<>> ELSE
               Put(<<>>, {<<"ifAfter">>}, Stage(<<"dot">>), <<"epilogue">>)
       IN  schedule' = [o \in DOMAIN schedule \cup DOMAIN before \cup DOMAIN after |->
               IF o \in DOMAIN before THEN before[o]
               ELSE IF o \in DOMAIN schedule THEN schedule[o] ELSE after[o]]
    /\ clusters' = <<<<"prologue">>>> \o clusters \o <<<<"epilogue">>>>
    /\ phase' = "order"
    /\ UNCHANGED <<program, todo, dist1Cluster, opToCluster, opOrder>>

\* scheduleDependencies goes stage by stage.
StageByStage ==
    /\ phase = "order"
    /\ todo' = FlattenSeq([i \in 1..numStages |->
                   SelectSeq(OpsInOrder, LAMBDA o : Stage(o) = i - 1)])
    /\ phase' = "dependencies"
    /\ UNCHANGED <<program, schedule, clusters, dist1Cluster, opToCluster, opOrder>>

scheduleDependencies ==
    /\ phase = "dependencies" /\ todo # <<>>
    /\ LET o == Head(todo)
       IN  schedule' = Put(schedule, DepsOfOp(o, schedule, FALSE), Stage(o), Cluster(o))
    /\ todo' = Tail(todo)
    /\ UNCHANGED <<program, phase, clusters, dist1Cluster, opToCluster, opOrder>>

DependenciesDone ==
    /\ phase = "dependencies" /\ todo = <<>>
    /\ phase' = "distanceOne"
    /\ todo' = Body
    /\ UNCHANGED <<program, schedule, clusters, dist1Cluster, opToCluster, opOrder>>

\* What o reads of the iteration before and has no stage yet.
DistanceOne(o) == {x[1] : x \in {y \in Operands(o) : y[2] = 1}} \ DOMAIN schedule

\* scheduleDistanceOneDependencies: a load goes with the operation, anything
\* else to the next stage, in the cluster before the operation's.  That cluster
\* is looked up by the address of a variable of the loop body, the same for
\* every operation: one is made, before the cluster of the first that needs it.
scheduleDistanceOneDependencies ==
    /\ phase = "distanceOne" /\ todo # <<>>
    /\ todo' = Tail(todo)
    /\ LET o == Head(todo)
           deps == IF o \in DOMAIN schedule THEN DistanceOne(o) ELSE {}
       IN  IF deps = {} \/ Stage(o) = numStages - 1
           THEN UNCHANGED <<schedule, clusters, dist1Cluster>>
           ELSE LET d == CHOOSE x \in deps : TRUE
                    cluster == IF dist1Cluster = <<>> THEN <<"dist1">> ELSE dist1Cluster
                    stage == IF IsLoad(d) THEN Stage(o) ELSE Stage(o) + 1
                    place == IF IsLoad(d) THEN Cluster(o) ELSE cluster
                    s == Put(schedule, {d}, stage, place)
                IN  /\ schedule' = Put(s, DepsOfOp(d, s, TRUE), stage, place)
                    /\ dist1Cluster' = IF IsLoad(d) THEN dist1Cluster ELSE cluster
                    /\ clusters' = IF IsLoad(d) \/ dist1Cluster # <<>> THEN clusters
                                   ELSE Before(Cluster(o), cluster)
    /\ UNCHANGED <<program, phase, opToCluster, opOrder>>

\* scheduleRemainingToLastStage: the others are in the cluster after the
\* prologue, as the dot; the queue starts with the last stage.
DistanceOneDone ==
    /\ phase = "distanceOne" /\ todo = <<>>
    /\ opToCluster' = [o \in Ops \ DOMAIN schedule |-> <<"root">>]
    /\ todo' = SelectSeq(OpsInOrder, LAMBDA o : Stage(o) = numStages - 1)
    /\ phase' = "remaining"
    /\ UNCHANGED <<program, schedule, clusters, dist1Cluster, opOrder>>

\* The users of an operation whose cluster is not yet final.
Users(o) == {u \in DOMAIN opToCluster : <<o, 0>> \in Operands(u)}

\* Those in a cluster before its own.
BehindOf(o) == {u \in Users(o) : ClusterAt(opToCluster[u]) < ClusterAt(Cluster(o))}

\* The users of the last in the queue move to its cluster if theirs is
\* before it, and join the queue.  The cluster of an operation that has none
\* is a null iterator.
MoveUsers ==
    /\ phase = "remaining" /\ todo # <<>>
    /\ LET o == todo[Len(todo)]
           rest == SubSeq(todo, 1, Len(todo) - 1)
       IN  IF Users(o) = {} \/ o \in DOMAIN schedule
           THEN LET moved == IF Users(o) = {} THEN {} ELSE BehindOf(o)
                IN  /\ opToCluster' = [u \in DOMAIN opToCluster |->
                           IF u \in moved THEN Cluster(o) ELSE opToCluster[u]]
                    /\ todo' = rest \o SetToSeq(moved)
                    /\ UNCHANGED phase
           ELSE /\ phase' = "undefined"
                /\ UNCHANGED <<todo, opToCluster>>
    /\ UNCHANGED <<program, schedule, clusters, dist1Cluster, opOrder>>

\* The remaining operations are put in the last stage.
scheduleRemainingToLastStage ==
    /\ phase = "remaining" /\ todo = <<>>
    /\ schedule' = [o \in Ops |-> IF o \in DOMAIN schedule THEN schedule[o]
                       ELSE [stage |-> numStages - 1, cluster |-> opToCluster[o]]]
    /\ phase' = "final"
    /\ UNCHANGED <<program, clusters, todo, dist1Cluster, opToCluster, opOrder>>

createFinalSchedule ==
    /\ phase = "final"
    /\ opOrder' = OpsInOrder
    /\ phase' = "scheduled"
    /\ UNCHANGED <<program, schedule, clusters, todo, dist1Cluster, opToCluster>>

Next ==
    \/ scheduleLoads \/ schedulePrologueAndEpilogue \/ StageByStage
    \/ scheduleDependencies \/ DependenciesDone
    \/ scheduleDistanceOneDependencies \/ DistanceOneDone
    \/ MoveUsers \/ scheduleRemainingToLastStage \/ createFinalSchedule

Spec == Init /\ [][Next]_vars

-----------------------------------------------------------------------------
Position(o) == CHOOSE i \in DOMAIN opOrder : opOrder[i] = o

\* What the expander asks of a schedule, its error "operation scheduled before
\* its operands": unrolled, no operation comes before one it reads, in this
\* iteration or the one before (LoopPipelinerInternal::verifySchedule).
ScheduleValid ==
    phase = "scheduled" =>
        \A o \in Ops : \A x \in Operands(o) :
            Position(o) + Stage(o) * Len(opOrder)
                >= Position(x[1]) + (Stage(x[1]) - x[2]) * Len(opOrder)

\* Every operation is given a stage and a cluster: the search for the clusters
\* of the last ones follows uses only of operations that have one.
ScheduleDefined == phase # "undefined"

-----------------------------------------------------------------------------
(* The programs for which the schedule is valid. *)

\* Indirect loads have stages enough between them.
Shallow(p) ==
    LET d == Max({p.chains[c].depth : c \in DOMAIN p.chains})
    IN  (d = 1 \/ p.numStages > 2)
        /\ (d - 1) * ((p.numStages - 2 + d - 1) \div d) <= p.numStages - 2

\* The first pointer advanced is one of a load of the least depth.
ShallowFirst(p) ==
    LET added == {c \in DOMAIN p.chains : p.chains[c].pointer = "add"}
    IN  \A c \in added : p.chains[Min(added)].depth <= p.chains[c].depth

=============================================================================
