-------------------------- MODULE PipelineExpander ---------------------------
(***************************************************************************)
(* pipelineForLoop: a scheduled loop is rewritten into a prologue, a kernel *)
(* and, if it is peeled, an epilogue, and the rewritten loop is run.  The   *)
(* prologue and the epilogue are straight code: an operation is emitted and *)
(* run in one step.  The kernel is emitted once; its operands are found in  *)
(* each iteration by the rules that emission resolves them by.              *)
(*                                                                         *)
(* Operations are numbered in the order of the schedule (opOrder).  Each    *)
(* has one result.  Iterations are counted from 0: the induction variable   *)
(* lb + k * step is <<IV, k>>.                                              *)
(***************************************************************************)
EXTENDS Integers, FiniteSets

CONSTANTS
    OpCount,    \* the number of operations
    Arg,        \* the loop-carried arguments (getRegionIterArgs)
    IV,         \* the induction variable
    Outside,    \* a value defined before the loop
    Masked,     \* the result of an operation whose predicate was false
    Missing,    \* no version of the value: a null or dangling operand
    Loops       \* the loops, with the options they are pipelined with

Op == 1..OpCount
Value == Op \cup Arg \cup {IV}

ASSUME OpAssumption == OpCount \in Nat \ {0}
ASSUME NamesAssumption ==
    /\ Arg \cap (Int \cup {IV, Outside, Masked, Missing}) = {}
    /\ {IV, Outside, Masked, Missing} \cap Int = {}
    /\ Cardinality({IV, Outside, Masked, Missing}) = 4
    /\ Arg \cap (Value \X Nat) = {}

\* A loop: what each operation reads, what each argument is given by the
\* yield, the arguments used after the loop; the stage of each operation and
\* whether predicateOp leaves it as it is because it has no effect; its
\* number of iterations and whether bounds and step are index constants; and
\* the option peelEpilogue.
Loop == [reads : [Op -> SUBSET Value], yield : [Arg -> Op \cup {Outside}],
         used : SUBSET Arg, stage : [Op -> Nat], pure : [Op -> BOOLEAN],
         n : Nat, constant : BOOLEAN, peel : BOOLEAN]

LargestOf(S) == CHOOSE m \in S : \A x \in S : x <= m
StagesOf(l) == LargestOf({l.stage[o] : o \in Op})

\* An operation does not read its own result.  A loop whose epilogue is peeled
\* has more iterations than stages, as :135 means to check; no pass of the
\* compiler has an epilogue peeled.
ASSUME LoopAssumption ==
    \A l \in Loops :
        /\ l \in Loop /\ \A o \in Op : o \notin l.reads[o]
        /\ l.peel /\ l.constant => l.n = 0 \/ l.n > StagesOf(l)

VARIABLES
    loop,
    pc,
    part,       \* the part of prologue or epilogue, the iteration of the kernel
    next,       \* the position in opOrder
    versions,   \* valueMapping: value -> iteration or part -> what it is
    args,       \* the kernel's iter args: those of the loop and, for a value
                \* used d stages after its own, <<value, d>>
    local,      \* mapping: the results of this iteration of the kernel
    ran,        \* history: the <<operation, iteration>> pairs that have run
    event,      \* history: the operation that has just run, if one has
    returned    \* what the loop returned, or <<>>

vars == <<loop, pc, part, next, versions, args, local, ran, event, returned>>

stage(o) == loop.stage[o]
maxStage == StagesOf(loop)
Version == 0..maxStage
NoVersions == [v \in Value |-> [x \in Version |-> Missing]]

\* maxStage is still 0 when the number of iterations is compared with it: a
\* loop with constant bounds is taken for long enough if it runs at all.
dynamicLoop == ~(loop.constant /\ loop.n > 0)

\* getDefiningOpAndDistance: the operation that defines a value, and how many
\* iterations before it is used.
Def(v) == IF v \in Arg THEN loop.yield[v] ELSE v
Distance(v) == IF v \in Arg THEN 1 ELSE 0
HasDef(v) == Def(v) \in Op

\* Every operation is scheduled after its operands.
verifySchedule ==
    \A o \in Op : \A v \in loop.reads[o] : HasDef(v) =>
        o + stage(o) * OpCount >= Def(v) + stage(Def(v)) * OpCount - OpCount * Distance(v)

-----------------------------------------------------------------------------
(* Running an operation. *)

\* One operation runs for the iteration its induction variable names, with
\* the operands given, unless its predicate is false.  One without effects
\* is not predicated: beyond the last iteration that does no harm.
Execute(o, k, operands, predicate) ==
    LET counts == predicate /\ ~(loop.pure[o] /\ k >= loop.n)
    IN  /\ event' = {e \in {[op |-> o, iter |-> k, reads |-> operands,
                           fresh |-> <<o, k>> \notin ran]} : counts}
        /\ ran' = IF counts THEN ran \cup {<<o, k>>} ELSE ran

Result(o, k, predicate) == IF predicate \/ loop.pure[o] THEN <<o, k>> ELSE Masked

\* setValueMapping for a result and, one iteration later, for the arguments
\* it is yielded to.
SetVersions(o, x, result) ==
    [v \in Value |-> [y \in Version |->
        IF (v = o /\ y = x) \/ (v \in Arg /\ Def(v) = o /\ y = x + 1)
        THEN result ELSE versions[v][y]]]

-----------------------------------------------------------------------------
Init ==
    /\ loop \in Loops
    /\ pc = "start" /\ part = 0 /\ next = 1
    /\ versions = NoVersions
    /\ args = <<>>
    /\ local = [o \in Op |-> Missing]
    /\ ran = {} /\ event = {} /\ returned = <<>>

\* initializeLoopInfo; an invalid schedule or a peeled epilogue of a dynamic
\* loop leaves the loop as it is.
Reject ==
    /\ pc = "start"
    /\ (dynamicLoop /\ loop.peel) \/ ~verifySchedule
    /\ pc' = "rejected"
    /\ UNCHANGED <<loop, part, next, versions, args, local, ran, event, returned>>

\* emitPrologue starts: the initial values and the induction variable.
Accept ==
    /\ pc = "start"
    /\ ~(dynamicLoop /\ loop.peel) /\ verifySchedule
    /\ versions' = [v \in Value |-> [x \in Version |->
                       IF (v \in Arg /\ x = 0) \/ (v = IV /\ x < maxStage)
                       THEN <<v, x>> ELSE Missing]]
    /\ pc' = "prologue"
    /\ UNCHANGED <<loop, part, next, args, local, ran, event, returned>>

InPrologue == pc = "prologue" /\ part < maxStage /\ next \in Op
Predicated(k) == dynamicLoop => k < loop.n

\* An operation of part `part' of the prologue: stage s works on iteration
\* part - s.
EmitPrologue ==
    /\ InPrologue /\ stage(next) <= part
    /\ LET k == part - stage(next)
       IN  /\ Execute(next, k, [v \in loop.reads[next] |-> versions[v][k]], Predicated(k))
           /\ versions' = SetVersions(next, k, Result(next, k, Predicated(k)))
    /\ next' = next + 1
    /\ UNCHANGED <<loop, pc, part, args, local, returned>>

\* An operation of a later stage has no place in this part.
SkipPrologue ==
    /\ InPrologue /\ stage(next) > part
    /\ next' = next + 1
    /\ event' = {}
    /\ UNCHANGED <<loop, pc, part, versions, args, local, ran, returned>>

NextPart ==
    /\ pc = "prologue" /\ part < maxStage /\ next = OpCount + 1
    /\ part' = part + 1 /\ next' = 1 /\ event' = {}
    /\ UNCHANGED <<loop, pc, versions, args, local, ran, returned>>

-----------------------------------------------------------------------------
(* The kernel. *)

\* Does operation o read v more than the distance of v after its definition?
CrossesStages(o, v) ==
    HasDef(v) /\ stage(Def(v)) # stage(o) /\ stage(Def(v)) # stage(o) + Distance(v)

\* analyzeCrossStageValues: the stage that uses a value last, for the values
\* used across stages.
CrossStageValues == {v \in Op \cup Arg : \E o \in Op : v \in loop.reads[o] /\ CrossesStages(o, v)}
lastUseStage(v) ==
    LargestOf({stage(o) : o \in {u \in Op : v \in loop.reads[u] /\ CrossesStages(u, v)}})
Span(v) == lastUseStage(v) - stage(Def(v))

\* The iter args of the kernel: for each value used across stages one for
\* every version that is still to be used.
LoopArgs == Arg \cup UNION {{<<v, d>> : d \in 1..Span(v)} : v \in CrossStageValues}

\* createKernelLoop: their initial values, from the prologue.
InitArg(x) ==
    IF x \in Arg
    THEN IF HasDef(x) THEN versions[x][maxStage - stage(Def(x))] ELSE <<x, 0>>
    ELSE versions[x[1]][maxStage - stage(Def(x[1])) - x[2]]

createKernelLoop ==
    /\ pc = "prologue" /\ part = maxStage
    /\ args' = [x \in LoopArgs |-> InitArg(x)]
    /\ versions' = NoVersions
    /\ pc' = "kernel" /\ part' = 0 /\ event' = {}
    /\ UNCHANGED <<loop, next, local, ran, returned>>

\* The iterations of the kernel: maxStage of them are peeled.
KernelIterations == IF loop.peel THEN loop.n - maxStage ELSE loop.n

InKernel == pc = "kernel" /\ part < KernelIterations

KernelArg(x) == IF x \in DOMAIN args THEN args[x] ELSE Missing

\* Mutant: an argument defined in the next stage is taken from the iter arg.
Operand_stale(o, v) ==
    IF v = IV THEN <<IV, part + maxStage - stage(o)>>
    ELSE IF v \in Arg THEN args[v]
    ELSE IF stage(Def(v)) = stage(o) THEN local[v]
    ELSE KernelArg(<<v, stage(o) - stage(Def(v))>>)

\* createKernel: where operation o of the kernel finds v.
Operand(o, v) ==
    IF v = IV THEN <<IV, part + maxStage - stage(o)>>
    ELSE IF ~HasDef(v) THEN args[v]
    ELSE IF stage(Def(v)) = stage(o) THEN IF v \in Arg THEN args[v] ELSE local[v]
    ELSE IF v \in Arg /\ stage(Def(v)) = stage(o) + 1 THEN local[Def(v)]
    ELSE KernelArg(<<v, stage(o) - stage(Def(v))>>)

\* The predicate of a stage; the last one needs none.
KernelPredicate(s) ==
    loop.peel \/ s = maxStage \/ part < loop.n - (maxStage - s)

KernelOp ==
    /\ InKernel /\ next \in Op
    /\ LET k == part + maxStage - stage(next)
           predicate == KernelPredicate(stage(next))
       IN  /\ Execute(next, k, [v \in loop.reads[next] |-> Operand(next, v)], predicate)
           /\ local' = [local EXCEPT ![next] = Result(next, k, predicate)]
    /\ next' = next + 1
    /\ UNCHANGED <<loop, pc, part, versions, args, returned>>

\* What the kernel yields: an argument keeps its last value where it is used
\* after the loop and its definition was masked; the versions of a value move
\* one stage on.
YieldOperand(x) ==
    IF x \in Arg
    THEN IF ~HasDef(x) THEN <<Outside, 0>>
         ELSE IF ~loop.peel /\ x \in loop.used /\ ~KernelPredicate(stage(Def(x)))
              THEN args[x] ELSE local[Def(x)]
    ELSE IF x[2] > 1 THEN args[<<x[1], x[2] - 1>>]
    ELSE IF x[1] \in Arg THEN args[x[1]] ELSE local[x[1]]

\* Mutant: the result of a masked definition is yielded as it is.
KernelYield_masked ==
    /\ InKernel /\ next = OpCount + 1
    /\ args' = [x \in LoopArgs |-> IF x \in Arg /\ HasDef(x) THEN local[Def(x)]
                                   ELSE YieldOperand(x)]
    /\ local' = [o \in Op |-> Missing]
    /\ part' = part + 1 /\ next' = 1 /\ event' = {}
    /\ UNCHANGED <<loop, pc, versions, ran, returned>>

KernelYield ==
    /\ InKernel /\ next = OpCount + 1
    /\ args' = [x \in LoopArgs |-> YieldOperand(x)]
    /\ local' = [o \in Op |-> Missing]
    /\ part' = part + 1 /\ next' = 1 /\ event' = {}
    /\ UNCHANGED <<loop, pc, versions, ran, returned>>

\* Without an epilogue the results of the kernel are those of the loop.
KernelReturns ==
    /\ pc = "kernel" /\ part >= KernelIterations /\ ~loop.peel
    /\ returned' = [a \in loop.used |-> args[a]]
    /\ pc' = "done" /\ event' = {}
    /\ UNCHANGED <<loop, part, next, versions, args, local, ran>>

-----------------------------------------------------------------------------
(* The epilogue. *)

\* The versions the epilogue starts from: the results of the kernel, and the
\* induction variable of the last maxStage iterations.
EpilogueVersion(v, x) ==
    IF v = IV THEN IF x > 0 THEN <<IV, loop.n - 1 - (maxStage - x)>> ELSE Missing
    ELSE IF v \in Arg /\ ~HasDef(v) THEN IF x > 0 THEN <<Outside, 0>> ELSE Missing
    ELSE IF v \in Arg /\ stage(Def(v)) > 0 /\ x = maxStage - stage(Def(v)) + 1 THEN args[v]
    ELSE KernelArg(<<v, maxStage - stage(Def(v)) - x + 1>>)

startEpilogue ==
    /\ pc = "kernel" /\ part >= KernelIterations /\ loop.peel
    /\ versions' = [v \in Value |-> [x \in Version |-> EpilogueVersion(v, x)]]
    /\ returned' = [a \in loop.used |-> args[a]]
    /\ pc' = "epilogue" /\ part' = 1 /\ event' = {}
    /\ UNCHANGED <<loop, next, args, local, ran>>

InEpilogue == pc = "epilogue" /\ part <= maxStage /\ next \in Op

\* An operation of part `part' of the epilogue.
EmitEpilogue ==
    /\ InEpilogue /\ stage(next) >= part
    /\ LET x == maxStage - stage(next) + part
           k == versions[IV][x][2]
       IN  /\ Execute(next, k, [v \in loop.reads[next] |-> versions[v][x]], TRUE)
           /\ versions' = SetVersions(next, x, <<next, k>>)
           /\ returned' = [a \in loop.used |-> IF Def(a) = next /\ x + 1 > maxStage
                                               THEN <<next, k>> ELSE returned[a]]
    /\ next' = next + 1
    /\ UNCHANGED <<loop, pc, part, args, local>>

SkipEpilogue ==
    /\ InEpilogue /\ stage(next) < part
    /\ next' = next + 1 /\ event' = {}
    /\ UNCHANGED <<loop, pc, part, versions, args, local, ran, returned>>

NextEpiloguePart ==
    /\ pc = "epilogue" /\ part <= maxStage /\ next = OpCount + 1
    /\ part' = part + 1 /\ next' = 1 /\ event' = {}
    /\ UNCHANGED <<loop, pc, versions, args, local, ran, returned>>

EpilogueReturns ==
    /\ pc = "epilogue" /\ part > maxStage
    /\ pc' = "done" /\ event' = {}
    /\ UNCHANGED <<loop, part, next, versions, args, local, ran, returned>>

\* The loop is over, or was left alone.
Over == pc \in {"done", "rejected"} /\ UNCHANGED vars

Prologue == EmitPrologue \/ SkipPrologue \/ NextPart
Kernel == createKernelLoop \/ KernelOp \/ KernelYield \/ KernelReturns
Epilogue == startEpilogue \/ EmitEpilogue \/ SkipEpilogue \/ NextEpiloguePart \/ EpilogueReturns

Next == Reject \/ Accept \/ Prologue \/ Kernel \/ Epilogue \/ Over

Spec == Init /\ [][Next]_vars

-----------------------------------------------------------------------------
RunValue == (Op \cup Arg \cup {IV, Outside}) \X Nat \cup {Masked, Missing}

\* Versions and operands are results of operations, arguments or what the mask
\* leaves (LoopPipelinerInternal).
TypeOK ==
    /\ loop \in Loop
    /\ pc \in {"start", "rejected", "prologue", "kernel", "epilogue", "done"}
    /\ part \in Nat /\ next \in 1..OpCount + 1
    /\ versions \in [Value -> [Version -> RunValue]]
    /\ args = <<>> \/ args \in [LoopArgs -> RunValue]
    /\ local \in [Op -> RunValue]
    /\ ran \subseteq Op \X Nat

\* The value of this argument after the loop is that of the last iteration:
\* without an epilogue not if it is defined before the last stage and the loop
\* ends before the prologue has come to the definition.
Returned(a) == HasDef(a) => loop.peel \/ loop.n >= maxStage - stage(Def(a))

\* The loop as it was, with the results that are returned as they should be.
Plain == INSTANCE LoopDataflow WITH
    Loops <- Loop,
    loop <- [loop EXCEPT !.used = {a \in @ : Returned(a)}],
    ran <- ran \cap (Op \X (0..loop.n - 1)),
    returned <- IF pc = "done" THEN [a \in {x \in loop.used : Returned(x)} |-> returned[a]]
                ELSE <<>>

\* Every operation that runs reads what the loop computes as the iteration it
\* runs for sees it in the loop as it was: the version found by prologue, kernel
\* and epilogue is never one iteration early or late, masked or missing.
RightOperands ==
    \A e \in event : \A v \in loop.reads[e.op] :
        e.iter < loop.n /\ (v = IV \/ HasDef(v)) => e.reads[v] = Plain!At(v, e.iter)

\* No operation runs twice for an iteration, or for an iteration beyond the
\* last with any effect, but for the prologue of a loop of constant bounds,
\* which runs as if there were enough of them.
RunsOnce ==
    \A e \in event : e.fresh /\ (e.iter < loop.n \/ (~dynamicLoop /\ e.iter < maxStage))

\* Every operation of the expanded loop runs once for each iteration, on the
\* results of the iterations it depends on (LoopPipelinerInternal).
OperationsRunOnce == TypeOK /\ RunsOnce /\ RightOperands

\* The pipelined loop implements the loop: it runs the same operations, each
\* after what it depends on, all of them, and returns the same values of the
\* arguments of which it returns the last.
ImplementsLoop == Plain!Spec

-----------------------------------------------------------------------------
(* The inductive invariant: with a clock that counts the parts of prologue, *)
(* kernel and epilogue, stage s works on iteration Clock - s.               *)

Clock == IF pc = "prologue" THEN part
         ELSE IF pc = "kernel" THEN part + maxStage
         ELSE loop.n - 1 + part

\* Operation o has been emitted for iteration k.
Passed(o, k) == k + stage(o) < Clock \/ (k + stage(o) = Clock /\ o < next)

Instances == Op \X (0..loop.n - 1)

ScheduleInv ==
    /\ pc = "start" => part = 0 /\ next = 1
    /\ pc \notin {"start", "rejected"} => verifySchedule /\ ~(dynamicLoop /\ loop.peel)

RanInv ==
    /\ pc \in {"start", "rejected"} => ran = {}
    /\ pc \in {"prologue", "kernel", "epilogue"} =>
          /\ \A e \in ran : Passed(e[1], e[2])
          /\ \A e \in Instances : Passed(e[1], e[2]) => e \in ran
    /\ pc = "done" => Instances \subseteq ran

PrologueInv ==
    pc = "prologue" =>
        /\ part <= maxStage /\ (part = maxStage => next = 1)
        /\ \A x \in Version : x < maxStage => versions[IV][x] = <<IV, x>>
        /\ \A o \in Op, x \in Version :
              x < loop.n /\ Passed(o, x) => versions[o][x] = <<o, x>>
        /\ \A a \in Arg, x \in Version :
              x = 0 \/ (HasDef(a) /\ x <= loop.n /\ Passed(Def(a), x - 1))
                  => versions[a][x] = Plain!At(a, x)

KernelInv ==
    pc = "kernel" =>
        /\ part <= KernelIterations /\ (part = KernelIterations => next = 1)
        /\ args \in [LoopArgs -> RunValue]
        /\ \A a \in Arg : HasDef(a) =>
              LET x == part + maxStage - stage(Def(a))
              IN  /\ x <= loop.n => args[a] = Plain!At(a, x)
                  /\ x > loop.n /\ ~loop.peel /\ a \in loop.used /\ Returned(a)
                         => args[a] = Plain!At(a, loop.n)
        /\ \A a \in Arg : ~HasDef(a) => args[a] = Plain!At(a, part)
        /\ \A v \in CrossStageValues : \A d \in 1..Span(v) :
              LET x == part + maxStage - stage(Def(v)) - d
              IN  x < loop.n => args[<<v, d>>] = Plain!At(v, x)
        /\ \A o \in Op : o < next /\ part + maxStage - stage(o) < loop.n
                            => local[o] = <<o, part + maxStage - stage(o)>>

\* Version x in the epilogue is that of iteration n - 1 - (maxStage - x).
EpilogueInv ==
    pc = "epilogue" =>
        /\ loop.peel /\ part \in 1..maxStage + 1 /\ (part = maxStage + 1 => next = 1)
        /\ \A v \in Value, x \in Version :
              LET k == loop.n - 1 - maxStage + x
                  Carried == v \in CrossStageValues /\ maxStage - stage(Def(v)) - x + 1 \in 1..Span(v)
              IN  x > 0 /\ (\/ v = IV
                            \/ v # IV /\ Carried
                            \/ v \in Op /\ x > maxStage - stage(v) /\ Passed(v, k)
                            \/ v \in Arg /\ HasDef(v) /\ x > maxStage - stage(Def(v))
                                 /\ Passed(Def(v), k - 1))
                  => versions[v][x] = Plain!At(v, k)
        /\ \A a \in loop.used : ~HasDef(a) \/ Passed(Def(a), loop.n - 1)
                                    => returned[a] = Plain!At(a, loop.n)

ReturnInv ==
    /\ pc \in {"epilogue", "done"} => returned = [a \in loop.used |-> returned[a]]
    /\ pc = "done" => \A a \in loop.used : Returned(a) => returned[a] = Plain!At(a, loop.n)

ExpanderInv ==
    /\ TypeOK /\ ScheduleInv /\ RanInv /\ PrologueInv /\ KernelInv /\ EpilogueInv
    /\ ReturnInv /\ RightOperands /\ RunsOnce

=============================================================================
