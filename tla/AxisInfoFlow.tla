---------------------------- MODULE AxisInfoFlow ----------------------------
(***************************************************************************)
(* The analysis of a function with loops, and then the function as it runs. *)
(* The data-flow solver keeps what is known of each value and the points    *)
(* whose operands have changed since their visit; it visits the points of   *)
(* the function in order and then those, in any order, until nothing        *)
(* changes.                                                                 *)
(*                                                                          *)
(* A program is a sequence of statements.  A statement "for" stands at the  *)
(* head of a loop's body and the "end" that it names closes it.  The values *)
(* that a loop carries have their first value, the argument of the body,    *)
(* the value at the end of the body, and the result of the loop.            *)
(***************************************************************************)
EXTENDS AxisInfoVisitors

CONSTANTS
    Programs,
    MaxTrips,     \* bound on the iterations of a loop
    Limit         \* bound on the integers: nothing overflows

VARIABLES
    program,
    lattice,      \* what is known of each value: <<>> before it is visited
    fresh,        \* the points not visited yet: a statement, or the body at one
    queue,        \* the points to visit again
    env,          \* the values when it runs: <<>> before they are defined
    pc,
    trips         \* iterations of each loop before this one

vars == <<program, lattice, fresh, queue, env, pc, trips>>

-----------------------------------------------------------------------------
(* Programs. *)

Let(id, value) == [kind |-> "let", id |-> id, value |-> value]
Op(id, op, args, shape, elemSize) ==
    [kind |-> "op", id |-> id, op |-> op, args |-> args, shape |-> shape, elemSize |-> elemSize]
Carried(arg, init, yield, result) == [arg |-> arg, init |-> init, yield |-> yield, result |-> result]
For(iv, lb, increment, carried, end) ==
    [kind |-> "for", iv |-> iv, lb |-> lb, increment |-> increment, carried |-> carried, end |-> end]
End(head) == [kind |-> "end", head |-> head]

Points(code) == DOMAIN code
Heads(code) == {p \in Points(code) : code[p].kind = "for"}
CarriedBy(statement) == {statement.carried[i] : i \in DOMAIN statement.carried}
DefinedAt(statement) ==
    CASE statement.kind \in {"let", "op"} -> {statement.id}
      [] statement.kind = "for" ->
             {statement.iv} \union UNION {{c.arg, c.result} : c \in CarriedBy(statement)}
      [] statement.kind = "end" -> {}
Values(code) == UNION {DefinedAt(code[p]) : p \in Points(code)}

\* A point for each statement and another for the body of each loop.
Statement(p) == [at |-> p, body |-> FALSE]
Body(p) == [at |-> p, body |-> TRUE]
PointsOf(code, p) ==
    CASE code[p].kind = "for" -> <<Statement(p), Body(p)>>
      [] code[p].kind = "end" -> <<>>
      [] OTHER -> <<Statement(p)>>

\* A body does not depend on what it yields.
UsedAt_once(s, body, id) ==
    CASE s.kind = "op" -> \E i \in DOMAIN s.args : s.args[i] = id
      [] s.kind = "for" ->
             \/ \E c \in CarriedBy(s) : id = c.init \/ (~ body /\ id = c.yield)
             \/ ~ body /\ id \in {s.lb, s.increment}
      [] OTHER -> FALSE

\* The points where a value is an operand: those of a loop take part in what
\* it carries, and its bounds belong to the statement.
UsedAt(s, body, id) ==
    CASE s.kind = "op" -> \E i \in DOMAIN s.args : s.args[i] = id
      [] s.kind = "for" ->
             \/ \E c \in CarriedBy(s) : id \in {c.init, c.yield}
             \/ ~ body /\ id \in {s.lb, s.increment}
      [] OTHER -> FALSE

AllPoints(code) == FoldLeft(LAMBDA acc, p : acc \o PointsOf(code, p), <<>>, [p \in Points(code) |-> p])
Dependents(code, id) == {q \in Range(AllPoints(code)) : UsedAt(code[q.at], q.body, id)}

-----------------------------------------------------------------------------
(* The analysis. *)

\* Only what comes first counts.
joined_first(was, is) == IF was = <<>> THEN is ELSE was

\* What is known is joined to what was known; what is not known yet is left out.
joined(was, is) == IF is = <<>> THEN was ELSE IF was = <<>> THEN is ELSE <<join(was[1], is[1])>>

visitStatement(s) ==
    IF s.op = "splat" THEN Splat(Tensor(<<>>, 0, [x \in {<<>>} |-> 0], lattice[s.args[1]][1]), s.shape).info
    ELSE BinaryInfo(s.op, lattice[s.args[1]][1], lattice[s.args[2]][1], s.shape, s.elemSize)

\* The counter is known by the lower bound.
visitForOpInductionVar_lower(s) == Info(<<1>>, lattice[s.lb][1].divisibility, <<1>>, <<>>)

visitForOpInductionVar(s) ==
    Info(<<1>>, <<gcd(lattice[s.lb][1].divisibility[1], lattice[s.increment][1].divisibility[1])>>, <<1>>, <<>>)

\* What a visit to a point makes known of values.
Visited(q) ==
    LET s == program.code[q.at]
        carried(field) == {<<c[field], joined(lattice[c.init], lattice[c.yield])>> : c \in CarriedBy(s)}
    IN  CASE s.kind = "let" -> {<<s.id, <<s.value.info>>>>}
          [] s.kind = "op" -> {<<s.id, <<visitStatement(s)>>>>}
          [] s.kind = "for" ->
                 IF q.body THEN carried("arg") \union {<<s.iv, <<visitForOpInductionVar(s)>>>>}
                 ELSE carried("result")

\* Of a loop's counter no change is passed on.
Propagated(q, changed) ==
    IF program.code[q.at].kind = "for" THEN changed \ {program.code[q.at].iv} ELSE changed

\* Every value that is visited counts as changed.
Changed_all(news) == {n[1] : n \in news}

Changed(news) == {n[1] : n \in {m \in news : m[2] # lattice[m[1]]}}

RunVars == <<env, pc, trips>>

Solved == fresh = <<>> /\ queue = {}

\* A visit makes a point depend on its operands: one that is still to be visited
\* for the first time is told of no change.
Visit(q) ==
    LET news == {<<p[1], joined(lattice[p[1]], p[2])>> : p \in Visited(q)}
        changed == Changed(news)
        more == UNION {Dependents(program.code, id) : id \in Propagated(q, changed)}
    IN  /\ lattice' = [id \in DOMAIN lattice |->
                           IF id \in changed THEN (CHOOSE n \in news : n[1] = id)[2] ELSE lattice[id]]
        /\ queue' = (queue \ {q}) \union (more \ Range(fresh'))
        /\ UNCHANGED <<program, RunVars>>

VisitFirst == fresh # <<>> /\ fresh' = Tail(fresh) /\ Visit(Head(fresh))
VisitAgain == fresh = <<>> /\ UNCHANGED fresh /\ \E q \in queue : Visit(q)
Solve == VisitFirst \/ VisitAgain

-----------------------------------------------------------------------------
(* The program as it runs. *)

Result(v) == <<[v EXCEPT !.info = <<>>]>>
Assign(id, v) == env' = [env EXCEPT ![id] = v]
InLimits(v) == \A x \in DOMAIN v.val : v.val[x] \in -Limit..Limit

Computed(s) ==
    LET arg(i) == env[s.args[i]][1]
    IN  IF s.op = "splat" THEN Tensor(s.shape, 0, [x \in Elements(s.shape) |-> arg(1).val[<<>>]], <<>>)
        ELSE Tensor(s.shape, IF s.op = "addptr" THEN s.elemSize ELSE 0,
                    [x \in Elements(s.shape) |-> Compute(pointwise(s.op), arg(1).val[x], s.elemSize * arg(2).val[x])],
                    <<>>)

Running == Solved /\ pc \in DOMAIN program.code

RunStatement ==
    /\ Running
    /\ LET s == program.code[pc]
       IN  \/ s.kind = "let" /\ Assign(s.id, Result(s.value))
           \/ s.kind = "op" /\ InLimits(Computed(s)) /\ Assign(s.id, Result(Computed(s)))
    /\ pc' = pc + 1
    /\ UNCHANGED <<program, lattice, fresh, queue, trips>>

\* The body starts with the given values of what the loop carries, or is left
\* with them as the loop's results.
StartBody(head, field, counter) ==
    LET s == program.code[head]
        at(id) == {c \in CarriedBy(s) : c.arg = id}
    IN  /\ env' = [id \in DOMAIN env |->
                       IF id = s.iv THEN counter
                       ELSE IF at(id) # {} THEN env[(CHOOSE c \in at(id) : TRUE)[field]] ELSE env[id]]
        /\ pc' = head + 1
LeaveLoop(head, field) ==
    LET s == program.code[head]
        at(id) == {c \in CarriedBy(s) : c.result = id}
    IN  /\ env' = [id \in DOMAIN env |->
                       IF at(id) # {} THEN env[(CHOOSE c \in at(id) : TRUE)[field]] ELSE env[id]]
        /\ pc' = s.end + 1

EnterLoop ==
    /\ Running
    /\ program.code[pc].kind = "for"
    /\ StartBody(pc, "init", env[program.code[pc].lb])
    /\ trips' = [trips EXCEPT ![pc] = 1]
    /\ UNCHANGED <<program, lattice, fresh, queue>>

SkipLoop ==
    /\ Running
    /\ program.code[pc].kind = "for"
    /\ LeaveLoop(pc, "init")
    /\ UNCHANGED <<program, lattice, fresh, queue, trips>>

Again ==
    /\ Running
    /\ program.code[pc].kind = "end"
    /\ LET head == program.code[pc].head
           s == program.code[head]
           counter == env[s.iv][1]
           next == [counter EXCEPT !.val = [x \in DOMAIN @ |-> @[x] + env[s.increment][1].val[x]]]
       IN  /\ trips[head] < MaxTrips
           /\ StartBody(head, "yield", <<next>>)
           /\ trips' = [trips EXCEPT ![head] = @ + 1]
    /\ UNCHANGED <<program, lattice, fresh, queue>>

EndLoop ==
    /\ Running
    /\ program.code[pc].kind = "end"
    /\ LeaveLoop(program.code[pc].head, "yield")
    /\ trips' = [trips EXCEPT ![program.code[pc].head] = 0]
    /\ UNCHANGED <<program, lattice, fresh, queue>>

-----------------------------------------------------------------------------

Init ==
    /\ program \in Programs
    /\ lattice = [id \in Values(program.code) |-> <<>>]
    /\ fresh = AllPoints(program.code) /\ queue = {}
    /\ env = [id \in Values(program.code) |-> <<>>]
    /\ pc = 1
    /\ trips = [p \in Heads(program.code) |-> 0]

Next ==
    \/ Solve
    \/ RunStatement
    \/ EnterLoop
    \/ SkipLoop
    \/ Again
    \/ EndLoop

\* The solver goes on as long as there is something to visit.
Spec == Init /\ [][Next]_vars /\ WF_vars(Solve)

-----------------------------------------------------------------------------
(* What is known of a value is so whenever the program has it. *)

Always(claim(_, _)) == \A id \in DOMAIN env : env[id] # <<>> => claim(env[id][1], lattice[id][1])

\* Sequences of consecutive integers have the length that is known, in each
\* iteration and after each loop.
ContiguityHolds == Always(Contiguous)

\* Sequences of equal integers have the length that is known.
ConstancyHolds == Always(Repeating)

\* The first integer of each contiguous sequence has the divisor that is known.
DivisibilityHolds == Always(Divisible)

\* A constant that is known is the value in every iteration.
ConstantHolds == Always(Known)

\* Where a is known, it says no more than b.
Below(a, b) == b = <<>> \/ (a # <<>> /\ join(a[1], b[1]) = a[1])

\* When the solver ends, no visit would change anything: what is known agrees
\* with every operand as it is known in the end, and does not depend on where
\* the solver stopped.
Settled ==
    Solved =>
        \A p \in Points(program.code) : \A i \in DOMAIN PointsOf(program.code, p) :
            \A n \in Visited(PointsOf(program.code, p)[i]) : n[2] # <<>> /\ Below(lattice[n[1]], n[2])

\* The solver ends, though loops feed what they compute back to their start.
AnalysisEnds == <>Solved

=============================================================================
