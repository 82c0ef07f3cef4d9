---------------------------- MODULE LoopDataflow -----------------------------
(***************************************************************************)
(* What software pipelining promises: every operation of the loop runs once *)
(* for every iteration, after all it reads of this iteration and of the one *)
(* before, in any other order, and the loop returns what its last iteration *)
(* yields.                                                                  *)
(***************************************************************************)
EXTENDS Integers

CONSTANTS
    Op,         \* the operations of the loop's body, each with one result
    Arg,        \* its loop-carried arguments
    Outside,    \* a value from before the loop
    Loops       \* the loops there may be, each a record with the fields
                \*   reads  the values an operation reads
                \*   yield  the result each argument is given, or Outside
                \*   used   the arguments whose last value is used afterwards
                \*   n      the number of iterations

VARIABLES
    loop,
    ran,        \* the <<operation, iteration>> pairs that have run
    returned    \* what the loop has returned, or <<>>

vars == <<loop, ran, returned>>

\* Value v as iteration k of the loop sees it: a result is named by its
\* operation and iteration, an initial value by its argument and 0.
At(v, k) ==
    IF v \notin Arg \/ k = 0 THEN <<v, k>>
    ELSE IF loop.yield[v] = Outside THEN <<Outside, 0>> ELSE <<loop.yield[v], k - 1>>

Instances == Op \X (0..loop.n - 1)

\* What operation o reads in iteration k has been computed.
Ready(o, k) ==
    \A v \in loop.reads[o] : At(v, k)[1] \in Op => At(v, k) \in ran

Run(o, k) ==
    /\ <<o, k>> \in Instances \ ran
    /\ Ready(o, k)
    /\ ran' = ran \cup {<<o, k>>}
    /\ UNCHANGED <<loop, returned>>

\* The loop is over: the arguments used later have their last value.
Return ==
    /\ ran = Instances
    /\ returned = <<>>
    /\ returned' = [a \in loop.used |-> At(a, loop.n)]
    /\ UNCHANGED <<loop, ran>>

Init == loop \in Loops /\ ran = {} /\ returned = <<>>

Next == (\E o \in Op, k \in 0..loop.n - 1 : Run(o, k)) \/ Return

Spec == Init /\ [][Next]_vars

=============================================================================
