----------------------------- MODULE MCRuntime ------------------------------
(***************************************************************************)
(* Instances of Autotuner, JITFunction and JITSpecialize.  A behaviour      *)
(* follows one of                                                           *)
(*   - two processes that tune a kernel, with "N" in the key, "M" not, and  *)
(*     a tensor, and share what they persist,                               *)
(*   - a program of kernels that call one function (MCPrograms),            *)
(*   - a kernel of MaxParams parameters compiled for a launch, and found    *)
(*     for another if the keys are the same.                                *)
(* None shares state with another: the others stay in their initial states, *)
(* where their properties hold.                                             *)
(***************************************************************************)
EXTENDS Autotuner, JITSpecialize, JITFunction, TLC

CONSTANTS p1, p2, k1, k2, f, g, s1, s2, a1, a2, MaxParams

-----------------------------------------------------------------------------
(* Tuning. *)

MCArgNames == <<"M", "N", "X", "BLOCK">>
MCKeyNames == <<"N">>

\* A list that is edited between two starts, and one of one configuration.  p1
\* starts with the first (MCInit), and with any after a restart.
MCLists == {<<1, 2>>, <<2, 3>>, <<3>>}

\* Calls the key does not tell apart, and one that leaves M to its default.
MCCalls == {("M" :> m) @@ ("N" :> 1) @@ ("X" :> 16) : m \in 1..2} \cup {("N" :> 1) @@ ("X" :> 32)}

\* Configuration 1 has the resources for some of the calls only, with M = 1.
MCFits ==
    {2, 3} \X MCCalls \cup {<<1, c>> : c \in {d \in MCCalls : "M" \in DOMAIN d /\ d["M"] = 1}}

-----------------------------------------------------------------------------
(* Kernels and the functions they call. *)

\* Whatever the source, everything calls f, and f nothing.
MCProgram ==
    [kernels |-> {k1, k2}, settable |-> {}, args |-> {a1, a2}, globals |-> {g}, values |-> {1},
     calls |-> [h \in {k1, k2, f} |-> [s \in {s1, s2} |-> IF h = f THEN <<>> ELSE <<f>>]],
     uses |-> [h \in {k1, k2, f} |-> [s \in {s1, s2} |-> IF h = k2 THEN {} ELSE {g}]],
     sources |-> {s1}, sets |-> 0, runs |-> 1]

MCPrograms ==
    {\* sources are edited between two runs, and one calls nothing;
     [MCProgram EXCEPT !.sources = {s1, s2}, !.runs = 2, !.calls[k2][s2] = <<>>],
     \* globals are assigned;
     [MCProgram EXCEPT !.values = {1, 2}, !.sets = 3],
     \* so are the sources of a kernel, in each of two runs;
     [MCProgram EXCEPT !.kernels = {k1}, !.settable = {k1}, !.sources = {s1, s2},
                       !.values = {1, 2}, !.sets = 1, !.runs = 2],
     \* k1 calls itself.
     [MCProgram EXCEPT !.kernels = {k1}, !.calls[k1][s1] = <<f, k1>>]}

-----------------------------------------------------------------------------
(* Launches. *)

MCParam ==
    {[annotation |-> "", isConst |-> c, doNotSpecialize |-> d, isConstexpr |-> FALSE] :
        c \in BOOLEAN, d \in BOOLEAN}
    \cup {[annotation |-> "i32", isConst |-> FALSE, doNotSpecialize |-> d,
           isConstexpr |-> FALSE] : d \in BOOLEAN}
    \cup {[annotation |-> "", isConst |-> FALSE, doNotSpecialize |-> FALSE,
           isConstexpr |-> TRUE]}

\* Integers at the ends of the types, 0, 1 and multiples of 16 among them.
MCIntegers ==
    {-(2 ^ (Bits64 - 1)), -(2 ^ (Bits32 - 1)) - 1, 0, 1,
     16, 17, 2 ^ (Bits32 - 1) - 1, 2 ^ (Bits32 - 1), 2 ^ (Bits64 - 1) - 1, 2 ^ (Bits64 - 1)}

\* Parameters with an annotation are given integers, bools and None, those that
\* are constant no tensors.
MCArgs(param) ==
    LET args ==
            {[kind |-> "int", v |-> n, dtype |-> ""] : n \in MCIntegers}
            \cup {[kind |-> "bool", v |-> n, dtype |-> ""] : n \in 0..1}
            \cup {[kind |-> "float", v |-> n, dtype |-> ""] : n \in 1..2}
            \cup {[kind |-> "tensor", v |-> a, dtype |-> t] : a \in {32, 40}, t \in {"i8", "fp32"}}
            \cup {[kind |-> "none", v |-> 0, dtype |-> ""]}
    IN  {a \in args : /\ param.annotation # "" =>
                          a.kind \in {"int", "bool", "none"} /\ a.v \in Signed(Bits32)
                      /\ param.isConstexpr => a.kind # "tensor"}

\* A second argument is a small integer, or not an integer.
Tuples(ps) ==
    IF Len(ps) = 1 THEN {<<a>> : a \in MCArgs(ps[1])}
    ELSE {<<a, b>> : a \in MCArgs(ps[1]),
                     b \in {c \in MCArgs(ps[2]) : c.kind = "int" => c.v \in {1, 16, 17}}}

MCLaunches == [ps \in UNION {[1..n -> MCParam] : n \in 1..MaxParams} |-> Tuples(ps)]

-----------------------------------------------------------------------------
VARIABLE part

MCAnyCall == CHOOSE c \in MCCalls : TRUE
NoTuning == configs = [p \in Process |-> <<3>>] /\ Init
NoKernels ==
    /\ program = 0 /\ src = 0 /\ globals = 0 /\ hash = 0 /\ used = 0 /\ kernels = 0 /\ disk = 0
    /\ asked = 0 /\ finders = 0 /\ launch = NoLaunch /\ raised = 0 /\ sets = 0 /\ runs = 0
NoLaunches == params = <<>> /\ first = <<>> /\ second = <<>>

MCInit ==
    \/ part = "tuner" /\ Init /\ configs[p1] = <<1, 2>> /\ NoKernels /\ NoLaunches
    \/ part = "program" /\ NoTuning /\ JitInit /\ NoLaunches
    \/ part = "launches" /\ NoTuning /\ NoKernels /\ LaunchInit

MCNext ==
    \/ part = "tuner" /\ Next /\ UNCHANGED <<part, jitVars, launchVars>>
    \/ part = "program" /\ JitNext /\ UNCHANGED <<part, vars, launchVars>>
    \/ part = "launches" /\ LaunchAgain /\ UNCHANGED <<part, vars, jitVars>>

MCSpec ==
    /\ MCInit /\ [][MCNext]_<<part, vars, jitVars, launchVars>>
    /\ \A p \in Process : WF_vars(part = "tuner" /\ InCall(p) /\ UNCHANGED <<part, jitVars, launchVars>>)

=============================================================================
