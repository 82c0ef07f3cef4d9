--------------------------- MODULE JITSpecialize ----------------------------
(***************************************************************************)
(* What JITFunction.run derives from the arguments of a launch: the key of  *)
(* the in-memory cache, computed on every launch by the generated binder,   *)
(* and, on a miss, what the kernel is compiled for.  A kernel found under a *)
(* key is launched with arguments it has not been compiled for: the two     *)
(* derivations are written apart and must agree.                            *)
(*                                                                         *)
(* An argument is [kind, v, dtype]: v is the value of an int or a bool, the *)
(* address of a tensor, the identity of a float.  A parameter is            *)
(* [annotation, isConst, doNotSpecialize, isConstexpr].  The binder joins   *)
(* the parts of a key to one string; no type is the beginning of another    *)
(* followed by what can follow it, so the key is the tuple of its parts.    *)
(* Integers of 32 and 64 bits are integers of Bits32 and Bits64.            *)
(***************************************************************************)
EXTENDS Integers, Sequences

CONSTANTS
    Bits32, Bits64,
    Launches        \* parameters -> the arguments they are launched with

VARIABLES
    params,         \* JITFunction.params
    first,          \* the arguments of the launch the kernel is compiled for
    second          \* those of a later one that finds it, or <<>>

launchVars == <<params, first, second>>

divisibility == 16

IsInt(arg) == arg.kind \in {"int", "bool"}

\* 1 is not told from other integers.
compute_spec_key_noOne(arg) ==
    IF (arg.kind = "tensor" \/ IsInt(arg)) /\ arg.v % divisibility = 0 THEN "D" ELSE "N"

compute_spec_key(arg) ==
    CASE arg.kind = "tensor" /\ arg.v % divisibility = 0 -> "D"
      [] IsInt(arg) /\ arg.v % divisibility = 0 -> "D"
      [] IsInt(arg) /\ arg.v = 1 -> "1"
      [] OTHER -> "N"

Signed(bits) == -(2 ^ (bits - 1))..2 ^ (bits - 1) - 1
UpperHalf(bits) == 2 ^ (bits - 1)..2 ^ bits - 1

\* Integers are of one type.
mangle_type_int(arg, isConst) ==
    CASE arg.kind = "none" -> <<"none">>
      [] arg.kind = "bool" -> <<"i1">>
      [] arg.kind = "int" -> <<"i32">>
      [] arg.kind = "float" -> <<"fp32">>
      [] OTHER -> <<IF isConst THEN "*k" ELSE "*", arg.dtype>>

mangle_type(arg, isConst) ==
    IF arg.kind = "none" THEN <<"none">>
    ELSE IF arg.kind = "bool" THEN <<"i1">>
    ELSE IF arg.kind = "int"
    THEN IF arg.v \in Signed(Bits32) THEN <<"i32">>
         ELSE IF arg.v \in UpperHalf(Bits64) THEN <<"u64">> ELSE <<"i64">>
    ELSE IF arg.kind = "float" THEN <<"fp32">>
    ELSE <<IF isConst THEN "*k" ELSE "*", arg.dtype>>

\* An argument as above: an int is one that a kernel can be given.
Accepted(arg) ==
    /\ arg.kind \in {"none", "bool", "int", "float", "tensor"} /\ arg.v \in Int
    /\ arg = [kind |-> arg.kind, v |-> arg.v, dtype |-> arg.dtype]
    /\ arg.kind # "tensor" => arg.dtype = ""
    /\ arg.kind = "int" => arg.v \in Signed(Bits64) \cup UpperHalf(Bits64)
    /\ arg.kind = "bool" => arg.v \in 0..1
    /\ arg.kind = "none" => arg.v = 0

ASSUME LaunchesAssumption ==
    \A ps \in DOMAIN Launches : \A args \in Launches[ps] :
        DOMAIN args = DOMAIN ps /\ \A i \in DOMAIN ps : Accepted(args[i])

SignatureType(param, arg) ==
    IF param.annotation # "" THEN <<param.annotation>>
    ELSE mangle_type(arg, param.isConst)

\* The places of params that satisfy a test, as the binder goes through them.
Constexprs == {i \in DOMAIN params : params[i].isConstexpr}
Specialised ==
    {i \in DOMAIN params : ~params[i].isConstexpr /\ ~params[i].doNotSpecialize}

\* The key of the in-memory cache.
LaunchKey(args) ==
    [sig |-> [i \in DOMAIN params \ Constexprs |-> SignatureType(params[i], args[i])],
     spec |-> [i \in Specialised |-> compute_spec_key(args[i])],
     constexprs |-> [i \in Constexprs |-> args[i]]]

-----------------------------------------------------------------------------

is_divisible_by_16(arg) ==
    \/ arg.kind = "tensor" /\ arg.v % divisibility = 0
    \/ IsInt(arg) /\ arg.v % divisibility = 0
    \/ arg.kind = "none"

divisible_by_16(args) ==
    {i \in DOMAIN params :
        is_divisible_by_16(args[i]) /\ ~params[i].doNotSpecialize}

equal_to_1(args) ==
    {i \in DOMAIN params :
        args[i].kind = "int" /\ args[i].v = 1 /\ ~params[i].doNotSpecialize}

\* The signature, the attributes and the constants a kernel is compiled for.
Specialisation(args) ==
    LET folded == {i \in DOMAIN params :
                      \/ params[i].isConstexpr
                      \/ i \in equal_to_1(args)
                      \/ args[i].kind = "none"}
    IN  [signature |-> [i \in DOMAIN params \ Constexprs |->
             LET type == SignatureType(params[i], args[i])
             IN  IF type = <<"none">> THEN <<"*", "i8">> ELSE type],
         divisible |-> divisible_by_16(args),
         equalToOne |-> equal_to_1(args),
         constants |-> [i \in folded |-> args[i]]]

\* What was compiled into a kernel about parameter i is true of arg: a constant
\* has its value (that of True is 1), what the kernel takes for divisible is,
\* and an integer given no annotation for is of the type in the signature.
TrueAt(compiled, i, arg) ==
    /\ i \in DOMAIN compiled.constants =>
           \/ arg = compiled.constants[i]
           \/ IsInt(arg) /\ IsInt(compiled.constants[i]) /\ arg.v = compiled.constants[i].v
    /\ i \in compiled.divisible \ DOMAIN compiled.constants =>
           arg.kind \in {"int", "bool", "tensor"} /\ arg.v % divisibility = 0
    /\ i \in DOMAIN compiled.signature \ DOMAIN compiled.constants /\ params[i].annotation = "" =>
           /\ (compiled.signature[i] = <<"i32">>) => arg.kind = "int" /\ arg.v \in Signed(Bits32)
           /\ (compiled.signature[i] = <<"i64">>) => arg.kind = "int" /\ arg.v \in Signed(Bits64)
           /\ (compiled.signature[i][1] \in {"*", "*k"}) => arg.kind = "tensor"

\* Two specialisations have the same of parameter i.
SameAt(compiled, other, i) ==
    /\ i \in compiled.divisible <=> i \in other.divisible
    /\ i \in compiled.equalToOne <=> i \in other.equalToOne
    /\ i \in DOMAIN compiled.constants <=> i \in DOMAIN other.constants
    /\ i \in DOMAIN compiled.constants => compiled.constants[i] = other.constants[i]

\* Of an argument with an annotation the key has no type: None may have the
\* key of any other that is neither 1 nor divisible, and True has that of 1.
NoneMissed(param, a, b) == param.annotation # "" /\ (a.kind = "none") # (b.kind = "none")
TrueIsOne(param, a, b) == param.annotation # "" /\ {a.kind, b.kind} = {"int", "bool"}

-----------------------------------------------------------------------------

LaunchInit ==
    /\ params \in DOMAIN Launches /\ first \in Launches[params]
    /\ second = <<>>

\* A launch that finds the kernel in the cache.
LaunchAgain ==
    /\ second = <<>>
    /\ second' \in {args \in Launches[params] : LaunchKey(args) = LaunchKey(first)}
    /\ UNCHANGED <<params, first>>

LaunchSpec == LaunchInit /\ [][LaunchAgain]_launchVars

\* All that a kernel was compiled to rely on is true of the arguments of every
\* later launch that finds it, but of a parameter with an annotation that is
\* given None in one launch only; and launches with one key are of one
\* specialisation, but where True is given for 1 and an annotation hides it
\* (create_function_from_signature, JITFunction._get_config).
KeyDecides ==
    second # <<>> =>
        LET compiled == Specialisation(first)  other == Specialisation(second)
        IN  /\ compiled.signature = other.signature
            /\ \A i \in DOMAIN params : ~NoneMissed(params[i], first[i], second[i]) =>
                   /\ TrueAt(compiled, i, second[i])
                   /\ ~TrueIsOne(params[i], first[i], second[i]) => SameAt(compiled, other, i)

=============================================================================
