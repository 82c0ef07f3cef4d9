---------------------------- MODULE RuntimeProofs ----------------------------
(***************************************************************************)
(* Proofs about the runtime.  A kernel found under the key of a launch is   *)
(* right for its arguments: what the key tells of an argument (TypeTells,   *)
(* KeyTells) is all the specialisation asks about it.  The tuner's theorem  *)
(* rests on TunerInv of Autotuner: what is found under a key was chosen     *)
(* among all configurations by a call that the key does not tell from this  *)
(* one, and the tensors are as the caller gave them whenever no kernel runs *)
(* (a lemma for each action of a process, one for the others).              *)
(*                                                                         *)
(* That of the kernels rests on JitInv: the finders at work are of different *)
(* functions without a hash, a hash is that of the sources there are if no   *)
(* callee's sources are assigned, what is noted of a function covers what    *)
(* is noted of those it calls, and each kernel, in memory and on disk, is    *)
(* right for the place where it is found.  A hash decides the sources        *)
(* (HashDecides), and what is noted of a kernel is all it depends on         *)
(* (AllNoted): both by the minimality of what a function reaches, in the     *)
(* place of induction over its calls.  A lemma for each part and step.       *)
(***************************************************************************)
EXTENDS Autotuner, JITFunction, JITSpecialize, SequenceTheorems, WellFoundedInduction, TLAPS

-----------------------------------------------------------------------------
(* Launches. *)

\* What the type in a signature tells of the argument of a parameter that has
\* no annotation: the kinds of no two arguments have a type in common, but for
\* tensors.
LEMMA TypeTells ==
    ASSUME NEW param, NEW arg, Accepted(arg), param.annotation = ""
    PROVE  LET tag == SignatureType(param, arg)[1]
           IN  /\ (tag = "none") <=> (arg.kind = "none")
               /\ (tag = "i1") <=> (arg.kind = "bool")
               /\ tag = "i32" => arg.kind = "int" /\ arg.v \in Signed(Bits32)
               /\ tag = "i64" => arg.kind = "int" /\ arg.v \in Signed(Bits64)
               /\ tag \in {"*", "*k"} => arg.kind = "tensor"
<1> DEFINE tag == SignatureType(param, arg)[1]
<1>1. /\ arg.kind = "none" => tag = "none"
      /\ arg.kind = "bool" => tag = "i1"
      /\ arg.kind = "int" => tag = IF arg.v \in Signed(Bits32) THEN "i32"
                                   ELSE IF arg.v \in UpperHalf(Bits64) THEN "u64" ELSE "i64"
      /\ arg.kind = "float" => tag = "fp32"
      /\ arg.kind = "tensor" => tag \in {"*", "*k"}
  <2>1. arg.kind = "none" => tag = "none"
    BY DEF SignatureType, mangle_type
  <2>2. arg.kind = "bool" => tag = "i1"
    BY DEF SignatureType, mangle_type
  <2>3. arg.kind = "int" => tag = IF arg.v \in Signed(Bits32) THEN "i32"
                                  ELSE IF arg.v \in UpperHalf(Bits64) THEN "u64" ELSE "i64"
    BY DEF SignatureType, mangle_type
  <2>4. arg.kind = "float" => tag = "fp32"
    BY DEF SignatureType, mangle_type
  <2>5. arg.kind = "tensor" => tag \in {"*", "*k"}
    BY DEF SignatureType, mangle_type
  <2> QED
    BY <2>1, <2>2, <2>3, <2>4, <2>5
<1>2. /\ arg.kind \in {"none", "bool", "int", "float", "tensor"}
      /\ arg.kind = "int" => arg.v \in Signed(Bits64) \cup UpperHalf(Bits64)
  BY DEF Accepted
<1> HIDE DEF tag
<1>3. /\ (tag = "none") <=> (arg.kind = "none")
      /\ (tag = "i1") <=> (arg.kind = "bool")
      /\ tag = "i32" => arg.kind = "int" /\ arg.v \in Signed(Bits32)
      /\ tag = "i64" => arg.kind = "int" /\ arg.v \in Signed(Bits64)
      /\ tag \in {"*", "*k"} => arg.kind = "tensor"
  <2>1. CASE arg.kind \in {"none", "bool", "float", "tensor"}
    BY <1>1, <2>1
  <2>2. CASE arg.kind = "int" /\ arg.v \in Signed(Bits32)
    <3>1. tag = "i32"
      BY <1>1, <2>2
    <3> QED
      BY <3>1, <2>2
  <2>3. CASE arg.kind = "int" /\ arg.v \notin Signed(Bits32)
    <3>1. \/ tag = "u64"
          \/ tag = "i64" /\ arg.v \in Signed(Bits64)
      BY <1>1, <1>2, <2>3
    <3> QED
      BY <3>1, <2>3
  <2> QED
    BY <1>2, <2>1, <2>2, <2>3
<1> QED
  BY <1>3 DEF tag

\* Arguments with one type and one specialisation key are folded alike, if an
\* annotation does not hide that one is None or a bool.
LEMMA KeyTells ==
    ASSUME NEW param, NEW a, NEW b, Accepted(a), Accepted(b),
           SignatureType(param, a) = SignatureType(param, b), ~NoneMissed(param, a, b)
    PROVE  /\ (a.kind = "none") <=> (b.kind = "none")
           /\ a.kind = "none" => a = b
           /\ compute_spec_key(a) = compute_spec_key(b) =>
                 /\ is_divisible_by_16(a) <=> is_divisible_by_16(b)
                 /\ a.kind = "int" /\ a.v = 1 => IsInt(b) /\ b.v = 1
                 /\ ~TrueIsOne(param, a, b) =>
                       /\ (a.kind = "int" /\ a.v = 1) <=> (b.kind = "int" /\ b.v = 1)
                       /\ a.kind = "int" /\ a.v = 1 => a = b
<1>1. /\ (a.kind = "none") <=> (b.kind = "none")
      /\ ~TrueIsOne(param, a, b) => {a.kind, b.kind} # {"int", "bool"}
  <2>1. CASE param.annotation = ""
    <3>1. (a.kind = "none") <=> (b.kind = "none")
      BY <2>1, TypeTells
    <3>2. (a.kind = "bool") <=> (b.kind = "bool")
      BY <2>1, TypeTells
    <3>3. {a.kind, b.kind} # {"int", "bool"}
      BY <3>2
    <3> QED
      BY <3>1, <3>3
  <2>2. CASE param.annotation # ""
    <3>1. (a.kind = "none") <=> (b.kind = "none")
      BY <2>2 DEF NoneMissed
    <3>2. ~TrueIsOne(param, a, b) => {a.kind, b.kind} # {"int", "bool"}
      BY <2>2 DEF TrueIsOne
    <3> QED
      BY <3>1, <3>2
  <2> QED
    BY <2>1, <2>2
<1>2. \A x \in {a, b} : /\ x.kind \in {"none", "bool", "int", "float", "tensor"} /\ x.v \in Int
                        /\ x = [kind |-> x.kind, v |-> x.v, dtype |-> x.dtype]
                        /\ x.kind # "tensor" => x.dtype = ""
                        /\ x.kind = "none" => x.v = 0
  BY DEF Accepted
<1>3. a.kind = "none" => a = b
  BY <1>1, <1>2
<1>4. \A x \in {a, b} :
          /\ (compute_spec_key(x) = "1") <=> (x.kind \in {"int", "bool"} /\ x.v = 1)
          /\ (compute_spec_key(x) = "D") <=> (x.kind \in {"int", "bool", "tensor"} /\ x.v % 16 = 0)
  <2>1. TAKE x \in {a, b}
  <2>2. x.kind \in {"none", "bool", "int", "float", "tensor"} /\ x.v \in Int
    BY <1>2
  <2>3. /\ IsInt(x) <=> x.kind \in {"int", "bool"}
        /\ divisibility = 16
    BY DEF IsInt, divisibility
  <2>4. compute_spec_key(x) = IF x.kind \in {"int", "bool", "tensor"} /\ x.v % 16 = 0 THEN "D"
                              ELSE IF x.kind \in {"int", "bool"} /\ x.v = 1 THEN "1"
                              ELSE "N"
    BY <2>2, <2>3 DEF compute_spec_key
  <2> QED
    BY <2>2, <2>4
<1>5. ASSUME compute_spec_key(a) = compute_spec_key(b)
      PROVE  /\ is_divisible_by_16(a) <=> is_divisible_by_16(b)
             /\ a.kind = "int" /\ a.v = 1 => IsInt(b) /\ b.v = 1
             /\ ~TrueIsOne(param, a, b) =>
                   /\ (a.kind = "int" /\ a.v = 1) <=> (b.kind = "int" /\ b.v = 1)
                   /\ a.kind = "int" /\ a.v = 1 => a = b
  <2>1. \A x \in {a, b} :
            is_divisible_by_16(x) <=> (compute_spec_key(x) = "D" \/ x.kind = "none")
    BY <1>4 DEF is_divisible_by_16, IsInt, divisibility
  <2>2. is_divisible_by_16(a) <=> is_divisible_by_16(b)
    BY <2>1, <1>1, <1>5
  <2>3. (a.kind \in {"int", "bool"} /\ a.v = 1) <=> (b.kind \in {"int", "bool"} /\ b.v = 1)
    BY <1>4, <1>5
  <2>4. a.kind = "int" /\ a.v = 1 => IsInt(b) /\ b.v = 1
    BY <2>3 DEF IsInt
  <2>5. ASSUME ~TrueIsOne(param, a, b)
        PROVE  (a.kind = "int" /\ a.v = 1) <=> (b.kind = "int" /\ b.v = 1)
    <3>1. ~(a.kind = "int" /\ b.kind = "bool") /\ ~(a.kind = "bool" /\ b.kind = "int")
      BY <1>1, <2>5
    <3> QED
      BY <2>3, <3>1
  <2>6. ASSUME a.kind = "int" /\ a.v = 1, b.kind = "int" /\ b.v = 1 PROVE a = b
    BY <2>6, <1>2
  <2> QED
    BY <2>2, <2>4, <2>5, <2>6
<1> QED
  BY <1>1, <1>3, <1>5

\* What is kept of a launch: its arguments are arguments of the kernel.
LaunchInv ==
    /\ params \in DOMAIN Launches /\ first \in Launches[params]
    /\ second # <<>> => second \in Launches[params] /\ LaunchKey(second) = LaunchKey(first)

\* The parts of the key.
LEMMA KeyParts ==
    ASSUME NEW a, NEW b, LaunchKey(a) = LaunchKey(b)
    PROVE  /\ \A i \in DOMAIN params \ Constexprs :
                 SignatureType(params[i], a[i]) = SignatureType(params[i], b[i])
           /\ \A i \in Specialised : compute_spec_key(a[i]) = compute_spec_key(b[i])
           /\ \A i \in Constexprs : a[i] = b[i]
<1>1. /\ [i \in DOMAIN params \ Constexprs |-> SignatureType(params[i], a[i])]
           = [i \in DOMAIN params \ Constexprs |-> SignatureType(params[i], b[i])]
      /\ [i \in Specialised |-> compute_spec_key(a[i])] = [i \in Specialised |-> compute_spec_key(b[i])]
      /\ [i \in Constexprs |-> a[i]] = [i \in Constexprs |-> b[i]]
  BY DEF LaunchKey
<1>2. ASSUME NEW i \in DOMAIN params \ Constexprs
      PROVE  SignatureType(params[i], a[i]) = SignatureType(params[i], b[i])
  <2>1. [j \in DOMAIN params \ Constexprs |-> SignatureType(params[j], a[j])][i]
          = [j \in DOMAIN params \ Constexprs |-> SignatureType(params[j], b[j])][i]
    BY <1>1
  <2> QED
    BY <2>1
<1>3. ASSUME NEW i \in Specialised PROVE compute_spec_key(a[i]) = compute_spec_key(b[i])
  <2>1. [j \in Specialised |-> compute_spec_key(a[j])][i] = [j \in Specialised |-> compute_spec_key(b[j])][i]
    BY <1>1
  <2> QED
    BY <2>1
<1>4. ASSUME NEW i \in Constexprs PROVE a[i] = b[i]
  <2>1. [j \in Constexprs |-> a[j]][i] = [j \in Constexprs |-> b[j]][i]
    BY <1>1
  <2> QED
    BY <2>1
<1> QED
  BY <1>2, <1>3, <1>4

\* What a specialisation says of a parameter, in terms of its argument.
LEMMA SpecialisedAt ==
    ASSUME NEW a, NEW i \in DOMAIN params
    PROVE  /\ i \in Specialisation(a).divisible <=>
                 is_divisible_by_16(a[i]) /\ ~params[i].doNotSpecialize
           /\ i \in Specialisation(a).equalToOne <=>
                 a[i].kind = "int" /\ a[i].v = 1 /\ ~params[i].doNotSpecialize
           /\ i \in DOMAIN Specialisation(a).constants <=>
                 \/ i \in Constexprs \/ a[i].kind = "none"
                 \/ a[i].kind = "int" /\ a[i].v = 1 /\ ~params[i].doNotSpecialize
           /\ i \in DOMAIN Specialisation(a).constants => Specialisation(a).constants[i] = a[i]
<1> DEFINE Folded == {j \in DOMAIN params :
                         \/ params[j].isConstexpr
                         \/ j \in equal_to_1(a)
                         \/ a[j].kind = "none"}
           S == Specialisation(a)
<1>1. /\ S.divisible = divisible_by_16(a) /\ S.equalToOne = equal_to_1(a)
      /\ S.constants = [j \in Folded |-> a[j]]
  BY DEF Specialisation
<1>2. DOMAIN S.constants = Folded /\ \A j \in Folded : S.constants[j] = a[j]
  BY <1>1
<1>3. i \in equal_to_1(a) <=> a[i].kind = "int" /\ a[i].v = 1 /\ ~params[i].doNotSpecialize
  BY DEF equal_to_1
<1>4. i \in Folded <=>
          \/ i \in Constexprs \/ a[i].kind = "none"
          \/ a[i].kind = "int" /\ a[i].v = 1 /\ ~params[i].doNotSpecialize
  BY <1>3 DEF Constexprs
<1>5. i \in divisible_by_16(a) <=> is_divisible_by_16(a[i]) /\ ~params[i].doNotSpecialize
  BY DEF divisible_by_16
<1> HIDE DEF S, Folded
<1>6. /\ i \in S.divisible <=> is_divisible_by_16(a[i]) /\ ~params[i].doNotSpecialize
      /\ i \in S.equalToOne <=> a[i].kind = "int" /\ a[i].v = 1 /\ ~params[i].doNotSpecialize
      /\ i \in DOMAIN S.constants <=>
            \/ i \in Constexprs \/ a[i].kind = "none"
            \/ a[i].kind = "int" /\ a[i].v = 1 /\ ~params[i].doNotSpecialize
      /\ i \in DOMAIN S.constants => S.constants[i] = a[i]
  BY <1>1, <1>2, <1>3, <1>4, <1>5
<1> QED
  BY <1>6 DEF S

\* Launches with one key have one signature.
LEMMA OneSignature ==
    ASSUME NEW a, NEW b, LaunchKey(a) = LaunchKey(b)
    PROVE  Specialisation(a).signature = Specialisation(b).signature
<1> DEFINE Typed(args) == [i \in DOMAIN params \ Constexprs |->
                              LET type == SignatureType(params[i], args[i])
                              IN  IF type = <<"none">> THEN <<"*", "i8">> ELSE type]
<1>1. Typed(a) = Typed(b)
  BY KeyParts
<1>2. \A args : Specialisation(args).signature = Typed(args)
  BY DEF Specialisation
<1> QED
  BY <1>1, <1>2

\* Launches with one key have one specialisation of a parameter whose arguments
\* the key tells apart.
LEMMA OneSpecialisation ==
    ASSUME params \in DOMAIN Launches, NEW a \in Launches[params], NEW b \in Launches[params],
           LaunchKey(a) = LaunchKey(b), NEW i \in DOMAIN params,
           ~NoneMissed(params[i], a[i], b[i]), ~TrueIsOne(params[i], a[i], b[i])
    PROVE  SameAt(Specialisation(a), Specialisation(b), i)
<1>1. /\ (a[i].kind = "none") <=> (b[i].kind = "none")
      /\ a[i].kind = "none" => a[i] = b[i]
      /\ ~params[i].doNotSpecialize =>
            /\ (a[i].kind = "int" /\ a[i].v = 1) <=> (b[i].kind = "int" /\ b[i].v = 1)
            /\ a[i].kind = "int" /\ a[i].v = 1 => a[i] = b[i]
            /\ is_divisible_by_16(a[i]) <=> is_divisible_by_16(b[i])
      /\ i \in Constexprs => a[i] = b[i]
  <2>1. CASE i \in Constexprs
    <3>1. a[i] = b[i]
      BY <2>1, KeyParts
    <3> QED
      BY <3>1
  <2>2. CASE i \notin Constexprs
    <3>1. Accepted(a[i]) /\ Accepted(b[i])
      BY LaunchesAssumption
    <3>2. SignatureType(params[i], a[i]) = SignatureType(params[i], b[i])
      BY <2>2, KeyParts
    <3>3. ~params[i].doNotSpecialize => compute_spec_key(a[i]) = compute_spec_key(b[i])
      <4>1. ~params[i].doNotSpecialize => i \in Specialised
        BY <2>2 DEF Specialised, Constexprs
      <4> QED
        BY <4>1, KeyParts
    <3> QED
      BY <2>2, <3>1, <3>2, <3>3, KeyTells
  <2> QED
    BY <2>1, <2>2
<1> DEFINE S == Specialisation(a)
           T == Specialisation(b)
<1>2. /\ i \in S.divisible <=> is_divisible_by_16(a[i]) /\ ~params[i].doNotSpecialize
      /\ i \in S.equalToOne <=> a[i].kind = "int" /\ a[i].v = 1 /\ ~params[i].doNotSpecialize
      /\ i \in DOMAIN S.constants <=>
            \/ i \in Constexprs \/ a[i].kind = "none"
            \/ a[i].kind = "int" /\ a[i].v = 1 /\ ~params[i].doNotSpecialize
      /\ i \in DOMAIN S.constants => S.constants[i] = a[i]
  BY SpecialisedAt
<1>3. /\ i \in T.divisible <=> is_divisible_by_16(b[i]) /\ ~params[i].doNotSpecialize
      /\ i \in T.equalToOne <=> b[i].kind = "int" /\ b[i].v = 1 /\ ~params[i].doNotSpecialize
      /\ i \in DOMAIN T.constants <=>
            \/ i \in Constexprs \/ b[i].kind = "none"
            \/ b[i].kind = "int" /\ b[i].v = 1 /\ ~params[i].doNotSpecialize
      /\ i \in DOMAIN T.constants => T.constants[i] = b[i]
  BY SpecialisedAt
<1> HIDE DEF S, T
<1>4. /\ i \in S.divisible <=> i \in T.divisible
      /\ i \in S.equalToOne <=> i \in T.equalToOne
      /\ i \in DOMAIN S.constants <=> i \in DOMAIN T.constants
      /\ i \in DOMAIN S.constants => S.constants[i] = T.constants[i]
  BY <1>1, <1>2, <1>3
<1> QED
  BY <1>4 DEF SameAt, S, T

\* What a kernel is compiled to rely on is true of the arguments of a launch
\* with its key: of constants by the key, of the rest by the signature.
LEMMA TrueOfLaunch ==
    ASSUME params \in DOMAIN Launches, NEW a \in Launches[params], NEW b \in Launches[params],
           LaunchKey(a) = LaunchKey(b), NEW i \in DOMAIN params,
           ~NoneMissed(params[i], a[i], b[i])
    PROVE  TrueAt(Specialisation(a), i, b[i])
<1>1. Accepted(a[i]) /\ Accepted(b[i])
  BY LaunchesAssumption
<1>2. /\ i \in Constexprs => a[i] = b[i]
      /\ i \notin Constexprs => SignatureType(params[i], a[i]) = SignatureType(params[i], b[i])
      /\ i \notin Constexprs /\ ~params[i].doNotSpecialize =>
            compute_spec_key(a[i]) = compute_spec_key(b[i])
  BY KeyParts DEF Specialised, Constexprs
<1>3. /\ (a[i].kind = "none") <=> (b[i].kind = "none")
      /\ a[i].kind = "none" => a[i] = b[i]
      /\ ~params[i].doNotSpecialize =>
            /\ a[i].kind = "int" /\ a[i].v = 1 => a[i] = b[i] \/ (IsInt(b[i]) /\ b[i].v = 1)
            /\ is_divisible_by_16(a[i]) <=> is_divisible_by_16(b[i])
  <2>1. CASE i \in Constexprs
    BY <1>2, <2>1
  <2>2. CASE i \notin Constexprs
    BY <1>1, <1>2, <2>2, KeyTells
  <2> QED
    BY <2>1, <2>2
<1> DEFINE S == Specialisation(a)
           Type == SignatureType(params[i], b[i])
<1>4. /\ i \in S.divisible <=> is_divisible_by_16(a[i]) /\ ~params[i].doNotSpecialize
      /\ i \in DOMAIN S.constants <=>
            \/ i \in Constexprs \/ a[i].kind = "none"
            \/ a[i].kind = "int" /\ a[i].v = 1 /\ ~params[i].doNotSpecialize
      /\ i \in DOMAIN S.constants => S.constants[i] = a[i]
  BY SpecialisedAt
<1>5. /\ DOMAIN S.signature = DOMAIN params \ Constexprs
      /\ i \notin Constexprs =>
            S.signature[i] = IF Type = <<"none">> THEN <<"*", "i8">> ELSE Type
  <2>1. S.signature = [j \in DOMAIN params \ Constexprs |->
                          LET type == SignatureType(params[j], a[j])
                          IN  IF type = <<"none">> THEN <<"*", "i8">> ELSE type]
    BY DEF Specialisation
  <2> QED
    BY <2>1, <1>2
<1>6. i \in DOMAIN S.constants =>
          \/ b[i] = S.constants[i]
          \/ IsInt(b[i]) /\ IsInt(S.constants[i]) /\ b[i].v = S.constants[i].v
  <2>1. SUFFICES ASSUME i \in DOMAIN S.constants
                 PROVE  b[i] = a[i] \/ (IsInt(b[i]) /\ IsInt(a[i]) /\ b[i].v = a[i].v)
    BY <1>4
  <2>2. CASE i \in Constexprs \/ a[i].kind = "none"
    BY <2>2, <1>2, <1>3
  <2>3. CASE a[i].kind = "int" /\ a[i].v = 1 /\ ~params[i].doNotSpecialize
    BY <2>3, <1>3 DEF IsInt
  <2> QED
    BY <2>1, <2>2, <2>3, <1>4
<1>7. i \in S.divisible \ DOMAIN S.constants =>
          b[i].kind \in {"int", "bool", "tensor"} /\ b[i].v % divisibility = 0
  <2>1. i \in S.divisible \ DOMAIN S.constants => is_divisible_by_16(b[i]) /\ b[i].kind # "none"
    BY <1>3, <1>4
  <2> QED
    BY <2>1 DEF is_divisible_by_16, IsInt
<1>8. ASSUME i \in DOMAIN S.signature \ DOMAIN S.constants, params[i].annotation = ""
      PROVE  /\ (S.signature[i] = <<"i32">>) => b[i].kind = "int" /\ b[i].v \in Signed(Bits32)
             /\ (S.signature[i] = <<"i64">>) => b[i].kind = "int" /\ b[i].v \in Signed(Bits64)
             /\ (S.signature[i][1] \in {"*", "*k"}) => b[i].kind = "tensor"
  <2>1. b[i].kind # "none" /\ i \notin Constexprs
    BY <1>3, <1>4, <1>5, <1>8
  <2>2. /\ Type # <<"none">>
        /\ (Type = <<"i32">>) => b[i].kind = "int" /\ b[i].v \in Signed(Bits32)
        /\ (Type = <<"i64">>) => b[i].kind = "int" /\ b[i].v \in Signed(Bits64)
        /\ (Type[1] \in {"*", "*k"}) => b[i].kind = "tensor"
    <3> DEFINE tag == Type[1]
    <3>1. /\ (tag = "none") <=> (b[i].kind = "none")
          /\ tag = "i32" => b[i].kind = "int" /\ b[i].v \in Signed(Bits32)
          /\ tag = "i64" => b[i].kind = "int" /\ b[i].v \in Signed(Bits64)
          /\ tag \in {"*", "*k"} => b[i].kind = "tensor"
      <4>1. Accepted(b[i]) /\ params[i].annotation = ""
        BY <1>1, <1>8
      <4> QED
        BY <4>1, TypeTells
    <3>2. \A x : Type = <<x>> => tag = x
      OBVIOUS
    <3> HIDE DEF tag
    <3> QED
      BY <3>1, <3>2, <2>1 DEF tag
  <2>3. S.signature[i] = Type
    BY <1>5, <2>1, <2>2
  <2> QED
    BY <2>2, <2>3
<1> HIDE DEF S
<1> QED
  BY <1>6, <1>7, <1>8 DEF TrueAt, S

\* Whatever the parameters of a kernel and the arguments of two launches that
\* share a key, None and bools for annotated parameters among them: what the
\* kernel of one relies on is true of the other's arguments, but where
\* only one is None behind an annotation (JITFunction.run: the binder
\* and _get_config, written apart).
THEOREM KeyDecidesCorrect == LaunchSpec => []KeyDecides
<1>1. LaunchInit => LaunchInv
  BY DEF LaunchInit, LaunchInv
<1>2. LaunchInv /\ [LaunchAgain]_launchVars => LaunchInv'
  <2> SUFFICES ASSUME LaunchInv, [LaunchAgain]_launchVars PROVE LaunchInv'
    OBVIOUS
  <2>1. CASE LaunchAgain
    <3>1. \A args : LaunchKey(args)' = LaunchKey(args)
      BY <2>1 DEF LaunchAgain, LaunchKey, Constexprs, Specialised
    <3>2. /\ params' = params /\ first' = first
          /\ second' \in Launches[params] /\ LaunchKey(second') = LaunchKey(first)
      BY <2>1 DEF LaunchAgain
    <3> QED
      BY <3>1, <3>2 DEF LaunchInv, LaunchKey, Constexprs, Specialised
  <2>2. CASE UNCHANGED launchVars
    BY <2>2 DEF launchVars, LaunchInv, LaunchKey, Constexprs, Specialised
  <2> QED
    BY <2>1, <2>2
<1>3. LaunchInv => KeyDecides
  <2> SUFFICES ASSUME LaunchInv, second # <<>> PROVE KeyDecides
    BY DEF KeyDecides
  <2>1. /\ params \in DOMAIN Launches /\ first \in Launches[params] /\ second \in Launches[params]
        /\ LaunchKey(first) = LaunchKey(second)
    BY DEF LaunchInv
  <2>2. Specialisation(first).signature = Specialisation(second).signature
    BY <2>1, OneSignature
  <2>3. ASSUME NEW i \in DOMAIN params, ~NoneMissed(params[i], first[i], second[i])
        PROVE  /\ TrueAt(Specialisation(first), i, second[i])
               /\ ~TrueIsOne(params[i], first[i], second[i]) =>
                     SameAt(Specialisation(first), Specialisation(second), i)
    BY <2>1, <2>3, TrueOfLaunch, OneSpecialisation
  <2> QED
    BY <2>2, <2>3 DEF KeyDecides
<1> QED
  BY <1>1, <1>2, <1>3, PTL DEF LaunchSpec

-----------------------------------------------------------------------------
(* The tuner. *)

\* A list is not empty, and its members are configurations.
LEMMA ListFacts ==
    ASSUME NEW l \in ConfigLists
    PROVE  /\ Len(l) \in Nat \ {0} /\ DOMAIN l = 1..Len(l)
           /\ ToSet(l) = {l[i] : i \in 1..Len(l)} /\ ToSet(l) \subseteq Config
<1>1. l \in Seq(ToSet(l)) /\ l # <<>>
  BY TunerAssumption
<1>2. Len(l) \in Nat /\ DOMAIN l = 1..Len(l)
  BY <1>1
<1>3. Len(l) # 0
  BY <1>1, EmptySeq
<1>4. ToSet(l) = {l[i] : i \in 1..Len(l)}
  BY <1>2 DEF ToSet
<1>5. ToSet(l) \subseteq Config
  BY DEF Config
<1> QED
  BY <1>2, <1>3, <1>4, <1>5

\* The fastest of some timings is one of them, and none is smaller.
LEMMA FastestIs ==
    ASSUME NEW times \in Seq(Nat), times # <<>>
    PROVE  /\ Fastest(times) \in 1..Len(times)
           /\ \A j \in 1..Len(times) : times[Fastest(times)] <= times[j]
<1> DEFINE Values == {times[i] : i \in 1..Len(times)}
<1>1. Len(times) \in Nat \ {0} /\ DOMAIN times = 1..Len(times)
      /\ \A i \in 1..Len(times) : times[i] \in Nat
  BY EmptySeq
<1>2. Values \subseteq Nat /\ Values # {}
  BY <1>1
<1>3. PICK v \in Values : \A w \in Values : <<w, v>> \notin OpToRel(<, Nat)
  BY <1>2, WFMin, NatLessThanWellFounded
<1>4. \A w \in Values : v <= w
  <2>1. SUFFICES ASSUME NEW w \in Values, w < v PROVE FALSE
    <3>1. v \in Nat /\ \A w \in Values : w \in Nat
      BY <1>2
    <3> HIDE DEF Values
    <3> QED
      BY <3>1
  <2> QED
    BY <2>1, <1>2, <1>3 DEF OpToRel
<1> DEFINE Places == {i \in 1..Len(times) : times[i] = v}
<1>5. Places \subseteq Nat /\ Places # {}
  <2>1. PICK i \in 1..Len(times) : v = times[i]
    BY <1>3
  <2>2. i \in Places
    BY <2>1
  <2> QED
    BY <2>2, <1>1
<1>6. PICK i \in Places : \A j \in Places : <<j, i>> \notin OpToRel(<, Nat)
  BY <1>5, WFMin, NatLessThanWellFounded
<1>7. \A j \in Places : i <= j
  <2>1. SUFFICES ASSUME NEW j \in Places, j < i PROVE FALSE
    BY <1>5
  <2> QED
    BY <2>1, <1>5, <1>6 DEF OpToRel
<1>8. /\ i \in 1..Len(times) /\ \A j \in 1..Len(times) : times[i] <= times[j]
      /\ \A j \in 1..i - 1 : times[i] < times[j]
  <2>1. i \in 1..Len(times) /\ times[i] = v
    BY <1>6
  <2>2. \A j \in 1..Len(times) : v <= times[j]
    BY <1>4
  <2>3. ASSUME NEW j \in 1..i - 1 PROVE v < times[j]
    <3>1. j \in 1..Len(times) /\ j < i
      BY <2>1, <2>3, <1>1
    <3>2. j \notin Places
      BY <3>1, <1>7, <2>1, <1>1
    <3>3. times[j] # v /\ times[j] \in Nat /\ v \in Nat /\ v <= times[j]
      BY <3>1, <3>2, <2>2, <1>1, <1>2
    <3> QED
      BY <3>3
  <2> QED
    BY <2>1, <2>2, <2>3
<1>9. \E k \in DOMAIN times : /\ \A j \in DOMAIN times : times[k] <= times[j]
                              /\ \A j \in 1..k - 1 : times[k] < times[j]
  BY <1>1, <1>8
<1> QED
  BY <1>1, <1>9 DEF Fastest

\* What an entry in a partial function does.
LEMMA Entering ==
    ASSUME NEW f, NEW k, NEW x
    PROVE  /\ DOMAIN Entered(f, k, x) = DOMAIN f \cup {k} /\ Entered(f, k, x)[k] = x
           /\ \A y \in DOMAIN f : y # k => Entered(f, k, x)[y] = f[y]
BY DEF Entered

\* A process that takes no step.
Keeps(q) ==
    /\ configs'[q] = configs[q] /\ cache'[q] = cache[q] /\ pc'[q] = pc[q]
    /\ call'[q] = call[q] /\ key'[q] = key[q] /\ timings'[q] = timings[q]
    /\ reps'[q] = reps[q] /\ restored'[q] = restored[q] /\ zeroed'[q] = zeroed[q]
    /\ copy'[q] = copy[q] /\ hookDone'[q] = hookDone[q] /\ chosen'[q] = chosen[q]

\* A step of process p: it keeps the others.
StepOf(p) ==
    /\ Tables' /\ evaluated \subseteq evaluated'
    /\ \A q \in Process \ {p} : Keeps(q)

LEMMA OthersKept ==
    ASSUME NEW q \in Process, Keeps(q), evaluated \subseteq evaluated', ProcessInv(q)
    PROVE  ProcessInv(q)'
<1>1. CacheInv(q)'
  <2>1. \A k \in DOMAIN cache[q] : Found(k, cache[q][k].config)'
    <3> SUFFICES ASSUME NEW k \in DOMAIN cache[q] PROVE Found(k, cache[q][k].config)'
      OBVIOUS
    <3>1. Found(k, cache[q][k].config)
      BY DEF ProcessInv, CacheInv
    <3>2. cache'[q][k].config = cache[q][k].config
      BY DEF Keeps
    <3> QED
      BY <3>1, <3>2 DEF Found, Best, Evaluated
  <2> QED
    BY <2>1 DEF Keeps, CacheInv
<1>2. CallInv(q)'
  BY DEF ProcessInv, CallInv, Keeps
<1>3. BenchInv(q)'
  BY DEF ProcessInv, BenchInv, Keeps
<1>4. ChosenInv(q)'
  <2>1. ChosenInv(q)
    BY DEF ProcessInv
  <2>2. \A k, x : Found(k, x) => Found(k, x)'
    BY DEF Found, Best, Evaluated
  <2>3. \A c \in Calls, l \in ConfigLists : Evaluated(l, c) => Evaluated(l, c)'
    BY DEF Evaluated
  <2> QED
    BY <2>1, <2>2, <2>3 DEF ChosenInv, Keeps, Evaluated, Best, Found
<1> QED
  BY <1>1, <1>2, <1>3, <1>4 DEF ProcessInv

\* A step of p that keeps the persisted files.
LEMMA FilesKept ==
    ASSUME FileInv, evaluated \subseteq evaluated', UNCHANGED files
    PROVE  FileInv'
<1> SUFFICES ASSUME NEW k \in DOMAIN files
             PROVE  Found(k, files[k].config)'
  BY DEF FileInv
<1>1. Found(k, files[k].config)
  BY DEF FileInv
<1> QED
  BY <1>1 DEF Found, Best, Evaluated

\* So does the cache of p.
LEMMA CacheKept ==
    ASSUME NEW p \in Process, CacheInv(p), evaluated \subseteq evaluated', UNCHANGED cache
    PROVE  CacheInv(p)'
<1> SUFFICES ASSUME NEW k \in DOMAIN cache[p]
             PROVE  Found(k, cache[p][k].config)'
  BY DEF CacheInv
<1>1. Found(k, cache[p][k].config)
  BY DEF CacheInv
<1> QED
  BY <1>1 DEF Found, Best, Evaluated

\* Every action is a step of its process.
LEMMA ActionOf ==
    ASSUME Tables, NEW p \in Process,
           Run(p) \/ Tune(p) \/ RunRaises(p) \/ Launch(p) \/ Return(p) \/ Restart(p)
    PROVE  StepOf(p)
<1>1. CASE Run(p)
  BY <1>1 DEF Run, Configured, Cached, Persisted, ToTune, StepOf, Tables, Keeps
<1>2. CASE KernelCallHooks(p)
  BY <1>2 DEF KernelCallHooks, StepOf, Tables, Keeps
<1>3. CASE KernelCall(p)
  BY <1>3 DEF KernelCall, Timed, StepOf, Tables, Keeps
<1>4. CASE OutOfResources(p)
  BY <1>4 DEF OutOfResources, Timed, StepOf, Tables, Keeps
<1>5. CASE Choose(p)
  BY <1>5 DEF Choose, StepOf, Tables, Keeps
<1>6. CASE WriteTemporary(p)
  BY <1>6 DEF WriteTemporary, memory, StepOf, Tables, Keeps
<1>7. CASE Replace(p)
  BY <1>7 DEF Replace, memory, StepOf, Tables, Keeps
<1>8. CASE RunRaises(p)
  BY <1>8 DEF RunRaises, StepOf, Tables, Keeps
<1>9. CASE Launch(p)
  BY <1>9 DEF Launch, StepOf, Tables, Keeps
<1>10. CASE Return(p)
  BY <1>10 DEF Return, StepOf, Tables, Keeps
<1>11. CASE Restart(p)
  BY <1>11 DEF Restart, StepOf, Tables, Keeps
<1> QED
  BY <1>1, <1>2, <1>3, <1>4, <1>5, <1>6, <1>7, <1>8, <1>9, <1>10, <1>11 DEF Tune

\* A call that need not tune is launched with the only configuration, one that
\* was found under its key, or one that was persisted under it.
LEMMA RunKeeps ==
    ASSUME TunerInv, NEW p \in Process, Run(p)
    PROVE  FileInv' /\ ProcessInv(p)'
<1>1. StepOf(p)
  BY ActionOf DEF TunerInv
<1>2. FileInv'
  BY <1>1, FilesKept DEF Run, StepOf, TunerInv
<1>3. /\ Tables /\ FileInv /\ CacheInv(p) /\ CallInv(p)
  BY DEF TunerInv, ProcessInv
<1>4. PICK c \in Calls : call' = [call EXCEPT ![p] = c] /\ Configured(p, c)
  BY DEF Run
<1>5. /\ configs' = configs /\ call'[p] = c /\ timings'[p] = <<>> /\ reps'[p] = 0
      /\ restored'[p] = Untouched /\ zeroed'[p] = Untouched /\ copy' = copy
      /\ files' = files /\ evaluated' = evaluated /\ pc[p] = "idle"
  BY <1>3, <1>4 DEF Run, Tables
<1>6. configs[p] \in ConfigLists /\ Len(configs[p]) \in Nat /\ Len(configs[p]) # 0
  <2>1. configs[p] \in ConfigLists
    BY <1>3 DEF Tables
  <2> QED
    BY <2>1, ListFacts
<1>7. CASE Len(configs[p]) = 1
  <2>1. /\ chosen'[p] = [config |-> configs[p][1], hooked |-> configs[p][1] \in Hooked]
        /\ pc'[p] = "launch" /\ cache' = cache
    BY <1>4, <1>7, <1>3 DEF Configured, Tables
  <2>2. CacheInv(p)'
    BY <1>3, <1>5, <2>1, CacheKept
  <2>3. CallInv(p)'
    BY <1>3, <1>5, <1>6, <2>1, TunerAssumption DEF CallInv, Untouched
  <2>4. BenchInv(p)'
    BY <2>1 DEF BenchInv
  <2>5. chosen'[p].hooked = (chosen'[p].config \in Hooked)
    BY <2>1
  <2>6. ChosenInv(p)'
    BY <2>1, <2>5, <1>5, <1>7 DEF ChosenInv, Untouched
  <2> QED
    BY <1>2, <2>2, <2>3, <2>4, <2>6 DEF ProcessInv
<1>8. CASE Len(configs[p]) # 1
  <2>1. Len(configs[p]) > 1
    <3>1. \A n \in Nat : n # 0 /\ n # 1 => n > 1
      OBVIOUS
    <3> QED
      BY <3>1, <1>6, <1>8
  <2>2. key'[p] = Key(c) /\ (Cached(p, c) \/ Persisted(p, c) \/ ToTune(p, c))
    BY <1>4, <1>8, <1>3 DEF Configured, Tables
  <2>3. /\ CacheInv(p)' /\ pc'[p] \in {"launch", "hook"}
        /\ pc'[p] = "launch" => Found(Key(c), chosen'[p].config)
    <3>1. CASE Cached(p, c)
      <4>1. /\ Key(c) \in DOMAIN cache[p] /\ chosen'[p] = cache[p][Key(c)]
            /\ pc'[p] = "launch" /\ cache' = cache
        BY <3>1, <1>3 DEF Cached, Tables
      <4> QED
        BY <4>1, <1>3, <1>5, CacheKept DEF CacheInv
    <3>2. CASE Persisted(p, c)
      <4>1. /\ Key(c) \in DOMAIN files /\ pc'[p] = "launch"
            /\ cache'[p] = Entered(cache[p], Key(c), chosen'[p])
        BY <3>2, <1>3 DEF Persisted, Tables
      <4>2. chosen'[p].config = files[Key(c)].config
        BY <3>2, <1>3 DEF Persisted, Tables
      <4>3. Found(Key(c), chosen'[p].config)
        BY <4>1, <4>2, <1>3 DEF FileInv
      <4>4. \A k \in DOMAIN cache'[p] : Found(k, cache'[p][k].config)
        <5>1. /\ DOMAIN cache'[p] = DOMAIN cache[p] \cup {Key(c)}
              /\ cache'[p][Key(c)] = chosen'[p]
              /\ \A k \in DOMAIN cache[p] : k # Key(c) => cache'[p][k] = cache[p][k]
          BY <4>1 DEF Entered
        <5> QED
          BY <5>1, <4>3, <1>3 DEF CacheInv
      <4> QED
        BY <4>1, <4>3, <4>4, <1>5 DEF CacheInv, Found, Best, Evaluated
    <3>3. CASE ToTune(p, c)
      <4>1. pc'[p] = "hook" /\ cache' = cache
        BY <3>3, <1>3 DEF ToTune, Tables
      <4> QED
        BY <4>1, <1>3, <1>5, CacheKept
    <3> QED
      BY <2>2, <3>1, <3>2, <3>3
  <2>4. CallInv(p)'
    BY <2>3, <1>3, <1>5, <1>6, TunerAssumption DEF CallInv, Untouched
  <2>5. BenchInv(p)'
    BY <2>1, <2>2, <2>3, <1>5, <1>6 DEF BenchInv, Untouched
  <2>6. ChosenInv(p)'
    <3>1. Found(Key(c), chosen'[p].config) => Found(Key(call[p]), chosen[p].config)'
      BY <1>5 DEF Found, Best, Evaluated
    <3>2. restored'[p].runs = 0 /\ restored'[p].hooks = {}
      BY <1>5 DEF Untouched
    <3> QED
      BY <2>3, <3>1, <3>2, <1>5, <1>8 DEF ChosenInv
  <2> QED
    BY <1>2, <2>3, <2>4, <2>5, <2>6 DEF ProcessInv
<1> QED
  BY <1>7, <1>8

\* The list of a process in a call, and the configuration that is its turn.
LEMMA ListOf ==
    ASSUME TunerInv, NEW p \in Process
    PROVE  /\ configs[p] \in ConfigLists /\ Len(configs[p]) \in Nat /\ Len(configs[p]) # 0
           /\ ToSet(configs[p]) = {configs[p][i] : i \in 1..Len(configs[p])}
           /\ timings[p] \in Seq(1..Infinite) /\ Len(timings[p]) \in Nat
           /\ DOMAIN timings[p] = 1..Len(timings[p])
           /\ Len(timings[p]) <= Len(configs[p])
<1>1. configs[p] \in ConfigLists
  BY DEF TunerInv, Tables
<1>2. timings[p] \in Seq(1..Infinite) /\ Len(timings[p]) <= Len(configs[p])
  BY DEF TunerInv, ProcessInv, CallInv
<1> QED
  BY <1>1, <1>2, ListFacts

\* Steps that neither find a configuration nor persist one.
LEMMA Elsewhere ==
    ASSUME TunerInv, NEW p \in Process, StepOf(p), UNCHANGED <<cache, files>>,
           CallInv(p)', BenchInv(p)', ChosenInv(p)'
    PROVE  FileInv' /\ ProcessInv(p)'
<1>1. FileInv'
  BY FilesKept DEF StepOf, TunerInv
<1>2. CacheInv(p)'
  BY CacheKept DEF StepOf, TunerInv, ProcessInv
<1> QED
  BY <1>1, <1>2 DEF ProcessInv

\* What a tensor says of the kernel's updates does not depend on hooks.
LEMMA HookRuns ==
    ASSUME NEW p \in Process, NEW c, NEW hooked,
           restored[p] = [runs |-> restored[p].runs, hooks |-> restored[p].hooks]
    PROVE  LET new == CallHook(p, c, hooked)
           IN  /\ new.runs = restored[p].runs
               /\ new = [runs |-> new.runs, hooks |-> new.hooks]
               /\ hooked => new.hooks = restored[p].hooks \cup {c}
               /\ ~hooked => new = restored[p]
<1>1. CASE hooked
  <2>1. CallHook(p, c, hooked) = [runs |-> restored[p].runs, hooks |-> restored[p].hooks \cup {c}]
    BY <1>1 DEF CallHook
  <2> QED
    BY <2>1, <1>1
<1>2. CASE ~hooked
  BY <1>2 DEF CallHook
<1> QED
  BY <1>1, <1>2

LEMMA HooksKeep ==
    ASSUME TunerInv, NEW p \in Process, KernelCallHooks(p)
    PROVE  FileInv' /\ ProcessInv(p)'
<1>1. StepOf(p)
  BY ActionOf DEF TunerInv, Tune
<1>2. Tables /\ CallInv(p) /\ BenchInv(p)
  BY DEF TunerInv, ProcessInv
<1>3. /\ pc[p] = "hook" /\ restored[p].runs = 0
      /\ restored[p] = [runs |-> restored[p].runs, hooks |-> restored[p].hooks]
  BY <1>2 DEF KernelCallHooks, BenchInv, CallInv
<1> DEFINE new == CallHook(p, Current(p), Current(p) \in Hooked)
<1>4. new.runs = 0 /\ new = [runs |-> new.runs, hooks |-> new.hooks]
  BY <1>3, HookRuns
<1> HIDE DEF new
<1>5. /\ restored'[p] = new /\ copy'[p] = <<new>> /\ zeroed'[p] = Untouched
      /\ pc'[p] = "run"
  BY <1>2 DEF KernelCallHooks, Tables, new
<1>6. UNCHANGED <<configs, call, key, timings, reps, evaluated, cache, files>>
  BY DEF KernelCallHooks
<1>7. CallInv(p)'
  BY <1>2, <1>4, <1>5, <1>6 DEF CallInv
<1>8. BenchInv(p)'
  BY <1>2, <1>3, <1>4, <1>5, <1>6 DEF BenchInv
<1>9. ChosenInv(p)'
  BY <1>5 DEF ChosenInv
<1> QED
  BY <1>1, <1>6, <1>7, <1>8, <1>9, Elsewhere

\* The time of a configuration tells whether it had the resources.
LEMMA TimedKeeps ==
    ASSUME TunerInv, NEW p \in Process, pc[p] = "run", NEW time \in 1..Infinite,
           StepOf(p), Timed(p, time), UNCHANGED <<configs, call, key, cache, files>>,
           time < Infinite <=> <<Current(p), call[p]>> \in Fits,
           restored'[p] = restored[p], copy'[p] = <<>>
    PROVE  FileInv' /\ ProcessInv(p)'
<1> DEFINE n == Len(timings[p])
           m == Len(configs[p])
<1>1. Tables /\ CallInv(p) /\ BenchInv(p)
  BY DEF TunerInv, ProcessInv
<1>2. n \in Nat /\ m \in Nat /\ n < m /\ timings[p] \in Seq(1..Infinite)
      /\ DOMAIN timings[p] = 1..n
  BY <1>1, ListOf DEF BenchInv
<1>3. /\ timings'[p] = Append(timings[p], time) /\ reps'[p] = 0
      /\ pc'[p] = IF n + 1 = m THEN "choose" ELSE "hook"
      /\ evaluated' = evaluated \cup {<<call[p], configs[p][n + 1]>>}
  BY <1>1 DEF Timed, Tables, Current
<1>4. /\ timings'[p] \in Seq(1..Infinite) /\ Len(timings'[p]) = n + 1
      /\ DOMAIN timings'[p] = 1..n + 1
      /\ timings'[p][n + 1] = time /\ \A i \in 1..n : timings'[p][i] = timings[p][i]
  BY <1>2, <1>3
<1>5. /\ configs'[p] = configs[p] /\ call'[p] = call[p] /\ key'[p] = key[p]
      /\ Current(p) = configs[p][n + 1]
  BY DEF Current
<1> HIDE DEF n, m
<1>6. CallInv(p)'
  <2>1. n + 1 <= Len(configs[p])
    BY <1>2 DEF m
  <2>2. pc'[p] \in {"hook", "choose"}
    BY <1>3
  <2> QED
    BY <2>1, <2>2, <1>1, <1>3, <1>4, <1>5, TunerAssumption DEF CallInv
<1>7. BenchInv(p)'
  <2>1. pc'[p] \in {"hook", "choose"}
    BY <1>3
  <2>2. m > 1 /\ key[p] = Key(call[p])
    BY <1>1 DEF BenchInv, m
  <2>3. ASSUME NEW i \in 1..n + 1
        PROVE  /\ timings'[p][i] < Infinite <=> <<configs[p][i], call[p]>> \in Fits
               /\ <<call[p], configs[p][i]>> \in evaluated'
    <3>1. CASE i = n + 1
      BY <3>1, <1>3, <1>4, <1>5
    <3>2. CASE i \in 1..n
      <4>1. /\ timings[p][i] < Infinite <=> <<configs[p][i], call[p]>> \in Fits
            /\ <<call[p], configs[p][i]>> \in evaluated
        BY <3>2, <1>1, <1>2 DEF BenchInv
      <4> QED
        BY <4>1, <3>2, <1>3, <1>4
    <3>3. i = n + 1 \/ i \in 1..n
      BY <1>2, <2>3
    <3> QED
      BY <3>1, <3>2, <3>3
  <2>4. pc'[p] = "hook" => n + 1 < m
    BY <1>2, <1>3
  <2>5. pc'[p] = "choose" => n + 1 = m
    BY <1>3
  <2>6. restored'[p].runs = 0
    BY <1>1 DEF BenchInv
  <2> QED
    BY <2>1, <2>2, <2>3, <2>4, <2>5, <2>6, <1>4, <1>5 DEF BenchInv, m
<1>8. ChosenInv(p)'
  <2>1. pc'[p] \in {"hook", "choose"}
    BY <1>3
  <2> QED
    BY <2>1 DEF ChosenInv
<1> QED
  BY <1>6, <1>7, <1>8, Elsewhere

LEMMA KernelKeeps ==
    ASSUME TunerInv, NEW p \in Process, KernelCall(p)
    PROVE  FileInv' /\ ProcessInv(p)'
<1>1. StepOf(p)
  BY ActionOf DEF TunerInv, Tune
<1>2. Tables /\ CallInv(p) /\ BenchInv(p)
  BY DEF TunerInv, ProcessInv
<1>3. pc[p] = "run" /\ copy[p] = <<restored[p]>>
  BY <1>2 DEF KernelCall, CallInv
<1>4. restored'[p] = restored[p] /\ copy'[p] = <<>>
  BY <1>2, <1>3 DEF KernelCall, Tables
<1>5. UNCHANGED <<configs, call, key, cache, files>> /\ <<Current(p), call[p]>> \in Fits
  BY DEF KernelCall
<1>6. CASE \E time \in 1..MaxTime : Timed(p, time)
  <2>1. PICK time \in 1..MaxTime : Timed(p, time)
    BY <1>6
  <2>2. time \in 1..Infinite /\ time < Infinite
    BY TunerAssumption DEF Infinite
  <2> QED
    BY <2>1, <2>2, <1>1, <1>3, <1>4, <1>5, TimedKeeps
<1>7. CASE reps[p] + 1 < MaxReps /\ reps' = [reps EXCEPT ![p] = @ + 1]
           /\ pc' = [pc EXCEPT ![p] = "hook"] /\ UNCHANGED <<timings, evaluated>>
  <2>1. reps'[p] = reps[p] + 1 /\ pc'[p] = "hook"
    BY <1>7, <1>2 DEF Tables
  <2>2. reps'[p] \in 0..MaxReps - 1
    BY <2>1, <1>7, <1>2, TunerAssumption DEF CallInv
  <2>3. CallInv(p)'
    BY <2>1, <2>2, <1>2, <1>4, <1>5, <1>7 DEF CallInv
  <2>4. BenchInv(p)'
    BY <2>1, <1>2, <1>3, <1>4, <1>5, <1>7 DEF BenchInv
  <2>5. ChosenInv(p)'
    BY <2>1 DEF ChosenInv
  <2> QED
    BY <2>3, <2>4, <2>5, <1>1, <1>5, Elsewhere
<1> QED
  BY <1>6, <1>7 DEF KernelCall

LEMMA OutOfResourcesKeeps ==
    ASSUME TunerInv, NEW p \in Process, OutOfResources(p)
    PROVE  FileInv' /\ ProcessInv(p)'
<1>1. StepOf(p)
  BY ActionOf DEF TunerInv, Tune
<1>2. Tables /\ CallInv(p)
  BY DEF TunerInv, ProcessInv
<1>3. pc[p] = "run" /\ copy[p] = <<restored[p]>>
  BY <1>2 DEF OutOfResources, CallInv
<1>4. restored'[p] = restored[p] /\ copy'[p] = <<>>
  BY <1>2, <1>3 DEF OutOfResources, Tables
<1>5. UNCHANGED <<configs, call, key, cache, files>> /\ <<Current(p), call[p]>> \notin Fits
      /\ Timed(p, Infinite)
  BY DEF OutOfResources
<1>6. Infinite \in 1..Infinite /\ ~(Infinite < Infinite)
  BY TunerAssumption DEF Infinite
<1> QED
  BY <1>1, <1>3, <1>4, <1>5, <1>6, TimedKeeps

LEMMA RaiseKeeps ==
    ASSUME TunerInv, NEW p \in Process, RunRaises(p)
    PROVE  FileInv' /\ ProcessInv(p)'
<1>1. StepOf(p)
  BY ActionOf DEF TunerInv
<1>2. Tables /\ CallInv(p) /\ BenchInv(p)
  BY DEF TunerInv, ProcessInv
<1>3. copy[p] = <<restored[p]>> /\ restored[p].runs = 0
  BY <1>2 DEF RunRaises, CallInv, BenchInv
<1>4. restored'[p] = restored[p] /\ copy'[p] = <<>> /\ pc'[p] = "raised"
  BY <1>2, <1>3 DEF RunRaises, Tables
<1>5. UNCHANGED <<configs, call, key, timings, reps, evaluated, cache, files>>
  BY DEF RunRaises
<1>6. CallInv(p)' /\ BenchInv(p)' /\ ChosenInv(p)'
  BY <1>2, <1>3, <1>4, <1>5 DEF CallInv, BenchInv, ChosenInv
<1> QED
  BY <1>1, <1>5, <1>6, Elsewhere

LEMMA LaunchKeeps ==
    ASSUME TunerInv, NEW p \in Process, Launch(p)
    PROVE  FileInv' /\ ProcessInv(p)'
<1>1. StepOf(p)
  BY ActionOf DEF TunerInv
<1>2. Tables /\ CallInv(p) /\ ChosenInv(p)
  BY DEF TunerInv, ProcessInv
<1>3. /\ pc[p] = "launch" /\ restored[p].runs = 0 /\ zeroed[p] = Untouched
      /\ timings[p] = <<>> => restored[p].hooks = {}
      /\ restored[p] = [runs |-> restored[p].runs, hooks |-> restored[p].hooks]
      /\ timings[p] # <<>> \/ Len(configs[p]) = 1 =>
            chosen[p].hooked = (chosen[p].config \in Hooked)
  BY <1>2 DEF Launch, ChosenInv, CallInv
<1> DEFINE fits == <<chosen[p].config, call[p]>> \in Fits
           new == CallHook(p, chosen[p].config, chosen[p].hooked)
<1>4. /\ new.runs = 0 /\ new = [runs |-> new.runs, hooks |-> new.hooks]
      /\ timings[p] = <<>> => new.hooks \subseteq {chosen[p].config}
  BY <1>3, HookRuns
<1> HIDE DEF new
<1>5. /\ restored'[p] = IF fits THEN Updated(new) ELSE new
      /\ zeroed'[p] = IF fits THEN Updated(Untouched) ELSE Untouched
      /\ pc'[p] = IF fits THEN "returned" ELSE "raised"
      /\ hookDone'[p] = IF chosen[p].hooked THEN chosen[p].config ELSE 0
  BY <1>2, <1>3 DEF Launch, Tables, new
<1>9. Updated(new) = [runs |-> 1, hooks |-> new.hooks]
  BY <1>4 DEF Updated
<1>6. UNCHANGED <<configs, call, key, timings, reps, evaluated, cache, files, copy, chosen>>
  BY DEF Launch
<1> HIDE DEF fits
<1>7. CallInv(p)' /\ BenchInv(p)'
  BY <1>2, <1>3, <1>4, <1>5, <1>6, <1>9 DEF CallInv, BenchInv
<1>8. ChosenInv(p)'
  <2>1. /\ pc'[p] \in {"returned", "raised"}
        /\ pc'[p] = "returned" => /\ restored'[p].runs = 1
                                 /\ restored'[p].hooks = new.hooks
                                 /\ zeroed'[p] = Updated(Untouched)
        /\ pc'[p] = "raised" => restored'[p].runs = 0
    BY <1>4, <1>5, <1>9
  <2>2. chosen[p].hooked => hookDone'[p] = chosen[p].config
    BY <1>5
  <2> QED
    BY <2>1, <2>2, <1>3, <1>4, <1>6 DEF ChosenInv
<1> QED
  BY <1>1, <1>6, <1>7, <1>8, Elsewhere

LEMMA ReturnKeeps ==
    ASSUME TunerInv, NEW p \in Process, Return(p)
    PROVE  FileInv' /\ ProcessInv(p)'
<1>1. StepOf(p)
  BY ActionOf DEF TunerInv
<1>2. Tables /\ CallInv(p)
  BY DEF TunerInv, ProcessInv
<1>3. pc'[p] = "idle" /\ pc[p] # "run"
  BY <1>2 DEF Return, Tables
<1>4. UNCHANGED <<configs, call, key, timings, reps, restored, copy, cache, files>>
  BY DEF Return
<1>5. CallInv(p)' /\ BenchInv(p)' /\ ChosenInv(p)'
  BY <1>2, <1>3, <1>4 DEF CallInv, BenchInv, ChosenInv
<1> QED
  BY <1>1, <1>4, <1>5, Elsewhere

\* The fastest configuration has the resources if one has, and all were timed:
\* it is right for every call with the key.
LEMMA ChooseKeeps ==
    ASSUME TunerInv, NEW p \in Process, Choose(p)
    PROVE  FileInv' /\ ProcessInv(p)'
<1>1. StepOf(p)
  BY ActionOf DEF TunerInv, Tune
<1>2. FileInv'
  BY <1>1, FilesKept DEF Choose, StepOf, TunerInv
<1>3. Tables /\ CacheInv(p) /\ CallInv(p) /\ BenchInv(p)
  BY DEF TunerInv, ProcessInv
<1> DEFINE n == Len(configs[p])
           i == Fastest(timings[p])
           x == configs[p][i]
<1>4. /\ n \in Nat /\ n > 1 /\ Len(timings[p]) = n /\ DOMAIN timings[p] = 1..n
      /\ key[p] = Key(call[p]) /\ restored[p].runs = 0
      /\ timings[p] \in Seq(1..Infinite) /\ configs[p] \in ConfigLists /\ call[p] \in Calls
      /\ ToSet(configs[p]) = {configs[p][j] : j \in 1..n}
  <2>1. pc[p] = "choose"
    BY DEF Choose
  <2> QED
    BY <2>1, <1>3, ListOf DEF BenchInv, CallInv
<1>5. \A j \in 1..n : /\ timings[p][j] < Infinite <=> <<configs[p][j], call[p]>> \in Fits
                      /\ <<call[p], configs[p][j]>> \in evaluated
                      /\ timings[p][j] \in Nat
  <2>1. pc[p] = "choose"
    BY DEF Choose
  <2>2. \A j \in 1..n : /\ timings[p][j] < Infinite <=> <<configs[p][j], call[p]>> \in Fits
                        /\ <<call[p], configs[p][j]>> \in evaluated
    BY <2>1, <1>3, <1>4 DEF BenchInv
  <2>3. \A j \in 1..n : timings[p][j] \in 1..Infinite
    <3>1. timings[p] \in Seq(1..Infinite) /\ Len(timings[p]) = n
      BY <1>4
    <3> QED
      BY <3>1, ElementOfSeq
  <2>4. 1..Infinite \subseteq Nat
    BY TunerAssumption DEF Infinite
  <2> QED
    BY <2>2, <2>3, <2>4
<1>6. i \in 1..n /\ \A j \in 1..n : timings[p][i] <= timings[p][j]
  <2>1. timings[p] \in Seq(Nat) /\ timings[p] # <<>>
    <3>1. timings[p] \in Seq(1..Infinite) /\ 1..Infinite \subseteq Nat
      BY <1>4, TunerAssumption DEF Infinite
    <3>2. timings[p] \in Seq(Nat)
      BY <3>1, SeqMonotonic
    <3>3. Len(timings[p]) # 0
      BY <1>4
    <3> QED
      BY <3>2, <3>3, EmptySeq
  <2> QED
    BY <2>1, <1>4, FastestIs
<1> HIDE DEF n, i
<1>7. Best(x, configs[p], call[p]) /\ Evaluated(configs[p], call[p])
  <2>1. x \in ToSet(configs[p])
    BY <1>4, <1>6
  <2>2. ASSUME NEW y \in ToSet(configs[p]), <<y, call[p]>> \in Fits
        PROVE  <<x, call[p]>> \in Fits
    <3>1. PICK j \in 1..n : y = configs[p][j]
      BY <1>4
    <3>2. timings[p][j] < Infinite /\ timings[p][i] <= timings[p][j]
          /\ timings[p][i] \in Nat /\ timings[p][j] \in Nat
      BY <2>2, <3>1, <1>5, <1>6
    <3>3. timings[p][i] < Infinite
      BY <3>2, TunerAssumption DEF Infinite
    <3> QED
      BY <3>3, <1>5, <1>6
  <2>3. Evaluated(configs[p], call[p])
    BY <1>4, <1>5 DEF Evaluated
  <2> QED
    BY <2>1, <2>2, <2>3 DEF Best
<1>8. /\ chosen'[p].config = x /\ chosen'[p].hooked = (x \in Hooked)
      /\ cache'[p] = Entered(cache[p], key[p], chosen'[p])
      /\ zeroed'[p] = Untouched /\ pc'[p] \in {"write", "launch"}
  <2>1. chosen'[p] = [config |-> x, hooked |-> x \in Hooked]
    BY <1>3 DEF Choose, Tables, i
  <2>2. cache'[p] = Entered(cache[p], key[p], [config |-> x, hooked |-> x \in Hooked])
    BY <1>3 DEF Choose, Tables, i
  <2>3. zeroed'[p] = Untouched /\ pc'[p] \in {"write", "launch"}
    BY <1>3 DEF Choose, Tables
  <2> HIDE DEF x
  <2> QED
    BY <2>1, <2>2, <2>3
<1> HIDE DEF x
<1>9. UNCHANGED <<configs, call, key, timings, reps, restored, copy, evaluated, files>>
      /\ pc[p] = "choose"
  BY DEF Choose
<1>10. CacheInv(p)'
  <2>1. Found(key[p], x)
    BY <1>4, <1>7 DEF n, Found
  <2>2. /\ DOMAIN cache'[p] = DOMAIN cache[p] \cup {key[p]}
        /\ cache'[p][key[p]].config = x
        /\ \A k \in DOMAIN cache[p] : k # key[p] => cache'[p][k] = cache[p][k]
    BY <1>8 DEF Entered
  <2>3. \A k \in DOMAIN cache'[p] : Found(k, cache'[p][k].config)
    BY <2>1, <2>2, <1>3 DEF CacheInv
  <2> QED
    BY <2>3, <1>9 DEF CacheInv, Found, Best, Evaluated
<1>11. CallInv(p)' /\ BenchInv(p)'
  BY <1>3, <1>4, <1>8, <1>9 DEF CallInv, BenchInv, n
<1>12. ChosenInv(p)'
  <2>1. timings[p] # <<>> /\ n > 1
    BY <1>4
  <2>2. (Best(chosen[p].config, configs[p], call[p]) /\ Evaluated(configs[p], call[p]))'
    BY <1>7, <1>8, <1>9 DEF Best, Evaluated
  <2>3. Found(Key(call[p]), chosen[p].config)'
    BY <1>4, <1>7, <1>8, <1>9 DEF Found, Best, Evaluated, n
  <2>4. x \in Config
    BY <1>4, <1>7, ListFacts DEF Best
  <2> QED
    BY <2>1, <2>2, <2>3, <2>4, <1>4, <1>8, <1>9 DEF ChosenInv
<1> QED
  BY <1>2, <1>10, <1>11, <1>12 DEF ProcessInv

LEMMA WriteKeeps ==
    ASSUME TunerInv, NEW p \in Process, WriteTemporary(p)
    PROVE  FileInv' /\ ProcessInv(p)'
<1>1. StepOf(p)
  BY ActionOf DEF TunerInv, Tune
<1>2. Tables /\ CallInv(p) /\ BenchInv(p) /\ ChosenInv(p)
  BY DEF TunerInv, ProcessInv
<1>3. pc'[p] = "replace" /\ pc[p] = "write"
  BY <1>2 DEF WriteTemporary, Tables
<1>4. UNCHANGED <<configs, call, key, timings, reps, restored, zeroed, copy, chosen,
                  evaluated, cache, files>>
  BY DEF WriteTemporary, memory
<1>5. CallInv(p)' /\ BenchInv(p)'
  BY <1>2, <1>3, <1>4 DEF CallInv, BenchInv
<1>6. ChosenInv(p)'
  <2>1. ChosenInv(p)
    BY <1>2
  <2> QED
    BY <2>1, <1>3, <1>4 DEF ChosenInv, Found, Best, Evaluated
<1> QED
  BY <1>1, <1>4, <1>5, <1>6, Elsewhere

\* What is persisted is whole, and right for every call with the key.
LEMMA ReplaceKeeps ==
    ASSUME TunerInv, NEW p \in Process, Replace(p)
    PROVE  FileInv' /\ ProcessInv(p)'
<1>1. StepOf(p)
  BY ActionOf DEF TunerInv, Tune
<1>2. Tables /\ FileInv /\ CacheInv(p) /\ CallInv(p) /\ BenchInv(p) /\ ChosenInv(p)
  BY DEF TunerInv, ProcessInv
<1>3. pc'[p] = "launch" /\ pc[p] = "replace"
  BY <1>2 DEF Replace, Tables
<1>4. UNCHANGED <<configs, call, key, timings, reps, restored, zeroed, copy, chosen,
                  evaluated, cache>>
  BY DEF Replace, memory
<1> DEFINE x == chosen[p].config
<1>5. key[p] = Key(call[p]) /\ Len(configs[p]) > 1
  BY <1>2, <1>3 DEF BenchInv
<1>6. Found(key[p], x) /\ x \in Config
  BY <1>2, <1>3, <1>5 DEF ChosenInv
<1> HIDE DEF x
<1>7. FileInv'
  <2>1. files' = Entered(files, key[p], [config |-> x, whole |-> TRUE])
    BY DEF Replace, x
  <2>2. /\ DOMAIN files' = DOMAIN files \cup {key[p]}
        /\ files'[key[p]].config = x /\ files'[key[p]].whole
        /\ \A k \in DOMAIN files : k # key[p] => files'[k] = files[k]
    BY <2>1 DEF Entered
  <2>3. \A k \in DOMAIN files' :
            Found(k, files'[k].config) /\ files'[k].config \in Config /\ files'[k].whole
    BY <2>2, <1>2, <1>6 DEF FileInv
  <2> QED
    BY <2>3, <1>4 DEF FileInv, Found, Best, Evaluated
<1>8. CacheInv(p)'
  BY <1>2, <1>4, CacheKept
<1>9. CallInv(p)' /\ BenchInv(p)'
  BY <1>2, <1>3, <1>4 DEF CallInv, BenchInv
<1>10. ChosenInv(p)'
  BY <1>2, <1>3, <1>4 DEF ChosenInv, Found, Best, Evaluated
<1> QED
  BY <1>7, <1>8, <1>9, <1>10 DEF ProcessInv

LEMMA RestartKeeps ==
    ASSUME TunerInv, NEW p \in Process, Restart(p)
    PROVE  FileInv' /\ ProcessInv(p)'
<1>1. StepOf(p)
  BY ActionOf DEF TunerInv
<1>2. FileInv'
  BY <1>1, FilesKept DEF Restart, StepOf, TunerInv
<1>3. Tables /\ CallInv(p)
  BY DEF TunerInv, ProcessInv
<1>4. /\ cache'[p] = <<>> /\ pc'[p] = "idle" /\ copy'[p] = <<>> /\ timings'[p] = <<>>
      /\ reps'[p] = 0 /\ call' = call /\ restored'[p] = Untouched
  BY <1>3 DEF Restart, Tables
<1>5. configs'[p] \in ConfigLists
  BY <1>1 DEF StepOf, Tables
<1>6. Len(configs'[p]) \in Nat
  BY <1>5, ListFacts
<1>7. CallInv(p)'
  BY <1>3, <1>4, <1>6, TunerAssumption DEF CallInv, Untouched
<1>8. CacheInv(p)' /\ BenchInv(p)' /\ ChosenInv(p)'
  BY <1>4 DEF CacheInv, BenchInv, ChosenInv
<1> QED
  BY <1>2, <1>7, <1>8 DEF ProcessInv

LEMMA InitHolds == Init => TunerInv
<1> SUFFICES ASSUME Init PROVE TunerInv
  OBVIOUS
<1>1. Tables
  BY DEF Init, Tables
<1>2. FileInv
  BY DEF Init, FileInv
<1>3. ASSUME NEW p \in Process PROVE ProcessInv(p)
  <2>1. /\ cache[p] = <<>> /\ pc[p] = "idle" /\ copy[p] = <<>> /\ timings[p] = <<>>
        /\ reps[p] = 0 /\ call[p] \in Calls
    BY TunerAssumption DEF Init
  <2>2. configs[p] \in ConfigLists
    BY <1>1 DEF Tables
  <2>3. CallInv(p)
    <3>1. restored[p] = Untouched
      BY DEF Init
    <3> QED
      BY <2>1, <2>2, <3>1, ListFacts, TunerAssumption DEF CallInv, Untouched
  <2>4. CacheInv(p) /\ BenchInv(p) /\ ChosenInv(p)
    BY <2>1 DEF CacheInv, BenchInv, ChosenInv
  <2> QED
    BY <2>3, <2>4 DEF ProcessInv
<1> QED
  BY <1>1, <1>2, <1>3 DEF TunerInv

LEMMA NextKeeps == TunerInv /\ [Next]_vars => TunerInv'
<1> SUFFICES ASSUME TunerInv, [Next]_vars PROVE TunerInv'
  OBVIOUS
<1>1. ASSUME NEW p \in Process,
             Run(p) \/ Tune(p) \/ RunRaises(p) \/ Launch(p) \/ Return(p) \/ Restart(p)
      PROVE  TunerInv'
  <2>1. StepOf(p)
    BY <1>1, ActionOf DEF TunerInv
  <2>2. FileInv' /\ ProcessInv(p)'
    BY <1>1, RunKeeps, HooksKeep, KernelKeeps, OutOfResourcesKeeps, ChooseKeeps, WriteKeeps,
       ReplaceKeeps, RaiseKeeps, LaunchKeeps, ReturnKeeps, RestartKeeps DEF Tune
  <2>3. \A q \in Process \ {p} : ProcessInv(q)'
    BY <2>1, OthersKept DEF StepOf, TunerInv
  <2> QED
    BY <2>1, <2>2, <2>3 DEF StepOf, TunerInv
<1>2. CASE UNCHANGED vars
  <2>1. Tables' /\ evaluated \subseteq evaluated' /\ UNCHANGED files
        /\ \A q \in Process : Keeps(q)
    BY <1>2 DEF vars, memory, Tables, Keeps, TunerInv
  <2>2. FileInv'
    BY <2>1, FilesKept DEF TunerInv
  <2>3. \A q \in Process : ProcessInv(q)'
    BY <2>1, OthersKept DEF TunerInv
  <2> QED
    BY <2>1, <2>2, <2>3 DEF TunerInv
<1> QED
  BY <1>1, <1>2 DEF Next

\* The tuner launches what a call with the key has found, one that fits where
\* one was timed to fit, after its hook and on arguments that are updated once,
\* and persists whole files, whatever the number of processes, their lists, the
\* timings, what the key tells apart and the moments processes end at
\* (Autotuner.run, _bench, kernel_call).
THEOREM TunedLaunchCorrect == Spec => []TunedLaunch
<1>1. TunerInv => TunedLaunch
  <2> SUFFICES ASSUME TunerInv PROVE TunedLaunch
    OBVIOUS
  <2>1. Tables /\ FileInv /\ \A p \in Process : CallInv(p) /\ BenchInv(p) /\ ChosenInv(p)
    BY DEF TunerInv, ProcessInv
  <2>2. TypeOK
    <3>1. ASSUME NEW p \in Process
          PROVE  /\ \A i \in DOMAIN timings[p] : timings[p][i] \in 1..Infinite
                 /\ Len(copy[p]) <= 1 /\ (copy[p] # <<>>) = (pc[p] = "run")
      <4>1. timings[p] \in Seq(1..Infinite) /\ copy[p] = IF pc[p] = "run" THEN <<restored[p]>> ELSE <<>>
        BY <2>1 DEF CallInv
      <4>2. \A i \in DOMAIN timings[p] : timings[p][i] \in 1..Infinite
        BY <4>1, ElementOfSeq, LenProperties
      <4>3. Len(copy[p]) <= 1
        BY <4>1
      <4>4. \A x : <<x>> # <<>>
        OBVIOUS
      <4>5. (copy[p] # <<>>) = (pc[p] = "run")
        BY <4>1, <4>4
      <4> QED
        BY <4>2, <4>3, <4>5
    <3> QED
      BY <2>1, <3>1 DEF TypeOK, Tables, FileInv, CallInv
  <2>3. FoundForKey
    BY <2>1 DEF FoundForKey, ChosenInv
  <2>4. FilesWhole
    BY <2>1 DEF FilesWhole, FileInv
  <2>5. HookBeforeKernel
    BY <2>1 DEF HookBeforeKernel, ChosenInv
  <2>6. UpdatedOnce
    BY <2>1 DEF UpdatedOnce, ChosenInv, Updated, Untouched
  <2> QED
    BY <2>2, <2>3, <2>4, <2>5, <2>6 DEF TunedLaunch
<1> QED
  BY InitHolds, NextKeeps, <1>1, PTL DEF Spec

-----------------------------------------------------------------------------
(* Kernels. *)

\* The values of globals that are noted.
Values == UNION {[names -> program.values] : names \in SUBSET program.globals}
FinderOf == [of : Function, at : Nat \ {0}, vals : Values]

JitTypes ==
    /\ program \in Programs
    /\ src \in [Function -> program.sources]
    /\ globals \in [program.globals -> program.values]
    /\ DOMAIN hash = Function /\ used \in [Function -> Values]
    /\ DOMAIN kernels = program.kernels
    /\ finders \in Seq(FinderOf)
    /\ program.runs = 1 => runs = 1

\* What is noted of a function covers what is noted of one it calls.
Covers(vals, f, i) == hash[Callees(f)[i]] # <<>> /\ DOMAIN used[Callees(f)[i]] \subseteq DOMAIN vals

\* A function being visited has no hash, those it was found to call have.
FinderSound(d) ==
    /\ hash[d.of] = <<>>
    /\ Uses(d.of) \subseteq DOMAIN d.vals
    /\ \A i \in DOMAIN Callees(d.of) : i < d.at => Covers(d.vals, d.of, i)

FindersInv ==
    /\ \A j \in DOMAIN finders : FinderSound(finders[j])
    /\ \A i, j \in DOMAIN finders : finders[i].of = finders[j].of => i = j

AskedInv ==
    IF asked = <<>> THEN finders = <<>>
    ELSE /\ asked[1] \in program.kernels /\ asked[2] \notin DOMAIN kernels[asked[1]]
         /\ hash[asked[1]] # <<>> \/ Visiting(asked[1])

\* A hash is that of the sources there are.
Settled(f) ==
    hash[f] # <<>> =>
        /\ hash[f] = Digest(f)
        /\ Uses(f) \subseteq DOMAIN used[f]
        /\ \A i \in DOMAIN Callees(f) : Covers(used[f], f, i)

HashInv == CalleesFixed => \A f \in Function : Settled(f)

\* h is the hash of a function k and of all it reaches, of the sources given:
\* hs is that of each.
Hashes(sources, k, hs) ==
    LET called(f) == program.calls[f][sources[f]]
    IN  /\ DOMAIN sources \subseteq Function /\ k \in DOMAIN sources
        /\ \A f \in DOMAIN sources :
               /\ \A i \in DOMAIN called(f) : called(f)[i] \in DOMAIN sources
               /\ hs[f] = [of |-> f, src |-> sources[f],
                           calls |-> [i \in DOMAIN called(f) |-> hs[called(f)[i]]]]
        /\ \A S \in SUBSET DOMAIN sources :
               k \in S /\ (\A f \in S : \A i \in DOMAIN called(f) : called(f)[i] \in S)
               => S = DOMAIN sources

HashOf(sources, h) ==
    /\ sources = [f \in DOMAIN sources |-> sources[f]]
    /\ \E k, hs : Hashes(sources, k, hs) /\ hs[k] = h

SourcesOf(k) == [f \in Reaches(k) |-> src[f]]
OneRun == program.settable = {} /\ program.runs = 1

MemoryInv ==
    \A k \in program.kernels : \A args \in DOMAIN kernels[k] :
        /\ kernels[k][args].args = args
        /\ program.settable = {} => kernels[k][args].sources = SourcesOf(k)
        /\ OneRun /\ ~raised =>
              /\ hash[k] # <<>>
              /\ kernels[k][args].globals = [x \in GlobalsOf(k) |-> used[k][x]]

DiskInv ==
    \A p \in DOMAIN disk :
        /\ disk[p].args = p[2]
        /\ CalleesFixed => HashOf(disk[p].sources, p[1])
        /\ OneRun => \E k \in program.kernels :
                         hash[k] # <<>> /\ p[1] = hash[k] /\ p[2] \in DOMAIN kernels[k]

JitInv ==
    /\ JitTypes /\ FindersInv /\ AskedInv /\ HashInv /\ MemoryInv /\ DiskInv /\ KernelsCurrent

\* A hash is not None.
LEMMA NoHash ==
    ASSUME NEW a, NEW b, NEW c
    PROVE  [of |-> a, src |-> b, calls |-> c] # <<>>
OBVIOUS

\* The last of a sequence that is not empty.
LEMMA LastFinder ==
    ASSUME NEW T, NEW s \in Seq(T), s # <<>>
    PROVE  /\ Len(s) \in Nat \ {0} /\ Len(s) \in DOMAIN s
           /\ s[Len(s)] \in T
OBVIOUS

\* A sequence without its last.
LEMMA WithoutLast ==
    ASSUME NEW T, NEW s \in Seq(T), s # <<>>
    PROVE  LET t == SubSeq(s, 1, Len(s) - 1)
           IN  /\ t \in Seq(T)
               /\ DOMAIN t = DOMAIN s \ {Len(s)}
               /\ \A j \in DOMAIN t : t[j] = s[j]
<1> DEFINE n == Len(s) - 1
           t == SubSeq(s, 1, n)
<1>1. /\ Len(s) \in Nat \ {0} /\ DOMAIN s = 1..Len(s)
      /\ \A i \in 1..(Len(s) - 1) : s[i] \in T
  OBVIOUS
<1>2. /\ n \in Int /\ n >= 0 /\ n - 1 + 1 = n /\ \A i \in 1..n : s[i] \in T
      /\ 1..n = (1..Len(s)) \ {Len(s)}
  BY <1>1
<1> HIDE DEF n
<1>3. t \in Seq(T)
  BY <1>2, SubSeqProperties
<1>4. Len(t) = n
  <2>1. Len(t) = IF 1 <= n THEN n - 1 + 1 ELSE 0
    BY <1>2, SubSeqProperties
  <2> QED
    BY <1>2, <2>1
<1>5. \A j \in 1..n : t[j] = s[j]
  <2>1. \A i \in 1..(n - 1 + 1) : t[i] = s[1 + i - 1]
    BY <1>2, SubSeqProperties
  <2>2. \A j \in 1..n : 1 + j - 1 = j
    BY <1>2
  <2> QED
    BY <1>2, <2>1, <2>2
<1>6. DOMAIN t = 1..n
  <2>1. DOMAIN t = 1..Len(t)
    BY <1>3
  <2> QED
    BY <1>4, <2>1
<1>7. DOMAIN t = DOMAIN s \ {Len(s)} /\ \A j \in DOMAIN t : t[j] = s[j]
  BY <1>1, <1>2, <1>5, <1>6
<1> QED
  BY <1>3, <1>7 DEF n

\* The functions a function calls are functions.
LEMMA CalleesAre ==
    ASSUME JitTypes, NEW f \in Function
    PROVE  /\ src[f] \in program.sources /\ src[f] \in Source
           /\ Callees(f) \in Seq(Function)
           /\ \A i \in DOMAIN Callees(f) : Callees(f)[i] \in Function
           /\ Uses(f) \subseteq program.globals
<1>1. /\ program \in Programs /\ src[f] \in program.sources /\ f \in DOMAIN program.calls
  BY DEF JitTypes, Function
<1>2. /\ program.sources \subseteq Source
      /\ program.calls \in [DOMAIN program.calls -> [Source -> Seq(DOMAIN program.calls)]]
      /\ program.uses \in [DOMAIN program.calls -> [Source -> SUBSET program.globals]]
  BY <1>1, ProgramsAssumption
<1>3. src[f] \in Source
  BY <1>1, <1>2
<1>4. program.calls[f][src[f]] \in Seq(DOMAIN program.calls)
  BY <1>1, <1>2, <1>3
<1>5. Callees(f) \in Seq(Function)
  BY <1>4 DEF Callees, Function
<1>6. Uses(f) \subseteq program.globals
  BY <1>1, <1>2, <1>3 DEF Uses
<1>7. \A i \in DOMAIN Callees(f) : Callees(f)[i] \in Function
  BY <1>5
<1> QED
  BY <1>1, <1>3, <1>5, <1>6, <1>7

\* What a function reaches is the smallest closed set it is in.
LEMMA ReachesFacts ==
    ASSUME JitTypes, NEW f \in Function
    PROVE  /\ Reaches(f) \subseteq Function /\ f \in Reaches(f)
           /\ ClosedUnderCalls(Reaches(f))
           /\ \A S \in SUBSET Function :
                  f \in S /\ ClosedUnderCalls(S) => Reaches(f) \subseteq S
<1>1. Reaches(f) \subseteq Function /\ f \in Reaches(f)
  BY DEF Reaches
<1>2. ASSUME NEW S \in SUBSET Function, f \in S, ClosedUnderCalls(S)
      PROVE  Reaches(f) \subseteq S
  BY <1>2 DEF Reaches
<1>3. ASSUME NEW g \in Reaches(f), NEW i \in DOMAIN Callees(g)
      PROVE  Callees(g)[i] \in Reaches(f)
  <2>1. g \in Function /\ Callees(g)[i] \in Function
    BY <1>1, <1>3, CalleesAre
  <2>2. ASSUME NEW S \in SUBSET Function, f \in S, ClosedUnderCalls(S)
        PROVE  Callees(g)[i] \in S
    <3>1. g \in S
      BY <1>2, <2>2, <1>3
    <3> QED
      BY <2>2, <3>1, <1>3 DEF ClosedUnderCalls
  <2> QED
    BY <2>1, <2>2 DEF Reaches
<1>4. ClosedUnderCalls(Reaches(f))
  BY <1>3 DEF ClosedUnderCalls
<1> QED
  BY <1>1, <1>2, <1>4

\* What is said of a program and its sources stays while they do.
LEMMA SameSource ==
    ASSUME program' = program, src' = src
    PROVE  /\ Function' = Function
           /\ \A f : Callees(f)' = Callees(f) /\ Uses(f)' = Uses(f)
           /\ \A f : Reaches(f)' = Reaches(f) /\ GlobalsOf(f)' = GlobalsOf(f)
           /\ \A f : SourcesOf(f)' = SourcesOf(f)
<1>1. Function' = Function
  BY DEF Function
<1>2. \A f : Callees(f)' = Callees(f) /\ Uses(f)' = Uses(f)
  BY DEF Callees, Uses
<1>3. \A S : ClosedUnderCalls(S)' <=> ClosedUnderCalls(S)
  BY <1>2 DEF ClosedUnderCalls
<1>4. \A f : Reaches(f)' = Reaches(f)
  BY <1>1, <1>3 DEF Reaches
<1>5. \A f : GlobalsOf(f)' = GlobalsOf(f)
  BY <1>2, <1>4 DEF GlobalsOf
<1>6. \A f : SourcesOf(f)' = SourcesOf(f)
  BY <1>4 DEF SourcesOf
<1> QED
  BY <1>1, <1>2, <1>4, <1>5, <1>6

\* What is said of a program only stays.
LEMMA SameProgram ==
    ASSUME program' = program
    PROVE  /\ Function' = Function /\ Values' = Values /\ FinderOf' = FinderOf
           /\ CalleesFixed' = CalleesFixed /\ OneRun' = OneRun
           /\ \A s, h : HashOf(s, h)' = HashOf(s, h)
<1>1. Function' = Function /\ Values' = Values
  BY DEF Function, Values
<1>2. FinderOf' = FinderOf
  BY <1>1 DEF FinderOf
<1>3. CalleesFixed' = CalleesFixed
  BY DEF CalleesFixed, Function
<1>4. OneRun' = OneRun
  BY DEF OneRun
<1>5. \A s, k, hs : Hashes(s, k, hs)' = Hashes(s, k, hs)
  BY <1>1 DEF Hashes
<1>6. \A s, h : HashOf(s, h)' = HashOf(s, h)
  BY <1>5 DEF HashOf
<1> QED
  BY <1>1, <1>2, <1>3, <1>4, <1>6

\* Where nobody assigns sources nobody assigns callees'.
LEMMA NoneSettable == program.settable = {} => CalleesFixed
BY DEF CalleesFixed

\* What a function with a hash reaches has one.
LEMMA ReachedSettled ==
    ASSUME JitTypes, CalleesFixed, HashInv, NEW k \in Function, hash[k] # <<>>
    PROVE  \A f \in Reaches(k) : f \in Function /\ hash[f] # <<>> /\ Settled(f)
<1> DEFINE S == {f \in Function : hash[f] # <<>>}
<1>1. k \in S /\ S \in SUBSET Function
  OBVIOUS
<1>2. ClosedUnderCalls(S)
  <2> SUFFICES ASSUME NEW f \in S, NEW i \in DOMAIN Callees(f)
               PROVE  Callees(f)[i] \in S
    BY DEF ClosedUnderCalls
  <2>1. Callees(f)[i] \in Function
    BY CalleesAre
  <2>2. hash[Callees(f)[i]] # <<>>
    BY DEF HashInv, Settled, Covers
  <2> QED
    BY <2>1, <2>2
<1>3. Reaches(k) \subseteq S
  BY <1>1, <1>2, ReachesFacts
<1> QED
  BY <1>3 DEF HashInv

\* The hash of a kernel compiled now is that of its sources.
LEMMA CompiledHashes ==
    ASSUME JitTypes, CalleesFixed, HashInv, NEW k \in Function, hash[k] # <<>>
    PROVE  HashOf(SourcesOf(k), hash[k])
<1> DEFINE R == Reaches(k)
           s == SourcesOf(k)
<1>1. DOMAIN s = R /\ s = [f \in R |-> s[f]] /\ \A f \in R : s[f] = src[f]
  BY DEF SourcesOf
<1>2. \A f \in R : program.calls[f][s[f]] = Callees(f)
  BY <1>1 DEF Callees
<1>3. R \subseteq Function /\ k \in R /\ ClosedUnderCalls(R)
  BY ReachesFacts
<1>4. \A f \in R : f \in Function /\ hash[f] # <<>> /\ Settled(f)
  BY ReachedSettled
<1> HIDE DEF s, R
<1>5. ASSUME NEW f \in R
      PROVE  /\ \A i \in DOMAIN program.calls[f][s[f]] : program.calls[f][s[f]][i] \in R
             /\ hash[f] = [of |-> f, src |-> s[f],
                           calls |-> [i \in DOMAIN program.calls[f][s[f]] |->
                                         hash[program.calls[f][s[f]][i]]]]
  <2>1. hash[f] = Digest(f)
    BY <1>4 DEF Settled
  <2> QED
    BY <1>1, <1>2, <1>3, <2>1 DEF ClosedUnderCalls, Digest
<1>6. ASSUME NEW S \in SUBSET R, k \in S,
             \A f \in S : \A i \in DOMAIN program.calls[f][s[f]] : program.calls[f][s[f]][i] \in S
      PROVE  S = R
  <2>1. ClosedUnderCalls(S)
    BY <1>2, <1>6 DEF ClosedUnderCalls
  <2>2. R \subseteq S
    BY <1>3, <1>6, <2>1, ReachesFacts DEF R
  <2> QED
    BY <2>2
<1>7. Hashes(s, k, hash)
  BY <1>1, <1>3, <1>5, <1>6 DEF Hashes
<1>8. s = [f \in DOMAIN s |-> s[f]]
  BY <1>1
<1>9. HashOf(s, hash[k])
  BY <1>7, <1>8 DEF HashOf
<1> QED
  BY <1>9 DEF s

\* Only one choice of sources has a hash.
LEMMA HashDecides ==
    ASSUME JitTypes, CalleesFixed, HashInv, NEW k \in Function, hash[k] # <<>>,
           NEW s, HashOf(s, hash[k])
    PROVE  s = SourcesOf(k)
<1> DEFINE R == DOMAIN s
           called(f) == program.calls[f][s[f]]
<1>1. PICK l, hs : Hashes(s, l, hs) /\ hs[l] = hash[k]
  BY DEF HashOf
<1>2. /\ R \subseteq Function /\ l \in R
      /\ \A f \in R : \A i \in DOMAIN called(f) : called(f)[i] \in R
      /\ \A S \in SUBSET R :
             l \in S /\ (\A f \in S : \A i \in DOMAIN called(f) : called(f)[i] \in S) => S = R
  BY <1>1 DEF Hashes
<1>12. ASSUME NEW f \in R
       PROVE  /\ hs[f].of = f /\ hs[f].src = s[f]
              /\ hs[f].calls = [i \in DOMAIN called(f) |-> hs[called(f)[i]]]
  <2>1. hs[f] = [of |-> f, src |-> s[f],
                 calls |-> [i \in DOMAIN called(f) |-> hs[called(f)[i]]]]
    BY <1>1 DEF Hashes
  <2> QED
    BY <2>1
<1>3. l = k
  <2>1. hash[k] = Digest(k)
    BY DEF HashInv, Settled
  <2>2. hash[k].of = k
    BY <2>1 DEF Digest
  <2>3. hs[l].of = l
    BY <1>2, <1>12
  <2> QED
    BY <1>1, <2>2, <2>3
<1> DEFINE Same == {f \in R : hs[f] = hash[f] /\ hash[f] # <<>>}
<1>4. \A f \in Same : s[f] = src[f] /\ called(f) = Callees(f)
  <2> SUFFICES ASSUME NEW f \in Same PROVE s[f] = src[f] /\ called(f) = Callees(f)
    OBVIOUS
  <2>1. f \in Function /\ hash[f] = Digest(f)
    BY <1>2 DEF HashInv, Settled
  <2>2. hs[f].src = s[f] /\ Digest(f).src = src[f]
    BY <1>12 DEF Digest
  <2>3. s[f] = src[f]
    BY <2>1, <2>2
  <2> QED
    BY <2>3 DEF Callees
<1>5. ASSUME NEW f \in Same, NEW i \in DOMAIN called(f)
      PROVE  called(f)[i] \in Same
  <2>1. f \in Function /\ hash[f] = Digest(f) /\ i \in DOMAIN Callees(f)
    BY <1>2, <1>4, <1>5 DEF HashInv, Settled
  <2>2. called(f)[i] \in R /\ called(f)[i] = Callees(f)[i]
    BY <1>2, <1>4, <1>5
  <2>3. hash[Callees(f)[i]] # <<>>
    BY <2>1, <1>5 DEF HashInv, Settled, Covers
  <2>4. hs[f].calls = [j \in DOMAIN called(f) |-> hs[called(f)[j]]]
    BY <1>12
  <2>5. hash[f].calls = [j \in DOMAIN Callees(f) |-> hash[Callees(f)[j]]]
    BY <2>1 DEF Digest
  <2>6. hs[called(f)[i]] = hash[Callees(f)[i]]
    <3>1. hs[f].calls[i] = hs[called(f)[i]]
      BY <2>4, <1>5
    <3>2. hash[f].calls[i] = hash[Callees(f)[i]]
      BY <2>5, <2>1
    <3>3. hs[f] = hash[f]
      OBVIOUS
    <3> QED
      BY <3>1, <3>2, <3>3
  <2> QED
    BY <2>2, <2>3, <2>6
<1>6. k \in Same
  BY <1>1, <1>2, <1>3
<1>7. Same = R
  <2>1. Same \in SUBSET R
    OBVIOUS
  <2> HIDE DEF Same
  <2> QED
    BY <1>2, <1>3, <1>5, <1>6, <2>1
<1>8. \A f \in R : s[f] = src[f] /\ called(f) = Callees(f)
  BY <1>4, <1>7
<1>9. Reaches(k) \subseteq R
  <2>1. ClosedUnderCalls(R)
    BY <1>2, <1>8 DEF ClosedUnderCalls
  <2> QED
    BY <1>2, <1>3, <2>1, ReachesFacts
<1>10. Reaches(k) = R
  <2>1. \A f \in Reaches(k) : \A i \in DOMAIN called(f) : called(f)[i] \in Reaches(k)
    BY <1>8, <1>9, ReachesFacts DEF ClosedUnderCalls
  <2>2. k \in Reaches(k)
    BY ReachesFacts
  <2> QED
    BY <1>2, <1>3, <1>9, <2>1, <2>2
<1>11. s = [f \in R |-> s[f]]
  BY DEF HashOf
<1> QED
  BY <1>8, <1>10, <1>11 DEF SourcesOf

\* The globals of all a kernel reaches are noted with it.
LEMMA AllNoted ==
    ASSUME JitTypes, CalleesFixed, HashInv, NEW k \in Function, hash[k] # <<>>
    PROVE  GlobalsOf(k) \subseteq DOMAIN used[k]
<1> DEFINE S == {f \in Function : hash[f] # <<>> /\ DOMAIN used[f] \subseteq DOMAIN used[k]}
<1>1. k \in S /\ S \in SUBSET Function
  OBVIOUS
<1>2. ClosedUnderCalls(S)
  <2> SUFFICES ASSUME NEW f \in S, NEW i \in DOMAIN Callees(f)
               PROVE  Callees(f)[i] \in S
    BY DEF ClosedUnderCalls
  <2>1. Callees(f)[i] \in Function
    BY CalleesAre
  <2>2. hash[Callees(f)[i]] # <<>> /\ DOMAIN used[Callees(f)[i]] \subseteq DOMAIN used[f]
    BY DEF HashInv, Settled, Covers
  <2> QED
    BY <2>1, <2>2
<1>3. Reaches(k) \subseteq S
  BY <1>1, <1>2, ReachesFacts
<1>4. \A f \in Reaches(k) : Uses(f) \subseteq DOMAIN used[k]
  BY <1>3 DEF HashInv, Settled
<1> QED
  BY <1>4 DEF GlobalsOf

\* Nothing noted yet.
LEMMA NoValues == <<>> \in Values
<1>1. <<>> \in [{} -> program.values]
  OBVIOUS
<1> QED
  BY <1>1 DEF Values

\* Values merged are values, of the names of both.
LEMMA Overridden ==
    ASSUME NEW old \in Values, NEW new \in Values
    PROVE  /\ Override(old, new) \in Values
           /\ DOMAIN Override(old, new) = DOMAIN old \cup DOMAIN new
<1> DEFINE D == DOMAIN old \cup DOMAIN new
<1>1. PICK A \in SUBSET program.globals : old \in [A -> program.values]
  BY DEF Values
<1>2. PICK B \in SUBSET program.globals : new \in [B -> program.values]
  BY DEF Values
<1>3. D \in SUBSET program.globals /\ D = A \cup B
  BY <1>1, <1>2
<1>4. Override(old, new) \in [D -> program.values]
  BY <1>1, <1>2, <1>3 DEF Override
<1> QED
  BY <1>3, <1>4 DEF Values

\* The finder of a function, when it starts.
LEMMA FinderFacts ==
    ASSUME JitTypes, NEW f \in Function
    PROVE  /\ Finder(f) \in FinderOf
           /\ Finder(f).of = f /\ Finder(f).at = 1 /\ DOMAIN Finder(f).vals = Uses(f)
<1>1. Uses(f) \in SUBSET program.globals /\ globals \in [program.globals -> program.values]
  BY CalleesAre DEF JitTypes
<1>2. [x \in Uses(f) |-> globals[x]] \in [Uses(f) -> program.values]
  BY <1>1
<1>3. [x \in Uses(f) |-> globals[x]] \in Values
  BY <1>1, <1>2 DEF Values
<1>4. Finder(f) \in FinderOf
  BY <1>3 DEF Finder, FinderOf
<1> QED
  BY <1>4 DEF Finder

\* The finder at work and what it has come to.
LEMMA InnerFacts ==
    ASSUME JitTypes, finders # <<>>
    PROVE  /\ Inner \in FinderOf /\ Inner.of \in Function /\ Inner.at \in Nat \ {0}
           /\ Inner.vals \in Values /\ Len(finders) \in DOMAIN finders
           /\ AtCall => Inner.at \in DOMAIN Callees(Inner.of) /\ Callee \in Function
<1>1. finders \in Seq(FinderOf)
  BY DEF JitTypes
<1>2. Inner \in FinderOf /\ Len(finders) \in DOMAIN finders
  BY <1>1, LastFinder DEF Inner
<1>3. Inner.of \in Function /\ Inner.at \in Nat \ {0} /\ Inner.vals \in Values
  BY <1>2 DEF FinderOf
<1>4. AtCall => Inner.at \in DOMAIN Callees(Inner.of) /\ Callee \in Function
  BY <1>3, CalleesAre DEF AtCall, Callee
<1> QED
  BY <1>2, <1>3, <1>4

\* The finders when the innermost has merged a callee's values.
LEMMA Advanced ==
    ASSUME JitTypes, MergeCallee
    PROVE  /\ finders' \in Seq(FinderOf) /\ DOMAIN finders' = DOMAIN finders
           /\ \A j \in DOMAIN finders : j # Len(finders) => finders'[j] = finders[j]
           /\ finders'[Len(finders)].of = Inner.of
           /\ finders'[Len(finders)].at = Inner.at + 1
           /\ DOMAIN finders'[Len(finders)].vals = DOMAIN Inner.vals \cup DOMAIN used[Callee]
<1> DEFINE vals == Override(Inner.vals, used[Callee])
           next == [of |-> Inner.of, at |-> Inner.at + 1, vals |-> vals]
<1>1. finders # <<>> /\ AtCall /\ finders' = [finders EXCEPT ![Len(finders)] = next]
  BY DEF MergeCallee, AtCall
<1>2. finders \in Seq(FinderOf) /\ Callee \in Function /\ used[Callee] \in Values
  BY <1>1, InnerFacts DEF JitTypes
<1>3. vals \in Values /\ DOMAIN vals = DOMAIN Inner.vals \cup DOMAIN used[Callee]
  BY <1>1, <1>2, InnerFacts, Overridden
<1> HIDE DEF vals
<1>4. next \in FinderOf
  BY <1>1, <1>3, InnerFacts DEF FinderOf
<1>5. next.of = Inner.of /\ next.at = Inner.at + 1 /\ next.vals = vals
  OBVIOUS
<1> HIDE DEF next
<1>6. /\ finders' \in Seq(FinderOf) /\ DOMAIN finders' = DOMAIN finders
      /\ finders'[Len(finders)] = next
      /\ \A j \in DOMAIN finders : j # Len(finders) => finders'[j] = finders[j]
  BY <1>1, <1>2, <1>4
<1> QED
  BY <1>3, <1>5, <1>6

\* The finders when one has been begun.
LEMMA Pushed ==
    ASSUME JitTypes, VisitCallee
    PROVE  /\ finders' \in Seq(FinderOf) /\ DOMAIN finders' = DOMAIN finders \cup {Len(finders) + 1}
           /\ Len(finders) + 1 \notin DOMAIN finders
           /\ \A j \in DOMAIN finders : finders'[j] = finders[j]
           /\ finders'[Len(finders) + 1] = Finder(Callee)
<1>1. finders' = Append(finders, Finder(Callee)) /\ finders \in Seq(FinderOf)
  BY DEF VisitCallee, JitTypes
<1>2. Finder(Callee) \in FinderOf
  BY InnerFacts, FinderFacts DEF VisitCallee, AtCall
<1> QED
  BY <1>1, <1>2

\* A step keeps the types.
LEMMA TypesKept ==
    ASSUME JitTypes, AskedInv, JitNext
    PROVE  JitTypes'
<1>1. /\ program \in Programs /\ src \in [Function -> program.sources]
      /\ globals \in [program.globals -> program.values]
      /\ DOMAIN hash = Function /\ used \in [Function -> Values]
      /\ DOMAIN kernels = program.kernels /\ finders \in Seq(FinderOf)
      /\ (program.runs = 1 => runs = 1)
  BY DEF JitTypes
<1>2. program' = program
  BY DEF JitNext, RunCached, RunCompile, VisitCallee, MergeCallee, VisitRaises, cache_key,
         compile, SetSrc, SetGlobal, RunAgain
<1>3. Function' = Function /\ Values' = Values /\ FinderOf' = FinderOf
  BY <1>2, SameProgram
<1>4. SUFFICES /\ src' \in [Function -> program.sources]
               /\ globals' \in [program.globals -> program.values]
               /\ DOMAIN hash' = Function /\ used' \in [Function -> Values]
               /\ DOMAIN kernels' = program.kernels
               /\ finders' \in Seq(FinderOf)
               /\ (program.runs = 1 => runs' = 1)
  BY <1>1, <1>2, <1>3 DEF JitTypes
<1>5. CASE \E k \in program.kernels, args \in program.args : RunCached(k, args)
  BY <1>1, <1>5 DEF RunCached
<1>6. CASE \E k \in program.kernels, args \in program.args : RunCompile(k, args)
  <2>1. PICK k \in program.kernels, args \in program.args : RunCompile(k, args)
    BY <1>6
  <2>2. program.kernels \subseteq Function
    BY <1>1, ProgramsAssumption DEF Function
  <2>3. Finder(k) \in FinderOf
    BY <2>2, FinderFacts
  <2>4. finders' \in Seq(FinderOf)
    BY <2>1, <2>3 DEF RunCompile
  <2> QED
    BY <1>1, <2>1, <2>4 DEF RunCompile
<1>7. CASE VisitCallee
  BY <1>1, <1>7, Pushed DEF VisitCallee
<1>8. CASE MergeCallee
  BY <1>1, <1>8, Advanced DEF MergeCallee
<1>9. CASE VisitRaises
  BY <1>1, <1>9 DEF VisitRaises
<1>10. CASE cache_key
  <2>1. finders # <<>> /\ finders' \in Seq(FinderOf)
    BY <1>1, <1>10, WithoutLast DEF cache_key
  <2>2. Inner.of \in Function /\ Inner.vals \in Values
    BY <2>1, InnerFacts
  <2>3. DOMAIN hash' = Function /\ used' \in [Function -> Values]
    BY <1>1, <1>10, <2>2 DEF cache_key
  <2> QED
    BY <1>1, <1>10, <2>1, <2>3 DEF cache_key
<1>11. CASE compile
  <2>1. DOMAIN kernels' = DOMAIN kernels
    BY <1>11 DEF compile
  <2> QED
    BY <1>1, <1>11, <2>1 DEF compile
<1>12. CASE \E f \in program.settable, s \in program.sources : SetSrc(f, s)
  BY <1>1, <1>12 DEF SetSrc
<1>13. CASE \E x \in program.globals, v \in program.values : SetGlobal(x, v)
  BY <1>1, <1>13 DEF SetGlobal
<1>14. CASE RunAgain
  <2>1. used' \in [Function -> Values]
    BY <1>14, NoValues DEF RunAgain
  <2>2. ~(program.runs = 1)
    BY <1>1, <1>14 DEF RunAgain
  <2> QED
    BY <1>14, <2>1, <2>2 DEF RunAgain
<1> QED
  BY <1>5, <1>6, <1>7, <1>8, <1>9, <1>10, <1>11, <1>12, <1>13, <1>14 DEF JitNext

\* What holds of the sources, the hashes and what is noted holds while they stay.
LEMMA Still ==
    ASSUME UNCHANGED <<program, src, hash, used>>
    PROVE  /\ \A vals, f, i : Covers(vals, f, i)' <=> Covers(vals, f, i)
           /\ \A f : Settled(f)' <=> Settled(f)
           /\ HashInv' <=> HashInv
<1>1. /\ Function' = Function /\ (CalleesFixed' <=> CalleesFixed)
      /\ \A f : Callees(f)' = Callees(f) /\ Uses(f)' = Uses(f)
  BY SameProgram, SameSource
<1>2. \A vals, f, i : Covers(vals, f, i)' <=> Covers(vals, f, i)
  BY <1>1 DEF Covers
<1>3. \A f : Digest(f)' = Digest(f)
  BY <1>1 DEF Digest
<1>4. \A f : Settled(f)' <=> Settled(f)
  BY <1>1, <1>2, <1>3 DEF Settled
<1> QED
  BY <1>1, <1>2, <1>4 DEF HashInv

\* A function whose hash is computed had none, and what it calls has one.
LEMMA KeyedFacts ==
    ASSUME JitTypes, FindersInv, cache_key
    PROVE  /\ Inner.of \in Function /\ hash[Inner.of] = <<>>
           /\ Uses(Inner.of) \subseteq DOMAIN Inner.vals
           /\ \A i \in DOMAIN Callees(Inner.of) : Covers(Inner.vals, Inner.of, i)
           /\ hash'[Inner.of] = Digest(Inner.of) /\ hash'[Inner.of] # <<>>
           /\ used'[Inner.of] = Inner.vals
           /\ \A f \in Function : f # Inner.of => hash'[f] = hash[f] /\ used'[f] = used[f]
<1> DEFINE f == Inner.of
<1>1. /\ finders # <<>> /\ ~AtCall
      /\ hash' = [hash EXCEPT ![f] = Digest(f)] /\ used' = [used EXCEPT ![f] = Inner.vals]
  BY DEF cache_key
<1>2. f \in Function /\ Inner.at \in Nat \ {0} /\ Len(finders) \in DOMAIN finders
  BY <1>1, InnerFacts
<1>3. /\ hash[f] = <<>> /\ Uses(f) \subseteq DOMAIN Inner.vals
      /\ \A i \in DOMAIN Callees(f) : i < Inner.at => Covers(Inner.vals, f, i)
  BY <1>2 DEF FindersInv, FinderSound, Inner
<1>4. Inner.at \notin DOMAIN Callees(f)
  BY <1>1 DEF AtCall
<1>5. Callees(f) \in Seq(Function)
  BY <1>2, CalleesAre
<1>6. \A i \in DOMAIN Callees(f) : i < Inner.at
  <2>1. DOMAIN Callees(f) = 1..Len(Callees(f)) /\ Len(Callees(f)) \in Nat
    BY <1>5
  <2> QED
    BY <1>2, <1>4, <2>1
<1>7. DOMAIN hash = Function /\ DOMAIN used = Function
  BY DEF JitTypes
<1>8. /\ hash'[f] = Digest(f) /\ used'[f] = Inner.vals
      /\ \A g \in Function : g # f => hash'[g] = hash[g] /\ used'[g] = used[g]
  BY <1>1, <1>2, <1>7
<1>9. Digest(f) # <<>>
  BY NoHash DEF Digest
<1> QED
  BY <1>2, <1>3, <1>6, <1>8, <1>9

\* Computing the hash of a function changes no other's, nor what is noted of it.
LEMMA KeyedKeeps ==
    ASSUME JitTypes, FindersInv, cache_key
    PROVE  /\ \A f \in Function : hash[f] # <<>> =>
                  hash'[f] # <<>> /\ hash'[f] = hash[f] /\ used'[f] = used[f]
           /\ \A f \in Function : \A i \in DOMAIN Callees(f) :
                  \A vals : Covers(vals, f, i) => Covers(vals, f, i)'
<1>1. \A f \in Function : hash[f] # <<>> =>
          hash'[f] # <<>> /\ hash'[f] = hash[f] /\ used'[f] = used[f]
  <2> SUFFICES ASSUME NEW f \in Function, hash[f] # <<>>
               PROVE  hash'[f] # <<>> /\ hash'[f] = hash[f] /\ used'[f] = used[f]
    OBVIOUS
  <2>1. f # Inner.of
    BY KeyedFacts
  <2>2. hash'[f] = hash[f] /\ used'[f] = used[f]
    BY <2>1, KeyedFacts
  <2> QED
    BY <2>2
<1>2. ASSUME NEW vals, NEW f \in Function, NEW i \in DOMAIN Callees(f), Covers(vals, f, i)
      PROVE  Covers(vals, f, i)'
  <2>1. Callees(f)[i] \in Function /\ Callees(f)' = Callees(f)
    BY CalleesAre, SameSource DEF cache_key
  <2>2. hash[Callees(f)[i]] # <<>> /\ DOMAIN used[Callees(f)[i]] \subseteq DOMAIN vals
    BY <1>2 DEF Covers
  <2>3. hash'[Callees(f)[i]] # <<>> /\ used'[Callees(f)[i]] = used[Callees(f)[i]]
    BY <1>1, <2>1, <2>2
  <2>4. hash'[Callees(f)'[i]] # <<>> /\ DOMAIN used'[Callees(f)'[i]] \subseteq DOMAIN vals
    BY <2>1, <2>2, <2>3
  <2> QED
    BY <2>4 DEF Covers
<1> QED
  BY <1>1, <1>2

\* The hash of a function is still that of its sources when the hash of another
\* has been computed.
LEMMA DigestKept ==
    ASSUME JitTypes, FindersInv, cache_key, NEW f \in Function,
           \A i \in DOMAIN Callees(f) : hash[Callees(f)[i]] # <<>>
    PROVE  Digest(f)' = Digest(f)
<1>1. Callees(f)' = Callees(f) /\ src' = src
  BY SameSource DEF cache_key
<1>2. \A i \in DOMAIN Callees(f) : hash'[Callees(f)[i]] = hash[Callees(f)[i]]
  BY CalleesAre, KeyedKeeps
<1>3. Digest(f)' = [of |-> f, src |-> src[f],
                    calls |-> [i \in DOMAIN Callees(f) |-> hash'[Callees(f)[i]]]]
  BY <1>1 DEF Digest
<1>4. [i \in DOMAIN Callees(f) |-> hash'[Callees(f)[i]]]
          = [i \in DOMAIN Callees(f) |-> hash[Callees(f)[i]]]
  BY <1>2
<1> QED
  BY <1>3, <1>4 DEF Digest

\* A hash computed is that of the sources.
LEMMA KeyedSettles ==
    ASSUME JitTypes, FindersInv, HashInv, cache_key
    PROVE  HashInv'
<1>1. Function' = Function /\ (CalleesFixed' <=> CalleesFixed)
  BY SameProgram DEF cache_key
<1>2. ASSUME CalleesFixed, NEW f \in Function, hash'[f] # <<>>
      PROVE  /\ hash'[f] = Digest(f)'
             /\ Uses(f)' \subseteq DOMAIN used'[f]
             /\ \A i \in DOMAIN Callees(f)' :
                    /\ hash'[Callees(f)'[i]] # <<>>
                    /\ DOMAIN used'[Callees(f)'[i]] \subseteq DOMAIN used'[f]
  <2>1. Callees(f)' = Callees(f) /\ Uses(f)' = Uses(f)
    BY SameSource DEF cache_key
  <2>2. /\ hash'[f] = Digest(f) /\ Uses(f) \subseteq DOMAIN used'[f]
        /\ \A i \in DOMAIN Callees(f) :
               /\ hash[Callees(f)[i]] # <<>>
               /\ DOMAIN used[Callees(f)[i]] \subseteq DOMAIN used'[f]
    <3>1. CASE f = Inner.of
      BY <3>1, KeyedFacts DEF Covers
    <3>2. CASE f # Inner.of
      <4>1. hash[f] # <<>> /\ hash'[f] = hash[f] /\ used'[f] = used[f]
        BY <1>2, <3>2, KeyedFacts
      <4>2. Settled(f)
        BY <1>2 DEF HashInv
      <4> QED
        BY <4>1, <4>2 DEF Settled, Covers
    <3> QED
      BY <3>1, <3>2
  <2>3. Digest(f)' = Digest(f)
    BY <2>2, DigestKept
  <2>4. \A i \in DOMAIN Callees(f) :
            /\ hash'[Callees(f)[i]] # <<>>
            /\ used'[Callees(f)[i]] = used[Callees(f)[i]]
    BY <2>2, CalleesAre, KeyedKeeps
  <2> QED
    BY <2>1, <2>2, <2>3, <2>4
<1>3. ASSUME CalleesFixed, NEW f \in Function PROVE Settled(f)'
  BY <1>2, <1>3 DEF Settled, Covers
<1> QED
  BY <1>1, <1>3 DEF HashInv

\* Nothing has been computed of the callee of another where its sources are
\* assigned.
LEMMA AssignedSettles ==
    ASSUME JitTypes, HashInv, NEW f \in program.settable, NEW s \in program.sources, SetSrc(f, s)
    PROVE  HashInv'
<1>1. /\ Function' = Function /\ (CalleesFixed' <=> CalleesFixed)
      /\ f \in Function /\ DOMAIN src = Function /\ DOMAIN hash = Function
  BY SameProgram, ProgramsAssumption DEF SetSrc, JitTypes, Function
<1>2. /\ src' = [src EXCEPT ![f] = s] /\ hash' = [hash EXCEPT ![f] = <<>>]
      /\ used' = used /\ program' = program
  BY DEF SetSrc
<1>3. ASSUME CalleesFixed, NEW g \in Function, hash'[g] # <<>>
      PROVE  /\ hash'[g] = Digest(g)'
             /\ Uses(g)' \subseteq DOMAIN used'[g]
             /\ \A i \in DOMAIN Callees(g)' :
                    /\ hash'[Callees(g)'[i]] # <<>>
                    /\ DOMAIN used'[Callees(g)'[i]] \subseteq DOMAIN used'[g]
  <2>1. g # f /\ hash'[g] = hash[g] /\ src'[g] = src[g]
    BY <1>1, <1>2, <1>3
  <2>2. Callees(g)' = Callees(g) /\ Uses(g)' = Uses(g)
    BY <1>2, <2>1 DEF Callees, Uses
  <2>3. /\ hash[g] = Digest(g) /\ Uses(g) \subseteq DOMAIN used[g]
        /\ \A i \in DOMAIN Callees(g) :
               /\ hash[Callees(g)[i]] # <<>>
               /\ DOMAIN used[Callees(g)[i]] \subseteq DOMAIN used[g]
    BY <1>3, <2>1 DEF HashInv, Settled, Covers
  <2>4. \A i \in DOMAIN Callees(g) : Callees(g)[i] # f
    <3>1. src[g] \in program.sources
      BY CalleesAre
    <3> QED
      BY <1>3, <3>1 DEF CalleesFixed, Callees
  <2>5. \A i \in DOMAIN Callees(g) : hash'[Callees(g)[i]] = hash[Callees(g)[i]]
    BY <1>1, <1>2, <2>4, CalleesAre
  <2>6. Digest(g)' = Digest(g)
    <3>1. Digest(g)' = [of |-> g, src |-> src[g],
                        calls |-> [i \in DOMAIN Callees(g) |-> hash'[Callees(g)[i]]]]
      BY <2>1, <2>2 DEF Digest
    <3>2. [i \in DOMAIN Callees(g) |-> hash'[Callees(g)[i]]]
              = [i \in DOMAIN Callees(g) |-> hash[Callees(g)[i]]]
      BY <2>5
    <3> QED
      BY <3>1, <3>2 DEF Digest
  <2> QED
    BY <1>2, <2>1, <2>2, <2>3, <2>5, <2>6
<1>4. ASSUME CalleesFixed, NEW g \in Function PROVE Settled(g)'
  BY <1>3, <1>4 DEF Settled, Covers
<1> QED
  BY <1>1, <1>4 DEF HashInv

\* A step keeps the hashes right.
LEMMA HashKept ==
    ASSUME JitTypes, FindersInv, HashInv, JitNext
    PROVE  HashInv'
<1>1. CASE UNCHANGED <<program, src, hash, used>>
  BY <1>1, Still
<1>2. CASE RunAgain
  <2>1. hash' = [f \in Function |-> <<>>] /\ Function' = Function
    BY <1>2, SameProgram DEF RunAgain
  <2>2. ASSUME NEW f \in Function PROVE Settled(f)'
    BY <2>1 DEF Settled
  <2> QED
    BY <2>1, <2>2 DEF HashInv
<1>3. \/ UNCHANGED <<program, src, hash, used>>
      \/ cache_key
      \/ \E f \in program.settable, s \in program.sources : SetSrc(f, s)
      \/ RunAgain
  BY DEF JitNext, RunCached, RunCompile, VisitCallee, MergeCallee, VisitRaises, compile, SetGlobal
<1> QED
  BY <1>1, <1>2, <1>3, KeyedSettles, AssignedSettles

\* A finder stays sound while no hash changes.
LEMMA SoundStill ==
    ASSUME UNCHANGED <<program, src, hash, used>>
    PROVE  \A d : FinderSound(d)' <=> FinderSound(d)
BY SameSource, Still DEF FinderSound

\* A finder that has met the globals of its function only.
LEMMA FirstSound ==
    ASSUME JitTypes, NEW f \in Function, hash[f] = <<>>
    PROVE  FinderSound(Finder(f))
<1>1. Callees(f) \in Seq(Function)
  BY CalleesAre
<1>2. \A i \in DOMAIN Callees(f) : ~(i < 1)
  BY <1>1
<1> QED
  BY <1>2, FinderFacts DEF FinderSound

\* A step keeps the finders sound, and of different functions.
LEMMA FindersKept ==
    ASSUME JitTypes, AskedInv, FindersInv, JitNext
    PROVE  FindersInv'
<1>1. CASE finders' = <<>>
  BY <1>1 DEF FindersInv
<1>2. CASE UNCHANGED <<program, src, hash, used, finders>>
  BY <1>2, SoundStill DEF FindersInv
<1>3. ASSUME NEW k \in program.kernels, NEW args \in program.args, RunCompile(k, args), hash[k] = <<>>
      PROVE  FindersInv'
  <2>1. k \in Function
    BY ProgramsAssumption DEF JitTypes, Function
  <2>2. finders' = <<Finder(k)>> /\ FinderSound(Finder(k))
    BY <1>3, <2>1, FirstSound DEF RunCompile
  <2>3. PICK d : finders' = <<d>> /\ FinderSound(d)
    BY <2>2
  <2>4. FinderSound(d)'
    BY <1>3, <2>3, SoundStill DEF RunCompile
  <2>5. DOMAIN finders' = {1} /\ finders'[1] = d
    BY <2>3
  <2> QED
    BY <2>4, <2>5 DEF FindersInv
<1>4. CASE VisitCallee
  <2>1. finders # <<>> /\ AtCall /\ hash[Callee] = <<>> /\ ~Visiting(Callee)
    BY <1>4 DEF VisitCallee, AtCall
  <2> DEFINE new == Finder(Callee)
             n == Len(finders) + 1
  <2>2. Callee \in Function
    BY <2>1, InnerFacts
  <2>3. FinderSound(new) /\ new.of = Callee
    BY <2>1, <2>2, FirstSound, FinderFacts
  <2>4. /\ DOMAIN finders' = DOMAIN finders \cup {n} /\ n \notin DOMAIN finders
        /\ \A j \in DOMAIN finders : finders'[j] = finders[j]
        /\ finders'[n] = new
    BY <1>4, Pushed
  <2> HIDE DEF new, n
  <2>5. \A j \in DOMAIN finders' : FinderSound(finders'[j])
    BY <2>3, <2>4 DEF FindersInv
  <2>6. \A i, j \in DOMAIN finders' : finders'[i].of = finders'[j].of => i = j
    BY <2>1, <2>3, <2>4 DEF FindersInv, Visiting
  <2>7. UNCHANGED <<program, src, hash, used>>
    BY <1>4 DEF VisitCallee
  <2>8. \A d : FinderSound(d)' <=> FinderSound(d)
    BY <2>7, SoundStill
  <2>9. \A j \in DOMAIN finders' : FinderSound(finders[j])'
    BY <2>5, <2>8
  <2> QED
    BY <2>6, <2>9 DEF FindersInv
<1>5. CASE MergeCallee
  <2>1. finders # <<>> /\ AtCall /\ hash[Callee] # <<>>
    BY <1>5 DEF MergeCallee, AtCall
  <2> DEFINE n == Len(finders)
             c == Callee
  <2>2. /\ DOMAIN finders' = DOMAIN finders /\ n \in DOMAIN finders
        /\ \A j \in DOMAIN finders : j # n => finders'[j] = finders[j]
        /\ finders'[n].of = finders[n].of
        /\ finders'[n].at = finders[n].at + 1
        /\ DOMAIN finders'[n].vals = DOMAIN finders[n].vals \cup DOMAIN used[c]
        /\ finders[n].of \in Function /\ finders[n].at \in Nat
        /\ c = Callees(finders[n].of)[finders[n].at]
    BY <1>5, <2>1, Advanced, InnerFacts DEF Inner, Callee
  <2> HIDE DEF n, c
  <2>3. /\ FinderSound(finders[n])
        /\ \A i \in DOMAIN Callees(finders[n].of) : i \in Nat
    BY <2>2, CalleesAre DEF FindersInv
  <2>4. FinderSound(finders'[n])
    <3>1. ASSUME NEW i \in DOMAIN Callees(finders[n].of), i < finders[n].at + 1
          PROVE  Covers(finders'[n].vals, finders[n].of, i)
      <4>1. i < finders[n].at \/ i = finders[n].at
        BY <2>2, <2>3, <3>1
      <4>2. CASE i < finders[n].at
        <5>1. Covers(finders[n].vals, finders[n].of, i)
          BY <2>3, <3>1, <4>2 DEF FinderSound
        <5> QED
          BY <2>2, <5>1 DEF Covers
      <4>3. CASE i = finders[n].at
        BY <2>1, <2>2, <4>3 DEF Covers, c
      <4> QED
        BY <4>1, <4>2, <4>3
    <3> QED
      BY <2>2, <2>3, <3>1 DEF FinderSound
  <2>5. \A j \in DOMAIN finders' : FinderSound(finders'[j])
    BY <2>2, <2>4 DEF FindersInv
  <2>6. \A i, j \in DOMAIN finders' : finders'[i].of = finders'[j].of => i = j
    <3>1. \A j \in DOMAIN finders : finders'[j].of = finders[j].of
      BY <2>2
    <3> QED
      BY <2>2, <3>1 DEF FindersInv
  <2>7. UNCHANGED <<program, src, hash, used>>
    BY <1>5 DEF MergeCallee
  <2>8. \A d : FinderSound(d)' <=> FinderSound(d)
    BY <2>7, SoundStill
  <2>9. \A j \in DOMAIN finders' : FinderSound(finders[j])'
    BY <2>5, <2>8
  <2> QED
    BY <2>6, <2>9 DEF FindersInv
<1>6. CASE cache_key
  <2> DEFINE n == Len(finders)
  <2>1. /\ finders # <<>> /\ finders \in Seq(FinderOf)
        /\ finders' = SubSeq(finders, 1, n - 1)
    BY <1>6 DEF cache_key, JitTypes
  <2>2. /\ DOMAIN finders' = DOMAIN finders \ {n} /\ n \in DOMAIN finders
        /\ \A j \in DOMAIN finders' : finders'[j] = finders[j]
    BY <2>1, WithoutLast, LastFinder
  <2> HIDE DEF n
  <2>3. ASSUME NEW d \in FinderOf, FinderSound(d), d.of # Inner.of
        PROVE  FinderSound(d)'
    <3>1. d.of \in Function
      BY DEF FinderOf
    <3>2. hash'[d.of] = <<>>
      BY <1>6, <2>3, <3>1, KeyedFacts DEF FinderSound
    <3>3. \A f : Callees(f)' = Callees(f) /\ Uses(f)' = Uses(f)
      BY <1>6, SameSource DEF cache_key
    <3>4. \A i \in DOMAIN Callees(d.of) : i < d.at => Covers(d.vals, d.of, i)'
      BY <1>6, <2>3, <3>1, KeyedKeeps DEF FinderSound
    <3> QED
      BY <2>3, <3>2, <3>3, <3>4 DEF FinderSound
  <2>4. \A j \in DOMAIN finders' : /\ finders'[j] \in FinderOf /\ FinderSound(finders'[j])
                                   /\ finders'[j].of # Inner.of
    <3> SUFFICES ASSUME NEW j \in DOMAIN finders'
                 PROVE  /\ finders[j] \in FinderOf /\ FinderSound(finders[j])
                        /\ finders[j].of # Inner.of
      BY <2>2
    <3>1. j \in DOMAIN finders /\ j # n /\ n \in DOMAIN finders
      BY <2>2
    <3> QED
      BY <2>1, <3>1 DEF FindersInv, Inner, n
  <2>5. \A j \in DOMAIN finders' : FinderSound(finders[j])'
    BY <2>3, <2>4
  <2>6. \A i, j \in DOMAIN finders' : finders'[i].of = finders'[j].of => i = j
    BY <2>2 DEF FindersInv
  <2> QED
    BY <2>5, <2>6 DEF FindersInv
<1>7. CASE \E f \in program.settable, s \in program.sources : SetSrc(f, s)
  BY <1>1, <1>7 DEF SetSrc, Idle, AskedInv
<1>8. \/ finders' = <<>>
      \/ UNCHANGED <<program, src, hash, used, finders>>
      \/ \E k \in program.kernels, args \in program.args : RunCompile(k, args) /\ hash[k] = <<>>
      \/ VisitCallee \/ MergeCallee \/ cache_key
      \/ \E f \in program.settable, s \in program.sources : SetSrc(f, s)
  BY DEF JitNext, RunCached, RunCompile, VisitRaises, compile, SetGlobal, RunAgain
<1> QED
  BY <1>1, <1>2, <1>3, <1>4, <1>5, <1>6, <1>7, <1>8

\* The kernel asked for is not cached, and its hash is known or being computed.
LEMMA AskedKept ==
    ASSUME JitTypes, AskedInv, FindersInv, JitNext
    PROVE  AskedInv'
<1>1. CASE asked' = <<>> /\ finders' = <<>>
  BY <1>1 DEF AskedInv
<1>2. ASSUME NEW k \in program.kernels, NEW args \in program.args, RunCompile(k, args)
      PROVE  AskedInv'
  <2>1. /\ asked' = <<k, args>> /\ args \notin DOMAIN kernels[k] /\ program' = program
        /\ kernels' = kernels /\ hash' = hash
        /\ finders' = IF hash[k] = <<>> THEN <<Finder(k)>> ELSE <<>>
    BY <1>2 DEF RunCompile
  <2>2. k \in Function
    BY ProgramsAssumption DEF JitTypes, Function
  <2>3. hash[k] # <<>> \/ Visiting(k)'
    <3>1. Finder(k).of = k
      BY <2>2, FinderFacts
    <3>2. hash[k] = <<>> => 1 \in DOMAIN finders' /\ finders'[1].of = k
      BY <2>1, <3>1
    <3> QED
      BY <3>2 DEF Visiting
  <2>4. asked' # <<>> /\ asked'[1] = k /\ asked'[2] = args
    BY <2>1
  <2>5. hash'[asked'[1]] # <<>> \/ Visiting(asked[1])'
    BY <2>1, <2>3, <2>4 DEF Visiting
  <2> QED
    BY <2>1, <2>4, <2>5 DEF AskedInv
<1>3. CASE VisitCallee \/ MergeCallee
  <2>1. finders # <<>> /\ UNCHANGED <<asked, program, kernels, hash>>
    BY <1>3 DEF VisitCallee, MergeCallee, AtCall
  <2>2. \A j \in DOMAIN finders : j \in DOMAIN finders' /\ finders'[j].of = finders[j].of
    BY <1>3, <2>1, Pushed, Advanced DEF Inner
  <2>3. \A f : Visiting(f) => Visiting(f)'
    BY <2>2 DEF Visiting
  <2> QED
    BY <2>1, <2>3 DEF AskedInv
<1>4. CASE cache_key
  <2>1. finders # <<>> /\ finders \in Seq(FinderOf) /\ UNCHANGED <<asked, program, kernels>>
    BY <1>4 DEF cache_key, JitTypes
  <2>2. /\ asked # <<>> /\ asked[1] \in program.kernels
        /\ asked[2] \notin DOMAIN kernels[asked[1]]
        /\ hash[asked[1]] # <<>> \/ Visiting(asked[1])
    BY <2>1 DEF AskedInv
  <2>3. asked[1] \in Function
    BY <2>2, ProgramsAssumption DEF JitTypes, Function
  <2>4. CASE hash[asked[1]] # <<>>
    BY <1>4, <2>1, <2>2, <2>3, <2>4, KeyedKeeps DEF AskedInv
  <2>5. CASE hash[asked[1]] = <<>> /\ asked[1] = Inner.of
    BY <1>4, <2>1, <2>2, <2>5, KeyedFacts DEF AskedInv
  <2>6. CASE hash[asked[1]] = <<>> /\ asked[1] # Inner.of
    <3>1. PICK j \in DOMAIN finders : finders[j].of = asked[1]
      BY <2>2, <2>6 DEF Visiting
    <3>2. j # Len(finders)
      BY <2>6, <3>1 DEF Inner
    <3>3. j \in DOMAIN finders' /\ finders'[j] = finders[j]
      BY <1>4, <2>1, <3>1, <3>2, WithoutLast DEF cache_key
    <3>4. finders'[j].of = asked'[1]
      BY <2>1, <3>1, <3>3
    <3>5. Visiting(asked[1])'
      BY <3>3, <3>4 DEF Visiting
    <3> QED
      BY <2>1, <2>2, <3>5 DEF AskedInv
  <2> QED
    BY <2>4, <2>5, <2>6
<1>5. CASE Idle /\ UNCHANGED <<asked, finders>>
  BY <1>1, <1>5 DEF Idle, AskedInv
<1>6. \/ asked' = <<>> /\ finders' = <<>>
      \/ \E k \in program.kernels, args \in program.args : RunCompile(k, args)
      \/ VisitCallee \/ MergeCallee \/ cache_key
      \/ Idle /\ UNCHANGED <<asked, finders>>
  BY DEF JitNext, RunCached, VisitRaises, compile, SetSrc, SetGlobal, RunAgain
<1> QED
  BY <1>1, <1>2, <1>3, <1>4, <1>5, <1>6

\* What compile stores, and where.
Place == <<hash[asked[1]], asked[2]>>
Stored == IF Place \in DOMAIN disk THEN disk[Place] ELSE make_ir(asked[1], asked[2])

\* What a kernel compiled now is.
LEMMA IrFacts ==
    ASSUME NEW k, NEW args
    PROVE  /\ make_ir(k, args).args = args
           /\ make_ir(k, args).sources = SourcesOf(k)
           /\ make_ir(k, args).globals = [x \in GlobalsOf(k) |-> globals[x]]
BY DEF make_ir, SourcesOf

\* What compile changes.
LEMMA CompileFacts ==
    ASSUME JitTypes, AskedInv, compile
    PROVE  /\ asked[1] \in program.kernels /\ asked[1] \in Function
           /\ asked[2] \notin DOMAIN kernels[asked[1]]
           /\ hash[asked[1]] # <<>>
           /\ DOMAIN kernels'[asked[1]] = DOMAIN kernels[asked[1]] \cup {asked[2]}
           /\ kernels'[asked[1]][asked[2]] = Stored
           /\ \A a \in DOMAIN kernels[asked[1]] :
                  kernels'[asked[1]][a] = kernels[asked[1]][a]
           /\ \A k \in program.kernels : k # asked[1] => kernels'[k] = kernels[k]
           /\ DOMAIN disk' = DOMAIN disk \cup {Place}
           /\ disk'[Place] = Stored
           /\ \A p \in DOMAIN disk : p # Place => disk'[p] = disk[p]
           /\ LaunchKernel(asked[1], asked[2], Stored,
                           IF Place \in DOMAIN disk THEN "disk" ELSE "compiled")
           /\ UNCHANGED <<program, src, globals, hash, used>>
<1> DEFINE k == asked[1]
           args == asked[2]
<1>1. /\ asked # <<>> /\ finders = <<>>
      /\ kernels' = [kernels EXCEPT ![k] = Override(@, [a \in {args} |-> Stored])]
      /\ disk' = Override(disk, [p \in {Place} |-> Stored])
      /\ LaunchKernel(k, args, Stored, IF Place \in DOMAIN disk THEN "disk" ELSE "compiled")
      /\ UNCHANGED <<program, src, globals, hash, used>>
  BY DEF compile, Place, Stored
<1>2. /\ k \in program.kernels /\ args \notin DOMAIN kernels[k]
      /\ hash[k] # <<>> \/ Visiting(k)
  BY <1>1 DEF AskedInv
<1>3. hash[k] # <<>>
  BY <1>1, <1>2 DEF Visiting
<1>4. k \in Function /\ DOMAIN kernels = program.kernels
  BY <1>2, ProgramsAssumption DEF JitTypes, Function
<1>5. /\ kernels'[k] = Override(kernels[k], [a \in {args} |-> Stored])
      /\ \A l \in program.kernels : l # k => kernels'[l] = kernels[l]
  BY <1>1, <1>2, <1>4
<1>6. /\ DOMAIN kernels'[k] = DOMAIN kernels[k] \cup {args}
      /\ kernels'[k][args] = Stored
      /\ \A a \in DOMAIN kernels[k] : kernels'[k][a] = kernels[k][a]
  BY <1>2, <1>5 DEF Override
<1>7. /\ DOMAIN disk' = DOMAIN disk \cup {Place}
      /\ disk'[Place] = Stored
      /\ \A p \in DOMAIN disk : p # Place => disk'[p] = disk[p]
  BY <1>1 DEF Override
<1> QED
  BY <1>1, <1>2, <1>3, <1>4, <1>5, <1>6, <1>7

\* In one run that assigns no sources nothing is found on disk.
LEMMA NotOnDisk ==
    ASSUME JitTypes, AskedInv, HashInv, DiskInv, compile, OneRun
    PROVE  Place \notin DOMAIN disk
<1> SUFFICES ASSUME Place \in DOMAIN disk PROVE FALSE
  OBVIOUS
<1>1. PICK k \in program.kernels :
          hash[k] # <<>> /\ Place[1] = hash[k] /\ Place[2] \in DOMAIN kernels[k]
  BY DEF DiskInv
<1>2. Place[1] = hash[asked[1]] /\ Place[2] = asked[2]
  BY DEF Place
<1>3. k \in Function /\ asked[1] \in Function /\ hash[asked[1]] # <<>>
  BY CompileFacts, ProgramsAssumption DEF JitTypes, Function
<1>4. \A f \in Function : hash[f] # <<>> => hash[f].of = f
  <2> SUFFICES ASSUME NEW f \in Function, hash[f] # <<>> PROVE hash[f].of = f
    OBVIOUS
  <2>1. hash[f] = Digest(f)
    BY NoneSettable DEF HashInv, Settled, OneRun
  <2> QED
    BY <2>1 DEF Digest
<1>5. k = asked[1]
  <2>1. hash[k].of = k /\ hash[asked[1]].of = asked[1]
    BY <1>1, <1>3, <1>4
  <2> QED
    BY <1>1, <1>2, <2>1
<1> QED
  BY <1>1, <1>2, <1>5, CompileFacts

\* The kernel stored was compiled for the specialisation, and from the sources
\* as they are.
LEMMA StoredFacts ==
    ASSUME JitTypes, AskedInv, HashInv, DiskInv, compile
    PROVE  /\ Stored.args = asked[2]
           /\ CalleesFixed => Stored.sources = SourcesOf(asked[1]) /\ HashOf(Stored.sources, Place[1])
           /\ Place \notin DOMAIN disk =>
                 /\ Stored.sources = SourcesOf(asked[1])
                 /\ Stored.globals = [x \in GlobalsOf(asked[1]) |-> globals[x]]
<1>0. Place[1] = hash[asked[1]] /\ Place[2] = asked[2]
  BY DEF Place
<1>1. CASE Place \in DOMAIN disk
  <2>1. Stored = disk[Place]
    BY <1>1 DEF Stored
  <2>2. Stored.args = asked[2] /\ (CalleesFixed => HashOf(Stored.sources, Place[1]))
    BY <1>0, <1>1, <2>1 DEF DiskInv
  <2>3. CalleesFixed => Stored.sources = SourcesOf(asked[1])
    BY <1>0, <2>2, HashDecides, CompileFacts
  <2> QED
    BY <1>1, <2>2, <2>3
<1>2. CASE Place \notin DOMAIN disk
  <2>1. Stored = make_ir(asked[1], asked[2])
    BY <1>2 DEF Stored
  <2>2. /\ Stored.args = asked[2] /\ Stored.sources = SourcesOf(asked[1])
        /\ Stored.globals = [x \in GlobalsOf(asked[1]) |-> globals[x]]
    BY <2>1, IrFacts
  <2>3. CalleesFixed => HashOf(Stored.sources, Place[1])
    BY <1>0, <2>2, CompiledHashes, CompileFacts
  <2> QED
    BY <2>2, <2>3
<1> QED
  BY <1>1, <1>2

\* What a launch that is not refused finds in the globals noted.
LEMMA Launched ==
    ASSUME NEW k, NEW args, NEW kernel, NEW from, LaunchKernel(k, args, kernel, from)
    PROVE  \/ launch' = NoLaunch /\ raised'
           \/ /\ launch' = [kernel |-> kernel, from |-> from, wanted |-> make_ir(k, args)]
              /\ raised' = raised
              /\ \A x \in DOMAIN used[k] : globals[x] = used[k][x]
BY DEF LaunchKernel

\* The kernels in memory stay right while nothing they depend on changes.
LEMMA MemoryStill ==
    ASSUME MemoryInv, UNCHANGED <<program, src, hash, used, kernels>>, raised => raised'
    PROVE  MemoryInv'
<1>1. /\ \A f : SourcesOf(f)' = SourcesOf(f) /\ GlobalsOf(f)' = GlobalsOf(f)
      /\ OneRun' <=> OneRun
  BY SameSource, SameProgram
<1> QED
  BY <1>1 DEF MemoryInv

\* The kernel compile adds in memory is right.
LEMMA CompileRemembers ==
    ASSUME JitTypes, AskedInv, HashInv, MemoryInv, DiskInv, compile
    PROVE  MemoryInv'
<1>1. UNCHANGED <<program, src, globals, hash, used>>
  BY CompileFacts
<1>2. /\ \A f : SourcesOf(f)' = SourcesOf(f) /\ GlobalsOf(f)' = GlobalsOf(f)
      /\ OneRun' <=> OneRun
  BY <1>1, SameSource, SameProgram
<1>3. raised => raised'
  BY CompileFacts, Launched
<1>4. ASSUME NEW k \in program.kernels, NEW args \in DOMAIN kernels'[k]
      PROVE  /\ kernels'[k][args].args = args
             /\ program.settable = {} => kernels'[k][args].sources = SourcesOf(k)
             /\ OneRun /\ ~raised' =>
                   /\ hash[k] # <<>>
                   /\ kernels'[k][args].globals = [x \in GlobalsOf(k) |-> used[k][x]]
  <2>1. CASE k = asked[1] /\ args = asked[2]
    <3>1. kernels'[k][args] = Stored /\ hash[k] # <<>> /\ k \in Function
      BY <2>1, CompileFacts
    <3>2. Stored.args = args /\ (program.settable = {} => Stored.sources = SourcesOf(k))
      BY <2>1, StoredFacts, NoneSettable
    <3>3. ASSUME OneRun, ~raised'
          PROVE  Stored.globals = [x \in GlobalsOf(k) |-> used[k][x]]
      <4>1. Stored.globals = [x \in GlobalsOf(k) |-> globals[x]]
        BY <2>1, <3>3, NotOnDisk, StoredFacts
      <4>2. \A x \in DOMAIN used[k] : globals[x] = used[k][x]
        BY <2>1, <3>3, CompileFacts, Launched
      <4>3. GlobalsOf(k) \subseteq DOMAIN used[k]
        BY <3>1, <3>3, AllNoted, NoneSettable DEF OneRun
      <4> QED
        BY <4>1, <4>2, <4>3
    <3> QED
      BY <3>1, <3>2, <3>3
  <2>2. CASE ~(k = asked[1] /\ args = asked[2])
    <3>1. args \in DOMAIN kernels[k] /\ kernels'[k][args] = kernels[k][args]
      <4>1. CASE k = asked[1]
        BY <1>4, <2>2, <4>1, CompileFacts
      <4>2. CASE k # asked[1]
        BY <1>4, <4>2, CompileFacts
      <4> QED
        BY <4>1, <4>2
    <3> QED
      BY <1>3, <3>1 DEF MemoryInv
  <2> QED
    BY <2>1, <2>2
<1>5. MemoryInv' <=>
        \A k \in program.kernels : \A args \in DOMAIN kernels'[k] :
            /\ kernels'[k][args].args = args
            /\ program.settable = {} => kernels'[k][args].sources = SourcesOf(k)
            /\ OneRun /\ ~raised' =>
                  /\ hash[k] # <<>>
                  /\ kernels'[k][args].globals = [x \in GlobalsOf(k) |-> used[k][x]]
  BY <1>1, <1>2 DEF MemoryInv
<1> QED
  BY <1>4, <1>5

\* A step keeps the kernels in memory right.
LEMMA MemoryKept ==
    ASSUME JitTypes, FindersInv, AskedInv, HashInv, MemoryInv, DiskInv, JitNext
    PROVE  MemoryInv'
<1>1. ASSUME NEW k \in program.kernels, NEW args \in program.args, RunCached(k, args)
      PROVE  MemoryInv'
  <2>1. raised => raised'
    BY <1>1, Launched DEF RunCached
  <2> QED
    BY <1>1, <2>1, MemoryStill DEF RunCached
<1>2. CASE /\ UNCHANGED <<program, src, hash, used, kernels>>
           /\ raised => raised'
  BY <1>2, MemoryStill
<1>3. CASE cache_key
  <2>1. UNCHANGED <<program, src, kernels, raised>>
    BY <1>3 DEF cache_key
  <2>2. /\ \A f : SourcesOf(f)' = SourcesOf(f) /\ GlobalsOf(f)' = GlobalsOf(f)
        /\ OneRun' <=> OneRun
    BY <2>1, SameSource, SameProgram
  <2>3. \A k \in program.kernels : hash[k] # <<>> =>
            hash'[k] # <<>> /\ used'[k] = used[k]
    BY <1>3, KeyedKeeps, ProgramsAssumption DEF JitTypes, Function
  <2>4. ASSUME NEW k \in program.kernels, NEW args \in DOMAIN kernels[k]
        PROVE  /\ kernels[k][args].args = args
               /\ program.settable = {} => kernels[k][args].sources = SourcesOf(k)
               /\ OneRun /\ ~raised =>
                     /\ hash'[k] # <<>>
                     /\ kernels[k][args].globals = [x \in GlobalsOf(k) |-> used'[k][x]]
    <3>1. kernels[k][args].args = args
          /\ (program.settable = {} => kernels[k][args].sources = SourcesOf(k))
      BY DEF MemoryInv
    <3>2. ASSUME OneRun, ~raised
          PROVE  /\ hash'[k] # <<>>
                 /\ kernels[k][args].globals = [x \in GlobalsOf(k) |-> used'[k][x]]
      <4>1. hash[k] # <<>> /\ kernels[k][args].globals = [x \in GlobalsOf(k) |-> used[k][x]]
        BY <3>2 DEF MemoryInv
      <4>2. hash'[k] # <<>> /\ used'[k] = used[k]
        BY <2>3, <4>1
      <4> QED
        BY <4>1, <4>2
    <3> QED
      BY <3>1, <3>2
  <2> QED
    BY <2>1, <2>2, <2>4 DEF MemoryInv
<1>4. CASE compile
  BY <1>4, CompileRemembers
<1>5. ASSUME NEW f \in program.settable, NEW s \in program.sources, SetSrc(f, s)
      PROVE  MemoryInv'
  <2>1. UNCHANGED <<program, kernels>> /\ program.settable # {}
    BY <1>5 DEF SetSrc
  <2> QED
    BY <2>1 DEF MemoryInv, OneRun
<1>6. CASE RunAgain
  <2>1. program' = program /\ kernels' = [k \in program.kernels |-> <<>>]
    BY <1>6 DEF RunAgain
  <2>2. \A k \in program.kernels : DOMAIN kernels'[k] = {}
    BY <2>1
  <2> QED
    BY <2>1, <2>2 DEF MemoryInv
<1>7. \/ \E k \in program.kernels, args \in program.args : RunCached(k, args)
      \/ UNCHANGED <<program, src, hash, used, kernels>> /\ (raised => raised')
      \/ cache_key \/ compile
      \/ \E f \in program.settable, s \in program.sources : SetSrc(f, s)
      \/ RunAgain
  BY DEF JitNext, RunCompile, VisitCallee, MergeCallee, VisitRaises, SetGlobal
<1> QED
  BY <1>1, <1>2, <1>3, <1>4, <1>5, <1>6, <1>7

\* One of the places on disk, at a step that does not store.
LEMMA DiskStill ==
    ASSUME DiskInv, UNCHANGED <<program, kernels, disk>>,
           OneRun => \A k \in program.kernels : hash[k] # <<>> => hash'[k] # <<>> /\ hash'[k] = hash[k]
    PROVE  DiskInv'
<1>1. /\ (CalleesFixed' <=> CalleesFixed) /\ (OneRun' <=> OneRun)
      /\ \A s, h : HashOf(s, h)' <=> HashOf(s, h)
  BY SameProgram
<1>2. ASSUME NEW p \in DOMAIN disk, OneRun
      PROVE  \E k \in program.kernels :
                 hash'[k] # <<>> /\ p[1] = hash'[k] /\ p[2] \in DOMAIN kernels[k]
  <2>1. PICK k \in program.kernels :
            hash[k] # <<>> /\ p[1] = hash[k] /\ p[2] \in DOMAIN kernels[k]
    BY <1>2 DEF DiskInv
  <2> QED
    BY <1>2, <2>1
<1>3. \A p \in DOMAIN disk :
          disk[p].args = p[2] /\ (CalleesFixed => HashOf(disk[p].sources, p[1]))
  BY DEF DiskInv
<1>4. DiskInv' <=>
        \A p \in DOMAIN disk :
            /\ disk[p].args = p[2]
            /\ CalleesFixed => HashOf(disk[p].sources, p[1])
            /\ OneRun => \E k \in program.kernels :
                             hash'[k] # <<>> /\ p[1] = hash'[k] /\ p[2] \in DOMAIN kernels[k]
  BY <1>1 DEF DiskInv
<1> QED
  BY <1>2, <1>3, <1>4

\* The kernel compile adds on disk is right.
LEMMA CompileStores ==
    ASSUME JitTypes, AskedInv, HashInv, DiskInv, compile
    PROVE  DiskInv'
<1>1. UNCHANGED <<program, src, globals, hash, used>>
  BY CompileFacts
<1>2. /\ (CalleesFixed' <=> CalleesFixed) /\ (OneRun' <=> OneRun)
      /\ \A s, h : HashOf(s, h)' <=> HashOf(s, h)
  BY <1>1, SameProgram
<1>3. \A k \in program.kernels : \A a \in DOMAIN kernels[k] : a \in DOMAIN kernels'[k]
  <2> SUFFICES ASSUME NEW k \in program.kernels, NEW a \in DOMAIN kernels[k]
               PROVE  a \in DOMAIN kernels'[k]
    OBVIOUS
  <2>1. CASE k = asked[1]
    BY <2>1, CompileFacts
  <2>2. CASE k # asked[1]
    BY <2>2, CompileFacts
  <2> QED
    BY <2>1, <2>2
<1>4. ASSUME NEW p \in DOMAIN disk'
      PROVE  /\ disk'[p].args = p[2]
             /\ CalleesFixed => HashOf(disk'[p].sources, p[1])
             /\ OneRun => \E k \in program.kernels :
                              hash[k] # <<>> /\ p[1] = hash[k] /\ p[2] \in DOMAIN kernels'[k]
  <2>1. CASE p = Place
    <3>1. disk'[p] = Stored /\ p[1] = hash[asked[1]] /\ p[2] = asked[2]
      BY <2>1, CompileFacts DEF Place
    <3>2. Stored.args = p[2] /\ (CalleesFixed => HashOf(Stored.sources, p[1]))
      BY <2>1, <3>1, StoredFacts
    <3>3. /\ asked[1] \in program.kernels /\ hash[asked[1]] # <<>>
          /\ p[2] \in DOMAIN kernels'[asked[1]]
      BY <3>1, CompileFacts
    <3> QED
      BY <3>1, <3>2, <3>3
  <2>2. CASE p # Place
    <3>1. p \in DOMAIN disk /\ disk'[p] = disk[p]
      BY <1>4, <2>2, CompileFacts
    <3>2. disk[p].args = p[2] /\ (CalleesFixed => HashOf(disk[p].sources, p[1]))
      BY <3>1 DEF DiskInv
    <3>3. ASSUME OneRun
          PROVE  \E k \in program.kernels :
                     hash[k] # <<>> /\ p[1] = hash[k] /\ p[2] \in DOMAIN kernels'[k]
      <4>1. PICK k \in program.kernels :
                hash[k] # <<>> /\ p[1] = hash[k] /\ p[2] \in DOMAIN kernels[k]
        BY <3>1, <3>3 DEF DiskInv
      <4>2. p[2] \in DOMAIN kernels'[k]
        BY <1>3, <4>1
      <4> QED
        BY <4>1, <4>2
    <3> QED
      BY <3>1, <3>2, <3>3
  <2> QED
    BY <2>1, <2>2
<1>5. DiskInv' <=>
        \A p \in DOMAIN disk' :
            /\ disk'[p].args = p[2]
            /\ CalleesFixed => HashOf(disk'[p].sources, p[1])
            /\ OneRun => \E k \in program.kernels :
                             hash[k] # <<>> /\ p[1] = hash[k] /\ p[2] \in DOMAIN kernels'[k]
  BY <1>1, <1>2 DEF DiskInv
<1> QED
  BY <1>4, <1>5

\* A step keeps the kernels on disk right.
LEMMA DiskKept ==
    ASSUME JitTypes, FindersInv, AskedInv, HashInv, DiskInv, JitNext
    PROVE  DiskInv'
<1>1. CASE UNCHANGED <<program, hash, kernels, disk>>
  BY <1>1, DiskStill
<1>2. CASE cache_key
  <2>1. \A k \in program.kernels : hash[k] # <<>> => hash'[k] # <<>> /\ hash'[k] = hash[k]
    BY <1>2, KeyedKeeps, ProgramsAssumption DEF JitTypes, Function
  <2> QED
    BY <1>2, <2>1, DiskStill DEF cache_key
<1>3. CASE compile
  BY <1>3, CompileStores
<1>4. ASSUME NEW f \in program.settable, NEW s \in program.sources, SetSrc(f, s)
      PROVE  DiskInv'
  <2>1. UNCHANGED <<program, kernels, disk>> /\ ~OneRun
    BY <1>4 DEF SetSrc, OneRun
  <2> QED
    BY <2>1, DiskStill
<1>5. CASE RunAgain
  <2>1. UNCHANGED <<program, disk>> /\ ~OneRun
    BY <1>5 DEF RunAgain, OneRun, JitTypes
  <2>2. /\ (CalleesFixed' <=> CalleesFixed) /\ (OneRun' <=> OneRun)
        /\ \A s, h : HashOf(s, h)' <=> HashOf(s, h)
    BY <2>1, SameProgram
  <2>3. \A p \in DOMAIN disk :
            disk[p].args = p[2] /\ (CalleesFixed => HashOf(disk[p].sources, p[1]))
    BY DEF DiskInv
  <2> QED
    BY <2>1, <2>2, <2>3 DEF DiskInv
<1>6. \/ UNCHANGED <<program, hash, kernels, disk>>
      \/ cache_key \/ compile
      \/ \E f \in program.settable, s \in program.sources : SetSrc(f, s)
      \/ RunAgain
  BY DEF JitNext, RunCached, RunCompile, VisitCallee, MergeCallee, VisitRaises, SetGlobal
<1> QED
  BY <1>1, <1>2, <1>3, <1>4, <1>5, <1>6

\* A launch of the kernel it should be.
LEMMA LaunchedCurrent ==
    ASSUME program' = program,
           NEW k, NEW args, NEW kernel, NEW from, LaunchKernel(k, args, kernel, from),
           kernel.args = args,
           program.settable = {} \/ (CalleesFixed /\ from = "disk") => kernel.sources = SourcesOf(k),
           OneRun /\ ~raised' =>
               \/ kernel.globals = [x \in GlobalsOf(k) |-> globals[x]]
               \/ /\ kernel.globals = [x \in GlobalsOf(k) |-> used[k][x]]
                  /\ GlobalsOf(k) \subseteq DOMAIN used[k]
    PROVE  KernelsCurrent'
<1>1. CASE launch' = NoLaunch
  BY <1>1 DEF KernelsCurrent, NoLaunch
<1>2. CASE launch' # NoLaunch
  <2>1. /\ launch' = [kernel |-> kernel, from |-> from, wanted |-> make_ir(k, args)]
        /\ \A x \in DOMAIN used[k] : globals[x] = used[k][x]
    BY <1>2, Launched
  <2>2. /\ launch'.kernel = kernel /\ launch'.from = from
        /\ launch'.wanted = make_ir(k, args)
    BY <2>1
  <2>3. /\ launch'.wanted.args = args /\ launch'.wanted.sources = SourcesOf(k)
        /\ launch'.wanted.globals = [x \in GlobalsOf(k) |-> globals[x]]
    BY <2>2, IrFacts
  <2>4. ASSUME OneRun, ~raised'
        PROVE  kernel.globals = [x \in GlobalsOf(k) |-> globals[x]]
    BY <2>1, <2>4
  <2>5. CalleesFixed' <=> CalleesFixed
    BY SameProgram
  <2> QED
    BY <2>2, <2>3, <2>4, <2>5 DEF KernelsCurrent, OneRun
<1> QED
  BY <1>1, <1>2

\* A step launches the right kernel or none.
LEMMA CurrentKept ==
    ASSUME JitInv, JitNext
    PROVE  KernelsCurrent'
<1> USE DEF JitInv
<1>1. CASE launch' = NoLaunch
  BY <1>1 DEF KernelsCurrent, NoLaunch
<1>2. CASE UNCHANGED <<program, launch>> /\ (raised => raised')
  <2>1. CalleesFixed' <=> CalleesFixed
    BY <1>2, SameProgram
  <2> QED
    BY <1>2, <2>1 DEF KernelsCurrent
<1>3. ASSUME NEW k \in program.kernels, NEW args \in program.args, RunCached(k, args)
      PROVE  KernelsCurrent'
  <2> DEFINE kernel == kernels[k][args]
  <2>1. args \in DOMAIN kernels[k] /\ LaunchKernel(k, args, kernel, "memory") /\ program' = program
    BY <1>3 DEF RunCached
  <2>2. k \in Function
    BY ProgramsAssumption DEF JitTypes, Function
  <2>3. kernel.args = args /\ (program.settable = {} => kernel.sources = SourcesOf(k))
    BY <2>1 DEF MemoryInv
  <2>4. ASSUME OneRun, ~raised'
        PROVE  /\ kernel.globals = [x \in GlobalsOf(k) |-> used[k][x]]
               /\ GlobalsOf(k) \subseteq DOMAIN used[k]
    <3>1. ~raised
      BY <2>1, <2>4, Launched
    <3>2. hash[k] # <<>> /\ kernel.globals = [x \in GlobalsOf(k) |-> used[k][x]]
      BY <2>1, <2>4, <3>1 DEF MemoryInv
    <3>3. GlobalsOf(k) \subseteq DOMAIN used[k]
      BY <2>2, <2>4, <3>2, AllNoted, NoneSettable DEF OneRun
    <3> QED
      BY <3>2, <3>3
  <2>5. ~("memory" = "disk")
    OBVIOUS
  <2> HIDE DEF kernel
  <2> QED
    BY <2>1, <2>3, <2>4, <2>5, LaunchedCurrent
<1>4. CASE compile
  <2> DEFINE from == IF Place \in DOMAIN disk THEN "disk" ELSE "compiled"
  <2>1. LaunchKernel(asked[1], asked[2], Stored, from) /\ program' = program
    BY <1>4, CompileFacts
  <2>2. /\ Stored.args = asked[2]
        /\ CalleesFixed => Stored.sources = SourcesOf(asked[1])
    BY <1>4, StoredFacts
  <2>3. OneRun => Stored.globals = [x \in GlobalsOf(asked[1]) |-> globals[x]]
    BY <1>4, NotOnDisk, StoredFacts
  <2>4. program.settable = {} \/ (CalleesFixed /\ from = "disk") =>
            Stored.sources = SourcesOf(asked[1])
    BY <2>2, NoneSettable
  <2> HIDE DEF from
  <2> QED
    BY <2>1, <2>2, <2>3, <2>4, LaunchedCurrent
<1>5. \/ launch' = NoLaunch
      \/ UNCHANGED <<program, launch>> /\ (raised => raised')
      \/ \E k \in program.kernels, args \in program.args : RunCached(k, args)
      \/ compile
  BY DEF JitNext, RunCompile, VisitCallee, MergeCallee, VisitRaises, cache_key,
         SetSrc, SetGlobal, RunAgain
<1> QED
  BY <1>1, <1>2, <1>3, <1>4, <1>5

\* A program just imported.
LEMMA JitInitHolds == JitInit => JitInv
<1> SUFFICES ASSUME JitInit PROVE JitInv
  OBVIOUS
<1> USE DEF JitInit
<1>1. DOMAIN hash = Function /\ used \in [Function -> Values] /\ DOMAIN kernels = program.kernels
  BY NoValues
<1>2. JitTypes
  BY <1>1 DEF JitTypes
<1>3. FindersInv /\ AskedInv
  BY DEF FindersInv, AskedInv
<1>4. HashInv
  BY DEF HashInv, Settled
<1>5. \A k \in program.kernels : DOMAIN kernels[k] = {}
  OBVIOUS
<1>6. MemoryInv
  BY <1>5 DEF MemoryInv
<1>7. DiskInv
  BY DEF DiskInv
<1>8. KernelsCurrent
  BY DEF KernelsCurrent
<1> QED
  BY <1>2, <1>3, <1>4, <1>6, <1>7, <1>8 DEF JitInv

\* Every step keeps JitInv.
LEMMA JitNextKeeps == JitInv /\ [JitNext]_jitVars => JitInv'
<1>1. ASSUME JitInv, JitNext PROVE JitInv'
  <2> USE DEF JitInv
  <2>1. JitTypes'
    BY <1>1, TypesKept
  <2>2. FindersInv' /\ AskedInv' /\ HashInv'
    BY <1>1, FindersKept, AskedKept, HashKept
  <2>3. MemoryInv' /\ DiskInv'
    BY <1>1, MemoryKept, DiskKept
  <2>4. KernelsCurrent'
    BY <1>1, CurrentKept
  <2> QED
    BY <2>1, <2>2, <2>3, <2>4
<1>2. ASSUME JitInv, UNCHANGED jitVars PROVE JitInv'
  <2>1. UNCHANGED <<program, src, globals, hash, used, kernels, disk, asked, finders, launch,
                    raised, runs>>
    BY <1>2 DEF jitVars
  <2> USE DEF JitInv
  <2>2. JitTypes'
    BY <1>2, <2>1, SameProgram DEF JitTypes
  <2>3. FindersInv' /\ AskedInv' /\ HashInv'
    BY <1>2, <2>1, SoundStill, Still DEF FindersInv, AskedInv, Visiting
  <2>4. MemoryInv'
    BY <1>2, <2>1, MemoryStill
  <2>5. DiskInv'
    BY <1>2, <2>1, DiskStill
  <2>6. KernelsCurrent'
    BY <1>2, <2>1, SameProgram DEF KernelsCurrent
  <2> QED
    BY <2>2, <2>3, <2>4, <2>5, <2>6
<1> QED
  BY <1>1, <1>2

\* The kernel that a launch runs is the one asked for: JITFunction.run, the
\* hashes DependenciesFinder computes and compile()'s disk.
THEOREM KernelsCurrentCorrect == JitSpec => []KernelsCurrent
<1>1. JitInit => JitInv
  BY JitInitHolds
<1>2. JitInv /\ [JitNext]_jitVars => JitInv'
  BY JitNextKeeps
<1>3. JitInv => KernelsCurrent
  BY DEF JitInv
<1> QED
  BY <1>1, <1>2, <1>3, PTL DEF JitSpec

=============================================================================
