---------------------------- MODULE JITFunction -----------------------------
(***************************************************************************)
(* The kernels of a program and the functions they call, as JITFunction     *)
(* keeps them: the hash of their sources, the values of the globals they    *)
(* use, the kernels compiled in this process and those on disk.  The        *)
(* program assigns globals and sources between launches, and is run again   *)
(* with other sources, finding the kernels earlier runs stored.             *)
(*                                                                         *)
(* A launch that finds no kernel in memory reads cache_key, which goes      *)
(* through the calls of a function and through those of a callee first that *)
(* has no hash (a DependenciesFinder each, a call a step), then compiles.   *)
(* A kernel is what it was compiled from: the sources of the functions it   *)
(* reaches, the values of their globals, the specialisation (JITSpecialize) *)
(* its launch asked for.  A function uses its globals before it calls       *)
(* another.  Both caches are those of one device and one environment.       *)
(***************************************************************************)
EXTENDS Integers, Sequences, FiniteSets

CONSTANTS
    Programs,   \* the programs
    Source      \* what a function can be

\* Of a program: the functions launched, those whose src it assigns; of each
\* function and source what it calls, in order, and the globals it uses; the
\* specialisations of the launches, the sources and the values of globals;
\* bounds on the assignments of a run and on the runs.
ASSUME ProgramsAssumption ==
    \A p \in Programs :
        /\ p.kernels \subseteq DOMAIN p.calls /\ p.settable \subseteq DOMAIN p.calls
        /\ p.sources \subseteq Source /\ p.sources # {}
        /\ p.calls \in [DOMAIN p.calls -> [Source -> Seq(DOMAIN p.calls)]]
        /\ p.uses \in [DOMAIN p.calls -> [Source -> SUBSET p.globals]]

VARIABLES
    program,
    src,            \* JITFunction.src
    globals,        \* __globals__
    hash,           \* JITFunction.hash, <<>> for None
    used,           \* used_global_vals: name -> value, a partial function
    kernels,        \* JITFunction.cache: specialisation -> kernel, a partial function
    disk,           \* hash and specialisation -> kernel, a partial function
    asked,          \* the launch that is being compiled, <<>> for none
    finders,        \* its DependenciesFinders, the innermost last
    launch,         \* the last launch: the kernel asked for and that launched
    raised,         \* history: a launch of this run has raised an exception
    sets, runs

jitVars == <<program, src, globals, hash, used, kernels, disk, asked, finders, launch, raised,
             sets, runs>>

Function == DOMAIN program.calls
Callees(f) == program.calls[f][src[f]]
Uses(f) == program.uses[f][src[f]]

\* What f calls, directly or not, and f.
ClosedUnderCalls(S) == \A f \in S : \A i \in DOMAIN Callees(f) : Callees(f)[i] \in S
Reaches(f) ==
    {g \in Function : \A S \in SUBSET Function : f \in S /\ ClosedUnderCalls(S) => g \in S}
GlobalsOf(f) == UNION {Uses(g) : g \in Reaches(f)}

\* A kernel compiled now.
make_ir(k, args) ==
    [sources |-> [f \in Reaches(k) |-> src[f]],
     globals |-> [x \in GlobalsOf(k) |-> globals[x]],
     args |-> args]

NoLaunch == <<>>

\* dict.update.
Override(old, new) ==
    [x \in DOMAIN old \cup DOMAIN new |-> IF x \in DOMAIN new THEN new[x] ELSE old[x]]

-----------------------------------------------------------------------------
(* A launch. *)

Idle == asked = <<>>

\* The check at the end of run: the globals are what they were, and the kernel
\* is launched.
LaunchKernel(k, args, kernel, from) ==
    IF \A x \in DOMAIN used[k] : globals[x] = used[k][x]
    THEN /\ launch' = [kernel |-> kernel, from |-> from, wanted |-> make_ir(k, args)]
         /\ UNCHANGED raised
    ELSE launch' = NoLaunch /\ raised' = TRUE

\* Mutant: the check is made when the kernel is compiled only.
RunCached_unchecked(k, args) ==
    /\ Idle /\ args \in DOMAIN kernels[k]
    /\ launch' = [kernel |-> kernels[k][args], from |-> "memory", wanted |-> make_ir(k, args)]
    /\ UNCHANGED <<program, src, globals, hash, used, kernels, disk, asked, finders, raised, sets, runs>>

RunCached(k, args) ==
    /\ Idle /\ args \in DOMAIN kernels[k]
    /\ LaunchKernel(k, args, kernels[k][args], "memory")
    /\ UNCHANGED <<program, src, globals, hash, used, kernels, disk, asked, finders, sets, runs>>

\* Its own globals are the first thing a finder meets.
Finder(f) == [of |-> f, at |-> 1, vals |-> [x \in Uses(f) |-> globals[x]]]

\* The kernel is not cached; its cache_key is read.
RunCompile(k, args) ==
    /\ Idle /\ args \notin DOMAIN kernels[k]
    /\ asked' = <<k, args>>
    /\ finders' = IF hash[k] = <<>> THEN <<Finder(k)>> ELSE <<>>
    /\ launch' = NoLaunch
    /\ UNCHANGED <<program, src, globals, hash, used, kernels, disk, raised, sets, runs>>

Inner == finders[Len(finders)]
AtCall == finders # <<>> /\ Inner.at \in DOMAIN Callees(Inner.of)
Callee == Callees(Inner.of)[Inner.at]
Visiting(f) == \E i \in DOMAIN finders : finders[i].of = f

\* Overlapping values are not consistent.
Conflict(vals, others) == \E x \in DOMAIN vals \cap DOMAIN others : vals[x] # others[x]

\* obj.cache_key, of a function without a hash.
VisitCallee ==
    /\ AtCall /\ hash[Callee] = <<>> /\ ~Visiting(Callee)
    /\ finders' = Append(finders, Finder(Callee))
    /\ UNCHANGED <<program, src, globals, hash, used, kernels, disk, asked, launch, raised, sets, runs>>

\* The callee's values are merged.
MergeCallee ==
    /\ AtCall /\ hash[Callee] # <<>> /\ ~Conflict(Inner.vals, used[Callee])
    /\ finders' = [finders EXCEPT ![Len(finders)] =
           [of |-> Inner.of, at |-> Inner.at + 1, vals |-> Override(Inner.vals, used[Callee])]]
    /\ UNCHANGED <<program, src, globals, hash, used, kernels, disk, asked, launch, raised, sets, runs>>

\* Values disagree, or a function calls itself: an exception ends the launch.
\* The hashes set so far stay.
VisitRaises ==
    /\ AtCall
    /\ \/ hash[Callee] # <<>> /\ Conflict(Inner.vals, used[Callee])
       \/ hash[Callee] = <<>> /\ Visiting(Callee)
    /\ asked' = <<>> /\ finders' = <<>> /\ raised' = TRUE
    /\ UNCHANGED <<program, src, globals, hash, used, kernels, disk, launch, sets, runs>>

\* Mutant: the hash is without the callees'.
Digest_own(f) == [of |-> f, src |-> src[f], calls |-> <<>>]

\* The hash of a function is that of its source and its callees' keys.
Digest(f) ==
    [of |-> f, src |-> src[f], calls |-> [i \in DOMAIN Callees(f) |-> hash[Callees(f)[i]]]]

\* All calls have been visited.
cache_key ==
    /\ finders # <<>> /\ ~AtCall
    /\ hash' = [hash EXCEPT ![Inner.of] = Digest(Inner.of)]
    /\ used' = [used EXCEPT ![Inner.of] = Inner.vals]
    /\ finders' = SubSeq(finders, 1, Len(finders) - 1)
    /\ UNCHANGED <<program, src, globals, kernels, disk, asked, launch, raised, sets, runs>>

\* compile(): the kernel that is stored under the hash and the specialisation,
\* or one compiled from what there is now, stored.
compile ==
    /\ asked # <<>> /\ finders = <<>>
    /\ LET k == asked[1]
           args == asked[2]
           place == <<hash[k], args>>
           kernel == IF place \in DOMAIN disk THEN disk[place] ELSE make_ir(k, args)
       IN  /\ kernels' = [kernels EXCEPT ![k] = Override(@, [a \in {args} |-> kernel])]
           /\ disk' = Override(disk, [p \in {place} |-> kernel])
           /\ LaunchKernel(k, args, kernel, IF place \in DOMAIN disk THEN "disk" ELSE "compiled")
    /\ asked' = <<>>
    /\ UNCHANGED <<program, src, globals, hash, used, finders, sets, runs>>

-----------------------------------------------------------------------------
(* The program. *)

\* Mutant: the hash stays as it was.
SetSrc_keepHash(f, s) ==
    /\ Idle /\ sets < program.sets /\ s # src[f]
    /\ sets' = sets + 1
    /\ src' = [src EXCEPT ![f] = s]
    /\ launch' = NoLaunch
    /\ UNCHANGED <<program, globals, hash, used, kernels, disk, asked, finders, raised, runs>>

\* JITFunction.__setattr__("src"), _unsafe_update_src
SetSrc(f, s) ==
    /\ Idle /\ sets < program.sets /\ s # src[f]
    /\ sets' = sets + 1
    /\ src' = [src EXCEPT ![f] = s]
    /\ hash' = [hash EXCEPT ![f] = <<>>]
    /\ launch' = NoLaunch
    /\ UNCHANGED <<program, globals, used, kernels, disk, asked, finders, raised, runs>>

SetGlobal(x, v) ==
    /\ Idle /\ sets < program.sets /\ v # globals[x]
    /\ sets' = sets + 1
    /\ globals' = [globals EXCEPT ![x] = v]
    /\ launch' = NoLaunch
    /\ UNCHANGED <<program, src, hash, used, kernels, disk, asked, finders, raised, runs>>

\* The program has been imported.
JitInit ==
    /\ program \in Programs
    /\ src \in [Function -> program.sources]
    /\ globals \in [program.globals -> program.values]
    /\ hash = [f \in Function |-> <<>>]
    /\ used = [f \in Function |-> <<>>]
    /\ kernels = [k \in program.kernels |-> <<>>]
    /\ disk = <<>>
    /\ asked = <<>> /\ finders = <<>>
    /\ launch = NoLaunch /\ raised = FALSE
    /\ sets = 0 /\ runs = 1

\* It ends, or is killed, and is run again.
RunAgain ==
    /\ runs < program.runs
    /\ src' \in [Function -> program.sources]
    /\ globals' \in [program.globals -> program.values]
    /\ hash' = [f \in Function |-> <<>>]
    /\ used' = [f \in Function |-> <<>>]
    /\ kernels' = [k \in program.kernels |-> <<>>]
    /\ asked' = <<>> /\ finders' = <<>>
    /\ launch' = NoLaunch /\ raised' = FALSE
    /\ sets' = 0 /\ runs' = runs + 1
    /\ UNCHANGED <<program, disk>>

JitNext ==
    \/ \E k \in program.kernels, args \in program.args : RunCached(k, args) \/ RunCompile(k, args)
    \/ VisitCallee \/ MergeCallee \/ VisitRaises \/ cache_key \/ compile
    \/ \E f \in program.settable, s \in program.sources : SetSrc(f, s)
    \/ \E x \in program.globals, v \in program.values : SetGlobal(x, v)
    \/ RunAgain

JitSpec == JitInit /\ [][JitNext]_jitVars

-----------------------------------------------------------------------------

\* The program assigns the sources of no functions that others call.
CalleesFixed ==
    \A f \in Function, s \in program.sources :
        \A i \in DOMAIN program.calls[f][s] : program.calls[f][s][i] \notin program.settable

\* A launch runs a kernel for the specialisation asked for.  If no source is
\* assigned, it was compiled from the sources of all functions as they are,
\* wherever it comes from; if callees' sources are not assigned, that is so of
\* a kernel found on disk.  In a run without exceptions that finds nothing on
\* disk, it was compiled with the values the globals of all functions have at
\* the launch (JITFunction.run, cache_key, DependenciesFinder, compile()).
KernelsCurrent ==
    launch # NoLaunch =>
        /\ launch.kernel.args = launch.wanted.args
        /\ program.settable = {} \/ (CalleesFixed /\ launch.from = "disk") =>
              launch.kernel.sources = launch.wanted.sources
        /\ program.settable = {} /\ program.runs = 1 /\ ~raised =>
              launch.kernel.globals = launch.wanted.globals

=============================================================================
