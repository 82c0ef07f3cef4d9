----------------------------- MODULE Autotuner ------------------------------
(***************************************************************************)
(* Autotuner.run in processes that share the directory of persisted         *)
(* configurations: a call whose key is new is benchmarked with every        *)
(* configuration, each several times on the caller's tensors, and launched  *)
(* with the fastest; later calls with the key are launched with that one.   *)
(*                                                                         *)
(* A call gives values to some of arg_names: a function from names.  The    *)
(* value of a tensor is its dtype.  The kernel updates two tensors that are *)
(* always given, one in restore_value, one in reset_to_zero; a tensor is    *)
(* the updates it has seen since the call began or it was zeroed: how often *)
(* the kernel ran and which configurations' hooks wrote it.  Processes know *)
(* a configuration by one name; its hook is Config.pre_hook, which writes   *)
(* the tensor in restore_value.  pre_hook and post_hook are the default     *)
(* ones.                                                                    *)
(***************************************************************************)
EXTENDS Integers, Sequences, FiniteSets, SequencesExt

CONSTANTS
    Process,
    arg_names,      \* the parameters, a sequence
    KeyNames,       \* key: those that trigger tuning, a sequence
    Tensors,        \* those that are tensors
    Calls,          \* the calls: functions from names to values
    ConfigLists,    \* the lists of configurations the function is given
    Hooked,         \* the configurations with a pre_hook
    Fits,           \* pairs of a configuration and a call it has resources for
    Persistent,     \* TRITON_ENABLE_PERSISTENT_AUTOTUNE_CONFIGS
    MaxReps,        \* a bound on the times a configuration is run
    MaxTime,        \* the timings told apart
    MaxCalls,       \* a bound on the calls of a process
    MaxRestarts     \* a bound on the restarts and failures of the processes

ASSUME KeyAssumption == \A i \in DOMAIN KeyNames : KeyNames[i] \in ToSet(arg_names)

\* A function that is given no configurations has one without settings.
ASSUME TunerAssumption ==
    /\ \A l \in ConfigLists : l \in Seq(ToSet(l)) /\ l # <<>>
    /\ Calls # {} /\ MaxReps \in Nat \ {0} /\ MaxTime \in Nat \ {0}

Config == UNION {ToSet(l) : l \in ConfigLists}
Infinite == MaxTime + 1     \* float("inf")
NoConfig == [config |-> 0, hooked |-> FALSE]
Untouched == [runs |-> 0, hooks |-> {}]

VARIABLES
    configs,        \* of each process: its list
    cache,          \* key -> configuration, a partial function
    pc,
    call, key,
    timings,        \* of the configurations benchmarked, in order
    reps,           \* how often the one being benchmarked was run
    restored, zeroed,   \* the tensors
    copy,           \* restore_copies
    hookDone,       \* history: the last hook called since the kernel ran
    chosen,         \* the configuration of this call
    files,          \* path -> configuration, a partial function
    evaluated,      \* history: calls and configurations benchmarked for them
    calls, restarts

memory == <<restored, zeroed, copy, hookDone>>
vars == <<configs, cache, pc, call, key, timings, reps, memory, chosen, files,
          evaluated, calls, restarts>>

-----------------------------------------------------------------------------

\* _args: the arguments that were given, in the order of the parameters.
Given(c) == SelectSeq(arg_names, LAMBDA name : name \in DOMAIN c)

KeyIndex(name) == CHOOSE i \in DOMAIN arg_names : arg_names[i] = name

\* The key: the arguments at the places of the key names, and the dtypes.
Key(c) ==
    [i \in DOMAIN KeyNames |-> c[Given(c)[KeyIndex(KeyNames[i])]]]
    \o [i \in 1..Cardinality(Tensors \cap DOMAIN c) |->
           c[SelectSeq(Given(c), LAMBDA name : name \in Tensors)[i]]]

\* A partial function with an entry more, or another.
Entered(f, k, x) == [y \in DOMAIN f \cup {k} |-> IF y = k THEN x ELSE f[y]]

Current(p) == configs[p][Len(timings[p]) + 1]

\* What Config.pre_hook of a configuration makes of the tensor, if it is called.
CallHook(p, c, hooked) ==
    IF hooked THEN [restored[p] EXCEPT !.hooks = @ \cup {c}] ELSE restored[p]

\* A configuration that failed counts as the fastest.
Fastest_failed(times) ==
    CHOOSE i \in DOMAIN times :
        /\ times[i] = Infinite \/ (\A j \in DOMAIN times : times[j] # Infinite)
        /\ \A j \in 1..i - 1 : times[j] # Infinite

Fastest(times) ==
    CHOOSE i \in DOMAIN times :
        /\ \A j \in DOMAIN times : times[i] <= times[j]
        /\ \A j \in 1..i - 1 : times[i] < times[j]

-----------------------------------------------------------------------------

Init ==
    /\ configs \in [Process -> ConfigLists]
    /\ cache = [p \in Process |-> <<>>]
    /\ pc = [p \in Process |-> "idle"]
    /\ call = [p \in Process |-> CHOOSE c \in Calls : TRUE]
    /\ key = [p \in Process |-> <<>>]
    /\ timings = [p \in Process |-> <<>>]
    /\ reps = [p \in Process |-> 0]
    /\ restored = [p \in Process |-> Untouched]
    /\ zeroed = [p \in Process |-> Untouched]
    /\ copy = [p \in Process |-> <<>>]
    /\ hookDone = [p \in Process |-> 0]
    /\ chosen = [p \in Process |-> NoConfig]
    /\ files = <<>>
    /\ evaluated = {}
    /\ calls = [p \in Process |-> 0]
    /\ restarts = 0

\* The configuration is in the cache, or is persisted, or has to be found.
Cached(p, c) ==
    /\ Key(c) \in DOMAIN cache[p]
    /\ chosen' = [chosen EXCEPT ![p] = cache[p][Key(c)]]
    /\ pc' = [pc EXCEPT ![p] = "launch"]
    /\ UNCHANGED cache

Persisted(p, c) ==
    /\ Key(c) \notin DOMAIN cache[p]
    /\ Persistent /\ Key(c) \in DOMAIN files
    /\ LET loaded == [config |-> files[Key(c)].config, hooked |-> FALSE]
       IN  /\ cache' = [cache EXCEPT ![p] = Entered(@, Key(c), loaded)]
           /\ chosen' = [chosen EXCEPT ![p] = loaded]
    /\ pc' = [pc EXCEPT ![p] = "launch"]

ToTune(p, c) ==
    /\ Key(c) \notin DOMAIN cache[p]
    /\ ~(Persistent /\ Key(c) \in DOMAIN files)
    /\ chosen' = [chosen EXCEPT ![p] = NoConfig]
    /\ pc' = [pc EXCEPT ![p] = "hook"]
    /\ UNCHANGED cache

\* run up to the search; a configuration may be the only one.
Configured(p, c) ==
    IF Len(configs[p]) = 1
    THEN /\ chosen' = [chosen EXCEPT ![p] =
                [config |-> configs[p][1], hooked |-> configs[p][1] \in Hooked]]
         /\ pc' = [pc EXCEPT ![p] = "launch"]
         /\ UNCHANGED <<key, cache>>
    ELSE /\ key' = [key EXCEPT ![p] = Key(c)]
         /\ Cached(p, c) \/ Persisted(p, c) \/ ToTune(p, c)

Run(p) ==
    /\ pc[p] = "idle" /\ calls[p] < MaxCalls
    /\ calls' = [calls EXCEPT ![p] = @ + 1]
    /\ \E c \in Calls :
           /\ call' = [call EXCEPT ![p] = c]
           /\ Configured(p, c)
    /\ timings' = [timings EXCEPT ![p] = <<>>]
    /\ reps' = [reps EXCEPT ![p] = 0]
    /\ restored' = [restored EXCEPT ![p] = Untouched]
    /\ zeroed' = [zeroed EXCEPT ![p] = Untouched]
    /\ UNCHANGED <<configs, copy, hookDone, files, evaluated, restarts>>

\* kernel_call up to the launch: the configuration's hook, then pre_hook.
KernelCallHooks(p) ==
    /\ pc[p] = "hook"
    /\ LET c == Current(p)
       IN  /\ restored' = [restored EXCEPT ![p] = CallHook(p, c, c \in Hooked)]
           /\ copy' = [copy EXCEPT ![p] = <<CallHook(p, c, c \in Hooked)>>]
           /\ hookDone' = [hookDone EXCEPT ![p] = IF c \in Hooked THEN c ELSE 0]
    /\ zeroed' = [zeroed EXCEPT ![p] = Untouched]
    /\ pc' = [pc EXCEPT ![p] = "run"]
    /\ UNCHANGED <<configs, cache, call, key, timings, reps, chosen, files, evaluated,
                   calls, restarts>>

\* After the last run of a configuration: its time; after the last, the choice.
Timed(p, time) ==
    /\ timings' = [timings EXCEPT ![p] = Append(@, time)]
    /\ reps' = [reps EXCEPT ![p] = 0]
    /\ evaluated' = evaluated \cup {<<call[p], Current(p)>>}
    /\ pc' = [pc EXCEPT ![p] =
                 IF Len(timings[p]) + 1 = Len(configs[p]) THEN "choose" ELSE "hook"]

Updated(tensor) == [tensor EXCEPT !.runs = @ + 1]

\* fn.run and post_hook(exception=None); do_bench calls again or is done.
KernelCall(p) ==
    /\ pc[p] = "run" /\ <<Current(p), call[p]>> \in Fits
    /\ restored' = [restored EXCEPT ![p] = copy[p][1]]
    /\ zeroed' = [zeroed EXCEPT ![p] = Updated(@)]
    /\ copy' = [copy EXCEPT ![p] = <<>>]
    /\ \/ /\ reps[p] + 1 < MaxReps
          /\ reps' = [reps EXCEPT ![p] = @ + 1]
          /\ pc' = [pc EXCEPT ![p] = "hook"]
          /\ UNCHANGED <<timings, evaluated>>
       \/ \E time \in 1..MaxTime : Timed(p, time)
    /\ hookDone' = [hookDone EXCEPT ![p] = 0]
    /\ UNCHANGED <<configs, cache, call, key, chosen, files, calls, restarts>>

\* The configuration is tried again.
OutOfResources_again(p) ==
    /\ pc[p] = "run" /\ <<Current(p), call[p]>> \notin Fits
    /\ restored' = [restored EXCEPT ![p] = copy[p][1]]
    /\ copy' = [copy EXCEPT ![p] = <<>>]
    /\ pc' = [pc EXCEPT ![p] = "hook"]
    /\ hookDone' = [hookDone EXCEPT ![p] = 0]
    /\ UNCHANGED <<configs, cache, call, key, timings, reps, zeroed, chosen, files,
                   evaluated, calls, restarts>>

\* fn.run raises OutOfResources or CompileTimeAssertionFailure.
OutOfResources(p) ==
    /\ pc[p] = "run" /\ <<Current(p), call[p]>> \notin Fits
    /\ restored' = [restored EXCEPT ![p] = copy[p][1]]
    /\ copy' = [copy EXCEPT ![p] = <<>>]
    /\ Timed(p, Infinite)
    /\ hookDone' = [hookDone EXCEPT ![p] = 0]
    /\ UNCHANGED <<configs, cache, call, key, zeroed, chosen, files, calls, restarts>>

\* fn.run raises anything else, after the kernel may have run.
RunRaises(p) ==
    /\ pc[p] = "run" /\ restarts < MaxRestarts
    /\ restarts' = restarts + 1
    /\ restored' = [restored EXCEPT ![p] = copy[p][1]]
    /\ zeroed' = [zeroed EXCEPT ![p] = Updated(@)]
    /\ copy' = [copy EXCEPT ![p] = <<>>]
    /\ pc' = [pc EXCEPT ![p] = "raised"]
    /\ UNCHANGED <<configs, cache, call, key, timings, reps, hookDone, chosen, files,
                   evaluated, calls>>

\* pre_hook is not called after the benchmark.
Choose_noReset(p) ==
    /\ pc[p] = "choose"
    /\ LET c == configs[p][Fastest(timings[p])]
           best == [config |-> c, hooked |-> c \in Hooked]
       IN  /\ cache' = [cache EXCEPT ![p] = Entered(@, key[p], best)]
           /\ chosen' = [chosen EXCEPT ![p] = best]
    /\ pc' = [pc EXCEPT ![p] = IF Persistent THEN "write" ELSE "launch"]
    /\ UNCHANGED <<configs, call, key, timings, reps, memory, files, evaluated, calls,
                   restarts>>

\* The fastest configuration is cached and pre_hook(reset_only=True) called.
Choose(p) ==
    /\ pc[p] = "choose"
    /\ LET c == configs[p][Fastest(timings[p])]
           best == [config |-> c, hooked |-> c \in Hooked]
       IN  /\ cache' = [cache EXCEPT ![p] = Entered(@, key[p], best)]
           /\ chosen' = [chosen EXCEPT ![p] = best]
    /\ zeroed' = [zeroed EXCEPT ![p] = Untouched]
    /\ pc' = [pc EXCEPT ![p] = IF Persistent THEN "write" ELSE "launch"]
    /\ UNCHANGED <<configs, call, key, timings, reps, restored, copy, hookDone, files,
                   evaluated, calls, restarts>>

\* The file itself is written.
WriteTemporary_inPlace(p) ==
    /\ pc[p] = "write"
    /\ files' = Entered(files, key[p], [config |-> chosen[p].config, whole |-> FALSE])
    /\ pc' = [pc EXCEPT ![p] = "replace"]
    /\ UNCHANGED <<configs, cache, call, key, timings, reps, memory, chosen, evaluated,
                   calls, restarts>>

\* _dump_cache: a temporary file of the process's own is written, and replaces
\* the file.
WriteTemporary(p) ==
    /\ pc[p] = "write"
    /\ pc' = [pc EXCEPT ![p] = "replace"]
    /\ UNCHANGED <<configs, cache, call, key, timings, reps, memory, chosen, files,
                   evaluated, calls, restarts>>

Replace(p) ==
    /\ pc[p] = "replace"
    /\ files' = Entered(files, key[p], [config |-> chosen[p].config, whole |-> TRUE])
    /\ pc' = [pc EXCEPT ![p] = "launch"]
    /\ UNCHANGED <<configs, cache, call, key, timings, reps, memory, chosen, evaluated,
                   calls, restarts>>

\* The hook of the configuration chosen is called, fn.run launches or fails.
Launch(p) ==
    /\ pc[p] = "launch"
    /\ LET c == chosen[p].config
           kernel == CallHook(p, c, chosen[p].hooked)
           fits == <<c, call[p]>> \in Fits
       IN  /\ restored' = [restored EXCEPT ![p] =
                              IF fits THEN Updated(kernel) ELSE kernel]
           /\ zeroed' = [zeroed EXCEPT ![p] = IF fits THEN Updated(@) ELSE @]
           /\ hookDone' = [hookDone EXCEPT ![p] = IF chosen[p].hooked THEN c ELSE 0]
           /\ pc' = [pc EXCEPT ![p] = IF fits THEN "returned" ELSE "raised"]
    /\ UNCHANGED <<configs, cache, call, key, timings, reps, copy, chosen, files,
                   evaluated, calls, restarts>>

\* The caller goes on.
Return(p) ==
    /\ pc[p] \in {"returned", "raised"}
    /\ pc' = [pc EXCEPT ![p] = "idle"]
    /\ hookDone' = [hookDone EXCEPT ![p] = 0]
    /\ UNCHANGED <<configs, cache, call, key, timings, reps, restored, zeroed, copy,
                   chosen, files, evaluated, calls, restarts>>

\* The process ends anywhere and is started again, with a list of its own.
Restart(p) ==
    /\ restarts < MaxRestarts
    /\ restarts' = restarts + 1
    /\ \E l \in ConfigLists : configs' = [configs EXCEPT ![p] = l]
    /\ cache' = [cache EXCEPT ![p] = <<>>]
    /\ pc' = [pc EXCEPT ![p] = "idle"]
    /\ copy' = [copy EXCEPT ![p] = <<>>]
    /\ hookDone' = [hookDone EXCEPT ![p] = 0]
    /\ chosen' = [chosen EXCEPT ![p] = NoConfig]
    /\ timings' = [timings EXCEPT ![p] = <<>>]
    /\ reps' = [reps EXCEPT ![p] = 0]
    /\ restored' = [restored EXCEPT ![p] = Untouched]
    /\ zeroed' = [zeroed EXCEPT ![p] = Untouched]
    /\ UNCHANGED <<call, key, files, evaluated, calls>>

Tune(p) ==
    \/ KernelCallHooks(p) \/ KernelCall(p) \/ OutOfResources(p)
    \/ Choose(p) \/ WriteTemporary(p) \/ Replace(p)

Next ==
    \E p \in Process :
        Run(p) \/ Tune(p) \/ RunRaises(p) \/ Launch(p) \/ Return(p) \/ Restart(p)

Spec == Init /\ [][Next]_vars

\* What a process does in a call; it is scheduled again and again.
InCall(p) == Tune(p) \/ Launch(p) \/ Return(p)

-----------------------------------------------------------------------------

\* Each process is at a step of a call, and has timed configurations of its
\* list (Autotuner.run).
TypeOK ==
    /\ configs \in [Process -> ConfigLists]
    /\ \A p \in Process :
           /\ pc[p] \in {"idle", "hook", "run", "choose", "write", "replace", "launch",
                         "returned", "raised"}
           /\ call[p] \in Calls
           /\ Len(timings[p]) <= Len(configs[p])
           /\ \A i \in DOMAIN timings[p] : timings[p][i] \in 1..Infinite
           /\ reps[p] \in 0..MaxReps - 1
           /\ Len(copy[p]) <= 1
           /\ (copy[p] # <<>>) = (pc[p] = "run")
    /\ \A path \in DOMAIN files : files[path].config \in Config

\* Autotuner.run returns with the tensors updated by the kernel once, however
\* often it was benchmarked on them and whatever hooks write; if it was not, the
\* hook of no other configuration wrote them.  A call that fails has not
\* updated a restored tensor.
UpdatedOnce ==
    \A p \in Process :
        /\ pc[p] = "returned" =>
               /\ restored[p].runs = 1 /\ zeroed[p].runs = 1
               /\ timings[p] = <<>> => restored[p].hooks \subseteq {chosen[p].config}
        /\ pc[p] = "raised" => restored[p].runs = 0

\* Config.pre_hook is called right before the kernel runs with that
\* configuration, whether it is the only one or was chosen by this call's
\* benchmark: one that was loaded from a file has lost it.
HookBeforeKernel ==
    \A p \in Process :
        /\ pc[p] = "returned" /\ chosen[p].config \in Hooked
        /\ timings[p] # <<>> \/ Len(configs[p]) = 1
        => hookDone[p] = chosen[p].config

\* A configuration of the list that has the resources if one of the list has.
Best(x, l, c) ==
    /\ x \in ToSet(l)
    /\ (\E y \in ToSet(l) : <<y, c>> \in Fits) => <<x, c>> \in Fits

Evaluated(l, c) == \A x \in ToSet(l) : <<c, x>> \in evaluated

\* The configuration was chosen by a call with the key, from a list all of
\* which was benchmarked for that call.
Found(k, x) ==
    \E c \in Calls, l \in ConfigLists :
        Key(c) = k /\ Len(l) > 1 /\ Best(x, l, c) /\ Evaluated(l, c)

\* A call is launched with a configuration that a call with its key has found,
\* in this process or in the one that persisted it, now or before a restart; a
\* process that timed configurations in this call did so for all of its list,
\* and has chosen one that it has the resources for if there is one.
FoundForKey ==
    \A p \in Process :
        pc[p] \in {"write", "replace", "launch"} /\ Len(configs[p]) > 1 =>
            /\ Found(Key(call[p]), chosen[p].config)
            /\ timings[p] # <<>> =>
                   Best(chosen[p].config, configs[p], call[p]) /\ Evaluated(configs[p], call[p])

\* A persisted file is never seen before it is whole, whenever a process ends.
FilesWhole == \A path \in DOMAIN files : files[path].whole

\* The tuner launches what was found for the key, one that fits where one was
\* timed to fit, after its hook and on arguments that are updated once; what
\* it persists is a whole file (Autotuner.run).
TunedLaunch ==
    /\ TypeOK /\ FoundForKey /\ FilesWhole
    /\ HookBeforeKernel /\ UpdatedOnce

\* A call returns or raises, unless the process ends: each configuration is
\* given up or timed.
CallsEnd ==
    \A p \in Process :
        pc[p] = "hook" ~> pc[p] \in {"returned", "raised", "idle"}

-----------------------------------------------------------------------------
(* The invariant. *)

Tables ==
    /\ configs \in [Process -> ConfigLists]
    /\ DOMAIN cache = Process /\ DOMAIN pc = Process /\ DOMAIN call = Process
    /\ DOMAIN key = Process /\ DOMAIN timings = Process /\ DOMAIN reps = Process
    /\ DOMAIN restored = Process /\ DOMAIN zeroed = Process /\ DOMAIN copy = Process
    /\ DOMAIN hookDone = Process /\ DOMAIN chosen = Process /\ DOMAIN calls = Process

CacheInv(p) == \A k \in DOMAIN cache[p] : Found(k, cache[p][k].config)

FileInv ==
    \A k \in DOMAIN files :
        Found(k, files[k].config) /\ files[k].config \in Config /\ files[k].whole

\* Where a process is in a call; a copy is kept while the kernel runs only, and
\* is the tensor as the hook left it.
CallInv(p) ==
    /\ pc[p] \in {"idle", "hook", "run", "choose", "write", "replace", "launch",
                  "returned", "raised"}
    /\ call[p] \in Calls
    /\ timings[p] \in Seq(1..Infinite) /\ Len(timings[p]) <= Len(configs[p])
    /\ reps[p] \in 0..MaxReps - 1
    /\ copy[p] = IF pc[p] = "run" THEN <<restored[p]>> ELSE <<>>
    /\ restored[p] = [runs |-> restored[p].runs, hooks |-> restored[p].hooks]

\* While configurations are benchmarked the kernel has not updated a restored
\* tensor, and those that were timed have the resources if not given up.
BenchInv(p) ==
    /\ pc[p] \in {"hook", "run", "choose", "write", "replace"} =>
           Len(configs[p]) > 1 /\ key[p] = Key(call[p])
    /\ pc[p] \in {"hook", "run", "choose"} =>
           /\ restored[p].runs = 0
           /\ \A i \in DOMAIN timings[p] :
                 /\ timings[p][i] < Infinite <=> <<configs[p][i], call[p]>> \in Fits
                 /\ <<call[p], configs[p][i]>> \in evaluated
    /\ pc[p] \in {"hook", "run"} => Len(timings[p]) < Len(configs[p])
    /\ pc[p] = "choose" => Len(timings[p]) = Len(configs[p])
    /\ pc[p] = "run" => zeroed[p] = Untouched

ChosenInv(p) ==
    /\ pc[p] \in {"write", "replace", "launch"} =>
           /\ restored[p].runs = 0 /\ zeroed[p] = Untouched
           /\ timings[p] = <<>> => restored[p].hooks = {}
           /\ Len(configs[p]) > 1 => Found(Key(call[p]), chosen[p].config)
           /\ Len(configs[p]) > 1 /\ timings[p] # <<>> =>
                 Best(chosen[p].config, configs[p], call[p]) /\ Evaluated(configs[p], call[p])
           /\ timings[p] # <<>> \/ Len(configs[p]) = 1 =>
                 chosen[p].hooked = (chosen[p].config \in Hooked)
    /\ pc[p] \in {"write", "replace"} => timings[p] # <<>> /\ chosen[p].config \in Config
    /\ pc[p] = "returned" =>
           /\ restored[p].runs = 1 /\ zeroed[p] = Updated(Untouched)
           /\ timings[p] = <<>> => restored[p].hooks \subseteq {chosen[p].config}
           /\ timings[p] # <<>> \/ Len(configs[p]) = 1 =>
                 (chosen[p].config \in Hooked => hookDone[p] = chosen[p].config)
    /\ pc[p] = "raised" => restored[p].runs = 0

ProcessInv(p) == CacheInv(p) /\ CallInv(p) /\ BenchInv(p) /\ ChosenInv(p)

TunerInv == Tables /\ FileInv /\ \A p \in Process : ProcessInv(p)

=============================================================================
