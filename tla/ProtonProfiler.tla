--------------------------- MODULE ProtonProfiler ---------------------------
(***************************************************************************)
(* Proton's GPU profilers (CuptiProfiler, RoctracerProfiler over            *)
(* GPUProfiler and Profiler) and the part of TreeData they write: threads   *)
(* launch kernels inside callbacks of the driver, the driver hands over     *)
(* activity records in buffers on a thread of its own, and one user thread  *)
(* activates, deactivates and finalises the data objects meanwhile.         *)
(*                                                                         *)
(* A launch is named by its correlation id.  `launch`, `watchers`,          *)
(* `processed`, `missed` and `user.due` are histories: they say what        *)
(* happened to the launches and guard nothing the code decides.             *)
(***************************************************************************)
EXTENDS Integers, Sequences, FiniteSets

CONSTANTS
    Launcher,       \* the threads that launch kernels
    Data,           \* the data objects of the sessions
    Stream,         \* what keeps the records of its kernels in order
    Drivers,        \* what the process may run on, see driver
    MaxLaunches,    \* a bound on the launches
    MaxRetries      \* flush(maxRetries, ...)

\* The runtime API calls the driver API only on CUPTI; Roctracer sees one call.
ASSUME DriversAssumption ==
    Drivers \subseteq {d \in [backend : {"cupti", "roctracer"}, nested : BOOLEAN,
                              externalFirst : BOOLEAN] : d.nested => d.backend = "cupti"}
ASSUME LaunchesAssumption == MaxLaunches \in Nat /\ MaxRetries \in Nat

Corr == 1..MaxLaunches
Dummy == 0                          \* Scope::DummyScopeId
Scope == 0..2 * MaxLaunches         \* a nested launch takes two scope ids

VARIABLES
    driver,             \* backend: "cupti" or "roctracer"; nested: a launch through
                        \* the runtime API calls the driver API; externalFirst: a
                        \* launch's correlation record comes before its kernel's
    registered,         \* Profiler::dataSet
    initialized,        \* Profiler::isInitialized
    session,            \* a data object is "new", "open" or "destroyed"
    profilerState,      \* the thread-local ProfilerState of each thread
    externIds,          \* the thread's stack of external correlation ids
    inProgress,         \* InternalOpInterface::opInProgress of each thread
    scopeIdCounter,
    known,              \* the domain of TreeData::scopeIdToContextId
    metrics,            \* the kernels counted at a scope of a data object
    corrIdToExternId,   \* correlation id -> scope id, a partial function
    maxSubmitted,       \* Correlation::maxSubmittedCorrelationId
    maxCompleted,       \* Correlation::maxCompletedCorrelationId
    call,               \* the launch each thread is in
    external,           \* the correlation records not handed over yet
    kernels,            \* the kernel records not handed over yet, by stream
    buffer,             \* the buffer callback
    user,               \* the user's thread
    launch,             \* history: correlation id -> what was launched
    watchers,           \* history: the data registered since its launch
    processed,          \* history: the launches whose record was processed
    missed              \* history: a callback of a launch was not delivered

registrationVars == <<driver, registered, initialized, session>>
threadVars == <<profilerState, externIds, inProgress, scopeIdCounter>>
recordVars == <<external, kernels>>
historyVars == <<launch, watchers, processed, missed>>
profilerVars == <<registrationVars, threadVars, known, metrics, corrIdToExternId,
          maxSubmitted, maxCompleted, call, recordVars, buffer, user, historyVars>>

Launched == DOMAIN launch

AtomicMax(target, value) == IF target < value THEN value ELSE target

ProfilerInit ==
    /\ driver \in Drivers
    /\ registered = {}
    /\ initialized = FALSE
    /\ session = [d \in Data |-> "new"]
    /\ profilerState = [t \in Launcher |-> [scope |-> Dummy, dataSet |-> {},
                                          isRecording |-> FALSE]]
    /\ externIds = [t \in Launcher |-> <<>>]
    /\ inProgress = [t \in Launcher |-> {}]
    /\ scopeIdCounter = 1
    /\ known = [d \in Data |-> {}]
    /\ metrics = [d \in Data |-> [s \in Scope |-> 0]]
    /\ corrIdToExternId = <<>>
    /\ maxSubmitted = 0 /\ maxCompleted = 0
    /\ call = [t \in Launcher |-> [at |-> "idle", corr |-> 0]]
    /\ external = <<>>
    /\ kernels = [s \in Stream |-> <<>>]
    /\ buffer = [at |-> "idle", corr |-> 0, max |-> 0, visited |-> {}, adding |-> {}]
    /\ user = [at |-> "idle", data |-> {}, retries |-> 0, submitted |-> 0, due |-> {}]
    /\ launch = <<>>
    /\ watchers = [c \in Corr |-> {}]
    /\ processed = {}
    /\ missed = FALSE

-----------------------------------------------------------------------------
(* The callbacks around a launch.  An uninitialised profiler has none.      *)

\* flush() holds the profiler's mutex, which getDataSet() waits for.
Flushing == user.at \in {"flush", "retry", "forced"}

\* Mutant: enterOp with the snapshot of the launch before.
RecordAndEnter_stale(t) ==
    LET scope == scopeIdCounter
    IN  /\ ~Flushing
        /\ scopeIdCounter' = scopeIdCounter + 1
        /\ profilerState' = [profilerState EXCEPT
               ![t] = [scope |-> scope, dataSet |-> registered, isRecording |-> TRUE]]
        /\ externIds' = [externIds EXCEPT ![t] = Append(@, scope)]
        /\ inProgress' = [inProgress EXCEPT ![t] = @ \cup registered]
        /\ known' = [d \in Data |-> IF d \in profilerState[t].dataSet
                                    THEN known[d] \cup {scope} ELSE known[d]]

\* ProfilerState::record and enterOp: a new scope, a snapshot of the data
\* registered, and startOp of the profiler and of every data object that has
\* no operation in progress on this thread.
RecordAndEnter(t) ==
    LET scope == scopeIdCounter
        entering == registered \ inProgress[t]
    IN  /\ ~Flushing
        /\ scopeIdCounter' = scopeIdCounter + 1
        /\ profilerState' = [profilerState EXCEPT
               ![t] = [scope |-> scope, dataSet |-> registered, isRecording |-> TRUE]]
        /\ externIds' = IF profilerState[t].isRecording THEN externIds
                        ELSE [externIds EXCEPT ![t] = Append(@, scope)]
        /\ inProgress' = [inProgress EXCEPT ![t] = @ \cup registered]
        /\ known' = [d \in Data |-> IF d \in entering THEN known[d] \cup {scope}
                                    ELSE known[d]]

\* ENTER without a current context: enterOp without record().  The runtime
\* creates the context lazily, so this is a thread's first launch.
EnterWithoutContext(t) ==
    /\ profilerState[t].scope = Dummy
    /\ profilerState' = [profilerState EXCEPT ![t].isRecording = TRUE]
    /\ externIds' = [externIds EXCEPT ![t] = Append(@, Dummy)]
    /\ UNCHANGED <<scopeIdCounter, inProgress, known>>

\* The history of a launch that begins.
Begin(t) ==
    LET c == Cardinality(Launched) + 1
    IN  /\ c \in Corr
        /\ call' = [call EXCEPT ![t] =
                       [at |-> IF driver.nested THEN "runtime" ELSE "driver", corr |-> c]]
        /\ launch' = [x \in Launched \cup {c} |->
                        IF x = c THEN [scope |-> profilerState'[t].scope, external |-> Dummy,
                                       submitted |-> FALSE]
                        ELSE launch[x]]
        /\ watchers' = [watchers EXCEPT ![c] = registered]

\* Only Roctracer enters the scope of the launch into corrIdToExternId here.
Correlate(c, stack) ==
    corrIdToExternId' =
        IF driver.backend = "cupti" \/ stack = <<>> THEN corrIdToExternId
        ELSE [x \in DOMAIN corrIdToExternId \cup {c} |->
                 IF x = c THEN stack[Len(stack)] ELSE corrIdToExternId[x]]

\* CUPTI_API_ENTER, ACTIVITY_API_PHASE_ENTER of the outermost call.
LaunchEnter(t) ==
    /\ initialized
    /\ call[t].at = "idle"
    /\ RecordAndEnter(t) \/ (driver.nested /\ EnterWithoutContext(t))
    /\ Begin(t)
    /\ Correlate(call'[t].corr, externIds'[t])
    /\ UNCHANGED <<registrationVars, metrics, maxSubmitted, maxCompleted, recordVars,
                   buffer, user, processed, missed>>

\* CUPTI_API_ENTER of the driver API the runtime calls.
DriverEnter(t) ==
    /\ call[t].at = "runtime"
    /\ IF initialized THEN RecordAndEnter(t)
       ELSE UNCHANGED <<threadVars, known>>
    /\ missed' = (missed \/ ~initialized)
    /\ call' = [call EXCEPT ![t].at = "driver"]
    /\ UNCHANGED <<registrationVars, metrics, corrIdToExternId, maxSubmitted, maxCompleted,
                   recordVars, buffer, user, launch, watchers, processed>>

\* The driver enqueues the kernel; with CUPTI it records the external id on
\* top of the thread's stack.
Enqueue(t, s) ==
    LET c == call[t].corr
        stack == externIds[t]
    IN  /\ call[t].at = "driver"
        /\ call' = [call EXCEPT ![t].at = "enqueued"]
        /\ kernels' = [kernels EXCEPT ![s] = Append(@, c)]
        /\ external' = IF driver.backend = "cupti" /\ stack # <<>> THEN Append(external, c)
                       ELSE external
        /\ launch' = [launch EXCEPT ![c].external =
                         IF stack = <<>> THEN Dummy ELSE stack[Len(stack)]]
        /\ UNCHANGED <<registrationVars, threadVars, known, metrics, corrIdToExternId,
                       maxSubmitted, maxCompleted, buffer, user, watchers, processed, missed>>

\* Mutants of exitOp: stopOp is forgotten; the data objects registered now
\* are exited, not those of the snapshot.
exitOp_noPop(t) ==
    /\ profilerState' = [profilerState EXCEPT ![t].isRecording = FALSE]
    /\ inProgress' = [inProgress EXCEPT ![t] = @ \ profilerState[t].dataSet]
    /\ maxSubmitted' = AtomicMax(maxSubmitted, call[t].corr)
    /\ launch' = [launch EXCEPT ![call[t].corr].submitted = TRUE]
    /\ UNCHANGED externIds

\* ProfilerState::exitOp and Correlation::submit.
exitOp(t) ==
    /\ profilerState' = [profilerState EXCEPT ![t].isRecording = FALSE]
    /\ externIds' = IF profilerState[t].isRecording
                    THEN [externIds EXCEPT ![t] = SubSeq(@, 1, Len(@) - 1)]
                    ELSE externIds
    /\ inProgress' = [inProgress EXCEPT ![t] = @ \ profilerState[t].dataSet]
    /\ maxSubmitted' = AtomicMax(maxSubmitted, call[t].corr)
    /\ launch' = [launch EXCEPT ![call[t].corr].submitted = TRUE]

\* CUPTI_API_EXIT, ACTIVITY_API_PHASE_EXIT: of the driver API, then, if that
\* was nested, of the runtime API.
ExitCallback(t, from, to) ==
    /\ call[t].at = from
    /\ call' = [call EXCEPT ![t].at = to]
    /\ IF initialized THEN exitOp(t)
       ELSE UNCHANGED <<profilerState, externIds, inProgress, maxSubmitted, launch>>
    /\ missed' = (missed \/ ~initialized)
    /\ UNCHANGED <<registrationVars, scopeIdCounter, known, metrics, corrIdToExternId,
                   maxCompleted, recordVars, buffer, user, watchers, processed>>

DriverExit(t) == ExitCallback(t, "enqueued", IF driver.nested THEN "returned" ELSE "idle")
RuntimeExit(t) == ExitCallback(t, "returned", "idle")

-----------------------------------------------------------------------------
(* The buffer callback (completeBuffer, activityCallback): one record after *)
(* the other; the mutex of the profiler is not taken.                       *)

FetchExternal ==
    /\ buffer.at = "idle"
    /\ external # <<>>
    /\ LET c == Head(external)
       IN  /\ corrIdToExternId' = [x \in DOMAIN corrIdToExternId \cup {c} |->
                  IF x = c THEN launch[c].external ELSE corrIdToExternId[x]]
           /\ buffer' = [buffer EXCEPT !.max = AtomicMax(@, c)]
    /\ external' = Tail(external)
    /\ UNCHANGED <<registrationVars, threadVars, known, metrics, maxSubmitted, maxCompleted,
                   call, kernels, user, historyVars>>

\* Is c's correlation record still to come?
ExternalPending(c) == \E i \in 1..Len(external) : external[i] = c

\* The kernel's record; without a correlation it is skipped.
FetchKernel(s) ==
    /\ buffer.at = "idle"
    /\ kernels[s] # <<>>
    /\ LET c == Head(kernels[s])
       IN  /\ driver.externalFirst => ~ExternalPending(c)
           /\ buffer' = [buffer EXCEPT
                  !.max = AtomicMax(@, c),
                  !.at = IF c \in DOMAIN corrIdToExternId THEN "addMetric" ELSE "idle",
                  !.corr = c, !.visited = {}]
           /\ processed' = IF c \in DOMAIN corrIdToExternId THEN processed
                           ELSE processed \cup {c}
    /\ kernels' = [kernels EXCEPT ![s] = Tail(@)]
    /\ UNCHANGED <<registrationVars, threadVars, known, metrics, corrIdToExternId,
                   maxSubmitted, maxCompleted, call, external, user, launch, watchers, missed>>

\* Mutant: addMetric() does not go on to the next data object.
SelectData_again(d) ==
    /\ buffer.at = "addMetric" /\ buffer.adding = {}
    /\ d \in registered \ buffer.visited
    /\ buffer' = [buffer EXCEPT !.adding = {d}]
    /\ UNCHANGED <<registrationVars, threadVars, known, metrics, corrIdToExternId,
                   maxSubmitted, maxCompleted, call, recordVars, user, historyVars>>

\* addMetric(): the next data object of the profiler's set, read as it is now,
\* and TreeData::addMetric, which ignores a scope it does not know.
SelectData(d) ==
    /\ buffer.at = "addMetric" /\ buffer.adding = {}
    /\ d \in registered \ buffer.visited
    /\ buffer' = [buffer EXCEPT !.adding = {d}, !.visited = @ \cup {d}]
    /\ UNCHANGED <<registrationVars, threadVars, known, metrics, corrIdToExternId,
                   maxSubmitted, maxCompleted, call, recordVars, user, historyVars>>

AddMetric(d) ==
    LET scope == corrIdToExternId[buffer.corr]
    IN  /\ buffer.adding = {d}
        /\ buffer' = [buffer EXCEPT !.adding = {}]
        /\ metrics' = IF scope \in known[d]
                      THEN [metrics EXCEPT ![d][scope] = @ + 1] ELSE metrics
        /\ UNCHANGED <<registrationVars, threadVars, known, corrIdToExternId, maxSubmitted,
                       maxCompleted, call, recordVars, user, historyVars>>

\* Mutant: the correlation stays.
EraseCorrelation_kept ==
    /\ buffer.at = "addMetric" /\ buffer.adding = {}
    /\ registered \subseteq buffer.visited
    /\ buffer' = [buffer EXCEPT !.at = "idle"]
    /\ processed' = processed \cup {buffer.corr}
    /\ UNCHANGED <<registrationVars, threadVars, known, metrics, corrIdToExternId, maxSubmitted,
                   maxCompleted, call, recordVars, user, launch, watchers, missed>>

\* The correlation has served its kernel and is erased.
EraseCorrelation ==
    /\ buffer.at = "addMetric" /\ buffer.adding = {}
    /\ registered \subseteq buffer.visited
    /\ corrIdToExternId' = [x \in DOMAIN corrIdToExternId \ {buffer.corr} |->
                               corrIdToExternId[x]]
    /\ buffer' = [buffer EXCEPT !.at = "idle"]
    /\ processed' = processed \cup {buffer.corr}
    /\ UNCHANGED <<registrationVars, threadVars, known, metrics, maxSubmitted, maxCompleted,
                   call, recordVars, user, launch, watchers, missed>>

\* The end of the buffer: Correlation::complete.
CompleteBuffer ==
    /\ buffer.at = "idle"
    /\ buffer.max > 0
    /\ maxCompleted' = AtomicMax(maxCompleted, buffer.max)
    /\ buffer' = [buffer EXCEPT !.max = 0]
    /\ UNCHANGED <<registrationVars, threadVars, known, metrics, corrIdToExternId, maxSubmitted,
                   call, recordVars, user, historyVars>>

-----------------------------------------------------------------------------
(* The user's thread: Session::activate, deactivate and finalize.           *)

Others == <<driver, threadVars, known, metrics, corrIdToExternId, maxSubmitted, maxCompleted,
            call, recordVars, buffer, launch, processed, missed>>

\* Session::activate: Profiler::start and registerData.
ActivateData(d) ==
    /\ user.at = "idle"
    /\ session[d] # "destroyed" /\ d \notin registered
    /\ session' = [session EXCEPT ![d] = "open"]
    /\ initialized' = TRUE
    /\ registered' = registered \cup {d}
    /\ UNCHANGED <<user, watchers, Others>>

\* Session::deactivate begins: flush() takes the mutex and calls flushFn; it
\* then reads the id submitted last.
BeginFlush(d) ==
    /\ user.at = "idle"
    /\ d \in registered
    /\ user' = [user EXCEPT !.at = "flush", !.data = {d}, !.retries = MaxRetries]
    /\ UNCHANGED <<registrationVars, watchers, Others>>

LoadSubmitted ==
    /\ user.at = "flush"
    /\ user' = [user EXCEPT !.at = "retry", !.submitted = maxSubmitted,
                            !.due = {c \in Launched : launch[c].submitted}]
    /\ UNCHANGED <<registrationVars, watchers, Others>>

\* Mutant: the retries are not counted.
Retry_uncounted ==
    /\ user.at = "retry"
    /\ maxCompleted < user.submitted
    /\ user' = [user EXCEPT !.at = "flush"]
    /\ UNCHANGED <<registrationVars, watchers, Others>>

\* The driver hands over what it likes between two calls of flushFn.
Retry ==
    /\ user.at = "retry"
    /\ maxCompleted < user.submitted
    /\ user.retries > 0
    /\ user' = [user EXCEPT !.retries = @ - 1]
    /\ UNCHANGED <<registrationVars, watchers, Others>>

GiveUp == maxCompleted >= user.submitted \/ user.retries = 0

\* Mutant: without the forced flush.
EndFlush_unforced ==
    /\ user.at = "retry"
    /\ GiveUp
    /\ user' = [user EXCEPT !.at = "flushed"]
    /\ UNCHANGED <<registrationVars, watchers, Others>>

\* Correlation::flush is over; CUPTI then flushes once more, by force.
EndFlush ==
    /\ user.at = "retry"
    /\ GiveUp
    /\ user' = [user EXCEPT !.at = IF driver.backend = "cupti" THEN "forced" ELSE "flushed"]
    /\ UNCHANGED <<registrationVars, watchers, Others>>

\* The forced flush returns when the records there were have been handed over.
Forced ==
    /\ user.at = "forced"
    /\ user.due \subseteq processed
    /\ user' = [user EXCEPT !.at = "flushed"]
    /\ UNCHANGED <<registrationVars, watchers, Others>>

\* Profiler::unregisterData; the session is inactive.
Unregister ==
    /\ user.at = "flushed"
    /\ registered' = registered \ user.data
    /\ watchers' = [c \in Corr |-> IF c \in processed THEN watchers[c]
                                   ELSE watchers[c] \ user.data]
    /\ user' = [user EXCEPT !.at = "idle", !.data = {}, !.submitted = 0, !.due = {}]
    /\ UNCHANGED <<initialized, session, Others>>

\* finalizeSession() of a session that is inactive by now: Profiler::stop,
\* dump, and the session with its data object is destroyed.
FinalizeData(d) ==
    /\ user.at = "idle"
    /\ session[d] = "open" /\ d \notin registered
    /\ initialized' = FALSE
    /\ session' = [session EXCEPT ![d] = "destroyed"]
    /\ UNCHANGED <<registered, user, watchers, Others>>

Launching ==
    \E t \in Launcher :
        \/ LaunchEnter(t) \/ DriverEnter(t)
        \/ \E s \in Stream : Enqueue(t, s)
        \/ DriverExit(t) \/ RuntimeExit(t)

BufferCallback ==
    \/ FetchExternal \/ EraseCorrelation \/ CompleteBuffer
    \/ \E s \in Stream : FetchKernel(s)
    \/ \E d \in Data : SelectData(d) \/ AddMetric(d)

FlushStep == LoadSubmitted \/ Retry \/ EndFlush \/ Forced
UserStep ==
    \/ \E d \in Data : ActivateData(d) \/ BeginFlush(d) \/ FinalizeData(d)
    \/ FlushStep \/ Unregister

ProfilerNext == Launching \/ BufferCallback \/ UserStep

ProfilerSpec == ProfilerInit /\ [][ProfilerNext]_profilerVars

\* deactivateSession() goes on once it has begun, and a forced flush makes
\* CUPTI hand over its records; nothing is asked of the launching threads,
\* nor of Roctracer.
Fairness ==
    /\ WF_profilerVars(FlushStep)
    /\ WF_profilerVars(user.at = "forced" /\ BufferCallback)

-----------------------------------------------------------------------------
ProfilerTypeOK ==
    /\ registered \subseteq Data /\ initialized \in BOOLEAN
    /\ session \in [Data -> {"new", "open", "destroyed"}]
    /\ profilerState \in [Launcher -> [scope : Scope, dataSet : SUBSET Data,
                                     isRecording : BOOLEAN]]
    /\ externIds \in [Launcher -> Seq(Scope)] /\ inProgress \in [Launcher -> SUBSET Data]
    /\ scopeIdCounter \in 1..2 * MaxLaunches + 1
    /\ known \in [Data -> SUBSET Scope] /\ metrics \in [Data -> [Scope -> Nat]]
    /\ DOMAIN corrIdToExternId \subseteq Launched /\ Launched \subseteq Corr
    /\ \A c \in DOMAIN corrIdToExternId : corrIdToExternId[c] \in Scope
    /\ maxSubmitted \in 0..MaxLaunches /\ maxCompleted \in 0..MaxLaunches
    /\ external \in Seq(Corr) /\ kernels \in [Stream -> Seq(Corr)]
    /\ watchers \in [Corr -> SUBSET Data] /\ processed \subseteq Launched

\* A kernel is counted at most once at a data object, and under the scope that
\* was current when it was enqueued, in whatever order launches, buffers,
\* activations and finalisations are interleaved.
NoneCountedTwice ==
    \A d \in Data, s \in Scope :
        metrics[d][s] <= Cardinality({c \in Launched : /\ launch[c].external = s
                                                       /\ c \in processed \cup {buffer.corr}})

\* A data object registered from a launch to the end of the processing of its
\* kernel's record counts that kernel under the scope of the launch (as long
\* as no callback went missing because the profiler was stopped, and the driver
\* hands over a launch's correlation record before its kernel's).  Not so if
\* launches are nested: see IdleIsClean, and EnterWithoutContext.
EveryLaunchCounted ==
    ~missed /\ driver.externalFirst /\ ~driver.nested =>
        \A c \in processed : \A d \in watchers[c] : metrics[d][launch[c].scope] >= 1

\* Between launches a thread has no operation in progress and no external id
\* pushed: what enterOp began, exitOp ended, for the same data objects.  Not so if launches are
\* nested: the inner callback replaces the snapshot of the outer, and a data
\* object unregistered in between is left with an operation that never ends.
IdleIsClean ==
    ~missed /\ ~driver.nested => \A t \in Launcher : call[t].at = "idle" =>
        externIds[t] = <<>> /\ inProgress[t] = {} /\ ~profilerState[t].isRecording

\* A correlation that has served its kernel is gone: the map holds no more
\* than the launches whose kernel is still to be reported, if each comes after
\* its correlation record.
CorrelationsAwaited ==
    driver.externalFirst => DOMAIN corrIdToExternId \cap processed = {}

\* The flush of deactivate and finalize is over only when every kernel
\* submitted before it has been reported, unless it gave up.
\* Roctracer's flush does not force: it takes the completion of the last
\* kernel for that of all.
FlushReportsSubmitted ==
    driver.backend = "cupti" /\ user.at = "flushed" /\ maxCompleted >= user.submitted => user.due \subseteq processed

\* Each launch is counted in the data objects registered throughout, and once:
\* nothing that its callbacks or records left behind belongs to another
\* launch; a flush that has not given up has reported those submitted before
\* (CuptiProfiler::processActivityKernel, ThreadState::enterOp and exitOp,
\* Correlation::corrIdToExternId and flush).
LaunchesCountedOnce ==
    /\ ProfilerTypeOK
    /\ EveryLaunchCounted /\ NoneCountedTwice
    /\ IdleIsClean /\ CorrelationsAwaited
    /\ FlushReportsSubmitted

\* The flush returns, whatever the driver hands over.
FlushReturns == (user.at = "flush") ~> (user.at = "flushed")

\* No more data is recorded for a session once it has been deactivated.
DeactivatedStaysQuiet ==
    [][\A d \in Data : d \notin registered => metrics'[d] = metrics[d]]_profilerVars

\* The data objects a launch or the buffer callback still has to call exist.
DataInUseExists ==
    /\ \A t \in Launcher : call[t].at # "idle" =>
           \A d \in profilerState[t].dataSet : session[d] # "destroyed"
    /\ \A d \in buffer.adding : session[d] # "destroyed"

=============================================================================
