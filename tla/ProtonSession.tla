--------------------------- MODULE ProtonSession ----------------------------
(***************************************************************************)
(* Proton's SessionManager and the Python calls that drive it: sessions are *)
(* started, activated, deactivated and finalised, share one profiler and    *)
(* are told of the scopes and operations threads enter and leave.  Every    *)
(* call holds the interpreter lock and the manager's mutex: it is a step.   *)
(*                                                                         *)
(* Scopes are entered with `with proton.scope(name)`, operations by the     *)
(* launch hook (enter_scope(triton_op=True)).  Context's operator!= compares*)
(* names, so a scope is its name.  Objects keyed by their address are keyed *)
(* by the id of their session: addresses are not used again.                *)
(*                                                                         *)
(* The driver may raise while the profiler starts, flushes or stops, and    *)
(* makeSession for a name it does not know; the call ends there.  Using a   *)
(* session that does not exist, or an object destroyed with it, is the end  *)
(* of the process.                                                          *)
(***************************************************************************)
EXTENDS Integers, Sequences, FiniteSets

CONSTANTS
    Thread,
    Path,           \* where sessions write their profiles
    Name,           \* the names of scopes
    MaxSessions,    \* a bound on the sessions started
    MaxDepth,       \* a bound on the scopes of a thread, of a stack and of the hooks
    MaxErrors       \* a bound on the errors of the driver

ASSUME BoundAssumption == MaxSessions \in Nat /\ MaxDepth \in Nat /\ MaxErrors \in Nat
ASSUME PathAssumption == Path # {}

Id == 0..MaxSessions - 1
Frame == [name : Name, recorded : BOOLEAN]

VARIABLES
    nextSessionId,
    sessions,       \* the sessions there are
    path, shadow,   \* of each session: its path, is its context "shadow"
    sessionPaths,   \* path -> session, a partial function
    activeSessions,
    isInitialized,  \* Profiler::isInitialized of the one profiler
    dataSet,        \* Profiler::dataSet, as sessions
    scopeCounts,    \* scopeInterfaceCounts of each session's context source
    dataCounts,     \* opInterfaceCounts of each session's data
    profilerCount,  \* opInterfaceCounts of the profiler
    contextStack,   \* ShadowContextSource::contextStack
    opInProgress,   \* of each thread: the data objects in an operation
    profilingOn,    \* flags.py
    frames,         \* the scopes each thread's program has open
    launching,      \* is the thread between the launch hooks of a kernel
    localScopes,    \* the number of the thread's _local.scopes
    dumps,          \* history: how often a session was written
    unmade,         \* history: the sessions makeSession threw for
    errors, failed, \* history: the driver's errors, the sessions of those calls
    raised,         \* history: one raised in a session that missed none
    midScope,       \* history: the sessions that missed the beginning or the end
    midOp,          \*   of a scope, of an operation
    died            \* the process: "no", or the call that was its end

registry == <<nextSessionId, sessions, path, shadow, sessionPaths, unmade>>
counters == <<isInitialized, dataSet, scopeCounts, dataCounts, profilerCount>>
program == <<contextStack, opInProgress, frames, launching, localScopes, raised>>
vars == <<registry, activeSessions, counters, profilingOn, dumps, errors, failed,
          program, midScope, midOp, died>>

\* Nothing was started, activated, deactivated or finalised inside a scope or
\* an operation, no two threads had scopes open and no call or launch failed.
Undisturbed == midScope = {} /\ midOp = {} /\ failed = {} /\ unmade = {}

Init ==
    /\ nextSessionId = 0 /\ sessions = {} /\ activeSessions = {}
    /\ path = [id \in Id |-> CHOOSE p \in Path : TRUE]
    /\ shadow = [id \in Id |-> FALSE]
    /\ sessionPaths = <<>> /\ unmade = {}
    /\ isInitialized = FALSE /\ dataSet = {}
    /\ scopeCounts = [id \in Id |-> 0]
    /\ dataCounts = [id \in Id |-> 0]
    /\ profilerCount = 0
    /\ contextStack = [id \in Id |-> <<>>]
    /\ opInProgress = [t \in Thread |-> {}]
    /\ profilingOn = FALSE
    /\ frames = [t \in Thread |-> <<>>]
    /\ launching = [t \in Thread |-> FALSE]
    /\ localScopes = [t \in Thread |-> 0]
    /\ dumps = [id \in Id |-> 0]
    /\ errors = 0 /\ failed = {}
    /\ raised = FALSE /\ midScope = {} /\ midOp = {} /\ died = "no"

-----------------------------------------------------------------------------
(* The sessions.                                                            *)

\* Calls come from a thread that is between the launch hooks of no kernel.
Caller == \E t \in Thread : ~launching[t]

\* A session that is activated or deactivated now sees but a part of the scopes
\* and operations that are open.
NoteChanges ==
    LET changed == (activeSessions \ activeSessions') \cup (activeSessions' \ activeSessions)
    IN  /\ midScope' = midScope \cup IF \E t \in Thread : frames[t] # <<>> THEN changed ELSE {}
        /\ midOp' = midOp \cup IF \E t \in Thread : launching[t] THEN changed ELSE {}

\* The driver raises in a call that is about these sessions.
Interrupted(ids) ==
    /\ errors < MaxErrors
    /\ errors' = errors + 1
    /\ failed' = failed \cup ids

\* Mutant: a session that is active is registered again.
ActivateImpl_again(id, isShadow) ==
    /\ activeSessions' = activeSessions \cup {id}
    /\ isInitialized' = TRUE
    /\ dataSet' = dataSet \cup {id}
    /\ scopeCounts' = [scopeCounts EXCEPT ![id] = @ + IF isShadow THEN 1 ELSE 0]
    /\ dataCounts' = [dataCounts EXCEPT ![id] = @ + 1]
    /\ profilerCount' = profilerCount + 1
    /\ UNCHANGED <<errors, failed>>

\* activateSessionImpl of a session there is: nothing if it is active already;
\* it is active by the time the profiler is started, which may raise.
ActivateImpl(id, isShadow) ==
    \/ id \in activeSessions /\ UNCHANGED <<activeSessions, counters, errors, failed>>
    \/ /\ id \notin activeSessions
       /\ activeSessions' = activeSessions \cup {id}
       /\ isInitialized' = TRUE
       /\ dataSet' = dataSet \cup {id}
       /\ scopeCounts' = [scopeCounts EXCEPT ![id] = @ + IF isShadow THEN 1 ELSE 0]
       /\ dataCounts' = [dataCounts EXCEPT ![id] = @ + 1]
       /\ profilerCount' = profilerCount + 1
       /\ UNCHANGED <<errors, failed>>
    \/ /\ id \notin activeSessions /\ ~isInitialized
       /\ activeSessions' = activeSessions \cup {id}
       /\ Interrupted({id})
       /\ UNCHANGED counters

\* activateSessionImpl of a session there is none of: sessions[id] is null.
ActivateNone(id, call) ==
    /\ activeSessions' = activeSessions \cup {id}
    /\ died' = call
    /\ UNCHANGED <<counters, errors, failed>>

\* deActivateSessionImpl of a set of sessions, those that are active, and of
\* `bad`, whose flush raises.  The counts are unsigned: one below zero counts.
DeactivateImpl(ids, bad) ==
    LET leaving == ids \cap activeSessions
    IN  /\ activeSessions' = activeSessions \ (leaving \cup bad)
        /\ dataSet' = dataSet \ leaving
        /\ scopeCounts' = [id \in Id |-> scopeCounts[id] -
                              IF id \in leaving /\ shadow[id] THEN 1 ELSE 0]
        /\ dataCounts' = [id \in Id |-> dataCounts[id] - IF id \in leaving THEN 1 ELSE 0]
        /\ profilerCount' = profilerCount - Cardinality(leaving)

\* start() with a path that has a session: addSession activates that session,
\* whatever context is asked for, if there is one.
StartAgain(p) ==
    LET id == sessionPaths[p]
    IN  /\ p \in DOMAIN sessionPaths
        /\ \/ id \in sessions /\ ActivateImpl(id, shadow[id]) /\ UNCHANGED died
           \/ id \notin sessions /\ ActivateNone(id, "start")
        /\ UNCHANGED registry

\* start() with a new path: addSession enters the path before makeSession,
\* which throws if the backend, the context or the data is unknown;
\* activateSession is then not called.
StartNew(p, asShadow) ==
    /\ p \notin DOMAIN sessionPaths
    /\ nextSessionId \in Id
    /\ nextSessionId' = nextSessionId + 1
    /\ path' = [path EXCEPT ![nextSessionId] = p]
    /\ shadow' = [shadow EXCEPT ![nextSessionId] = asShadow]
    /\ sessionPaths' = [x \in DOMAIN sessionPaths \cup {p} |->
                           IF x = p THEN nextSessionId ELSE sessionPaths[x]]
    /\ \/ /\ sessions' = sessions \cup {nextSessionId}
          /\ ActivateImpl(nextSessionId, asShadow)
          /\ UNCHANGED unmade
       \/ /\ unmade' = unmade \cup {nextSessionId}
          /\ UNCHANGED <<sessions, activeSessions, counters, errors, failed>>
    /\ UNCHANGED died

Start(p, asShadow) ==
    /\ Caller
    /\ profilingOn' = TRUE
    /\ StartAgain(p) \/ StartNew(p, asShadow)
    /\ NoteChanges
    /\ UNCHANGED <<dumps, program>>

\* activate(): of any id, there is no check that it is a session's.
Activate(id) ==
    /\ Caller
    /\ \/ id \in sessions /\ ActivateImpl(id, shadow[id]) /\ UNCHANGED died
       \/ id \notin sessions /\ ActivateNone(id, "activate")
    /\ NoteChanges
    /\ UNCHANGED <<registry, profilingOn, dumps, program>>

Deactivate(id) ==
    /\ Caller
    /\ \/ DeactivateImpl({id}, {}) /\ UNCHANGED <<errors, failed>>
       \/ id \in activeSessions /\ DeactivateImpl({}, {id}) /\ Interrupted({id})
    /\ NoteChanges
    /\ UNCHANGED <<registry, isInitialized, profilingOn, dumps, program, died>>

\* Mutant: removeSession leaves the path.
FinalizeImpl_path(ids) ==
    /\ DeactivateImpl(ids, {})
    /\ isInitialized' = (isInitialized /\ ids = {})
    /\ dumps' = [id \in Id |-> dumps[id] + IF id \in ids THEN 1 ELSE 0]
    /\ sessions' = sessions \ ids
    /\ UNCHANGED <<nextSessionId, path, shadow, unmade, sessionPaths, errors, failed>>

\* Session::finalize and removeSession of a set of sessions: the profiler is
\* stopped whoever else uses it.
FinalizeImpl(ids) ==
    /\ DeactivateImpl(ids, {})
    /\ isInitialized' = (isInitialized /\ ids = {})
    /\ dumps' = [id \in Id |-> dumps[id] + IF id \in ids THEN 1 ELSE 0]
    /\ sessionPaths' = [p \in DOMAIN sessionPaths \ {path[id] : id \in ids} |->
                           sessionPaths[p]]
    /\ sessions' = sessions \ ids
    /\ UNCHANGED <<nextSessionId, path, shadow, unmade, errors, failed>>

\* The driver raises at `bad`, in its flush or as the profiler is stopped: the
\* sessions before it are written but not removed.
FinalizeRaises(before, bad) ==
    /\ \/ /\ bad \in activeSessions
          /\ DeactivateImpl(before, {bad})
          /\ isInitialized' = (isInitialized /\ before = {})
       \/ /\ isInitialized /\ before = {}
          /\ DeactivateImpl({bad}, {})
          /\ UNCHANGED isInitialized
    /\ dumps' = [id \in Id |-> dumps[id] + IF id \in before THEN 1 ELSE 0]
    /\ UNCHANGED registry

\* finalize(session), which returns at once for a session that is gone.
Finalize(id) ==
    /\ Caller
    /\ \/ FinalizeImpl({id} \cap sessions)
       \/ id \in sessions /\ FinalizeRaises({}, id) /\ Interrupted({id})
    /\ NoteChanges
    /\ UNCHANGED <<profilingOn, program, died>>

\* finalize(): profiling is off, and all sessions are finalised in their order.
FinalizeAll ==
    /\ Caller
    /\ profilingOn' = FALSE
    /\ \/ FinalizeImpl(sessions)
       \/ /\ \E bad \in sessions : FinalizeRaises({id \in sessions : id < bad}, bad)
          /\ Interrupted(sessions)
    /\ NoteChanges
    /\ UNCHANGED <<program, died>>

-----------------------------------------------------------------------------
(* Scopes and operations.                                                   *)

Sources == {id \in Id : scopeCounts[id] # 0}
Counted == {id \in Id : dataCounts[id] # 0}

\* Those that are told are called, if profiling is on: one whose session was
\* removed has been destroyed.
CallAll(told) == died' = IF profilingOn /\ ~(told \subseteq sessions) THEN "freed" ELSE died

\* Mutant: the counts of the sources are not asked.
EnterScope_all(t, n) ==
    /\ ~launching[t]
    /\ Len(frames[t]) < MaxDepth
    /\ \A id \in Sources : Len(contextStack[id]) < MaxDepth
    /\ frames' = [frames EXCEPT ![t] = Append(@, [name |-> n, recorded |-> profilingOn])]
    /\ contextStack' = [id \in Id |-> IF profilingOn THEN Append(contextStack[id], n)
                                      ELSE contextStack[id]]
    /\ midScope' = midScope \cup
                      IF \E u \in Thread \ {t} : frames[u] # <<>> THEN Sources ELSE {}
    /\ CallAll(Sources)
    /\ UNCHANGED <<opInProgress, launching, localScopes, raised, midOp>>

\* scope.__enter__, SessionManager::enterScope.  All threads share a source's
\* stack: it stands for the scopes of neither if two of them have some open.
EnterScope(t, n) ==
    /\ ~launching[t]
    /\ Len(frames[t]) < MaxDepth
    /\ \A id \in Sources : Len(contextStack[id]) < MaxDepth
    /\ frames' = [frames EXCEPT ![t] = Append(@, [name |-> n, recorded |-> profilingOn])]
    /\ contextStack' = [id \in Id |-> IF profilingOn /\ id \in Sources
                                      THEN Append(contextStack[id], n)
                                      ELSE contextStack[id]]
    /\ midScope' = midScope \cup
                      IF \E u \in Thread \ {t} : frames[u] # <<>> THEN Sources ELSE {}
    /\ CallAll(Sources)
    /\ UNCHANGED <<opInProgress, launching, localScopes, raised, midOp>>

\* Has a source this scope on top of its stack?
Balanced(id, n) ==
    contextStack[id] # <<>> /\ contextStack[id][Len(contextStack[id])] = n

\* SessionManager::exitScope.  The first source whose stack is not balanced
\* throws, and the ones after it, in the order of their addresses, are not told.
ExitSources(n) ==
    LET balanced == {id \in Sources : Balanced(id, n)}
        Pop(ids) == [id \in Id |-> IF id \in ids
                                   THEN SubSeq(contextStack[id], 1, Len(contextStack[id]) - 1)
                                   ELSE contextStack[id]]
    IN  \/ balanced = Sources /\ contextStack' = Pop(Sources) /\ UNCHANGED <<raised, midScope>>
        \/ /\ balanced # Sources
           /\ \E told \in SUBSET balanced : contextStack' = Pop(told)
           /\ raised' = (raised \/ ~(Sources \ balanced \subseteq midScope \cup failed))
           /\ midScope' = midScope \cup Sources

\* scope.__exit__.  A scope entered while profiling was off has no _id to exit
\* with.
ExitScope(t) ==
    LET frame == frames[t][Len(frames[t])]
    IN  /\ ~launching[t]
        /\ frames[t] # <<>>
        /\ frames' = [frames EXCEPT ![t] = SubSeq(@, 1, Len(@) - 1)]
        /\ \/ ~profilingOn /\ UNCHANGED <<contextStack, raised, midScope, died>>
           \/ profilingOn /\ ~frame.recorded /\ raised' = (raised \/ Undisturbed)
              /\ UNCHANGED <<contextStack, midScope, died>>
           \/ profilingOn /\ frame.recorded /\ ExitSources(frame.name) /\ CallAll(Sources)
        /\ UNCHANGED <<opInProgress, launching, localScopes, midOp>>

\* The enter hook: SessionManager::enterOp, then, if the kernel has metrics,
\* addMetrics, which attributes them to the operation or, where startOp was
\* left out because one was in progress, to the last context, and throws if
\* there is none.  The launcher does not launch then.
EnterOp(t) ==
    /\ ~launching[t]
    /\ \/ /\ ~profilingOn
          /\ launching' = [launching EXCEPT ![t] = TRUE]
          /\ UNCHANGED <<localScopes, opInProgress, raised, midOp>>
       \/ /\ profilingOn
          /\ localScopes[t] < MaxDepth
          /\ localScopes' = [localScopes EXCEPT ![t] = @ + 1]
          /\ opInProgress' = [opInProgress EXCEPT ![t] = @ \cup Counted]
          /\ \/ launching' = [launching EXCEPT ![t] = TRUE] /\ UNCHANGED <<raised, midOp>>
             \/ /\ \E id \in Counted \cap opInProgress[t] \cap activeSessions :
                      /\ shadow[id] /\ contextStack[id] = <<>>
                      /\ raised' = (raised \/ id \notin midOp \cup failed)
                /\ midOp' = midOp \cup Counted
                /\ UNCHANGED launching
    /\ CallAll(Counted)
    /\ UNCHANGED <<contextStack, frames, midScope>>

\* The launch fails after the enter hook: the launcher returns without calling
\* the exit hook.
LaunchFails(t) ==
    /\ launching[t]
    /\ launching' = [launching EXCEPT ![t] = FALSE]
    /\ midOp' = midOp \cup opInProgress[t]
    /\ UNCHANGED <<contextStack, opInProgress, frames, localScopes, raised, midScope, died>>

\* Mutant: stopOp does not end the operation.
ExitOp_goesOn(t) ==
    /\ launching[t]
    /\ launching' = [launching EXCEPT ![t] = FALSE]
    /\ localScopes' = [localScopes EXCEPT ![t] = IF profilingOn /\ @ > 0 THEN @ - 1 ELSE @]
    /\ raised' = (raised \/ (profilingOn /\ localScopes[t] = 0 /\ Undisturbed))
    /\ CallAll(Counted)
    /\ UNCHANGED <<opInProgress, contextStack, frames, midScope, midOp>>

\* The exit hook: SessionManager::exitOp, for the data counted by now; popping
\* a scope that was never pushed raises.
ExitOp(t) ==
    /\ launching[t]
    /\ launching' = [launching EXCEPT ![t] = FALSE]
    /\ \/ ~profilingOn /\ UNCHANGED <<localScopes, opInProgress, raised, died>>
       \/ /\ profilingOn /\ localScopes[t] = 0
          /\ raised' = (raised \/ Undisturbed)
          /\ UNCHANGED <<localScopes, opInProgress, died>>
       \/ /\ profilingOn /\ localScopes[t] > 0
          /\ localScopes' = [localScopes EXCEPT ![t] = @ - 1]
          /\ opInProgress' = [opInProgress EXCEPT ![t] = @ \ Counted]
          /\ CallAll(Counted)
          /\ UNCHANGED raised
    /\ UNCHANGED <<contextStack, frames, midScope, midOp>>

SessionCall ==
    \/ \E p \in Path, asShadow \in BOOLEAN : Start(p, asShadow)
    \/ \E id \in Id : Activate(id) \/ Deactivate(id) \/ Finalize(id)
    \/ FinalizeAll

ProgramStep ==
    /\ \E t \in Thread :
          \/ \E n \in Name : EnterScope(t, n)
          \/ ExitScope(t) \/ EnterOp(t) \/ LaunchFails(t) \/ ExitOp(t)
    /\ UNCHANGED <<registry, activeSessions, counters, profilingOn, dumps, errors, failed>>

Next == died = "no" /\ (SessionCall \/ ProgramStep)

Spec == Init /\ [][Next]_vars

-----------------------------------------------------------------------------
\* The maps and counters of the manager and of the interfaces are of sessions
\* that were started (SessionManager).
TypeOK ==
    /\ nextSessionId \in 0..MaxSessions /\ sessions \subseteq Id /\ unmade \subseteq Id
    /\ path \in [Id -> Path] /\ shadow \in [Id -> BOOLEAN]
    /\ DOMAIN sessionPaths \subseteq Path
    /\ \A p \in DOMAIN sessionPaths : sessionPaths[p] \in Id
    /\ activeSessions \subseteq Id /\ dataSet \subseteq Id
    /\ isInitialized \in BOOLEAN /\ profilingOn \in BOOLEAN
    /\ scopeCounts \in [Id -> Int] /\ dataCounts \in [Id -> Int] /\ profilerCount \in Int
    /\ contextStack \in [Id -> Seq(Name)]
    /\ opInProgress \in [Thread -> SUBSET Id]
    /\ frames \in [Thread -> Seq(Frame)]
    /\ launching \in [Thread -> BOOLEAN] /\ localScopes \in [Thread -> Nat]
    /\ dumps \in [Id -> Nat] /\ errors \in 0..MaxErrors /\ failed \subseteq Id
    /\ raised \in BOOLEAN /\ midScope \subseteq Id /\ midOp \subseteq Id
    /\ died \in {"no", "activate", "start", "freed"}

\* What the manager, the profiler and the interface counts hold of a session
\* no driver error has interrupted agree, in every order of calls, errors of
\* other sessions included.
RecordsAgree ==
    /\ activeSessions \subseteq sessions
    /\ \A id \in Id \ failed :
           /\ id \in dataSet <=> id \in activeSessions
           /\ dataCounts[id] = IF id \in activeSessions THEN 1 ELSE 0
           /\ scopeCounts[id] = IF id \in activeSessions /\ shadow[id] THEN 1 ELSE 0
    /\ failed = {} => profilerCount = Cardinality(activeSessions)

\* The records agree as long as the process lives.  It dies by activate() of a
\* session that does not exist, by start() only if an earlier one threw, and a
\* source or data object that was destroyed is called only after an error of
\* the driver.
RegistryAgrees ==
    /\ died = "no" => RecordsAgree
    /\ died = "start" => unmade # {}
    /\ died = "freed" => failed # {}

\* Every session started is there, under its own path, or has been written,
\* once unless the driver raised; two sessions never write to one path at the
\* same time.  A path whose start() threw stays taken.
NoProfileLost ==
    LET known == sessions \cup unmade
    IN  /\ DOMAIN sessionPaths = {path[id] : id \in known}
        /\ \A id \in known : sessionPaths[path[id]] = id
        /\ \A id \in Id :
               LET gone == id < nextSessionId /\ id \notin known
               IN  /\ gone => dumps[id] >= 1
                   /\ id \notin failed => dumps[id] = IF gone THEN 1 ELSE 0

\* The names of the scopes a thread has open.
Open(t) == [i \in 1..Len(frames[t]) |-> frames[t][i].name]

\* The stack of an active session that has seen the scopes that are open from
\* their beginning, whatever became of others, is the stack of open scopes of
\* the one thread that has some, and leaving them does not raise for it.
ScopesShadowed ==
    /\ \A id \in activeSessions \ (midScope \cup failed) : shadow[id] =>
          /\ \A t \in Thread : frames[t] # <<>> => contextStack[id] = Open(t)
          /\ contextStack[id] # <<>> => \E t \in Thread : frames[t] # <<>>
    /\ ~raised

\* Between operations none is in progress at a data object that has seen them
\* all from beginning to end, so that the next one is recorded.
OpsEnd == \A t \in Thread : ~launching[t] => opInProgress[t] \subseteq midOp \cup failed

\* A thread's scopes are those of the active sessions it has entered, and an
\* operation that has ended is over for every session (ShadowContextSource,
\* OpInterface::exitOp): what becomes of it as sessions come and go.
ScopesMatched == TypeOK /\ (died = "no" => ScopesShadowed /\ OpsEnd)

\* The profiler runs as long as a session is active.
ActiveProfiled == activeSessions # {} => isInitialized

\* A scope on an active session's stack is open.
ContextsOpen ==
    \A id \in activeSessions : \A i \in 1..Len(contextStack[id]) :
        \E t \in Thread : \E j \in 1..Len(frames[t]) : frames[t][j].name = contextStack[id][i]

=============================================================================
