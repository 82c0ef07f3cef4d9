---------------------------- MODULE ProtonProofs -----------------------------
(***************************************************************************)
(* Proofs about ProtonSession, for any number of threads, paths, sessions,  *)
(* scopes and driver errors: the manager's records, the profiler's and the  *)
(* interface counts agree after every call, no profile is lost or written   *)
(* twice, and scopes and operations begin and end in pairs for the sessions *)
(* nothing disturbed.                                                       *)
(*                                                                         *)
(* Proofs about ProtonProfiler, for any number of launching threads, data   *)
(* objects, streams and launches, and whatever the process runs on: each    *)
(* launch is counted in the data objects registered throughout, and once.   *)
(***************************************************************************)
EXTENDS ProtonSession, ProtonProfiler, FiniteSetTheorems, SequenceTheorems, TLAPS

-----------------------------------------------------------------------------
(* SESSIONS. *)

\* The parts of TypeOK: the registry of sessions, what a call does to those it
\* activates or deactivates, the calls' history, the threads and theirs.
RegistryType ==
    /\ nextSessionId \in 0..MaxSessions /\ sessions \subseteq Id /\ unmade \subseteq Id
    /\ path \in [Id -> Path] /\ shadow \in [Id -> BOOLEAN]
    /\ DOMAIN sessionPaths \subseteq Path
    /\ \A p \in DOMAIN sessionPaths : sessionPaths[p] \in Id

CountersType ==
    /\ activeSessions \subseteq Id /\ dataSet \subseteq Id
    /\ isInitialized \in BOOLEAN
    /\ scopeCounts \in [Id -> Int] /\ dataCounts \in [Id -> Int] /\ profilerCount \in Int
    /\ errors \in 0..MaxErrors /\ failed \subseteq Id

CallsType == profilingOn \in BOOLEAN /\ dumps \in [Id -> Nat]

ProgramType ==
    /\ contextStack \in [Id -> Seq(Name)]
    /\ opInProgress \in [Thread -> SUBSET Id]
    /\ frames \in [Thread -> Seq(Frame)]
    /\ launching \in [Thread -> BOOLEAN] /\ localScopes \in [Thread -> Nat]
    /\ raised \in BOOLEAN

NotesType ==
    /\ midScope \subseteq Id /\ midOp \subseteq Id
    /\ died \in {"no", "activate", "start", "freed"}

Types == RegistryType /\ CountersType /\ CallsType /\ ProgramType /\ NotesType

LEMMA TypeParts == TypeOK <=> Types
BY DEF TypeOK, Types, RegistryType, CountersType, CallsType, ProgramType, NotesType

\* Ids are given in order, to sessions that are made and to those that are not.
IdsGiven ==
    /\ \A id \in sessions \cup unmade : id < nextSessionId
    /\ sessions \cap unmade = {}

\* The inductive invariant.
SessionInv == Types /\ RegistryAgrees /\ NoProfileLost /\ IdsGiven

LEMMA IdFacts == /\ MaxSessions \in Nat /\ IsFiniteSet(Id)
                 /\ Id = {i \in Nat : i < MaxSessions}
<1>1. MaxSessions \in Nat
  BY BoundAssumption
<1>2. IsFiniteSet(Id)
  BY <1>1, FS_Interval DEF Id
<1>3. Id = {i \in Nat : i < MaxSessions}
  BY <1>1 DEF Id
<1> QED
  BY <1>1, <1>2, <1>3

\* The sessions that are active can be counted.
LEMMA ActiveFinite ==
    ASSUME activeSessions \subseteq Id
    PROVE  IsFiniteSet(activeSessions) /\ Cardinality(activeSessions) \in Nat
<1>1. IsFiniteSet(activeSessions)
  BY IdFacts, FS_Subset
<1> QED
  BY <1>1, FS_CardinalityType

\* An error of the driver is counted and its sessions are noted.
LEMMA Interrupting ==
    ASSUME CountersType, NEW ids \in SUBSET Id, Interrupted(ids)
    PROVE  errors' \in 0..MaxErrors /\ failed' \subseteq Id /\ failed' = failed \cup ids
BY BoundAssumption DEF CountersType, Interrupted

-----------------------------------------------------------------------------
(* What the calls that activate and deactivate do to the counters.          *)

\* Activating a session that exists keeps the records in agreement.
LEMMA Activating ==
    ASSUME CountersType, RecordsAgree, shadow \in [Id -> BOOLEAN],
           NEW id \in Id, NEW isShadow \in BOOLEAN,
           ActivateImpl(id, isShadow),
           sessions \cup {id} \subseteq sessions',
           shadow' = [shadow EXCEPT ![id] = isShadow],
           id \in activeSessions => shadow' = shadow
    PROVE  RecordsAgree' /\ CountersType' /\ failed \subseteq failed'
<1> USE DEF CountersType, RecordsAgree
<1>0. IsFiniteSet(activeSessions) /\ Cardinality(activeSessions) \in Nat
  BY ActiveFinite
<1>1. CASE id \in activeSessions /\ UNCHANGED <<activeSessions, counters, errors, failed>>
  BY <1>1 DEF counters
<1>2. CASE /\ id \notin activeSessions
           /\ activeSessions' = activeSessions \cup {id}
           /\ isInitialized' = TRUE
           /\ dataSet' = dataSet \cup {id}
           /\ scopeCounts' = [scopeCounts EXCEPT ![id] = @ + IF isShadow THEN 1 ELSE 0]
           /\ dataCounts' = [dataCounts EXCEPT ![id] = @ + 1]
           /\ profilerCount' = profilerCount + 1
           /\ UNCHANGED <<errors, failed>>
  <2>1. Cardinality(activeSessions') = Cardinality(activeSessions) + 1
    BY <1>0, <1>2, FS_AddElement
  <2>2. failed' = {} => profilerCount' = Cardinality(activeSessions')
    BY <1>2, <2>1
  <2>3. activeSessions' \subseteq sessions'
    BY <1>2
  <2>4. CountersType'
    BY <1>2
  <2>5. ASSUME NEW i \in Id \ failed'
        PROVE  /\ i \in dataSet' <=> i \in activeSessions'
               /\ dataCounts'[i] = IF i \in activeSessions' THEN 1 ELSE 0
               /\ scopeCounts'[i] = IF i \in activeSessions' /\ shadow'[i] THEN 1 ELSE 0
    <3>1. CASE i = id
      BY <1>2, <3>1
    <3>2. CASE i # id
      BY <1>2, <3>2
    <3> QED
      BY <3>1, <3>2
  <2> QED
    BY <1>2, <2>2, <2>3, <2>4, <2>5
<1>3. CASE /\ id \notin activeSessions /\ ~isInitialized
           /\ activeSessions' = activeSessions \cup {id}
           /\ Interrupted({id})
           /\ UNCHANGED counters
  <2>1. errors' \in 0..MaxErrors /\ failed' \subseteq Id /\ failed' = failed \cup {id}
    BY <1>3, Interrupting
  <2>2. CountersType'
    BY <1>3, <2>1 DEF counters
  <2>3. ASSUME NEW i \in Id \ failed'
        PROVE  /\ i # id /\ i \notin failed
               /\ i \in activeSessions' <=> i \in activeSessions
               /\ shadow'[i] = shadow[i]
    BY <1>3, <2>1
  <2>4. RecordsAgree'
    BY <1>3, <2>1, <2>3 DEF counters
  <2> QED
    BY <2>1, <2>2, <2>4
<1> QED
  BY <1>1, <1>2, <1>3 DEF ActivateImpl

\* Deactivating sessions, before they are removed or to keep them.
LEMMA Deactivating ==
    ASSUME CountersType, RecordsAgree, shadow \in [Id -> BOOLEAN],
           NEW ids \in SUBSET Id, NEW bad \in SUBSET Id,
           DeactivateImpl(ids, bad), sessions \ ids \subseteq sessions', shadow' = shadow,
           isInitialized' \in BOOLEAN, errors' \in 0..MaxErrors,
           failed' \subseteq Id, failed \cup bad \subseteq failed'
    PROVE  RecordsAgree' /\ CountersType'
<1> DEFINE leaving == ids \cap activeSessions
<1> USE DEF CountersType, RecordsAgree
<1>0. IsFiniteSet(activeSessions) /\ Cardinality(activeSessions) \in Nat
  BY ActiveFinite
<1>1. /\ activeSessions' = activeSessions \ (leaving \cup bad) /\ dataSet' = dataSet \ leaving
      /\ scopeCounts' = [id \in Id |-> scopeCounts[id] -
                            IF id \in leaving /\ shadow[id] THEN 1 ELSE 0]
      /\ dataCounts' = [id \in Id |-> dataCounts[id] - IF id \in leaving THEN 1 ELSE 0]
      /\ profilerCount' = profilerCount - Cardinality(leaving)
  BY DEF DeactivateImpl
<1>2. ASSUME failed' = {} PROVE profilerCount' = Cardinality(activeSessions')
  <2>1. activeSessions \cap leaving = leaving /\ activeSessions' = activeSessions \ leaving
        /\ profilerCount = Cardinality(activeSessions)
    BY <1>1, <1>2
  <2> HIDE DEF leaving
  <2>2. Cardinality(activeSessions \ leaving) =
               Cardinality(activeSessions) - Cardinality(activeSessions \cap leaving)
    BY <1>0, FS_Difference
  <2> QED
    BY <1>1, <2>1, <2>2
<1>3. Cardinality(leaving) \in Nat
  <2>1. leaving \subseteq activeSessions
    OBVIOUS
  <2> QED
    BY <1>0, <2>1, FS_Subset, FS_CardinalityType
<1>4. activeSessions' \subseteq sessions'
  BY <1>1
<1>5. ASSUME NEW i \in Id \ failed'
      PROVE  /\ i \in dataSet' <=> i \in activeSessions'
             /\ dataCounts'[i] = IF i \in activeSessions' THEN 1 ELSE 0
             /\ scopeCounts'[i] = IF i \in activeSessions' /\ shadow'[i] THEN 1 ELSE 0
  <2>1. i \notin bad /\ i \in Id \ failed
    OBVIOUS
  <2>2. i \in activeSessions' <=> i \in activeSessions /\ i \notin leaving
    BY <1>1, <2>1
  <2>3. CASE i \in leaving
    BY <1>1, <2>1, <2>2, <2>3
  <2>4. CASE i \notin leaving
    BY <1>1, <2>1, <2>2, <2>4
  <2> QED
    BY <2>3, <2>4
<1>6. scopeCounts' \in [Id -> Int] /\ dataCounts' \in [Id -> Int]
  BY <1>1
<1>7. profilerCount' \in Int
  BY <1>1, <1>3
<1>8. activeSessions' \subseteq Id /\ dataSet' \subseteq Id
  BY <1>1
<1>9. CountersType'
  BY <1>6, <1>7, <1>8
<1> QED
  BY <1>2, <1>4, <1>5, <1>9

-----------------------------------------------------------------------------
(* Each session call keeps the invariant.                                   *)

LEMMA Noting ==
    ASSUME CountersType, CountersType', NotesType, NoteChanges,
           died' \in {"no", "activate", "start", "freed"}
    PROVE  NotesType'
BY DEF CountersType, NotesType, NoteChanges

LEMMA ProgramKept == ASSUME ProgramType, UNCHANGED program PROVE ProgramType'
BY DEF ProgramType, program

\* Nothing changes for a session that is not there but the entry in
\* activeSessions.
LEMMA ActivatingNone ==
    ASSUME CountersType, NEW id \in Id, NEW what, ActivateNone(id, what)
    PROVE  CountersType' /\ died' = what /\ failed' = failed
BY DEF CountersType, ActivateNone, counters

\* A path that has a session; it has none only if makeSession threw.
LEMMA StartAgainStep ==
    ASSUME SessionInv, died = "no", NEW p \in Path, NEW asShadow \in BOOLEAN,
           Start(p, asShadow), StartAgain(p)
    PROVE  SessionInv'
<1> DEFINE id == sessionPaths[p]
<1>1. /\ p \in DOMAIN sessionPaths
      /\ UNCHANGED registry /\ UNCHANGED dumps /\ profilingOn' = TRUE
      /\ UNCHANGED program /\ NoteChanges
  BY DEF StartAgain, Start
<1>2. id \in Id /\ shadow \in [Id -> BOOLEAN] /\ RecordsAgree /\ CountersType
  BY <1>1 DEF SessionInv, Types, RegistryType, RegistryAgrees
<1>3. id \in sessions \cup unmade
  BY <1>1 DEF SessionInv, NoProfileLost
<1>4. shadow[id] \in BOOLEAN /\ shadow = [shadow EXCEPT ![id] = shadow[id]] /\ shadow' = shadow
      /\ sessions' = sessions /\ unmade' = unmade
  BY <1>1, <1>2 DEF registry
<1>5. CountersType' /\ failed \subseteq failed' /\ RegistryAgrees'
      /\ died' \in {"no", "activate", "start", "freed"}
  <2>1. CASE id \in sessions /\ ActivateImpl(id, shadow[id]) /\ UNCHANGED died
    <3> HIDE DEF id
    <3>1. RecordsAgree' /\ CountersType' /\ failed \subseteq failed'
      BY <1>2, <1>4, <2>1, Activating
    <3> QED
      BY <2>1, <3>1 DEF RegistryAgrees
  <2>2. CASE id \notin sessions /\ ActivateNone(id, "start")
    <3> HIDE DEF id
    <3>1. CountersType' /\ died' = "start" /\ failed' = failed
      BY <1>2, <2>2, ActivatingNone
    <3>2. unmade' # {}
      BY <1>3, <1>4, <2>2
    <3> QED
      BY <3>1, <3>2 DEF RegistryAgrees
  <2> QED
    BY <2>1, <2>2 DEF StartAgain
<1>6. RegistryType' /\ IdsGiven'
  BY <1>1 DEF SessionInv, Types, RegistryType, IdsGiven, registry
<1>7. CallsType' /\ ProgramType' /\ NotesType'
  BY <1>1, <1>5, Noting, ProgramKept DEF SessionInv, Types, CallsType
<1>8. NoProfileLost'
  BY <1>1, <1>5 DEF SessionInv, NoProfileLost, registry
<1> QED
  BY <1>5, <1>6, <1>7, <1>8 DEF SessionInv, Types

\* A new path is entered, whether or not a session is made for it.
LEMMA StartNewStep ==
    ASSUME SessionInv, died = "no", NEW p \in Path, NEW asShadow \in BOOLEAN,
           Start(p, asShadow), StartNew(p, asShadow)
    PROVE  SessionInv'
<1> DEFINE id == nextSessionId
           listed == sessions \cup unmade
<1>1. /\ p \notin DOMAIN sessionPaths
      /\ id \in Id /\ nextSessionId' = id + 1
      /\ path' = [path EXCEPT ![id] = p]
      /\ shadow' = [shadow EXCEPT ![id] = asShadow]
      /\ sessionPaths' = [x \in DOMAIN sessionPaths \cup {p} |->
                               IF x = p THEN id ELSE sessionPaths[x]]
      /\ died' = died
      /\ UNCHANGED dumps /\ profilingOn' = TRUE /\ UNCHANGED program /\ NoteChanges
  BY DEF StartNew, Start
<1>2. /\ RegistryType /\ CountersType /\ NotesType /\ RecordsAgree
      /\ id \in Nat /\ id + 1 \in 0..MaxSessions
  BY <1>1, IdFacts DEF SessionInv, Types, RegistryType, RegistryAgrees
<1>3. id \notin listed /\ id \notin activeSessions
  BY <1>1, <1>2 DEF SessionInv, IdsGiven, RecordsAgree
<1>4. /\ CountersType' /\ failed \subseteq failed' /\ RecordsAgree'
      /\ \/ sessions' = sessions \cup {id} /\ unmade' = unmade
         \/ sessions' = sessions /\ unmade' = unmade \cup {id}
  <2>1. CASE sessions' = sessions \cup {id} /\ ActivateImpl(id, asShadow) /\ UNCHANGED unmade
    <3>1. shadow \in [Id -> BOOLEAN]
      BY <1>2 DEF RegistryType
    <3> HIDE DEF id
    <3>2. RecordsAgree' /\ CountersType' /\ failed \subseteq failed'
      BY <1>1, <1>2, <1>3, <2>1, <3>1, Activating
    <3> QED
      BY <2>1, <3>2
  <2>2. CASE /\ unmade' = unmade \cup {id}
             /\ UNCHANGED <<sessions, activeSessions, counters, errors, failed>>
    <3>1. CountersType' /\ failed' = failed
      BY <1>2, <2>2 DEF CountersType, counters
    <3>2. \A i \in activeSessions : i \in Id /\ shadow'[i] = shadow[i]
      BY <1>1, <1>2, <1>3 DEF RegistryType, CountersType
    <3>3. ASSUME NEW i \in Id
          PROVE  (i \in activeSessions' /\ shadow'[i]) <=> (i \in activeSessions /\ shadow[i])
      BY <2>2, <3>2
    <3>4. RecordsAgree'
      <4>1. activeSessions' \subseteq sessions'
        BY <1>2, <2>2 DEF RecordsAgree
      <4>2. ASSUME NEW i \in Id \ failed'
            PROVE  /\ i \in dataSet' <=> i \in activeSessions'
                   /\ dataCounts'[i] = IF i \in activeSessions' THEN 1 ELSE 0
                   /\ scopeCounts'[i] = IF i \in activeSessions' /\ shadow'[i] THEN 1 ELSE 0
        BY <1>2, <2>2, <3>3 DEF RecordsAgree, counters
      <4>3. failed' = {} => profilerCount' = Cardinality(activeSessions')
        BY <1>2, <2>2 DEF RecordsAgree, counters
      <4> QED
        BY <4>1, <4>2, <4>3 DEF RecordsAgree
    <3> QED
      BY <2>2, <3>1, <3>4
  <2> QED
    BY <2>1, <2>2 DEF StartNew
<1>5. sessions' \cup unmade' = listed \cup {id}
  BY <1>4
<1>6. RegistryType'
  BY <1>1, <1>2, <1>4 DEF RegistryType
<1>7. IdsGiven'
  <2>1. \A i \in listed : i < id /\ i \in Nat
    BY <1>2, IdFacts DEF SessionInv, IdsGiven, RegistryType
  <2>2. \A i \in listed \cup {id} : i < id + 1
    BY <1>2, <2>1
  <2>3. sessions' \cap unmade' = {}
    BY <1>3, <1>4 DEF SessionInv, IdsGiven
  <2> QED
    BY <1>1, <1>5, <2>2, <2>3 DEF IdsGiven
<1>8. CallsType' /\ ProgramType' /\ NotesType'
  BY <1>1, <1>4, Noting, ProgramKept DEF SessionInv, Types, CallsType, NotesType
<1>9. RegistryAgrees'
  BY <1>1, <1>4 DEF RegistryAgrees
<1>10. NoProfileLost'
  <2>1. \A i \in listed : path'[i] = path[i] /\ path[i] # p /\ i \in Id
    BY <1>1, <1>2, <1>3 DEF RegistryType, SessionInv, NoProfileLost
  <2>2. path'[id] = p
    BY <1>1, <1>2 DEF RegistryType
  <2>3. DOMAIN sessionPaths' = {path'[i] : i \in listed \cup {id}}
    <3>1. DOMAIN sessionPaths' = {path[i] : i \in listed} \cup {p}
      BY <1>1 DEF SessionInv, NoProfileLost
    <3> QED
      BY <2>1, <2>2, <3>1
  <2>4. \A i \in listed \cup {id} : sessionPaths'[path'[i]] = i
    <3>1. ASSUME NEW i \in listed
          PROVE  sessionPaths'[path'[i]] = i
      <4>1. path[i] \in DOMAIN sessionPaths /\ sessionPaths[path[i]] = i
        BY DEF SessionInv, NoProfileLost
      <4> QED
        BY <1>1, <2>1, <4>1
    <3>2. sessionPaths'[path'[id]] = id
      BY <1>1, <2>2
    <3> QED
      BY <3>1, <3>2
  <2>5. ASSUME NEW i \in Id
        PROVE  /\ dumps'[i] = dumps[i]
               /\ (i < nextSessionId' /\ i \notin listed \cup {id})
                     <=> (i < nextSessionId /\ i \notin listed)
               /\ i \notin failed' => i \notin failed
    <3>1. i \in Nat
      BY IdFacts
    <3>2. i < id + 1 <=> i < id \/ i = id
      BY <1>2, <3>1
    <3> QED
      BY <1>1, <1>2, <1>3, <1>4, <3>1, <3>2
  <2>6. ASSUME NEW i \in Id
        PROVE  /\ (i < nextSessionId' /\ i \notin sessions' \cup unmade') => dumps'[i] >= 1
               /\ i \notin failed' =>
                     dumps'[i] = IF i < nextSessionId' /\ i \notin sessions' \cup unmade'
                                 THEN 1 ELSE 0
    BY <1>5, <2>5 DEF SessionInv, NoProfileLost
  <2> QED
    BY <1>5, <2>3, <2>4, <2>6 DEF NoProfileLost
<1> QED
  BY <1>4, <1>6, <1>7, <1>8, <1>9, <1>10 DEF SessionInv, Types

LEMMA ActivateStep ==
    ASSUME SessionInv, died = "no", NEW id \in Id, Activate(id)
    PROVE  SessionInv'
<1>1. /\ UNCHANGED registry /\ UNCHANGED <<profilingOn, dumps>> /\ UNCHANGED program
      /\ NoteChanges
  BY DEF Activate
<1>2. shadow \in [Id -> BOOLEAN] /\ RecordsAgree /\ CountersType
  BY DEF SessionInv, Types, RegistryType, RegistryAgrees
<1>3. shadow[id] \in BOOLEAN /\ shadow = [shadow EXCEPT ![id] = shadow[id]] /\ shadow' = shadow
      /\ sessions' = sessions
  BY <1>1, <1>2 DEF registry
<1>4. CountersType' /\ failed \subseteq failed' /\ RegistryAgrees'
      /\ died' \in {"no", "activate", "start", "freed"}
  <2>1. CASE id \in sessions /\ ActivateImpl(id, shadow[id]) /\ UNCHANGED died
    <3>1. RecordsAgree' /\ CountersType' /\ failed \subseteq failed'
      BY <1>2, <1>3, <2>1, Activating
    <3> QED
      BY <2>1, <3>1 DEF RegistryAgrees
  <2>2. CASE id \notin sessions /\ ActivateNone(id, "activate")
    BY <1>2, <2>2, ActivatingNone DEF RegistryAgrees
  <2> QED
    BY <2>1, <2>2 DEF Activate
<1>5. RegistryType' /\ IdsGiven'
  BY <1>1 DEF SessionInv, Types, RegistryType, IdsGiven, registry
<1>6. CallsType' /\ ProgramType' /\ NotesType'
  BY <1>1, <1>4, Noting, ProgramKept DEF SessionInv, Types, CallsType
<1>7. NoProfileLost'
  BY <1>1, <1>4 DEF SessionInv, NoProfileLost, registry
<1> QED
  BY <1>4, <1>5, <1>6, <1>7 DEF SessionInv, Types

LEMMA DeactivateStep ==
    ASSUME SessionInv, died = "no", NEW id \in Id, Deactivate(id)
    PROVE  SessionInv'
<1>1. /\ UNCHANGED registry /\ UNCHANGED <<isInitialized, profilingOn, dumps>>
      /\ UNCHANGED program /\ UNCHANGED died /\ NoteChanges
  BY DEF Deactivate
<1>2. shadow \in [Id -> BOOLEAN] /\ RecordsAgree /\ CountersType /\ isInitialized' \in BOOLEAN
  BY <1>1 DEF SessionInv, Types, RegistryType, CountersType, RegistryAgrees
<1>3. shadow' = shadow /\ sessions' = sessions
  BY <1>1 DEF registry
<1>4. CountersType' /\ failed \subseteq failed' /\ RecordsAgree'
  <2>1. CASE DeactivateImpl({id}, {}) /\ UNCHANGED <<errors, failed>>
    <3>1. errors' \in 0..MaxErrors /\ failed' \subseteq Id
      BY <1>2, <2>1 DEF CountersType
    <3> QED
      BY <1>2, <1>3, <2>1, <3>1, Deactivating
  <2>2. CASE DeactivateImpl({}, {id}) /\ Interrupted({id})
    <3>1. errors' \in 0..MaxErrors /\ failed' \subseteq Id /\ failed' = failed \cup {id}
      BY <1>2, <2>2, Interrupting
    <3> QED
      BY <1>2, <1>3, <2>2, <3>1, Deactivating
  <2> QED
    BY <2>1, <2>2 DEF Deactivate
<1>5. RegistryType' /\ IdsGiven'
  BY <1>1 DEF SessionInv, Types, RegistryType, IdsGiven, registry
<1>6. CallsType' /\ ProgramType' /\ NotesType'
  BY <1>1, <1>4, Noting, ProgramKept DEF SessionInv, Types, CallsType, NotesType
<1>7. RegistryAgrees' /\ NoProfileLost'
  BY <1>1, <1>4 DEF SessionInv, RegistryAgrees, NoProfileLost, registry
<1> QED
  BY <1>4, <1>5, <1>6, <1>7 DEF SessionInv, Types

\* The sessions finalised are written and their paths are free again; the
\* others keep theirs.
LEMMA Finalizing ==
    ASSUME SessionInv, died = "no", NEW ids \in SUBSET sessions, FinalizeImpl(ids),
           NoteChanges, profilingOn' \in BOOLEAN, UNCHANGED program, UNCHANGED died
    PROVE  SessionInv'
<1>1. /\ DeactivateImpl(ids, {}) /\ isInitialized' \in BOOLEAN
      /\ dumps' = [id \in Id |-> dumps[id] + IF id \in ids THEN 1 ELSE 0]
      /\ sessionPaths' = [p \in DOMAIN sessionPaths \ {path[id] : id \in ids} |->
                             sessionPaths[p]]
      /\ sessions' = sessions \ ids
      /\ UNCHANGED <<nextSessionId, path, shadow, unmade, errors, failed>>
  BY DEF FinalizeImpl, SessionInv, Types, CountersType
<1>2. ids \in SUBSET Id /\ shadow \in [Id -> BOOLEAN] /\ RecordsAgree /\ CountersType
      /\ dumps \in [Id -> Nat]
  BY DEF SessionInv, Types, RegistryType, CallsType, RegistryAgrees
<1>3. RecordsAgree' /\ CountersType'
  <2>1. errors' \in 0..MaxErrors /\ failed' \subseteq Id
    BY <1>1, <1>2 DEF CountersType
  <2> QED
    BY <1>1, <1>2, <2>1, Deactivating
<1>4. RegistryType' /\ IdsGiven' /\ CallsType'
  <2>1. RegistryType'
    BY <1>1 DEF SessionInv, Types, RegistryType
  <2>2. IdsGiven'
    BY <1>1 DEF SessionInv, IdsGiven
  <2>3. CallsType'
    BY <1>1, <1>2 DEF CallsType
  <2> QED
    BY <2>1, <2>2, <2>3
<1>5. ProgramType' /\ NotesType'
  BY <1>3, Noting, ProgramKept DEF SessionInv, Types, NotesType
<1>6. RegistryAgrees'
  BY <1>1, <1>3 DEF SessionInv, RegistryAgrees
<1> DEFINE listed == sessions \cup unmade
<1>7. sessions' \cup unmade' = listed \ ids
  BY <1>1 DEF SessionInv, IdsGiven
<1>8. ASSUME NEW i \in listed
      PROVE  path[i] \in {path[j] : j \in ids} <=> i \in ids
  BY DEF SessionInv, NoProfileLost
<1>9. DOMAIN sessionPaths' = {path'[i] : i \in listed \ ids}
  <2>1. DOMAIN sessionPaths' = {path[i] : i \in listed} \ {path[j] : j \in ids}
    BY <1>1 DEF SessionInv, NoProfileLost
  <2> QED
    BY <1>1, <1>8, <2>1
<1>10. ASSUME NEW i \in listed \ ids
       PROVE  sessionPaths'[path'[i]] = i
  <2>1. path'[i] = path[i] /\ path[i] \in DOMAIN sessionPaths' /\ sessionPaths[path[i]] = i
    BY <1>1, <1>9 DEF SessionInv, NoProfileLost
  <2> QED
    BY <1>1, <2>1
<1>11. ASSUME NEW i \in Id
       PROVE  /\ (i < nextSessionId' /\ i \notin listed \ ids) => dumps'[i] >= 1
              /\ i \notin failed' =>
                    dumps'[i] = IF i < nextSessionId' /\ i \notin listed \ ids THEN 1 ELSE 0
  <2>1. CASE i \in ids
    <3>1. i \in listed /\ i < nextSessionId
      BY <2>1 DEF SessionInv, IdsGiven
    <3>2. dumps'[i] = dumps[i] + 1 /\ dumps[i] \in Nat
      BY <1>1, <1>2, <2>1
    <3>3. i \notin failed => dumps[i] = 0
      BY <3>1 DEF SessionInv, NoProfileLost
    <3> QED
      BY <1>1, <2>1, <3>1, <3>2, <3>3
  <2>2. CASE i \notin ids
    <3>1. dumps'[i] = dumps[i]
      BY <1>1, <1>2, <2>2
    <3> QED
      BY <1>1, <2>2, <3>1 DEF SessionInv, NoProfileLost
  <2> QED
    BY <2>1, <2>2
<1>12. NoProfileLost'
  BY <1>7, <1>9, <1>10, <1>11 DEF NoProfileLost
<1> QED
  BY <1>3, <1>4, <1>5, <1>6, <1>12 DEF SessionInv, Types

\* Where the driver raises, sessions that were written stay, but those of the
\* call are noted.
LEMMA FinalizingRaises ==
    ASSUME SessionInv, died = "no", NEW ids \in SUBSET sessions, NEW bad \in ids,
           NEW before \in SUBSET ids, FinalizeRaises(before, bad), Interrupted(ids),
           NoteChanges, profilingOn' \in BOOLEAN, UNCHANGED program, UNCHANGED died
    PROVE  SessionInv'
<1>1. /\ UNCHANGED registry
      /\ dumps' = [id \in Id |-> dumps[id] + IF id \in before THEN 1 ELSE 0]
  BY DEF FinalizeRaises
<1>2. /\ ids \in SUBSET Id /\ bad \in Id
      /\ shadow \in [Id -> BOOLEAN] /\ RecordsAgree /\ CountersType
      /\ dumps \in [Id -> Nat] /\ isInitialized \in BOOLEAN
  BY DEF SessionInv, Types, RegistryType, CountersType, CallsType, RegistryAgrees
<1>3. errors' \in 0..MaxErrors /\ failed' \subseteq Id /\ failed' = failed \cup ids
  BY <1>2, Interrupting
<1>4. shadow' = shadow /\ sessions' = sessions /\ unmade' = unmade
  BY <1>1 DEF registry
<1>5. RecordsAgree' /\ CountersType'
  <2>1. CASE DeactivateImpl(before, {bad}) /\ isInitialized' = (isInitialized /\ before = {})
    <3>1. before \in SUBSET Id /\ {bad} \in SUBSET Id /\ isInitialized' \in BOOLEAN
      BY <1>2, <2>1
    <3> QED
      BY <1>2, <1>3, <1>4, <2>1, <3>1, Deactivating
  <2>2. CASE DeactivateImpl({bad}, {}) /\ UNCHANGED isInitialized
    <3>1. {bad} \in SUBSET Id /\ isInitialized' \in BOOLEAN
      BY <1>2, <2>2
    <3> QED
      BY <1>2, <1>3, <1>4, <2>2, <3>1, Deactivating
  <2> QED
    BY <2>1, <2>2 DEF FinalizeRaises
<1>6. RegistryType' /\ IdsGiven' /\ CallsType'
  BY <1>1, <1>2 DEF SessionInv, Types, RegistryType, IdsGiven, CallsType, registry
<1>7. ProgramType' /\ NotesType'
  BY <1>5, Noting, ProgramKept DEF SessionInv, Types, NotesType
<1>8. RegistryAgrees'
  BY <1>5 DEF SessionInv, RegistryAgrees
<1>9. ASSUME NEW i \in Id
      PROVE  /\ (i < nextSessionId' /\ i \notin sessions' \cup unmade') => dumps'[i] >= 1
             /\ i \notin failed' =>
                   dumps'[i] = IF i < nextSessionId' /\ i \notin sessions' \cup unmade'
                               THEN 1 ELSE 0
  <2>1. CASE i \in before
    <3>1. i \in failed' /\ i \in sessions'
      BY <1>3, <1>4, <2>1
    <3> QED
      BY <3>1
  <2>2. CASE i \notin before
    <3>1. dumps'[i] = dumps[i] /\ nextSessionId' = nextSessionId
      BY <1>1, <1>2, <2>2 DEF registry
    <3> QED
      BY <1>3, <1>4, <3>1 DEF SessionInv, NoProfileLost
  <2> QED
    BY <2>1, <2>2
<1>10. NoProfileLost'
  BY <1>1, <1>9 DEF SessionInv, NoProfileLost, registry
<1> QED
  BY <1>5, <1>6, <1>7, <1>8, <1>10 DEF SessionInv, Types

LEMMA SessionCallStep ==
    ASSUME SessionInv, died = "no", SessionCall
    PROVE  SessionInv'
<1>1. ASSUME NEW p \in Path, NEW asShadow \in BOOLEAN, Start(p, asShadow)
      PROVE  SessionInv'
  <2>1. StartAgain(p) \/ StartNew(p, asShadow)
    BY <1>1 DEF Start
  <2> QED
    BY <1>1, <2>1, StartAgainStep, StartNewStep
<1>2. ASSUME NEW id \in Id, Activate(id) PROVE SessionInv'
  BY <1>2, ActivateStep
<1>3. ASSUME NEW id \in Id, Deactivate(id) PROVE SessionInv'
  BY <1>3, DeactivateStep
<1>4. ASSUME NEW id \in Id, Finalize(id) PROVE SessionInv'
  <2>1. /\ NoteChanges /\ profilingOn' \in BOOLEAN /\ UNCHANGED program /\ UNCHANGED died
        /\ \/ FinalizeImpl({id} \cap sessions)
           \/ id \in sessions /\ FinalizeRaises({}, id) /\ Interrupted({id})
    BY <1>4 DEF Finalize, SessionInv, Types, CallsType
  <2>2. CASE FinalizeImpl({id} \cap sessions)
    BY <2>1, <2>2, Finalizing
  <2>3. CASE id \in sessions /\ FinalizeRaises({}, id) /\ Interrupted({id})
    <3>1. {id} \in SUBSET sessions /\ id \in {id} /\ {} \in SUBSET {id}
      BY <2>3
    <3> QED
      BY <2>1, <2>3, <3>1, FinalizingRaises
  <2> QED
    BY <2>1, <2>2, <2>3
<1>5. ASSUME FinalizeAll PROVE SessionInv'
  <2>1. NoteChanges /\ profilingOn' \in BOOLEAN /\ UNCHANGED program /\ UNCHANGED died
    BY <1>5 DEF FinalizeAll
  <2>2. CASE FinalizeImpl(sessions)
    BY <2>1, <2>2, Finalizing
  <2>3. ASSUME NEW bad \in sessions, FinalizeRaises({id \in sessions : id < bad}, bad),
               Interrupted(sessions)
        PROVE  SessionInv'
    <3>1. {id \in sessions : id < bad} \in SUBSET sessions
      OBVIOUS
    <3> QED
      BY <2>1, <2>3, <3>1, FinalizingRaises
  <2> QED
    BY <1>5, <2>2, <2>3 DEF FinalizeAll
<1> QED
  BY <1>1, <1>2, <1>3, <1>4, <1>5 DEF SessionCall

-----------------------------------------------------------------------------
(* Threads leave the registry and the counters alone.                       *)

RegistryFrame ==
    UNCHANGED <<registry, activeSessions, counters, profilingOn, dumps, errors, failed>>

\* What is called although its session was removed had missed a call before.
LEMMA CallingAll ==
    ASSUME SessionInv, died = "no", NEW told, told = Sources \/ told = Counted, CallAll(told),
           RegistryFrame
    PROVE  RegistryAgrees' /\ died' \in {"no", "freed"}
<1>1. RecordsAgree /\ sessions' = sessions /\ failed' = failed
  BY DEF SessionInv, RegistryAgrees, RegistryFrame, registry
<1>2. ASSUME failed = {} PROVE told \subseteq sessions
  BY <1>1, <1>2 DEF RecordsAgree, Sources, Counted
<1>3. died' = "freed" => failed' # {}
  BY <1>1, <1>2 DEF CallAll
<1>4. died' \in {"no", "freed"}
  BY DEF CallAll
<1>5. RecordsAgree'
  BY <1>1 DEF RecordsAgree, RegistryFrame, registry, counters
<1> QED
  BY <1>3, <1>4, <1>5 DEF RegistryAgrees

LEMMA FrameKeeps ==
    ASSUME SessionInv, RegistryFrame, RegistryAgrees', ProgramType', NotesType'
    PROVE  SessionInv'
<1>1. RegistryType' /\ CountersType' /\ CallsType'
  BY DEF SessionInv, Types, RegistryType, CountersType, CallsType, RegistryFrame, registry, counters
<1>2. NoProfileLost' /\ IdsGiven'
  BY DEF SessionInv, NoProfileLost, IdsGiven, RegistryFrame, registry
<1> QED
  BY <1>1, <1>2 DEF SessionInv, Types

LEMMA DiedKeeps ==
    ASSUME SessionInv, RegistryFrame, UNCHANGED died
    PROVE  RegistryAgrees'
BY DEF SessionInv, RegistryAgrees, RecordsAgree, RegistryFrame, registry, counters

LEMMA EnterScopeType ==
    ASSUME SessionInv, died = "no", NEW t \in Thread, NEW n \in Name, EnterScope(t, n),
           RegistryFrame
    PROVE  SessionInv'
<1>1. [name |-> n, recorded |-> profilingOn] \in Frame
  BY DEF Frame, SessionInv, Types, CallsType
<1>2. frames' \in [Thread -> Seq(Frame)]
  BY <1>1 DEF EnterScope, SessionInv, Types, ProgramType
<1>3. contextStack' \in [Id -> Seq(Name)]
  BY DEF EnterScope, SessionInv, Types, ProgramType
<1>4. ProgramType'
  BY <1>2, <1>3 DEF EnterScope, SessionInv, Types, ProgramType
<1>5. RegistryAgrees' /\ died' \in {"no", "freed"}
  BY CallingAll DEF EnterScope
<1>6. NotesType'
  BY <1>5 DEF EnterScope, Sources, SessionInv, Types, NotesType
<1> QED
  BY <1>4, <1>5, <1>6, FrameKeeps

LEMMA ExitScopeType ==
    ASSUME SessionInv, died = "no", NEW t \in Thread, ExitScope(t), RegistryFrame
    PROVE  SessionInv'
<1>1. ProgramType /\ NotesType
  BY DEF SessionInv, Types
<1>2. frames' \in [Thread -> Seq(Frame)]
  <2>1. frames[t] \in Seq(Frame) /\ frames[t] # <<>>
    BY <1>1 DEF ExitScope, ProgramType
  <2>2. SubSeq(frames[t], 1, Len(frames[t]) - 1) \in Seq(Frame)
    BY <2>1
  <2> QED
    BY <1>1, <2>2 DEF ExitScope, ProgramType
<1> DEFINE n == frames[t][Len(frames[t])].name
           Pop(ids) == [id \in Id |->
               IF id \in ids THEN SubSeq(contextStack[id], 1, Len(contextStack[id]) - 1)
               ELSE contextStack[id]]
           balanced == {id \in Sources : Balanced(id, n)}
<1>3. \A ids \in SUBSET balanced : Pop(ids) \in [Id -> Seq(Name)]
  <2>1. ASSUME NEW id \in balanced
        PROVE  SubSeq(contextStack[id], 1, Len(contextStack[id]) - 1) \in Seq(Name)
    <3>1. id \in Id /\ contextStack[id] \in Seq(Name) /\ contextStack[id] # <<>>
      BY <1>1 DEF Sources, Balanced, ProgramType
    <3> QED
      BY <3>1
  <2> QED
    BY <1>1, <2>1 DEF ProgramType
<1>4. CASE ExitSources(n) /\ CallAll(Sources)
  <2>1. \/ contextStack' = Pop(Sources) /\ balanced = Sources
        \/ \E told \in SUBSET balanced : contextStack' = Pop(told)
    BY <1>4 DEF ExitSources
  <2>2. contextStack' \in [Id -> Seq(Name)]
    <3>1. CASE \E told \in SUBSET balanced : contextStack' = Pop(told)
      BY <1>3, <3>1
    <3>2. CASE contextStack' = Pop(Sources) /\ balanced = Sources
      BY <1>3, <3>2
    <3> QED
      BY <2>1, <3>1, <3>2
  <2>3. raised' \in BOOLEAN /\ midScope' \subseteq Id
    BY <1>1, <1>4 DEF ExitSources, ProgramType, NotesType, Sources
  <2>4. RegistryAgrees' /\ died' \in {"no", "freed"}
    BY <1>4, CallingAll
  <2>5. ProgramType' /\ NotesType'
    BY <1>1, <1>2, <2>2, <2>3, <2>4 DEF ExitScope, ProgramType, NotesType
  <2> QED
    BY <2>4, <2>5, FrameKeeps
<1>5. CASE raised' \in BOOLEAN /\ UNCHANGED <<contextStack, midScope, died>>
  <2>1. ProgramType' /\ NotesType'
    BY <1>1, <1>2, <1>5 DEF ExitScope, ProgramType, NotesType
  <2> QED
    BY <1>5, <2>1, DiedKeeps, FrameKeeps
<1> QED
  BY <1>1, <1>4, <1>5 DEF ExitScope, ProgramType

LEMMA EnterOpType ==
    ASSUME SessionInv, died = "no", NEW t \in Thread, EnterOp(t), RegistryFrame
    PROVE  SessionInv'
<1>1. ProgramType /\ NotesType
  BY DEF SessionInv, Types
<1>2. RegistryAgrees' /\ died' \in {"no", "freed"}
  BY CallingAll DEF EnterOp
<1>3. /\ launching' \in [Thread -> BOOLEAN] /\ localScopes' \in [Thread -> Nat]
      /\ opInProgress' \in [Thread -> SUBSET Id]
      /\ raised' \in BOOLEAN /\ midOp' \subseteq Id
  <2>1. launching' \in [Thread -> BOOLEAN]
    BY <1>1 DEF EnterOp, ProgramType
  <2>2. localScopes' \in [Thread -> Nat]
    <3>1. localScopes[t] + 1 \in Nat
      BY <1>1 DEF ProgramType
    <3> QED
      BY <1>1, <3>1 DEF EnterOp, ProgramType
  <2>3. opInProgress' \in [Thread -> SUBSET Id]
    <3>1. opInProgress[t] \cup Counted \in SUBSET Id
      BY <1>1 DEF ProgramType, Counted
    <3> QED
      BY <1>1, <3>1 DEF EnterOp, ProgramType
  <2>4. raised' \in BOOLEAN
    BY <1>1 DEF EnterOp, ProgramType
  <2>5. midOp' \subseteq Id
    BY <1>1 DEF EnterOp, NotesType, Counted
  <2> QED
    BY <2>1, <2>2, <2>3, <2>4, <2>5
<1>4. ProgramType' /\ NotesType'
  BY <1>1, <1>2, <1>3 DEF EnterOp, ProgramType, NotesType
<1> QED
  BY <1>2, <1>4, FrameKeeps

LEMMA LaunchFailsType ==
    ASSUME SessionInv, NEW t \in Thread, LaunchFails(t), RegistryFrame
    PROVE  SessionInv'
<1>1. ProgramType' /\ NotesType' /\ UNCHANGED died
  BY DEF LaunchFails, SessionInv, Types, ProgramType, NotesType
<1> QED
  BY <1>1, DiedKeeps, FrameKeeps

LEMMA ExitOpType ==
    ASSUME SessionInv, died = "no", NEW t \in Thread, ExitOp(t), RegistryFrame
    PROVE  SessionInv'
<1>1. ProgramType /\ NotesType
  BY DEF SessionInv, Types
<1>2. RegistryAgrees' /\ died' \in {"no", "freed"}
  <2>1. CallAll(Counted) \/ UNCHANGED died
    BY DEF ExitOp
  <2> QED
    BY <2>1, CallingAll, DiedKeeps
<1>3. /\ launching' \in [Thread -> BOOLEAN] /\ localScopes' \in [Thread -> Nat]
      /\ opInProgress' \in [Thread -> SUBSET Id] /\ raised' \in BOOLEAN
  <2>1. launching' \in [Thread -> BOOLEAN] /\ raised' \in BOOLEAN
    BY <1>1 DEF ExitOp, ProgramType
  <2>2. localScopes' \in [Thread -> Nat]
    <3>1. localScopes[t] > 0 => localScopes[t] - 1 \in Nat
      BY <1>1 DEF ProgramType
    <3> QED
      BY <1>1, <3>1 DEF ExitOp, ProgramType
  <2>3. opInProgress' \in [Thread -> SUBSET Id]
    BY <1>1 DEF ExitOp, ProgramType
  <2> QED
    BY <2>1, <2>2, <2>3
<1>4. ProgramType' /\ NotesType'
  BY <1>1, <1>2, <1>3 DEF ExitOp, ProgramType, NotesType
<1> QED
  BY <1>2, <1>4, FrameKeeps

-----------------------------------------------------------------------------
LEMMA InitInv == Init => SessionInv
<1> SUFFICES ASSUME Init PROVE SessionInv
  OBVIOUS
<1> USE DEF Init
<1>1. RegistryType
  <2>1. (CHOOSE p \in Path : TRUE) \in Path
    BY PathAssumption
  <2>2. path \in [Id -> Path] /\ shadow \in [Id -> BOOLEAN]
    BY <2>1
  <2>3. DOMAIN sessionPaths = {}
    OBVIOUS
  <2>4. nextSessionId \in 0..MaxSessions
    BY IdFacts
  <2> QED
    BY <2>2, <2>3, <2>4 DEF RegistryType
<1>2. CountersType /\ CallsType /\ NotesType
  <2>1. CountersType
    <3>1. 0 \in 0..MaxErrors
      BY BoundAssumption
    <3>2. scopeCounts \in [Id -> Int] /\ dataCounts \in [Id -> Int] /\ profilerCount \in Int
      OBVIOUS
    <3> QED
      BY <3>1, <3>2 DEF CountersType
  <2>2. CallsType
    BY DEF CallsType
  <2>3. NotesType
    BY DEF NotesType
  <2> QED
    BY <2>1, <2>2, <2>3
<1>3. ProgramType
  <2>1. contextStack \in [Id -> Seq(Name)] /\ frames \in [Thread -> Seq(Frame)]
    <3>1. \A S : <<>> \in Seq(S)
      OBVIOUS
    <3>2. contextStack = [id \in Id |-> <<>>] /\ frames = [t \in Thread |-> <<>>]
      OBVIOUS
    <3> QED
      BY ONLY <3>1, <3>2
  <2>2. opInProgress \in [Thread -> SUBSET Id] /\ localScopes \in [Thread -> Nat]
    OBVIOUS
  <2>3. launching \in [Thread -> BOOLEAN] /\ raised \in BOOLEAN
    OBVIOUS
  <2> QED
    BY <2>1, <2>2, <2>3 DEF ProgramType
<1>4. RegistryAgrees
  BY FS_EmptySet DEF RegistryAgrees, RecordsAgree
<1>5. NoProfileLost
  BY IdFacts DEF NoProfileLost
<1>6. IdsGiven
  BY DEF IdsGiven
<1> QED
  BY <1>1, <1>2, <1>3, <1>4, <1>5, <1>6 DEF SessionInv, Types

LEMMA NextInv == SessionInv /\ [Next]_vars => SessionInv'
<1> SUFFICES ASSUME SessionInv, [Next]_vars PROVE SessionInv'
  OBVIOUS
<1>1. CASE died = "no" /\ SessionCall
  BY <1>1, SessionCallStep
<1>2. CASE died = "no" /\ ProgramStep
  <2>1. PICK t \in Thread : \/ \E n \in Name : EnterScope(t, n)
                            \/ ExitScope(t) \/ EnterOp(t) \/ LaunchFails(t) \/ ExitOp(t)
    BY <1>2 DEF ProgramStep
  <2>2. RegistryFrame
    BY <1>2 DEF ProgramStep, RegistryFrame
  <2> QED
    BY <1>2, <2>1, <2>2, EnterScopeType, ExitScopeType, EnterOpType, LaunchFailsType, ExitOpType
<1>3. CASE UNCHANGED vars
  <2>1. /\ RegistryFrame /\ UNCHANGED program /\ UNCHANGED <<midScope, midOp, died>>
    BY <1>3 DEF vars, RegistryFrame
  <2>2. ProgramType' /\ NotesType'
    BY <2>1, ProgramKept DEF SessionInv, Types, NotesType
  <2> QED
    BY <2>1, <2>2, DiedKeeps, FrameKeeps
<1> QED
  BY <1>1, <1>2, <1>3 DEF Next

LEMMA SessionInvAlways == Spec => []SessionInv
BY InitInv, NextInv, PTL DEF Spec

\* Every state is of its type, whatever the driver, the calls and the threads do.
THEOREM TypeCorrect == Spec => []TypeOK
<1>1. SessionInv => TypeOK
  BY TypeParts DEF SessionInv
<1> QED
  BY <1>1, SessionInvAlways, PTL

\* The profiler's set of data and the interface counts refer to the active
\* sessions, each once, whatever the calls, except for the sessions of calls a
\* driver error interrupted.  start() ends the process only if an earlier one
\* threw, destroyed objects are called only after an error of the driver.
THEOREM RegistryAgreesAlways == Spec => []RegistryAgrees
<1>1. SessionInv => RegistryAgrees
  BY DEF SessionInv
<1> QED
  BY <1>1, SessionInvAlways, PTL

\* Every session is registered under its own path or has been written, once
\* unless the driver raised.
THEOREM NoProfileIsLost == Spec => []NoProfileLost
<1>1. SessionInv => NoProfileLost
  BY DEF SessionInv
<1> QED
  BY <1>1, SessionInvAlways, PTL

-----------------------------------------------------------------------------
(* The scopes and operations of the threads.                                *)

\* Once profiling is off, the sessions that are left are those of a call that
\* was interrupted.
OffInv == ~profilingOn => sessions \subseteq failed

\* A data object that has missed nothing is in an operation only while one
\* goes on, is active, and will be told of the end.
OpInv ==
    \A t \in Thread : \A id \in opInProgress[t] \ (midOp \cup failed) :
        launching[t] /\ id \in activeSessions /\ localScopes[t] > 0

Shadowed(id) == id \in activeSessions /\ shadow[id]
Recorded(t) == \A i \in 1..Len(frames[t]) : frames[t][i].recorded

\* A source that has missed nothing holds the scopes that are open, which were
\* entered while profiling was on, all by one thread; if its session is not
\* active, it holds none.
Holds(id) ==
    /\ \A t \in Thread : frames[t] # <<>> => contextStack[id] = Open(t) /\ Recorded(t)
    /\ \A t, u \in Thread : frames[t] # <<>> /\ frames[u] # <<>> => t = u
    /\ (\A t \in Thread : frames[t] = <<>>) => contextStack[id] = <<>>
StackInv ==
    \A id \in Id \ (midScope \cup failed) :
        IF Shadowed(id) THEN Holds(id) ELSE contextStack[id] = <<>>

\* As long as nothing is disturbed, scopes and operations begin and end both
\* with profiling on or both with profiling off.
CalmInv ==
    /\ ~raised
    /\ profilingOn /\ Undisturbed =>
          \A t \in Thread : Recorded(t) /\ (launching[t] => localScopes[t] > 0)

ScopeInv == died = "no" => OffInv /\ OpInv /\ StackInv /\ CalmInv

\* What the session calls have in common.
LEMMA CallFacts ==
    ASSUME SessionInv, died = "no", SessionCall
    PROVE  /\ UNCHANGED program /\ NoteChanges
           /\ failed \subseteq failed' /\ unmade \subseteq unmade'
           /\ \A id \in activeSessions : shadow'[id] = shadow[id]
<1>0. activeSessions \subseteq Id /\ shadow \in [Id -> BOOLEAN] /\ nextSessionId \notin activeSessions
  <2>1. activeSessions \subseteq sessions /\ \A id \in sessions : id < nextSessionId
    BY DEF SessionInv, RegistryAgrees, RecordsAgree, IdsGiven
  <2>2. nextSessionId \in Int
    BY IdFacts DEF SessionInv, Types, RegistryType
  <2> QED
    BY <2>1, <2>2 DEF SessionInv, Types, RegistryType, CountersType
<1>1. ASSUME NEW id, NEW isShadow, ActivateImpl(id, isShadow) PROVE failed \subseteq failed'
  BY <1>1 DEF ActivateImpl, Interrupted
<1>2. ASSUME NEW p \in Path, NEW asShadow \in BOOLEAN, Start(p, asShadow)
      PROVE  /\ UNCHANGED program /\ NoteChanges
             /\ failed \subseteq failed' /\ unmade \subseteq unmade'
             /\ \A id \in activeSessions : shadow'[id] = shadow[id]
  <2>1. CASE StartAgain(p)
    BY <1>1, <1>2, <2>1 DEF Start, StartAgain, ActivateNone, registry
  <2>2. CASE StartNew(p, asShadow)
    <3>1. failed \subseteq failed' /\ unmade \subseteq unmade'
      BY <1>1, <2>2 DEF StartNew
    <3>2. \A id \in activeSessions : shadow'[id] = shadow[id]
      BY <1>0, <2>2 DEF StartNew
    <3> QED
      BY <1>2, <3>1, <3>2 DEF Start
  <2> QED
    BY <1>2, <2>1, <2>2 DEF Start
<1>3. ASSUME NEW id \in Id, Activate(id)
      PROVE  /\ UNCHANGED program /\ NoteChanges
             /\ failed \subseteq failed' /\ unmade' = unmade /\ shadow' = shadow
  BY <1>1, <1>3 DEF Activate, ActivateNone, registry
<1>4. ASSUME NEW id \in Id, Deactivate(id)
      PROVE  /\ UNCHANGED program /\ NoteChanges
             /\ failed \subseteq failed' /\ unmade' = unmade /\ shadow' = shadow
  BY <1>4 DEF Deactivate, Interrupted, registry
<1>5. ASSUME NEW id \in Id, Finalize(id)
      PROVE  /\ UNCHANGED program /\ NoteChanges
             /\ failed \subseteq failed' /\ unmade' = unmade /\ shadow' = shadow
  BY <1>5 DEF Finalize, FinalizeImpl, FinalizeRaises, Interrupted, registry
<1>6. ASSUME FinalizeAll
      PROVE  /\ UNCHANGED program /\ NoteChanges
             /\ failed \subseteq failed' /\ unmade' = unmade /\ shadow' = shadow
  BY <1>6 DEF FinalizeAll, FinalizeImpl, FinalizeRaises, Interrupted, registry
<1> QED
  BY <1>2, <1>3, <1>4, <1>5, <1>6 DEF SessionCall

LEMMA CallOff ==
    ASSUME SessionInv, OffInv, SessionCall
    PROVE  OffInv'
<1>1. ASSUME NEW p \in Path, NEW asShadow \in BOOLEAN, Start(p, asShadow) PROVE OffInv'
  BY <1>1 DEF Start, OffInv
<1>2. ASSUME NEW id \in Id, Activate(id) PROVE OffInv'
  BY <1>2 DEF Activate, ActivateImpl, ActivateNone, Interrupted, OffInv, registry
<1>3. ASSUME NEW id \in Id, Deactivate(id) PROVE OffInv'
  BY <1>3 DEF Deactivate, Interrupted, OffInv, registry
<1>4. ASSUME NEW id \in Id, Finalize(id) PROVE OffInv'
  BY <1>4 DEF Finalize, FinalizeImpl, FinalizeRaises, Interrupted, OffInv, registry
<1>5. ASSUME FinalizeAll PROVE OffInv'
  BY <1>5 DEF FinalizeAll, FinalizeImpl, FinalizeRaises, Interrupted, OffInv, registry
<1> QED
  BY <1>1, <1>2, <1>3, <1>4, <1>5 DEF SessionCall

\* Profiling is turned on by start(), of the first session if nothing is
\* disturbed, and outside scopes and operations if nothing is then.
LEMMA TurningOn ==
    ASSUME SessionInv, died = "no", died' = "no", OffInv, SessionCall,
           ~profilingOn, profilingOn', Undisturbed, Undisturbed'
    PROVE  \A t \in Thread : frames[t] = <<>> /\ ~launching[t]
<1>1. PICK p \in Path, asShadow \in BOOLEAN : Start(p, asShadow)
  BY DEF SessionCall, Activate, Deactivate, Finalize, FinalizeAll
<1>2. sessions = {} /\ unmade = {} /\ unmade' = {}
  BY DEF OffInv, Undisturbed
<1>3. DOMAIN sessionPaths = {} /\ activeSessions = {}
  BY <1>2 DEF SessionInv, NoProfileLost, RegistryAgrees, RecordsAgree
<1>4. StartNew(p, asShadow) /\ NoteChanges
  BY <1>1, <1>3 DEF Start, StartAgain
<1>5. ActivateImpl(nextSessionId, asShadow)
  BY <1>2, <1>4 DEF StartNew
<1>6. activeSessions' = {nextSessionId}
  BY <1>3, <1>5 DEF ActivateImpl
<1>7. midScope' = {} /\ midOp' = {}
  BY DEF Undisturbed
<1> QED
  BY <1>3, <1>4, <1>6, <1>7 DEF NoteChanges

\* A session call changes no scope, and those it changes inside one are noted.
LEMMA SessionCallScopes ==
    ASSUME SessionInv, died = "no", died' = "no", ScopeInv, SessionCall
    PROVE  ScopeInv'
<1>0. OffInv /\ OpInv /\ StackInv /\ CalmInv
  BY DEF ScopeInv
<1>1. /\ UNCHANGED program /\ NoteChanges
      /\ failed \subseteq failed' /\ unmade \subseteq unmade'
      /\ \A id \in activeSessions : shadow'[id] = shadow[id]
  BY CallFacts
<1> DEFINE changed == (activeSessions \ activeSessions') \cup (activeSessions' \ activeSessions)
<1>2. /\ midScope \subseteq midScope' /\ midOp \subseteq midOp'
      /\ \A t \in Thread : frames[t] # <<>> => changed \subseteq midScope'
      /\ \A t \in Thread : launching[t] => changed \subseteq midOp'
  BY <1>1 DEF NoteChanges
<1>3. OffInv'
  BY <1>0, CallOff
<1>4. OpInv'
  <2> SUFFICES ASSUME NEW t \in Thread, NEW id \in opInProgress'[t] \ (midOp' \cup failed')
               PROVE  launching'[t] /\ id \in activeSessions' /\ localScopes'[t] > 0
    BY DEF OpInv
  <2>1. id \in opInProgress[t] \ (midOp \cup failed)
    BY <1>1, <1>2 DEF program
  <2>2. launching[t] /\ id \in activeSessions /\ localScopes[t] > 0
    BY <1>0, <2>1 DEF OpInv
  <2>3. id \notin changed
    BY <1>2, <2>2
  <2> QED
    BY <1>1, <2>2, <2>3 DEF program
<1>5. StackInv'
  <2> SUFFICES ASSUME NEW id \in Id \ (midScope' \cup failed')
               PROVE  (IF Shadowed(id) THEN Holds(id) ELSE contextStack[id] = <<>>)'
    BY DEF StackInv
  <2>1. IF Shadowed(id) THEN Holds(id) ELSE contextStack[id] = <<>>
    BY <1>0, <1>1, <1>2 DEF StackInv
  <2>2. contextStack' = contextStack /\ frames' = frames
    BY <1>1 DEF program
  <2>3. Holds(id)' <=> Holds(id)
    BY <2>2 DEF Holds, Open, Recorded
  <2>4. CASE \A t \in Thread : frames[t] = <<>>
    <3>1. contextStack[id] = <<>> /\ Holds(id)
      BY <2>1, <2>4 DEF Holds
    <3> QED
      BY <2>2, <2>3, <3>1
  <2>5. CASE \E t \in Thread : frames[t] # <<>>
    <3>1. id \notin changed
      BY <1>2, <2>5
    <3>2. Shadowed(id)' <=> Shadowed(id)
      BY <1>1, <3>1 DEF Shadowed
    <3> QED
      BY <2>1, <2>2, <2>3, <3>2
  <2> QED
    BY <2>4, <2>5
<1>6. CalmInv'
  <2>1. ~raised'
    BY <1>0, <1>1 DEF CalmInv, program
  <2>2. ASSUME profilingOn', Undisturbed', NEW t \in Thread
        PROVE  Recorded(t)' /\ (launching'[t] => localScopes'[t] > 0)
    <3>1. Undisturbed
      BY <1>1, <1>2, <2>2 DEF Undisturbed
    <3>2. Recorded(t) /\ (launching[t] => localScopes[t] > 0)
      <4>1. CASE profilingOn
        BY <1>0, <3>1, <4>1 DEF CalmInv
      <4>2. CASE ~profilingOn
        <5>1. frames[t] = <<>> /\ ~launching[t]
          BY <1>0, <2>2, <3>1, <4>2, TurningOn
        <5> QED
          BY <5>1 DEF Recorded
      <4> QED
        BY <4>1, <4>2
    <3> QED
      BY <1>1, <3>2 DEF Recorded, program
  <2> QED
    BY <2>1, <2>2 DEF CalmInv
<1> QED
  BY <1>3, <1>4, <1>5, <1>6 DEF ScopeInv

\* The sources that are told of a scope and the data told of an operation: but
\* for the sessions of interrupted calls, those that are active.
LEMMA ToldActive ==
    ASSUME SessionInv, died = "no", NEW id \in Id \ failed
    PROVE  /\ id \in Sources <=> Shadowed(id)
           /\ id \in Counted <=> id \in activeSessions
           /\ id \in activeSessions => id \in sessions
BY DEF SessionInv, RegistryAgrees, RecordsAgree, Sources, Counted, Shadowed

\* What threads do disturbs no session's activity.
LEMMA FrameFacts ==
    ASSUME RegistryFrame
    PROVE  /\ failed' = failed /\ unmade' = unmade /\ profilingOn' = profilingOn
           /\ activeSessions' = activeSessions /\ shadow' = shadow
           /\ \A id : Shadowed(id)' <=> Shadowed(id)
           /\ OffInv => OffInv'
BY DEF RegistryFrame, registry, Shadowed, OffInv

LEMMA EnterScopeKeeps ==
    ASSUME SessionInv, died = "no", died' = "no", ScopeInv, RegistryFrame,
           NEW t \in Thread, NEW n \in Name, EnterScope(t, n)
    PROVE  ScopeInv'
<1> DEFINE f == [name |-> n, recorded |-> profilingOn]
<1>0. OffInv /\ OpInv /\ StackInv /\ CalmInv
  BY DEF ScopeInv
<1>1. /\ frames' = [frames EXCEPT ![t] = Append(@, f)]
      /\ contextStack' = [id \in Id |-> IF profilingOn /\ id \in Sources
                                        THEN Append(contextStack[id], n) ELSE contextStack[id]]
      /\ midScope' = midScope \cup
                        IF \E u \in Thread \ {t} : frames[u] # <<>> THEN Sources ELSE {}
      /\ UNCHANGED <<opInProgress, launching, localScopes, raised, midOp>>
  BY DEF EnterScope
<1>2. frames \in [Thread -> Seq(Frame)] /\ f \in Frame
  BY DEF SessionInv, Types, CallsType, ProgramType, Frame
<1>3. /\ frames'[t] = Append(frames[t], f) /\ frames'[t] # <<>>
      /\ \A u \in Thread \ {t} : frames'[u] = frames[u]
  BY <1>1, <1>2
<1>4. OffInv' /\ OpInv'
  BY <1>0, <1>1, FrameFacts DEF OpInv
<1>5. Open(t)' = Append(Open(t), n)
  <2>1. frames[t] \in Seq(Frame)
    BY <1>2
  <2> QED
    BY <1>2, <1>3, <2>1 DEF Open
<1>6. ASSUME Recorded(t), profilingOn PROVE Recorded(t)'
  <2>1. frames[t] \in Seq(Frame)
    BY <1>2
  <2> QED
    BY <1>2, <1>3, <1>6, <2>1 DEF Recorded
<1>7. StackInv'
  <2> SUFFICES ASSUME NEW id \in Id \ (midScope' \cup failed')
               PROVE  (IF Shadowed(id) THEN Holds(id) ELSE contextStack[id] = <<>>)'
    BY DEF StackInv
  <2>1. id \in Id \ (midScope \cup failed) /\ (Shadowed(id)' <=> Shadowed(id))
    BY <1>1, FrameFacts
  <2>2. IF Shadowed(id) THEN Holds(id) ELSE contextStack[id] = <<>>
    BY <1>0, <2>1 DEF StackInv
  <2>3. id \in Sources <=> Shadowed(id)
    BY <2>1, ToldActive
  <2>4. CASE ~Shadowed(id)
    <3>1. contextStack'[id] = contextStack[id]
      BY <1>1, <2>1, <2>3, <2>4
    <3>2. contextStack[id] = <<>>
      BY <2>2, <2>4
    <3>3. ~Shadowed(id)' /\ contextStack'[id] = <<>>
      BY <2>1, <2>4, <3>1, <3>2
    <3> QED
      BY <3>3
  <2>5. CASE Shadowed(id)
    <3>1. Holds(id)
      BY <2>2, <2>5
    <3>2. profilingOn
      BY <1>0, <2>1, <2>5, ToldActive DEF OffInv, Shadowed
    <3>3. \A u \in Thread \ {t} : frames[u] = <<>>
      BY <1>1, <2>3, <2>5
    <3>4. contextStack[id] = Open(t) /\ Recorded(t)
      <4>1. CASE frames[t] # <<>>
        BY <3>1, <4>1 DEF Holds
      <4>2. CASE frames[t] = <<>>
        <5>1. contextStack[id] = <<>>
          BY <3>1, <3>3, <4>2 DEF Holds
        <5>2. Open(t) = <<>> /\ Recorded(t)
          BY <4>2 DEF Open, Recorded
        <5> QED
          BY <5>1, <5>2
      <4> QED
        BY <4>1, <4>2
    <3>5. contextStack'[id] = Open(t)' /\ Recorded(t)'
      BY <1>1, <1>5, <1>6, <2>3, <2>5, <3>2, <3>4
    <3>6. \A u \in Thread : frames'[u] # <<>> => u = t
      BY <1>3, <3>3
    <3>7. Holds(id)'
      BY <1>3, <3>5, <3>6 DEF Holds
    <3> QED
      BY <2>1, <2>5, <3>7
  <2> QED
    BY <2>4, <2>5
<1>8. CalmInv'
  <2>1. ASSUME profilingOn', Undisturbed', NEW u \in Thread
        PROVE  Recorded(u)' /\ (launching'[u] => localScopes'[u] > 0)
    <3>1. profilingOn /\ Undisturbed
      BY <1>1, <2>1, FrameFacts DEF Undisturbed
    <3>2. Recorded(u) /\ (launching[u] => localScopes[u] > 0)
      BY <1>0, <3>1 DEF CalmInv
    <3>3. Recorded(u)'
      <4>1. CASE u = t
        BY <1>6, <3>1, <3>2, <4>1
      <4>2. CASE u # t
        BY <1>3, <3>2, <4>2 DEF Recorded
      <4> QED
        BY <4>1, <4>2
    <3> QED
      BY <1>1, <3>2, <3>3
  <2> QED
    BY <1>0, <1>1, <2>1 DEF CalmInv
<1> QED
  BY <1>4, <1>7, <1>8 DEF ScopeInv

\* What a thread has open once it leaves the innermost scope.
LEMMA Leaving ==
    ASSUME NEW t \in Thread, frames \in [Thread -> Seq(Frame)], frames[t] # <<>>,
           frames' = [frames EXCEPT ![t] = SubSeq(@, 1, Len(@) - 1)]
    PROVE  /\ \A u \in Thread \ {t} : frames'[u] = frames[u]
           /\ Recorded(t) => Recorded(t)'
           /\ Recorded(t) => frames[t][Len(frames[t])].recorded
           /\ Open(t)' = SubSeq(Open(t), 1, Len(Open(t)) - 1)
           /\ Open(t) # <<>> /\ Open(t)[Len(Open(t))] = frames[t][Len(frames[t])].name
           /\ frames'[t] = <<>> => Open(t)' = <<>>
<1>1. frames[t] \in Seq(Frame) /\ Len(frames[t]) \in Nat \ {0}
  OBVIOUS
<1>2. frames'[t] = SubSeq(frames[t], 1, Len(frames[t]) - 1)
  OBVIOUS
<1>3. /\ Len(frames'[t]) = Len(frames[t]) - 1
      /\ \A i \in 1..Len(frames[t]) - 1 : frames'[t][i] = frames[t][i]
  <2> DEFINE n == Len(frames[t]) - 1
  <2>1. n \in 0..Len(frames[t])
    BY <1>1
  <2>2. \A i \in 1..n : frames[t][i] \in Frame
    BY <1>1, <2>1
  <2>3. /\ Len(SubSeq(frames[t], 1, n)) = IF 1 <= n THEN n - 1 + 1 ELSE 0
        /\ \A i \in 1..n - 1 + 1 : SubSeq(frames[t], 1, n)[i] = frames[t][1 + i - 1]
    <3> HIDE DEF n
    <3>1. 1 \in Int /\ n \in Int
      BY <1>1, <2>1
    <3> QED
      BY <2>2, <3>1, SubSeqProperties
  <2>4. n \in Nat
    BY <1>1
  <2>5. Len(SubSeq(frames[t], 1, n)) = n
    <3> HIDE DEF n
    <3> QED
      BY <2>3, <2>4
  <2>6. ASSUME NEW i \in 1..n PROVE SubSeq(frames[t], 1, n)[i] = frames[t][i]
    <3> HIDE DEF n
    <3>1. i \in 1..n - 1 + 1 /\ 1 + i - 1 = i
      BY <2>4
    <3> QED
      BY <2>3, <3>1
  <2> QED
    BY <1>2, <2>5, <2>6
<1>4. Len(Open(t)) = Len(frames[t]) /\ \A i \in 1..Len(frames[t]) : Open(t)[i] = frames[t][i].name
  BY <1>1 DEF Open
<1>5. Open(t)' = SubSeq(Open(t), 1, Len(Open(t)) - 1)
  <2>1. Open(t)' = [i \in 1..Len(frames[t]) - 1 |-> frames[t][i].name]
    BY <1>3 DEF Open
  <2>2. SubSeq(Open(t), 1, Len(Open(t)) - 1) = [i \in 1..Len(Open(t)) - 1 |-> Open(t)[i]]
    BY <1>1, <1>4
  <2> QED
    BY <1>1, <1>4, <2>1, <2>2
<1>6. Recorded(t) => Recorded(t)' /\ frames[t][Len(frames[t])].recorded
  BY <1>1, <1>3 DEF Recorded
<1>7. Open(t) # <<>> /\ Open(t)[Len(Open(t))] = frames[t][Len(frames[t])].name
  BY <1>1, <1>4
<1>8. frames'[t] = <<>> => Open(t)' = <<>>
  <2> SUFFICES ASSUME frames'[t] = <<>> PROVE Open(t)' = <<>>
    OBVIOUS
  <2>1. Len(frames'[t]) = 0
    OBVIOUS
  <2>2. Open(t)' = [i \in 1..0 |-> frames'[t][i].name]
    BY <2>1 DEF Open
  <2> QED
    BY <2>2
<1> QED
  BY <1>5, <1>6, <1>7, <1>8

\* The scope that ends is on top of every stack it was entered on.
LEMMA ExitScopeKeeps ==
    ASSUME SessionInv, died = "no", died' = "no", ScopeInv, RegistryFrame,
           NEW t \in Thread, ExitScope(t)
    PROVE  ScopeInv'
<1> DEFINE frame == frames[t][Len(frames[t])]
           Pop(ids) == [id \in Id |-> IF id \in ids
                                      THEN SubSeq(contextStack[id], 1, Len(contextStack[id]) - 1)
                                      ELSE contextStack[id]]
           balanced == {id \in Sources : Balanced(id, frame.name)}
<1>0. OffInv /\ OpInv /\ StackInv /\ CalmInv
  BY DEF ScopeInv
<1>1. /\ frames[t] # <<>> /\ frames' = [frames EXCEPT ![t] = SubSeq(@, 1, Len(@) - 1)]
      /\ UNCHANGED <<opInProgress, launching, localScopes, midOp>>
  BY DEF ExitScope
<1>2. frames \in [Thread -> Seq(Frame)] /\ contextStack \in [Id -> Seq(Name)]
  BY DEF SessionInv, Types, ProgramType
<1>3. /\ \A u \in Thread \ {t} : frames'[u] = frames[u]
      /\ Recorded(t) => Recorded(t)'
      /\ Recorded(t) => frame.recorded
      /\ Open(t)' = SubSeq(Open(t), 1, Len(Open(t)) - 1)
      /\ Open(t) # <<>> /\ Open(t)[Len(Open(t))] = frame.name
      /\ frames'[t] = <<>> => Open(t)' = <<>>
  BY <1>1, <1>2, Leaving
<1> HIDE DEF frame
<1>4. /\ midScope \subseteq midScope'
      /\ \/ ~profilingOn /\ UNCHANGED <<contextStack, raised, midScope>>
         \/ /\ profilingOn /\ ~frame.recorded /\ raised' = (raised \/ Undisturbed)
            /\ UNCHANGED <<contextStack, midScope>>
         \/ profilingOn /\ frame.recorded /\ ExitSources(frame.name)
  BY DEF ExitScope, ExitSources, frame
<1>5. OffInv' /\ OpInv'
  BY <1>0, <1>1, FrameFacts DEF OpInv
\* A source that has missed nothing and is active is balanced.
<1>6. ASSUME NEW id \in Id \ (midScope \cup failed), Shadowed(id)
      PROVE  /\ profilingOn /\ frame.recorded /\ id \in Sources /\ id \in balanced
             /\ contextStack[id] = Open(t) /\ Recorded(t)
             /\ \A u \in Thread \ {t} : frames[u] = <<>>
  <2>1. Holds(id)
    BY <1>0, <1>6 DEF StackInv
  <2>2. contextStack[id] = Open(t) /\ Recorded(t) /\ \A u \in Thread \ {t} : frames[u] = <<>>
    BY <1>1, <2>1 DEF Holds
  <2>3. profilingOn /\ id \in Sources
    BY <1>0, <1>6, ToldActive DEF OffInv, Shadowed
  <2> QED
    BY <1>3, <2>2, <2>3 DEF Balanced
<1>7. StackInv'
  <2> SUFFICES ASSUME NEW id \in Id \ (midScope' \cup failed')
               PROVE  (IF Shadowed(id) THEN Holds(id) ELSE contextStack[id] = <<>>)'
    BY DEF StackInv
  <2>1. id \in Id \ (midScope \cup failed) /\ (Shadowed(id)' <=> Shadowed(id))
    BY <1>4, FrameFacts
  <2>2. CASE ~Shadowed(id)
    <3>1. contextStack[id] = <<>> /\ id \notin Sources
      BY <1>0, <2>1, <2>2, ToldActive DEF StackInv
    <3>2. contextStack'[id] = contextStack[id]
      BY <1>2, <1>4, <2>1, <3>1 DEF ExitSources
    <3> QED
      BY <2>1, <2>2, <3>1, <3>2
  <2>3. CASE Shadowed(id)
    <3>1. /\ profilingOn /\ frame.recorded /\ id \in Sources
          /\ contextStack[id] = Open(t) /\ Recorded(t)
          /\ \A u \in Thread \ {t} : frames[u] = <<>>
      BY <1>6, <2>1, <2>3
    <3>2. ExitSources(frame.name)
      BY <1>4, <3>1
    <3>3. contextStack' = Pop(Sources)
      BY <2>1, <3>1, <3>2 DEF ExitSources
    <3>4. contextStack'[id] = Open(t)'
      BY <1>3, <2>1, <3>1, <3>3
    <3>5. \A u \in Thread : frames'[u] # <<>> => u = t
      BY <1>3, <3>1
    <3>6. Holds(id)'
      <4>1. (\A u \in Thread : frames'[u] = <<>>) => contextStack'[id] = <<>>
        BY <1>3, <3>4
      <4> QED
        BY <1>3, <3>1, <3>4, <3>5, <4>1 DEF Holds
    <3> QED
      BY <2>1, <2>3, <3>6
  <2> QED
    BY <2>2, <2>3
<1>8. CalmInv'
  <2>1. ~raised'
    <3>1. CASE ~frame.recorded /\ profilingOn /\ raised' = (raised \/ Undisturbed)
      <4>1. ~Recorded(t)
        BY <1>3, <3>1
      <4>2. ~Undisturbed
        BY <1>0, <3>1, <4>1 DEF CalmInv
      <4> QED
        BY <1>0, <3>1, <4>2 DEF CalmInv
    <3>2. CASE ExitSources(frame.name)
      <4>1. ASSUME NEW id \in Sources \ balanced PROVE id \in midScope \cup failed
        <5>1. id \in Id
          BY DEF Sources
        <5>2. id \notin failed => Shadowed(id)
          BY <4>1, <5>1, ToldActive
        <5> QED
          BY <1>6, <4>1, <5>1, <5>2
      <4> QED
        BY <1>0, <3>2, <4>1 DEF CalmInv, ExitSources
    <3> QED
      BY <1>0, <1>4, <3>1, <3>2 DEF CalmInv
  <2>2. ASSUME profilingOn', Undisturbed', NEW u \in Thread
        PROVE  Recorded(u)' /\ (launching'[u] => localScopes'[u] > 0)
    <3>1. profilingOn /\ Undisturbed
      BY <1>1, <1>4, <2>2, FrameFacts DEF Undisturbed
    <3>2. Recorded(u) /\ (launching[u] => localScopes[u] > 0)
      BY <1>0, <3>1 DEF CalmInv
    <3>3. Recorded(u)'
      <4>1. CASE u = t
        BY <1>3, <3>2, <4>1
      <4>2. CASE u # t
        BY <1>3, <3>2, <4>2 DEF Recorded
      <4> QED
        BY <4>1, <4>2
    <3> QED
      BY <1>1, <3>2, <3>3
  <2> QED
    BY <2>1, <2>2 DEF CalmInv
<1> QED
  BY <1>5, <1>7, <1>8 DEF ScopeInv

\* Neither scopes nor frames change: what is left to show of an operation.
LEMMA OpKeeps ==
    ASSUME ScopeInv, died = "no", RegistryFrame, UNCHANGED <<contextStack, frames, midScope>>,
           midOp \subseteq midOp', OpInv', ~raised',
           profilingOn /\ Undisturbed =>
              \A u \in Thread : launching'[u] => localScopes'[u] > 0
    PROVE  ScopeInv'
<1>1. OffInv /\ OpInv /\ StackInv /\ CalmInv
  BY DEF ScopeInv
<1>2. OffInv'
  BY <1>1, FrameFacts
<1>3. StackInv'
  <2>1. \A id : Holds(id)' <=> Holds(id)
    BY DEF Holds, Open, Recorded
  <2> QED
    BY <1>1, <2>1, FrameFacts DEF StackInv
<1>4. CalmInv'
  <2>1. ASSUME profilingOn', Undisturbed', NEW u \in Thread
        PROVE  Recorded(u)' /\ (launching'[u] => localScopes'[u] > 0)
    <3>1. profilingOn /\ Undisturbed
      BY <2>1, FrameFacts DEF Undisturbed
    <3>2. Recorded(u)
      BY <1>1, <3>1 DEF CalmInv
    <3> QED
      BY <3>1, <3>2 DEF Recorded
  <2> QED
    BY <2>1 DEF CalmInv
<1> QED
  BY <1>2, <1>3, <1>4 DEF ScopeInv

\* An operation finds none in progress at a data object that has missed
\* nothing, so no metric of it is without a home.
LEMMA EnterOpKeeps ==
    ASSUME SessionInv, died = "no", died' = "no", ScopeInv, RegistryFrame,
           NEW t \in Thread, EnterOp(t)
    PROVE  ScopeInv'
<1>0. OffInv /\ OpInv /\ StackInv /\ CalmInv
  BY DEF ScopeInv
<1>1. /\ ~launching[t] /\ UNCHANGED <<contextStack, frames, midScope>>
      /\ opInProgress \in [Thread -> SUBSET Id]
      /\ launching \in [Thread -> BOOLEAN] /\ localScopes \in [Thread -> Nat]
  BY DEF EnterOp, SessionInv, Types, ProgramType
<1>2. opInProgress[t] \subseteq midOp \cup failed
  BY <1>0, <1>1 DEF OpInv
<1>3. CASE /\ ~profilingOn
           /\ launching' = [launching EXCEPT ![t] = TRUE]
           /\ UNCHANGED <<localScopes, opInProgress, raised, midOp>>
  <2>1. OpInv'
    BY <1>0, <1>1, <1>2, <1>3, FrameFacts DEF OpInv
  <2> QED
    BY <1>0, <1>1, <1>3, <2>1, OpKeeps DEF CalmInv
<1>4. CASE /\ profilingOn
           /\ localScopes' = [localScopes EXCEPT ![t] = @ + 1]
           /\ opInProgress' = [opInProgress EXCEPT ![t] = @ \cup Counted]
           /\ \/ launching' = [launching EXCEPT ![t] = TRUE] /\ UNCHANGED <<raised, midOp>>
              \/ /\ \E id \in Counted \cap opInProgress[t] \cap activeSessions :
                       /\ shadow[id] /\ contextStack[id] = <<>>
                       /\ raised' = (raised \/ id \notin midOp \cup failed)
                 /\ midOp' = midOp \cup Counted
                 /\ UNCHANGED launching
  <2>1. midOp \subseteq midOp' /\ ~raised'
    <3>1. ASSUME NEW id \in Counted \cap opInProgress[t] \cap activeSessions,
                 raised' = (raised \/ id \notin midOp \cup failed)
          PROVE  ~raised'
      BY <1>0, <1>2, <3>1 DEF CalmInv
    <3>2. midOp \subseteq midOp'
      BY <1>4
    <3>3. UNCHANGED raised \/ \E id \in Counted \cap opInProgress[t] \cap activeSessions :
                                  raised' = (raised \/ id \notin midOp \cup failed)
      BY <1>4
    <3> QED
      BY <1>0, <3>1, <3>2, <3>3 DEF CalmInv
  <2>2. /\ \A u \in Thread : launching'[u] => launching[u] \/ u = t
        /\ \A u \in Thread \ {t} : /\ localScopes'[u] = localScopes[u]
                                   /\ opInProgress'[u] = opInProgress[u]
                                   /\ launching'[u] = launching[u]
        /\ localScopes'[t] > 0 /\ opInProgress'[t] = opInProgress[t] \cup Counted
    BY <1>1, <1>4
  <2>3. OpInv'
    <3> SUFFICES ASSUME NEW u \in Thread, NEW id \in opInProgress'[u] \ (midOp' \cup failed')
                 PROVE  launching'[u] /\ id \in activeSessions' /\ localScopes'[u] > 0
      BY DEF OpInv
    <3>1. id \notin midOp \cup failed /\ activeSessions' = activeSessions
      BY <2>1, FrameFacts
    <3>2. CASE u # t
      BY <1>0, <2>2, <3>1, <3>2 DEF OpInv
    <3>3. CASE u = t
      <4>1. id \in Counted /\ id \in Id
        BY <1>2, <2>2, <3>1, <3>3 DEF Counted
      <4>2. id \in activeSessions
        BY <3>1, <4>1, ToldActive
      <4>3. launching'[t]
        BY <1>1, <1>4, <4>1
      <4> QED
        BY <2>2, <3>1, <3>3, <4>2, <4>3
    <3> QED
      BY <3>2, <3>3
  <2>4. profilingOn /\ Undisturbed => \A u \in Thread : launching'[u] => localScopes'[u] > 0
    BY <1>0, <2>2 DEF CalmInv
  <2> QED
    BY <1>1, <2>1, <2>3, <2>4, OpKeeps
<1> QED
  BY <1>3, <1>4 DEF EnterOp

\* A launch that fails leaves the operation in progress, which is noted.
LEMMA LaunchFailsKeeps ==
    ASSUME SessionInv, died = "no", ScopeInv, RegistryFrame, NEW t \in Thread, LaunchFails(t)
    PROVE  ScopeInv'
<1>1. /\ launching' = [launching EXCEPT ![t] = FALSE]
      /\ midOp' = midOp \cup opInProgress[t]
      /\ UNCHANGED <<contextStack, opInProgress, frames, localScopes, raised, midScope>>
      /\ launching \in [Thread -> BOOLEAN]
  BY DEF LaunchFails, SessionInv, Types, ProgramType
<1>2. OpInv /\ CalmInv
  BY DEF ScopeInv
<1>3. OpInv'
  BY <1>1, <1>2, FrameFacts DEF OpInv
<1>4. profilingOn /\ Undisturbed => \A u \in Thread : launching'[u] => localScopes'[u] > 0
  BY <1>1, <1>2 DEF CalmInv
<1> QED
  BY <1>1, <1>2, <1>3, <1>4, OpKeeps DEF CalmInv

LEMMA ExitOpKeeps ==
    ASSUME SessionInv, died = "no", ScopeInv, RegistryFrame, NEW t \in Thread, ExitOp(t)
    PROVE  ScopeInv'
<1>0. OffInv /\ OpInv /\ CalmInv
  BY DEF ScopeInv
<1>1. /\ launching[t] /\ launching' = [launching EXCEPT ![t] = FALSE]
      /\ UNCHANGED <<contextStack, frames, midScope, midOp>>
      /\ launching \in [Thread -> BOOLEAN] /\ localScopes \in [Thread -> Nat]
      /\ opInProgress \in [Thread -> SUBSET Id]
  BY DEF ExitOp, SessionInv, Types, ProgramType
<1>2. ~raised'
  <2>1. \/ UNCHANGED raised
        \/ profilingOn /\ localScopes[t] = 0 /\ raised' = (raised \/ Undisturbed)
    BY DEF ExitOp
  <2>2. profilingOn /\ localScopes[t] = 0 => ~Undisturbed
    BY <1>0, <1>1 DEF CalmInv
  <2> QED
    BY <1>0, <2>1, <2>2 DEF CalmInv
<1>3. \A u \in Thread \ {t} : /\ localScopes'[u] = localScopes[u]
                              /\ opInProgress'[u] = opInProgress[u]
                              /\ launching'[u] = launching[u]
  BY <1>1 DEF ExitOp
<1>4. OpInv'
  <2> SUFFICES ASSUME NEW u \in Thread, NEW id \in opInProgress'[u] \ (midOp' \cup failed')
               PROVE  launching'[u] /\ id \in activeSessions' /\ localScopes'[u] > 0
    BY DEF OpInv
  <2>1. id \notin midOp \cup failed /\ activeSessions' = activeSessions
    BY <1>1, FrameFacts
  <2>2. CASE u # t
    BY <1>0, <1>3, <2>1, <2>2 DEF OpInv
  <2>3. CASE u = t
    <3>1. id \in opInProgress[t] /\ id \in Id
      BY <1>1, <2>3 DEF ExitOp
    <3>2. id \in activeSessions /\ localScopes[t] > 0
      BY <1>0, <2>1, <3>1 DEF OpInv
    <3>3. profilingOn /\ id \in Counted
      BY <1>0, <2>1, <3>1, <3>2, ToldActive DEF OffInv
    <3>4. opInProgress'[t] = opInProgress[t] \ Counted
      BY <1>1, <3>2, <3>3 DEF ExitOp
    <3> QED
      BY <2>3, <3>3, <3>4
  <2> QED
    BY <2>2, <2>3
<1>5. profilingOn /\ Undisturbed => \A u \in Thread : launching'[u] => localScopes'[u] > 0
  BY <1>0, <1>1, <1>3 DEF CalmInv
<1> QED
  BY <1>1, <1>2, <1>4, <1>5, OpKeeps

LEMMA ScopeInit == Init => ScopeInv
<1> SUFFICES ASSUME Init PROVE ScopeInv
  OBVIOUS
<1>1. OffInv /\ OpInv
  BY DEF Init, OffInv, OpInv
<1>2. StackInv
  BY DEF Init, StackInv, Shadowed
<1>3. CalmInv
  BY DEF Init, CalmInv
<1> QED
  BY <1>1, <1>2, <1>3 DEF ScopeInv

LEMMA ScopeNext == SessionInv /\ ScopeInv /\ [Next]_vars => ScopeInv'
<1> SUFFICES ASSUME SessionInv, ScopeInv, [Next]_vars, died' = "no" PROVE ScopeInv'
  BY DEF ScopeInv
<1>1. CASE died = "no" /\ SessionCall
  BY <1>1, SessionCallScopes
<1>2. CASE died = "no" /\ ProgramStep
  <2>1. PICK t \in Thread : \/ \E n \in Name : EnterScope(t, n)
                            \/ ExitScope(t) \/ EnterOp(t) \/ LaunchFails(t) \/ ExitOp(t)
    BY <1>2 DEF ProgramStep
  <2>2. RegistryFrame
    BY <1>2 DEF ProgramStep, RegistryFrame
  <2> QED
    BY <1>2, <2>1, <2>2, EnterScopeKeeps, ExitScopeKeeps, EnterOpKeeps, LaunchFailsKeeps,
       ExitOpKeeps
<1>3. CASE UNCHANGED vars
  <2>1. /\ RegistryFrame /\ died = "no" /\ UNCHANGED <<contextStack, frames, midScope>>
        /\ UNCHANGED <<opInProgress, launching, localScopes, raised, midOp>>
    BY <1>3 DEF vars, RegistryFrame, program
  <2>2. OpInv /\ CalmInv
    BY <2>1 DEF ScopeInv
  <2>3. OpInv'
    BY <2>1, <2>2, FrameFacts DEF OpInv
  <2>4. profilingOn /\ Undisturbed => \A u \in Thread : launching'[u] => localScopes'[u] > 0
    BY <2>1, <2>2 DEF CalmInv
  <2> QED
    BY <2>1, <2>2, <2>3, <2>4, OpKeeps DEF CalmInv
<1> QED
  BY <1>1, <1>2, <1>3 DEF Next

\* Whatever threads do and however sessions come and go, inside scopes and
\* operations too: the stack of an active session that has missed neither end
\* of a scope is that of the open scopes, leaving them does not raise for it,
\* and no operation outlives its end at a data object that has missed neither
\* end of one (scope.__exit__, OpInterface::exitOp).
THEOREM ScopesAreMatched == Spec => []ScopesMatched
<1>1. SessionInv /\ ScopeInv => ScopesMatched
  <2> SUFFICES ASSUME SessionInv, ScopeInv PROVE ScopesMatched
    OBVIOUS
  <2>1. TypeOK
    BY TypeParts DEF SessionInv
  <2>2. ASSUME died = "no" PROVE OpsEnd
    BY <2>2 DEF ScopeInv, OpInv, OpsEnd
  <2>3. ASSUME died = "no" PROVE ScopesShadowed
    <3>1. activeSessions \subseteq Id /\ StackInv /\ CalmInv
      BY <2>3 DEF SessionInv, Types, CountersType, ScopeInv
    <3>2. ASSUME NEW id \in activeSessions \ (midScope \cup failed), shadow[id] PROVE Holds(id)
      BY <3>1, <3>2 DEF StackInv, Shadowed
    <3> QED
      BY <3>1, <3>2 DEF Holds, CalmInv, ScopesShadowed
  <2> QED
    BY <2>1, <2>2, <2>3 DEF ScopesMatched
<1> QED
  BY <1>1, ScopeInit, ScopeNext, SessionInvAlways, PTL DEF Spec

-----------------------------------------------------------------------------
(* THE PROFILER. *)

In(e, s) == \E i \in 1..Len(s) : s[i] = e
Distinct(s) == \A i, j \in 1..Len(s) : s[i] = s[j] => i = j

\* Where a launch is: its kernel is not enqueued yet, its record is not handed
\* over yet, or the buffer callback is at it.
Waiting(c) == \E t \in Launcher : call[t].corr = c /\ call[t].at \in {"runtime", "driver"}
Enqueued(c) == \E s \in Stream : In(c, kernels[s])
Adding(c) == buffer.at = "addMetric" /\ buffer.corr = c

-----------------------------------------------------------------------------
(* The inductive invariant. *)

Launch == [scope : Scope, external : Scope, submitted : BOOLEAN]
RecordTypes ==
    /\ driver \in Drivers /\ missed \in BOOLEAN
    /\ launch \in [Launched -> Launch]
    /\ Launched = 1..Cardinality(Launched)
    /\ call \in [Launcher -> [at : {"idle", "runtime", "driver", "enqueued", "returned"},
                              corr : 0..MaxLaunches]]
    /\ buffer \in [at : {"idle", "addMetric"}, corr : 0..MaxLaunches, max : 0..MaxLaunches,
                   visited : SUBSET Data, adding : SUBSET Data]
    /\ user \in [at : {"idle", "flush", "retry", "forced", "flushed"}, data : SUBSET Data,
                 retries : Nat, submitted : 0..MaxLaunches, due : SUBSET Corr]

\* Each launch a thread is in is one of its own.
CallInv ==
    /\ \A t \in Launcher : call[t].at # "idle" => call[t].corr \in Launched
    /\ \A t, u \in Launcher :
           call[t].at # "idle" /\ call[u].at # "idle" /\ call[t].corr = call[u].corr => t = u
    /\ \A t \in Launcher : call[t].at \in {"runtime", "returned"} => driver.nested

\* No more scopes have been given out than callbacks have been entered.
Runtimes == {c \in Launched : \E t \in Launcher : call[t].corr = c /\ call[t].at = "runtime"}
CounterInv == scopeIdCounter + Cardinality(Runtimes) <= 1 + 2 * Cardinality(Launched)

\* A kernel's record is in one place, or has been processed.
PlaceInv ==
    /\ \A s \in Stream : Distinct(kernels[s])
    /\ \A r, s \in Stream, c \in Corr : In(c, kernels[r]) /\ In(c, kernels[s]) => r = s
    /\ \A c \in Corr : Enqueued(c) => /\ c \in Launched /\ c \notin processed
                                      /\ ~Waiting(c) /\ ~Adding(c)
    /\ \A c \in Corr : Waiting(c) => c \notin processed /\ ~Adding(c)
    /\ buffer.at = "addMetric" => buffer.corr \in Launched /\ buffer.corr \notin processed
    /\ buffer.at = "idle" => buffer.corr \in processed \cup {0}
    /\ buffer.adding # {} => buffer.at = "addMetric"
    /\ buffer.adding \subseteq buffer.visited

\* A correlation is that of the launch; with its record handed over first it
\* is there when its kernel's comes, and gone afterwards.
CorrelationInv ==
    /\ buffer.at = "addMetric" => buffer.corr \in DOMAIN corrIdToExternId
    /\ \A c \in Corr : In(c, external) => c \in Launched /\ ~Waiting(c)
    /\ driver.externalFirst =>
           /\ \A c \in Corr : In(c, external) => c \notin processed /\ ~Adding(c)
           /\ DOMAIN corrIdToExternId \cap processed = {}
    /\ \A c \in DOMAIN corrIdToExternId : ~Waiting(c) =>
           corrIdToExternId[c] = launch[c].external
    /\ \A c \in DOMAIN corrIdToExternId : Waiting(c) => driver.backend # "cupti"
    /\ \A t \in Launcher :
           /\ profilerState[t].isRecording => externIds[t] # <<>>
           /\ call[t].at = "driver" /\ call[t].corr \in DOMAIN corrIdToExternId =>
                  /\ externIds[t] # <<>>
                  /\ corrIdToExternId[call[t].corr] = externIds[t][Len(externIds[t])]

\* A thread whose callbacks were all delivered has pushed the scope of the
\* launch it is in, and nothing else.
CleanInv ==
    ~missed /\ ~driver.nested => \A t \in Launcher :
        /\ call[t].at = "idle" =>
               externIds[t] = <<>> /\ inProgress[t] = {} /\ ~profilerState[t].isRecording
        /\ call[t].at # "idle" =>
               /\ externIds[t] = <<profilerState[t].scope>>
               /\ inProgress[t] = profilerState[t].dataSet
               /\ profilerState[t].isRecording
               /\ launch[call[t].corr].scope = profilerState[t].scope

\* What is known of a launch until its record is processed.
AwaitedInv ==
    /\ \A c \in Launched : c \notin processed => watchers[c] \subseteq registered
    /\ ~missed /\ ~driver.nested => \A c \in Launched :
           /\ \A d \in watchers[c] : launch[c].scope \in known[d]
           /\ ~Waiting(c) => launch[c].external = launch[c].scope
           /\ c \notin processed /\ ~Waiting(c) =>
                  In(c, external) \/ c \in DOMAIN corrIdToExternId
           /\ Waiting(c) /\ driver.backend # "cupti" => c \in DOMAIN corrIdToExternId

\* The launches counted at a scope of a data object, or left out.
CountedIn(d, s) ==
    {c \in Launched : /\ launch[c].external = s
                      /\ \/ c \in processed
                         \/ Adding(c) /\ d \in buffer.visited \ buffer.adding}
CountInv ==
    /\ \A d \in Data, s \in Scope : metrics[d][s] <= Cardinality(CountedIn(d, s))
    /\ EveryLaunchCounted
    /\ ~missed /\ driver.externalFirst /\ ~driver.nested /\ buffer.at = "addMetric" =>
           \A d \in watchers[buffer.corr] \cap (buffer.visited \ buffer.adding) :
               metrics[d][launch[buffer.corr].scope] >= 1

FlushInv == driver.backend = "cupti" /\ user.at = "flushed" => user.due \subseteq processed

ProfilerInv ==
    /\ ProfilerTypeOK /\ RecordTypes /\ CallInv /\ CounterInv /\ PlaceInv
    /\ CorrelationInv /\ CleanInv /\ AwaitedInv /\ CountInv /\ FlushInv

-----------------------------------------------------------------------------
(* Sequences and counting. *)

\* What is appended is in the sequence, with what was.
LEMMA InAppend ==
    ASSUME NEW S, NEW s \in Seq(S), NEW e \in S, NEW x
    PROVE  In(x, Append(s, e)) <=> In(x, s) \/ x = e
<1>1. /\ Append(s, e) \in Seq(S) /\ Len(Append(s, e)) = Len(s) + 1
      /\ Append(s, e)[Len(s) + 1] = e
      /\ \A i \in 1..Len(s) : Append(s, e)[i] = s[i]
  OBVIOUS
<1> QED
  BY <1>1 DEF In

\* Something new is appended to a sequence without repetition.
LEMMA DistinctAppend ==
    ASSUME NEW S, NEW s \in Seq(S), NEW e \in S, Distinct(s), ~In(e, s)
    PROVE  Distinct(Append(s, e))
<1>1. /\ Append(s, e) \in Seq(S) /\ Len(Append(s, e)) = Len(s) + 1
      /\ Append(s, e)[Len(s) + 1] = e
      /\ \A i \in 1..Len(s) : Append(s, e)[i] = s[i]
  OBVIOUS
<1> QED
  BY <1>1 DEF In, Distinct

\* A sequence is its head and its tail.
LEMMA InTail ==
    ASSUME NEW S, NEW s \in Seq(S), s # <<>>
    PROVE  /\ Head(s) \in S /\ Tail(s) \in Seq(S)
           /\ \A x : In(x, s) <=> In(x, Tail(s)) \/ x = Head(s)
           /\ Distinct(s) => Distinct(Tail(s)) /\ ~In(Head(s), Tail(s))
<1>1. /\ Head(s) \in S /\ Tail(s) \in Seq(S) /\ Head(s) = s[1]
      /\ Len(s) \in Nat /\ Len(s) > 0 /\ Len(Tail(s)) = Len(s) - 1
      /\ \A i \in 1..Len(Tail(s)) : Tail(s)[i] = s[i + 1]
  OBVIOUS
<1>2. ASSUME NEW x
      PROVE  In(x, s) <=> In(x, Tail(s)) \/ x = Head(s)
  <2>1. ASSUME In(x, s), x # Head(s)
        PROVE  In(x, Tail(s))
    <3>1. PICK i \in 1..Len(s) : s[i] = x
      BY <2>1 DEF In
    <3>2. i - 1 \in 1..Len(Tail(s)) /\ Tail(s)[i - 1] = x
      BY <1>1, <2>1, <3>1
    <3> QED
      BY <3>2 DEF In
  <2>2. ASSUME In(x, Tail(s))
        PROVE  In(x, s)
    <3>1. PICK i \in 1..Len(Tail(s)) : Tail(s)[i] = x
      BY <2>2 DEF In
    <3>2. i + 1 \in 1..Len(s) /\ s[i + 1] = x
      BY <1>1, <3>1
    <3> QED
      BY <3>2 DEF In
  <2>3. In(Head(s), s)
    BY <1>1 DEF In
  <2> QED
    BY <2>1, <2>2, <2>3
<1>3. ASSUME Distinct(s)
      PROVE  Distinct(Tail(s)) /\ ~In(Head(s), Tail(s))
  <2>1. ASSUME NEW i \in 1..Len(Tail(s)), NEW j \in 1..Len(Tail(s)), Tail(s)[i] = Tail(s)[j]
        PROVE  i = j
    <3>1. i + 1 \in 1..Len(s) /\ j + 1 \in 1..Len(s) /\ s[i + 1] = s[j + 1]
      BY <1>1, <2>1
    <3> QED
      BY <1>3, <3>1 DEF Distinct
  <2>2. ASSUME NEW i \in 1..Len(Tail(s)), Tail(s)[i] = Head(s)
        PROVE  FALSE
    <3>1. 1 \in 1..Len(s) /\ i + 1 \in 1..Len(s) /\ s[i + 1] = s[1]
      BY <1>1, <2>2
    <3> QED
      BY <1>3, <3>1 DEF Distinct
  <2> QED
    BY <2>1, <2>2 DEF Distinct, In
<1> QED
  BY <1>1, <1>2, <1>3

\* The launches can be counted, and their number is the last launch's.
LEMMA LaunchesFinite ==
    ASSUME ProfilerTypeOK, RecordTypes
    PROVE  /\ IsFiniteSet(Launched) /\ Cardinality(Launched) \in Nat
           /\ Cardinality(Launched) <= MaxLaunches
           /\ \A S \in SUBSET Launched : IsFiniteSet(S) /\ Cardinality(S) \in Nat
<1>1. IsFiniteSet(Corr) /\ Launched \subseteq Corr
  BY LaunchesAssumption, FS_Interval DEF Corr, ProfilerTypeOK
<1>2. IsFiniteSet(Launched) /\ Cardinality(Launched) \in Nat
  BY <1>1, FS_Subset, FS_CardinalityType
<1>3. Cardinality(Launched) <= MaxLaunches
  <2>1. Cardinality(Launched) > 0 => Cardinality(Launched) \in 1..MaxLaunches
    BY <1>1, <1>2 DEF RecordTypes, Corr
  <2> QED
    BY <1>2, <2>1, LaunchesAssumption
<1>4. \A S \in SUBSET Launched : IsFiniteSet(S) /\ Cardinality(S) \in Nat
  BY <1>2, FS_Subset, FS_CardinalityType
<1> QED
  BY <1>2, <1>3, <1>4

\* The sets the invariant counts are sets of launches.
LEMMA CountsFinite ==
    ASSUME ProfilerTypeOK, RecordTypes
    PROVE  /\ IsFiniteSet(Runtimes) /\ Cardinality(Runtimes) \in Nat
           /\ \A d, s : IsFiniteSet(CountedIn(d, s)) /\ Cardinality(CountedIn(d, s)) \in Nat
BY LaunchesFinite DEF Runtimes, CountedIn

\* The invariant implies the property.
LEMMA InvImpliesCounted == ProfilerInv => LaunchesCountedOnce
<1> SUFFICES ASSUME ProfilerInv
             PROVE  LaunchesCountedOnce
  OBVIOUS
<1> USE DEF ProfilerInv
<1>1. NoneCountedTwice
  <2> SUFFICES ASSUME NEW d \in Data, NEW s \in Scope
               PROVE  metrics[d][s] <= Cardinality({c \in Launched :
                          launch[c].external = s /\ c \in processed \cup {buffer.corr}})
    BY DEF NoneCountedTwice
  <2> DEFINE upTo == {c \in Launched :
                          launch[c].external = s /\ c \in processed \cup {buffer.corr}}
  <2>1. CountedIn(d, s) \subseteq upTo /\ upTo \subseteq Launched
    BY DEF CountedIn, Adding
  <2>2. IsFiniteSet(upTo) /\ Cardinality(upTo) \in Nat
    BY <2>1, LaunchesFinite
  <2>3. Cardinality(CountedIn(d, s)) <= Cardinality(upTo)
    BY <2>1, <2>2, FS_Subset
  <2>4. metrics[d][s] <= Cardinality(CountedIn(d, s)) /\ metrics[d][s] \in Nat
    BY DEF CountInv, ProfilerTypeOK
  <2> QED
    BY <2>2, <2>3, <2>4, CountsFinite
<1>2. IdleIsClean
  BY DEF CleanInv, IdleIsClean
<1>3. CorrelationsAwaited
  BY DEF CorrelationInv, CorrelationsAwaited
<1>4. FlushReportsSubmitted
  BY DEF FlushInv, FlushReportsSubmitted
<1> QED
  BY <1>1, <1>2, <1>3, <1>4 DEF CountInv, LaunchesCountedOnce

\* The invariant holds initially.
LEMMA InvInit == ProfilerInit => ProfilerInv
<1> SUFFICES ASSUME ProfilerInit
             PROVE  ProfilerInv
  OBVIOUS
<1> USE DEF ProfilerInit
<1>0. MaxLaunches \in Nat /\ Launched = {} /\ Cardinality(Launched) = 0 /\ 0 \in Scope
  BY LaunchesAssumption, FS_EmptySet DEF Launched, Scope
<1>1. ProfilerTypeOK
  <2>1. corrIdToExternId = <<>> /\ DOMAIN corrIdToExternId = {}
    OBVIOUS
  <2>2. external \in Seq(Corr) /\ kernels \in [Stream -> Seq(Corr)]
        /\ externIds \in [Launcher -> Seq(Scope)]
    OBVIOUS
  <2>3. scopeIdCounter \in 1..2 * MaxLaunches + 1
    BY <1>0
  <2>4. profilerState \in [Launcher -> [scope : Scope, dataSet : SUBSET Data,
                                       isRecording : BOOLEAN]]
    BY <1>0 DEF Dummy
  <2>5. known \in [Data -> SUBSET Scope] /\ metrics \in [Data -> [Scope -> Nat]]
    OBVIOUS
  <2>6. maxSubmitted \in 0..MaxLaunches /\ maxCompleted \in 0..MaxLaunches
    BY <1>0
  <2> QED
    BY <1>0, <2>1, <2>2, <2>3, <2>4, <2>5, <2>6 DEF ProfilerTypeOK
<1>2. RecordTypes
  <2>1. launch \in [Launched -> Launch]
    BY <1>0 DEF Launched
  <2>2. Launched = 1..Cardinality(Launched)
    BY <1>0
  <2>3. call \in [Launcher -> [at : {"idle", "runtime", "driver", "enqueued", "returned"},
                              corr : 0..MaxLaunches]]
    BY <1>0
  <2>4. buffer \in [at : {"idle", "addMetric"}, corr : 0..MaxLaunches, max : 0..MaxLaunches,
                   visited : SUBSET Data, adding : SUBSET Data]
    BY <1>0
  <2>5. user \in [at : {"idle", "flush", "retry", "forced", "flushed"}, data : SUBSET Data,
                 retries : Nat, submitted : 0..MaxLaunches, due : SUBSET Corr]
    BY <1>0
  <2> QED
    BY <2>1, <2>2, <2>3, <2>4, <2>5 DEF RecordTypes
<1>3. CallInv
  BY DEF CallInv
<1>4. CounterInv
  <2>1. Runtimes = {}
    BY DEF Runtimes
  <2> QED
    BY <1>0, <2>1, FS_EmptySet DEF CounterInv
<1>5. PlaceInv
  BY DEF PlaceInv, Enqueued, Waiting, In, Distinct
<1>6. CorrelationInv
  BY DEF CorrelationInv, In, Waiting
<1>7. CleanInv
  BY DEF CleanInv
<1>8. AwaitedInv
  BY <1>0 DEF AwaitedInv
<1>9. CountInv
  <2>1. \A d \in Data, s \in Scope : metrics[d][s] = 0
    OBVIOUS
  <2>2. \A d, s : Cardinality(CountedIn(d, s)) \in Nat
    BY <1>1, <1>2, CountsFinite
  <2>3. EveryLaunchCounted
    BY DEF EveryLaunchCounted
  <2> QED
    BY <2>1, <2>2, <2>3 DEF CountInv
<1>10. FlushInv
  BY DEF FlushInv
<1> QED
  BY <1>1, <1>2, <1>3, <1>4, <1>5, <1>6, <1>7, <1>8, <1>9, <1>10 DEF ProfilerInv

-----------------------------------------------------------------------------
(* The user's thread. *)

\* The user's thread changes what is registered and who waits for a launch, no
\* more; the invariant asks little of that.
LEMMA UserKeeps ==
    ASSUME ProfilerInv, UNCHANGED Others,
           registered' \subseteq Data, initialized' \in BOOLEAN,
           session' \in [Data -> {"new", "open", "destroyed"}],
           user' \in [at : {"idle", "flush", "retry", "forced", "flushed"}, data : SUBSET Data,
                      retries : Nat, submitted : 0..MaxLaunches, due : SUBSET Corr],
           watchers' \in [Corr -> SUBSET Data],
           \A c \in Corr : /\ watchers'[c] \subseteq watchers[c]
                           /\ c \in processed => watchers'[c] = watchers[c],
           \A c \in Launched : c \notin processed => watchers'[c] \subseteq registered',
           FlushInv'
    PROVE  ProfilerInv'
<1> USE DEF Others, threadVars, recordVars
<1>0. /\ Launched' = Launched
      /\ \A c : (Waiting(c)' <=> Waiting(c)) /\ (Adding(c)' <=> Adding(c))
      /\ \A c : Enqueued(c)' <=> Enqueued(c)
  BY DEF Launched, Waiting, Adding, Enqueued
<1>1. ProfilerTypeOK'
  <2>1. ProfilerTypeOK
    BY DEF ProfilerInv
  <2> QED
    BY <1>0, <2>1 DEF ProfilerTypeOK
<1>2. RecordTypes'
  <2>1. RecordTypes
    BY DEF ProfilerInv
  <2> QED
    BY <1>0, <2>1 DEF RecordTypes
<1>3. CallInv'
  BY <1>0 DEF ProfilerInv, CallInv
<1>4. CounterInv'
  <2>1. Runtimes' = Runtimes
    BY <1>0 DEF Runtimes
  <2> QED
    BY <1>0, <2>1 DEF ProfilerInv, CounterInv
<1>5. PlaceInv'
  BY <1>0 DEF ProfilerInv, PlaceInv
<1>6. CorrelationInv'
  BY <1>0 DEF ProfilerInv, CorrelationInv
<1>7. CleanInv'
  BY DEF ProfilerInv, CleanInv
<1>8. AwaitedInv'
  BY <1>0 DEF ProfilerInv, AwaitedInv, ProfilerTypeOK
<1>9. CountInv'
  <2>1. \A d, s : CountedIn(d, s)' = CountedIn(d, s)
    BY <1>0 DEF CountedIn
  <2>2. processed \subseteq Corr /\ (buffer.at = "addMetric" => buffer.corr \in Corr)
    BY DEF ProfilerInv, PlaceInv, ProfilerTypeOK
  <2>3. EveryLaunchCounted'
    BY <2>2 DEF ProfilerInv, CountInv, EveryLaunchCounted
  <2>4. \A d \in Data, s \in Scope : metrics'[d][s] <= Cardinality(CountedIn(d, s)')
    BY <2>1 DEF ProfilerInv, CountInv
  <2>5. (~missed /\ driver.externalFirst /\ ~driver.nested /\ buffer.at = "addMetric" =>
           \A d \in watchers[buffer.corr] \cap (buffer.visited \ buffer.adding) :
               metrics[d][launch[buffer.corr].scope] >= 1)'
    BY <2>2 DEF ProfilerInv, CountInv
  <2> QED
    BY <2>3, <2>4, <2>5 DEF CountInv
<1> QED
  BY <1>1, <1>2, <1>3, <1>4, <1>5, <1>6, <1>7, <1>8, <1>9 DEF ProfilerInv

\* Each step of the user's thread keeps the invariant.
LEMMA UserStepKeeps == ProfilerInv /\ UserStep => ProfilerInv'
<1> SUFFICES ASSUME ProfilerInv, UserStep
             PROVE  ProfilerInv'
  OBVIOUS
<1>1. /\ registered \subseteq Data /\ initialized \in BOOLEAN
      /\ session \in [Data -> {"new", "open", "destroyed"}]
      /\ watchers \in [Corr -> SUBSET Data] /\ Launched \subseteq Corr
      /\ maxSubmitted \in 0..MaxLaunches
  BY DEF ProfilerInv, ProfilerTypeOK
<1>2. user \in [at : {"idle", "flush", "retry", "forced", "flushed"}, data : SUBSET Data,
                retries : Nat, submitted : 0..MaxLaunches, due : SUBSET Corr]
  BY DEF ProfilerInv, RecordTypes
<1>3. \A c \in Launched : c \notin processed => watchers[c] \subseteq registered
  BY DEF ProfilerInv, AwaitedInv
<1>4. MaxRetries \in Nat
  BY LaunchesAssumption
<1>5. FlushInv
  BY DEF ProfilerInv
<1>6. ASSUME NEW d \in Data, ActivateData(d)
      PROVE  ProfilerInv'
  <2>1. UNCHANGED <<user, watchers>> /\ UNCHANGED Others /\ FlushInv'
    BY <1>5, <1>6 DEF ActivateData, FlushInv, Others
  <2>2. /\ registered' = registered \cup {d} /\ initialized' \in BOOLEAN
        /\ session' \in [Data -> {"new", "open", "destroyed"}]
    BY <1>1, <1>6 DEF ActivateData
  <2> QED
    BY <1>1, <1>2, <1>3, <2>1, <2>2, UserKeeps
<1>7. ASSUME NEW d \in Data, BeginFlush(d)
      PROVE  ProfilerInv'
  <2>1. UNCHANGED <<registered, initialized, session, watchers>> /\ UNCHANGED Others
    BY <1>7 DEF BeginFlush, registrationVars, Others
  <2>2. /\ user' \in [at : {"idle", "flush", "retry", "forced", "flushed"}, data : SUBSET Data,
                retries : Nat, submitted : 0..MaxLaunches, due : SUBSET Corr]
        /\ user'.at = "flush"
    BY <1>2, <1>4, <1>7 DEF BeginFlush
  <2>3. FlushInv'
    BY <2>2 DEF FlushInv
  <2> QED
    BY <1>1, <1>3, <2>1, <2>2, <2>3, UserKeeps
<1>8. ASSUME NEW d \in Data, FinalizeData(d)
      PROVE  ProfilerInv'
  <2>1. UNCHANGED <<registered, user, watchers>> /\ UNCHANGED Others /\ FlushInv'
    BY <1>5, <1>8 DEF FinalizeData, FlushInv, Others
  <2>2. initialized' \in BOOLEAN /\ session' \in [Data -> {"new", "open", "destroyed"}]
    BY <1>1, <1>8 DEF FinalizeData
  <2> QED
    BY <1>1, <1>2, <1>3, <2>1, <2>2, UserKeeps
<1>9. ASSUME FlushStep
      PROVE  ProfilerInv'
  <2>1. UNCHANGED <<registered, initialized, session, watchers>> /\ UNCHANGED Others
    BY <1>9 DEF FlushStep, LoadSubmitted, Retry, EndFlush, Forced, registrationVars, Others
  <2>2. /\ user' \in [at : {"idle", "flush", "retry", "forced", "flushed"}, data : SUBSET Data,
                retries : Nat, submitted : 0..MaxLaunches, due : SUBSET Corr]
        /\ user'.at = "flushed" /\ driver.backend = "cupti" => user'.due \subseteq processed
    <3>1. CASE LoadSubmitted
      BY <1>1, <1>2, <3>1 DEF LoadSubmitted
    <3>2. CASE Retry
      BY <1>2, <3>2 DEF Retry
    <3>3. CASE EndFlush
      BY <1>2, <3>3 DEF EndFlush
    <3>4. CASE Forced
      BY <1>2, <3>4 DEF Forced
    <3> QED
      BY <1>9, <3>1, <3>2, <3>3, <3>4 DEF FlushStep
  <2>3. FlushInv'
    BY <2>1, <2>2 DEF FlushInv, Others
  <2> QED
    BY <1>1, <1>3, <2>1, <2>2, <2>3, UserKeeps
<1>10. ASSUME Unregister
       PROVE  ProfilerInv'
  <2>1. UNCHANGED <<initialized, session>> /\ UNCHANGED Others
    BY <1>10 DEF Unregister, Others
  <2>2. /\ user' \in [at : {"idle", "flush", "retry", "forced", "flushed"}, data : SUBSET Data,
                retries : Nat, submitted : 0..MaxLaunches, due : SUBSET Corr]
        /\ user'.at = "idle"
    <3>1. user' = [user EXCEPT !.at = "idle", !.data = {}, !.submitted = 0, !.due = {}]
      BY <1>10 DEF Unregister
    <3>2. 0 \in 0..MaxLaunches
      BY LaunchesAssumption
    <3> QED
      BY <1>2, <3>1, <3>2
  <2>3. FlushInv'
    BY <2>2 DEF FlushInv
  <2>4. /\ registered' = registered \ user.data
        /\ watchers' = [c \in Corr |-> IF c \in processed THEN watchers[c]
                                       ELSE watchers[c] \ user.data]
    BY <1>10 DEF Unregister
  <2>5. /\ watchers' \in [Corr -> SUBSET Data]
        /\ \A c \in Corr : /\ watchers'[c] \subseteq watchers[c]
                           /\ c \in processed => watchers'[c] = watchers[c]
        /\ \A c \in Launched : c \notin processed => watchers'[c] \subseteq registered'
    BY <1>1, <1>3, <2>4
  <2>6. registered' \subseteq Data
    BY <1>1, <2>4
  <2> QED
    BY <1>1, <2>1, <2>2, <2>3, <2>5, <2>6, UserKeeps
<1> QED
  BY <1>6, <1>7, <1>8, <1>9, <1>10 DEF UserStep

-----------------------------------------------------------------------------
(* The buffer callback. *)

BufferFrame == <<registrationVars, threadVars, known, maxSubmitted, call, user, launch,
                 watchers, missed>>

\* What the buffer callback leaves alone.
LEMMA BufferKeeps ==
    ASSUME ProfilerInv, UNCHANGED BufferFrame, processed \subseteq processed'
    PROVE  /\ Launched' = Launched /\ \A c : Waiting(c)' <=> Waiting(c)
           /\ CallInv' /\ CounterInv' /\ CleanInv' /\ FlushInv'
<1> USE DEF BufferFrame, registrationVars, threadVars
<1>0. Launched' = Launched /\ \A c : Waiting(c)' <=> Waiting(c)
  BY DEF Launched, Waiting
<1>1. CallInv'
  BY <1>0 DEF ProfilerInv, CallInv
<1>2. CounterInv'
  <2>1. Runtimes' = Runtimes
    BY <1>0 DEF Runtimes
  <2> QED
    BY <1>0, <2>1 DEF ProfilerInv, CounterInv
<1>3. CleanInv'
  BY DEF ProfilerInv, CleanInv
<1>4. FlushInv'
  BY DEF ProfilerInv, FlushInv
<1> QED
  BY <1>0, <1>1, <1>2, <1>3, <1>4

\* The types, whatever a step of the buffer callback does to the records.
LEMMA BufferTypes ==
    ASSUME ProfilerInv, UNCHANGED BufferFrame,
           processed' \subseteq Launched,
           DOMAIN corrIdToExternId' \subseteq Launched,
           \A c \in DOMAIN corrIdToExternId' : corrIdToExternId'[c] \in Scope,
           maxCompleted' \in 0..MaxLaunches,
           metrics' \in [Data -> [Scope -> Nat]],
           external' \in Seq(Corr), kernels' \in [Stream -> Seq(Corr)],
           buffer' \in [at : {"idle", "addMetric"}, corr : 0..MaxLaunches, max : 0..MaxLaunches,
                        visited : SUBSET Data, adding : SUBSET Data]
    PROVE  ProfilerTypeOK' /\ RecordTypes'
<1> USE DEF BufferFrame, registrationVars, threadVars
<1>0. Launched' = Launched
  BY DEF Launched
<1>1. ProfilerTypeOK'
  <2>1. ProfilerTypeOK
    BY DEF ProfilerInv
  <2> QED
    BY <1>0, <2>1 DEF ProfilerTypeOK
<1>2. RecordTypes'
  <2>1. RecordTypes
    BY DEF ProfilerInv
  <2> QED
    BY <1>0, <2>1 DEF RecordTypes
<1> QED
  BY <1>1, <1>2

\* What is counted stays counted: the launches counted at a scope do not get
\* fewer, and the metrics stay the same.
LEMMA CountsKept ==
    ASSUME ProfilerInv, ProfilerTypeOK', RecordTypes', metrics' = metrics,
           \A d \in Data, s \in Scope : CountedIn(d, s) \subseteq CountedIn(d, s)'
    PROVE  \A d \in Data, s \in Scope : metrics'[d][s] <= Cardinality(CountedIn(d, s)')
<1> SUFFICES ASSUME NEW d \in Data, NEW s \in Scope
             PROVE  metrics'[d][s] <= Cardinality(CountedIn(d, s)')
  OBVIOUS
<1>1. metrics[d][s] <= Cardinality(CountedIn(d, s)) /\ metrics[d][s] \in Nat
  BY DEF ProfilerInv, CountInv, ProfilerTypeOK
<1>2. Cardinality(CountedIn(d, s)) \in Nat
  BY CountsFinite DEF ProfilerInv
<1>3. Launched' \subseteq Corr /\ CountedIn(d, s)' \subseteq Launched'
  BY DEF ProfilerTypeOK, CountedIn
<1>4. IsFiniteSet(CountedIn(d, s)') /\ Cardinality(CountedIn(d, s)') \in Nat
  <2>1. IsFiniteSet(Corr)
    BY LaunchesAssumption, FS_Interval DEF Corr
  <2> QED
    BY <1>3, <2>1, FS_Subset, FS_CardinalityType
<1>5. Cardinality(CountedIn(d, s)) <= Cardinality(CountedIn(d, s)')
  BY <1>4, FS_Subset
<1> QED
  BY <1>1, <1>2, <1>4, <1>5

\* The end of a buffer.
LEMMA CompleteKeeps == ProfilerInv /\ CompleteBuffer => ProfilerInv'
<1> SUFFICES ASSUME ProfilerInv, CompleteBuffer
             PROVE  ProfilerInv'
  OBVIOUS
<1>1. UNCHANGED <<BufferFrame, metrics, corrIdToExternId, external, kernels, processed>>
  BY DEF CompleteBuffer, BufferFrame, recordVars, historyVars
<1>2. /\ buffer' = [buffer EXCEPT !.max = 0]
      /\ maxCompleted' = AtomicMax(maxCompleted, buffer.max)
  BY DEF CompleteBuffer
<1>3. buffer \in [at : {"idle", "addMetric"}, corr : 0..MaxLaunches, max : 0..MaxLaunches,
                  visited : SUBSET Data, adding : SUBSET Data]
  BY DEF ProfilerInv, RecordTypes
<1>4. /\ buffer'.at = buffer.at /\ buffer'.corr = buffer.corr
      /\ buffer'.visited = buffer.visited /\ buffer'.adding = buffer.adding
  BY <1>2, <1>3
<1>5. /\ Launched' = Launched /\ \A c : Waiting(c)' <=> Waiting(c)
      /\ CallInv' /\ CounterInv' /\ CleanInv' /\ FlushInv'
  BY <1>1, BufferKeeps
<1>6. ProfilerTypeOK' /\ RecordTypes'
  <2>1. ProfilerTypeOK
    BY DEF ProfilerInv
  <2>2. maxCompleted' \in 0..MaxLaunches
    BY <1>2, <1>3, <2>1 DEF ProfilerTypeOK, AtomicMax
  <2>3. buffer' \in [at : {"idle", "addMetric"}, corr : 0..MaxLaunches, max : 0..MaxLaunches,
                     visited : SUBSET Data, adding : SUBSET Data]
    <3>1. 0 \in 0..MaxLaunches
      BY LaunchesAssumption
    <3> QED
      BY <1>2, <1>3, <3>1
  <2> QED
    BY <1>1, <2>1, <2>2, <2>3, BufferTypes DEF ProfilerTypeOK
<1>7. \A c : (Adding(c)' <=> Adding(c)) /\ (Enqueued(c)' <=> Enqueued(c))
  BY <1>1, <1>4 DEF Adding, Enqueued
<1>8. PlaceInv'
  BY <1>1, <1>4, <1>5, <1>7 DEF ProfilerInv, PlaceInv
<1>9. CorrelationInv'
  BY <1>1, <1>4, <1>5, <1>7 DEF ProfilerInv, CorrelationInv, BufferFrame, registrationVars, threadVars
<1>10. AwaitedInv'
  BY <1>1, <1>5 DEF ProfilerInv, AwaitedInv, BufferFrame, registrationVars
<1>11. CountInv'
  <2>1. \A d, s : CountedIn(d, s)' = CountedIn(d, s)
    BY <1>1, <1>4, <1>5, <1>7 DEF CountedIn, BufferFrame
  <2>2. \A d \in Data, s \in Scope : metrics'[d][s] <= Cardinality(CountedIn(d, s)')
    BY <1>1, <2>1 DEF ProfilerInv, CountInv
  <2>3. EveryLaunchCounted'
    BY <1>1 DEF ProfilerInv, CountInv, EveryLaunchCounted, BufferFrame, registrationVars
  <2> QED
    BY <1>1, <1>4, <2>2, <2>3 DEF ProfilerInv, CountInv, BufferFrame, registrationVars
<1> QED
  BY <1>5, <1>6, <1>8, <1>9, <1>10, <1>11 DEF ProfilerInv

\* A data object is chosen: none that was chosen for this record before.
LEMMA SelectKeeps == ProfilerInv /\ (\E d \in Data : SelectData(d)) => ProfilerInv'
<1> SUFFICES ASSUME ProfilerInv, NEW e \in Data, SelectData(e)
             PROVE  ProfilerInv'
  OBVIOUS
<1>1. UNCHANGED <<BufferFrame, metrics, corrIdToExternId, external, kernels, processed,
                  maxCompleted>>
  BY DEF SelectData, BufferFrame, recordVars, historyVars
<1>2. /\ buffer' = [buffer EXCEPT !.adding = {e}, !.visited = @ \cup {e}]
      /\ buffer.at = "addMetric" /\ buffer.adding = {} /\ e \notin buffer.visited
  BY DEF SelectData
<1>3. buffer \in [at : {"idle", "addMetric"}, corr : 0..MaxLaunches, max : 0..MaxLaunches,
                  visited : SUBSET Data, adding : SUBSET Data]
  BY DEF ProfilerInv, RecordTypes
<1>4. /\ buffer'.at = "addMetric" /\ buffer'.corr = buffer.corr
      /\ buffer'.visited = buffer.visited \cup {e} /\ buffer'.adding = {e}
      /\ buffer'.visited \ buffer'.adding = buffer.visited \ buffer.adding
  BY <1>2, <1>3
<1>5. /\ Launched' = Launched /\ \A c : Waiting(c)' <=> Waiting(c)
      /\ CallInv' /\ CounterInv' /\ CleanInv' /\ FlushInv'
  BY <1>1, BufferKeeps
<1>6. ProfilerTypeOK' /\ RecordTypes'
  <2>1. ProfilerTypeOK
    BY DEF ProfilerInv
  <2>2. buffer' \in [at : {"idle", "addMetric"}, corr : 0..MaxLaunches, max : 0..MaxLaunches,
                     visited : SUBSET Data, adding : SUBSET Data]
    BY <1>2, <1>3
  <2> QED
    BY <1>1, <2>1, <2>2, BufferTypes DEF ProfilerTypeOK
<1>7. \A c : (Adding(c)' <=> Adding(c)) /\ (Enqueued(c)' <=> Enqueued(c))
  BY <1>1, <1>2, <1>4 DEF Adding, Enqueued
<1>8. PlaceInv'
  BY <1>1, <1>2, <1>4, <1>5, <1>7 DEF ProfilerInv, PlaceInv
<1>9. CorrelationInv'
  BY <1>1, <1>2, <1>4, <1>5, <1>7 DEF ProfilerInv, CorrelationInv, BufferFrame, registrationVars, threadVars
<1>10. AwaitedInv'
  BY <1>1, <1>5 DEF ProfilerInv, AwaitedInv, BufferFrame, registrationVars
<1>11. CountInv'
  <2>1. \A d, s : CountedIn(d, s)' = CountedIn(d, s)
    BY <1>1, <1>4, <1>5, <1>7 DEF CountedIn, BufferFrame
  <2>2. \A d \in Data, s \in Scope : metrics'[d][s] <= Cardinality(CountedIn(d, s)')
    BY <1>1, <2>1 DEF ProfilerInv, CountInv
  <2>3. EveryLaunchCounted'
    BY <1>1 DEF ProfilerInv, CountInv, EveryLaunchCounted, BufferFrame, registrationVars
  <2> QED
    BY <1>1, <1>2, <1>4, <2>2, <2>3 DEF ProfilerInv, CountInv, BufferFrame, registrationVars
<1> QED
  BY <1>5, <1>6, <1>8, <1>9, <1>10, <1>11 DEF ProfilerInv

\* The launch the buffer callback is at is counted at a data object, once.
LEMMA AddKeeps == ProfilerInv /\ (\E d \in Data : AddMetric(d)) => ProfilerInv'
<1> SUFFICES ASSUME ProfilerInv, NEW e \in Data, AddMetric(e)
             PROVE  ProfilerInv'
  OBVIOUS
<1> DEFINE b == buffer.corr
           scope == corrIdToExternId[b]
<1>1. UNCHANGED <<BufferFrame, corrIdToExternId, external, kernels, processed, maxCompleted>>
  BY DEF AddMetric, BufferFrame, recordVars, historyVars
<1>2. /\ buffer' = [buffer EXCEPT !.adding = {}] /\ buffer.adding = {e}
      /\ metrics' = IF scope \in known[e] THEN [metrics EXCEPT ![e][scope] = @ + 1]
                    ELSE metrics
  BY DEF AddMetric
<1>3. buffer \in [at : {"idle", "addMetric"}, corr : 0..MaxLaunches, max : 0..MaxLaunches,
                  visited : SUBSET Data, adding : SUBSET Data]
  BY DEF ProfilerInv, RecordTypes
<1>4. /\ buffer.at = "addMetric" /\ e \in buffer.visited
      /\ buffer'.at = "addMetric" /\ buffer'.corr = b
      /\ buffer'.visited = buffer.visited /\ buffer'.adding = {}
  BY <1>2, <1>3 DEF ProfilerInv, PlaceInv
<1>5. /\ Launched' = Launched /\ \A c : Waiting(c)' <=> Waiting(c)
      /\ CallInv' /\ CounterInv' /\ CleanInv' /\ FlushInv'
  BY <1>1, BufferKeeps
<1>6. /\ b \in Launched /\ b \notin processed /\ ~Waiting(b) /\ b \in Corr
      /\ b \in DOMAIN corrIdToExternId /\ scope = launch[b].external /\ scope \in Scope
  <2>1. b \in Launched /\ b \notin processed
    BY <1>4 DEF ProfilerInv, PlaceInv
  <2>2. b \in Corr
    BY <2>1 DEF ProfilerInv, ProfilerTypeOK
  <2>3. ~Waiting(b)
    BY <1>4, <2>2 DEF ProfilerInv, PlaceInv, Adding
  <2>4. b \in DOMAIN corrIdToExternId
    BY <1>4 DEF ProfilerInv, CorrelationInv
  <2> QED
    BY <2>1, <2>2, <2>3, <2>4 DEF ProfilerInv, CorrelationInv, ProfilerTypeOK
<1>7. metrics \in [Data -> [Scope -> Nat]] /\ metrics' \in [Data -> [Scope -> Nat]]
  <2>1. metrics \in [Data -> [Scope -> Nat]]
    BY DEF ProfilerInv, ProfilerTypeOK
  <2>2. metrics[e] \in [Scope -> Nat] /\ metrics[e][scope] + 1 \in Nat
    BY <1>6, <2>1
  <2> QED
    BY <1>2, <1>6, <2>1, <2>2
<1>8. \A d \in Data, s \in Scope :
          /\ metrics'[d][s] >= metrics[d][s]
          /\ ~(d = e /\ s = scope) => metrics'[d][s] = metrics[d][s]
          /\ metrics'[d][s] <= metrics[d][s] + 1
          /\ scope \in known[e] => metrics'[e][scope] >= 1
  BY <1>2, <1>6, <1>7
<1>9. ProfilerTypeOK' /\ RecordTypes'
  <2>1. ProfilerTypeOK
    BY DEF ProfilerInv
  <2>2. buffer' \in [at : {"idle", "addMetric"}, corr : 0..MaxLaunches, max : 0..MaxLaunches,
                     visited : SUBSET Data, adding : SUBSET Data]
    BY <1>2, <1>3
  <2> QED
    BY <1>1, <1>7, <2>1, <2>2, BufferTypes DEF ProfilerTypeOK
<1>10. \A c : (Adding(c)' <=> Adding(c)) /\ (Enqueued(c)' <=> Enqueued(c))
  BY <1>1, <1>4 DEF Adding, Enqueued
<1>11. PlaceInv'
  BY <1>1, <1>4, <1>5, <1>10 DEF ProfilerInv, PlaceInv
<1>12. CorrelationInv'
  BY <1>1, <1>4, <1>5, <1>10
     DEF ProfilerInv, CorrelationInv, BufferFrame, registrationVars, threadVars
<1>13. AwaitedInv'
  BY <1>1, <1>5 DEF ProfilerInv, AwaitedInv, BufferFrame, registrationVars
<1>14. \A d \in Data, s \in Scope : metrics'[d][s] <= Cardinality(CountedIn(d, s)')
  <2> SUFFICES ASSUME NEW d \in Data, NEW s \in Scope
               PROVE  metrics'[d][s] <= Cardinality(CountedIn(d, s)')
    OBVIOUS
  <2>1. /\ metrics[d][s] <= Cardinality(CountedIn(d, s))
        /\ metrics[d][s] \in Nat /\ metrics'[d][s] \in Nat
    BY <1>7 DEF ProfilerInv, CountInv
  <2>2. IsFiniteSet(CountedIn(d, s)) /\ Cardinality(CountedIn(d, s)) \in Nat
    BY CountsFinite DEF ProfilerInv
  <2>3. CASE d = e /\ s = scope
    <3>1. CountedIn(d, s)' = CountedIn(d, s) \cup {b}
      BY <1>1, <1>4, <1>5, <1>6, <1>10, <2>3 DEF CountedIn, Adding, BufferFrame
    <3>2. b \notin CountedIn(d, s)
      BY <1>2, <1>6, <2>3 DEF CountedIn
    <3>3. Cardinality(CountedIn(d, s)') = Cardinality(CountedIn(d, s)) + 1
      BY <2>2, <3>1, <3>2, FS_AddElement
    <3> QED
      BY <1>8, <2>1, <2>2, <3>3
  <2>4. CASE ~(d = e /\ s = scope)
    <3>1. CountedIn(d, s)' = CountedIn(d, s)
      BY <1>1, <1>2, <1>4, <1>5, <1>6, <1>10, <2>4 DEF CountedIn, Adding, BufferFrame
    <3> QED
      BY <1>8, <2>1, <2>4, <3>1
  <2> QED
    BY <2>3, <2>4
<1>15. \A c \in Launched : launch[c].scope \in Scope
  BY DEF ProfilerInv, RecordTypes, Launch
<1>16. watchers \in [Corr -> SUBSET Data] /\ processed \subseteq Launched /\ Launched \subseteq Corr
  BY DEF ProfilerInv, ProfilerTypeOK
<1>17. EveryLaunchCounted'
  <2> SUFFICES ASSUME ~missed, driver.externalFirst, ~driver.nested,
                      NEW c \in processed, NEW d \in watchers[c]
               PROVE  metrics'[d][launch[c].scope] >= 1
    BY <1>1 DEF EveryLaunchCounted, BufferFrame, registrationVars
  <2>1. metrics[d][launch[c].scope] >= 1
    BY DEF ProfilerInv, CountInv, EveryLaunchCounted
  <2>2. d \in Data /\ launch[c].scope \in Scope
    BY <1>15, <1>16
  <2> QED
    BY <1>7, <1>8, <2>1, <2>2
<1>18. CountInv'
  <2> SUFFICES ASSUME ~missed, driver.externalFirst, ~driver.nested,
                      NEW d \in watchers[b], d \in buffer.visited
               PROVE  metrics'[d][launch[b].scope] >= 1
    BY <1>1, <1>4, <1>14, <1>17 DEF CountInv, BufferFrame, registrationVars
  <2>1. d \in Data /\ launch[b].scope \in Scope
    BY <1>6, <1>15, <1>16
  <2>2. CASE d = e
    <3>1. launch[b].external = launch[b].scope /\ launch[b].scope \in known[d]
      BY <1>6 DEF ProfilerInv, AwaitedInv
    <3> QED
      BY <1>6, <1>8, <2>1, <2>2, <3>1
  <2>3. CASE d # e
    <3>1. metrics[d][launch[b].scope] >= 1
      BY <1>2, <1>4, <2>3 DEF ProfilerInv, CountInv
    <3> QED
      BY <1>7, <1>8, <2>1, <3>1
  <2> QED
    BY <2>2, <2>3
<1> QED
  BY <1>5, <1>9, <1>11, <1>12, <1>13, <1>18 DEF ProfilerInv

\* The record is processed when every data object registered has been called.
LEMMA EraseKeeps == ProfilerInv /\ EraseCorrelation => ProfilerInv'
<1> SUFFICES ASSUME ProfilerInv, EraseCorrelation
             PROVE  ProfilerInv'
  OBVIOUS
<1> DEFINE b == buffer.corr
<1>1. UNCHANGED <<BufferFrame, metrics, external, kernels, maxCompleted>>
  BY DEF EraseCorrelation, BufferFrame, recordVars
<1>2. /\ buffer' = [buffer EXCEPT !.at = "idle"] /\ buffer.at = "addMetric"
      /\ buffer.adding = {} /\ registered \subseteq buffer.visited
      /\ corrIdToExternId' = [x \in DOMAIN corrIdToExternId \ {b} |-> corrIdToExternId[x]]
      /\ processed' = processed \cup {b}
  BY DEF EraseCorrelation
<1>3. buffer \in [at : {"idle", "addMetric"}, corr : 0..MaxLaunches, max : 0..MaxLaunches,
                  visited : SUBSET Data, adding : SUBSET Data]
  BY DEF ProfilerInv, RecordTypes
<1>4. /\ buffer'.at = "idle" /\ buffer'.corr = b
      /\ buffer'.visited = buffer.visited /\ buffer'.adding = {}
  BY <1>2, <1>3
<1>5. /\ Launched' = Launched /\ \A c : Waiting(c)' <=> Waiting(c)
      /\ CallInv' /\ CounterInv' /\ CleanInv' /\ FlushInv'
  BY <1>1, <1>2, BufferKeeps
<1>6. b \in Launched /\ b \notin processed /\ b \in Corr /\ ~Waiting(b) /\ Adding(b)
  BY <1>2 DEF ProfilerInv, PlaceInv, ProfilerTypeOK, Adding
<1>7. ProfilerTypeOK' /\ RecordTypes'
  <2>1. ProfilerTypeOK
    BY DEF ProfilerInv
  <2>2. buffer' \in [at : {"idle", "addMetric"}, corr : 0..MaxLaunches, max : 0..MaxLaunches,
                     visited : SUBSET Data, adding : SUBSET Data]
    BY <1>2, <1>3
  <2> QED
    BY <1>1, <1>2, <1>6, <2>1, <2>2, BufferTypes DEF ProfilerTypeOK
<1>8. \A c : ~Adding(c)' /\ (Enqueued(c)' <=> Enqueued(c))
  BY <1>1, <1>4 DEF Adding, Enqueued
<1>9. PlaceInv'
  BY <1>1, <1>2, <1>4, <1>5, <1>6, <1>8 DEF ProfilerInv, PlaceInv
<1>10. CorrelationInv'
  BY <1>1, <1>2, <1>4, <1>5, <1>6, <1>8
     DEF ProfilerInv, CorrelationInv, BufferFrame, registrationVars, threadVars
<1>11. AwaitedInv'
  BY <1>1, <1>2, <1>5, <1>6 DEF ProfilerInv, AwaitedInv, BufferFrame, registrationVars
<1>12. CountInv'
  <2>1. \A d \in Data, s \in Scope : CountedIn(d, s) \subseteq CountedIn(d, s)'
    BY <1>1, <1>2, <1>5 DEF CountedIn, Adding, BufferFrame
  <2>2. \A d \in Data, s \in Scope : metrics'[d][s] <= Cardinality(CountedIn(d, s)')
    BY <1>1, <1>7, <2>1, CountsKept
  <2>3. watchers[b] \subseteq registered
    BY <1>6 DEF ProfilerInv, AwaitedInv
  <2>4. EveryLaunchCounted'
    BY <1>1, <1>2, <2>3
       DEF ProfilerInv, CountInv, EveryLaunchCounted, BufferFrame, registrationVars
  <2> QED
    BY <1>4, <2>2, <2>4 DEF CountInv
<1> QED
  BY <1>5, <1>7, <1>9, <1>10, <1>11, <1>12 DEF ProfilerInv

\* A correlation record says what the stack was when the kernel was enqueued.
LEMMA ExternalKeeps == ProfilerInv /\ FetchExternal => ProfilerInv'
<1> SUFFICES ASSUME ProfilerInv, FetchExternal
             PROVE  ProfilerInv'
  OBVIOUS
<1> DEFINE h == Head(external)
<1>1. UNCHANGED <<BufferFrame, metrics, kernels, maxCompleted, processed>>
  BY DEF FetchExternal, BufferFrame, historyVars
<1>2. /\ buffer' = [buffer EXCEPT !.max = AtomicMax(@, h)] /\ buffer.at = "idle"
      /\ external # <<>> /\ external' = Tail(external)
      /\ corrIdToExternId' = [x \in DOMAIN corrIdToExternId \cup {h} |->
                  IF x = h THEN launch[h].external ELSE corrIdToExternId[x]]
  BY DEF FetchExternal
<1>3. buffer \in [at : {"idle", "addMetric"}, corr : 0..MaxLaunches, max : 0..MaxLaunches,
                  visited : SUBSET Data, adding : SUBSET Data]
  BY DEF ProfilerInv, RecordTypes
<1>4. /\ buffer'.at = "idle" /\ buffer'.corr = buffer.corr
      /\ buffer'.visited = buffer.visited /\ buffer'.adding = buffer.adding
  BY <1>2, <1>3
<1>5. /\ Launched' = Launched /\ \A c : Waiting(c)' <=> Waiting(c)
      /\ CallInv' /\ CounterInv' /\ CleanInv' /\ FlushInv'
  BY <1>1, BufferKeeps
<1>6. /\ external \in Seq(Corr) /\ external' \in Seq(Corr) /\ h \in Corr
      /\ \A c : In(c, external) <=> In(c, external') \/ c = h
  <2>1. external \in Seq(Corr)
    BY DEF ProfilerInv, ProfilerTypeOK
  <2> QED
    BY <1>2, <2>1, InTail
<1>7. h \in Launched /\ ~Waiting(h) /\ launch[h].external \in Scope
  <2>1. h \in Launched /\ ~Waiting(h)
    BY <1>6 DEF ProfilerInv, CorrelationInv
  <2> QED
    BY <2>1 DEF ProfilerInv, RecordTypes, Launch
<1>8. ProfilerTypeOK' /\ RecordTypes'
  <2>1. ProfilerTypeOK
    BY DEF ProfilerInv
  <2>2. buffer' \in [at : {"idle", "addMetric"}, corr : 0..MaxLaunches, max : 0..MaxLaunches,
                     visited : SUBSET Data, adding : SUBSET Data]
    <3>1. AtomicMax(buffer.max, h) \in 0..MaxLaunches
      BY <1>3, <1>6, LaunchesAssumption DEF AtomicMax, Corr
    <3> QED
      BY <1>2, <1>3, <3>1
  <2> QED
    BY <1>1, <1>2, <1>6, <1>7, <2>1, <2>2, BufferTypes DEF ProfilerTypeOK
<1>9. \A c : ~Adding(c)' /\ ~Adding(c) /\ (Enqueued(c)' <=> Enqueued(c))
  BY <1>1, <1>2, <1>4 DEF Adding, Enqueued
<1>10. PlaceInv'
  BY <1>1, <1>2, <1>4, <1>5, <1>9 DEF ProfilerInv, PlaceInv
<1>11. CorrelationInv'
  <2>1. driver.externalFirst => h \notin processed
    BY <1>6 DEF ProfilerInv, CorrelationInv
  <2>2. \A t \in Launcher : call[t].at = "driver" => Waiting(call[t].corr)
    BY DEF Waiting
  <2> QED
    BY <1>1, <1>2, <1>4, <1>5, <1>6, <1>7, <1>9, <2>1, <2>2
       DEF ProfilerInv, CorrelationInv, BufferFrame, registrationVars, threadVars
<1>12. AwaitedInv'
  BY <1>1, <1>2, <1>5, <1>6, <1>7 DEF ProfilerInv, AwaitedInv, BufferFrame, registrationVars
<1>13. CountInv'
  <2>1. \A d, s : CountedIn(d, s)' = CountedIn(d, s)
    BY <1>1, <1>5, <1>9 DEF CountedIn, BufferFrame
  <2>2. \A d \in Data, s \in Scope : metrics'[d][s] <= Cardinality(CountedIn(d, s)')
    BY <1>1, <2>1 DEF ProfilerInv, CountInv
  <2>3. EveryLaunchCounted'
    BY <1>1 DEF ProfilerInv, CountInv, EveryLaunchCounted, BufferFrame, registrationVars
  <2> QED
    BY <1>4, <2>2, <2>3 DEF CountInv
<1> QED
  BY <1>5, <1>8, <1>10, <1>11, <1>12, <1>13 DEF ProfilerInv

\* A kernel's record is taken from its stream: it was nowhere else, and if all
\* callbacks were delivered its correlation is there.
LEMMA KernelKeeps == ProfilerInv /\ (\E s \in Stream : FetchKernel(s)) => ProfilerInv'
<1> SUFFICES ASSUME ProfilerInv, NEW r \in Stream, FetchKernel(r)
             PROVE  ProfilerInv'
  OBVIOUS
<1> DEFINE k == Head(kernels[r])
           found == k \in DOMAIN corrIdToExternId
<1>1. UNCHANGED <<BufferFrame, metrics, corrIdToExternId, external, maxCompleted>>
  BY DEF FetchKernel, BufferFrame
<1>2. /\ buffer.at = "idle" /\ kernels[r] # <<>>
      /\ driver.externalFirst => ~ExternalPending(k)
      /\ buffer' = [buffer EXCEPT !.max = AtomicMax(@, k),
                                  !.at = IF found THEN "addMetric" ELSE "idle",
                                  !.corr = k, !.visited = {}]
      /\ processed' = IF found THEN processed ELSE processed \cup {k}
      /\ kernels' = [kernels EXCEPT ![r] = Tail(@)]
  BY DEF FetchKernel
<1>3. buffer \in [at : {"idle", "addMetric"}, corr : 0..MaxLaunches, max : 0..MaxLaunches,
                  visited : SUBSET Data, adding : SUBSET Data]
  BY DEF ProfilerInv, RecordTypes
<1>4. /\ buffer.adding = {} /\ buffer'.at = (IF found THEN "addMetric" ELSE "idle")
      /\ buffer'.corr = k /\ buffer'.visited = {} /\ buffer'.adding = {}
  BY <1>2, <1>3 DEF ProfilerInv, PlaceInv
<1>5. processed \subseteq processed' /\ processed' \subseteq processed \cup {k}
  BY <1>2
<1>6. /\ Launched' = Launched /\ \A c : Waiting(c)' <=> Waiting(c)
      /\ CallInv' /\ CounterInv' /\ CleanInv' /\ FlushInv'
  BY <1>1, <1>5, BufferKeeps
<1>7. /\ kernels \in [Stream -> Seq(Corr)] /\ kernels' \in [Stream -> Seq(Corr)]
      /\ k \in Corr /\ Distinct(kernels'[r]) /\ ~In(k, kernels'[r])
      /\ \A c : In(c, kernels[r]) <=> In(c, kernels'[r]) \/ c = k
      /\ \A s \in Stream : s # r => kernels'[s] = kernels[s]
  <2>1. kernels \in [Stream -> Seq(Corr)] /\ Distinct(kernels[r])
    BY DEF ProfilerInv, ProfilerTypeOK, PlaceInv
  <2>2. kernels[r] \in Seq(Corr)
    BY <2>1
  <2>3. kernels'[r] = Tail(kernels[r]) /\ \A s \in Stream : s # r => kernels'[s] = kernels[s]
    BY <1>2, <2>1
  <2>4. /\ k \in Corr /\ Tail(kernels[r]) \in Seq(Corr)
        /\ \A c : In(c, kernels[r]) <=> In(c, Tail(kernels[r])) \/ c = k
        /\ Distinct(Tail(kernels[r])) /\ ~In(k, Tail(kernels[r]))
    BY <1>2, <2>1, <2>2, InTail
  <2>5. kernels' \in [Stream -> Seq(Corr)]
    BY <1>2, <2>1, <2>4
  <2> QED
    BY <2>1, <2>3, <2>4, <2>5
<1>8. /\ Enqueued(k) /\ k \in Launched /\ k \notin processed /\ ~Waiting(k)
      /\ \A c \in Corr : Enqueued(c)' <=> Enqueued(c) /\ c # k
  <2>1. Enqueued(k)
    BY <1>7 DEF Enqueued
  <2>2. k \in Launched /\ k \notin processed /\ ~Waiting(k)
    BY <1>7, <2>1 DEF ProfilerInv, PlaceInv
  <2>3. \A s \in Stream : ~In(k, kernels'[s])
    <3>1. \A s \in Stream : s # r => ~In(k, kernels[s])
      BY <1>7 DEF ProfilerInv, PlaceInv
    <3> QED
      BY <1>7, <3>1
  <2>4. \A c \in Corr, s \in Stream : c # k => (In(c, kernels'[s]) <=> In(c, kernels[s]))
    BY <1>7
  <2> QED
    BY <2>1, <2>2, <2>3, <2>4 DEF Enqueued
<1>9. ProfilerTypeOK' /\ RecordTypes'
  <2>1. ProfilerTypeOK
    BY DEF ProfilerInv
  <2>2. buffer' \in [at : {"idle", "addMetric"}, corr : 0..MaxLaunches, max : 0..MaxLaunches,
                     visited : SUBSET Data, adding : SUBSET Data]
    <3>1. AtomicMax(buffer.max, k) \in 0..MaxLaunches /\ k \in 0..MaxLaunches
      BY <1>3, <1>7, LaunchesAssumption DEF AtomicMax, Corr
    <3>2. (IF found THEN "addMetric" ELSE "idle") \in {"idle", "addMetric"}
      OBVIOUS
    <3> QED
      BY <1>2, <1>3, <3>1, <3>2
  <2>3. processed' \subseteq Launched
    BY <1>5, <1>8, <2>1 DEF ProfilerTypeOK
  <2> QED
    BY <1>1, <1>7, <2>1, <2>2, <2>3, BufferTypes DEF ProfilerTypeOK
<1>10. \A c : ~Adding(c) /\ (Adding(c)' <=> found /\ c = k)
  BY <1>2, <1>4 DEF Adding
<1>11. PlaceInv'
  <2>1. \A s \in Stream : Distinct(kernels'[s])
    BY <1>7 DEF ProfilerInv, PlaceInv
  <2>2. \A p, s \in Stream, c \in Corr : In(c, kernels'[p]) /\ In(c, kernels'[s]) => p = s
    <3>1. \A s \in Stream, c \in Corr : In(c, kernels'[s]) => In(c, kernels[s])
      BY <1>7
    <3> QED
      BY <3>1 DEF ProfilerInv, PlaceInv
  <2>3. ASSUME NEW c \in Corr, Enqueued(c)'
        PROVE  c \in Launched /\ c \notin processed' /\ ~Waiting(c) /\ ~Adding(c)'
    <3>1. c # k /\ Enqueued(c)
      BY <1>8, <2>3
    <3>2. c \in Launched /\ c \notin processed /\ ~Waiting(c)
      BY <3>1 DEF ProfilerInv, PlaceInv
    <3> QED
      BY <1>5, <1>10, <3>1, <3>2
  <2>4. \A c \in Corr : Waiting(c) => c \notin processed' /\ ~Adding(c)'
    BY <1>5, <1>8, <1>10 DEF ProfilerInv, PlaceInv
  <2>5. /\ buffer'.at = "addMetric" => buffer'.corr \in Launched /\ buffer'.corr \notin processed'
        /\ buffer'.at = "idle" => buffer'.corr \in processed' \cup {0}
    BY <1>2, <1>4, <1>8
  <2> QED
    BY <1>4, <1>6, <2>1, <2>2, <2>3, <2>4, <2>5 DEF PlaceInv
<1>12. driver.externalFirst => ~In(k, external)
  BY <1>2 DEF ExternalPending, In
<1>13. CorrelationInv'
  <2>1. driver.externalFirst =>
            /\ \A c \in Corr : In(c, external) => c \notin processed' /\ ~Adding(c)'
            /\ DOMAIN corrIdToExternId \cap processed' = {}
    BY <1>2, <1>5, <1>10, <1>12 DEF ProfilerInv, CorrelationInv
  <2>2. buffer'.at = "addMetric" => buffer'.corr \in DOMAIN corrIdToExternId
    BY <1>4
  <2> QED
    BY <1>1, <1>6, <2>1, <2>2
       DEF ProfilerInv, CorrelationInv, BufferFrame, registrationVars, threadVars
<1>14. AwaitedInv'
  BY <1>1, <1>5, <1>6 DEF ProfilerInv, AwaitedInv, BufferFrame, registrationVars
<1>15. CountInv'
  <2>1. \A d \in Data, s \in Scope : CountedIn(d, s) \subseteq CountedIn(d, s)'
    BY <1>1, <1>5, <1>6, <1>10 DEF CountedIn, BufferFrame
  <2>2. \A d \in Data, s \in Scope : metrics'[d][s] <= Cardinality(CountedIn(d, s)')
    BY <1>1, <1>9, <2>1, CountsKept
  <2>3. ~missed /\ driver.externalFirst /\ ~driver.nested => found
    BY <1>8, <1>12 DEF ProfilerInv, AwaitedInv
  <2>4. EveryLaunchCounted'
    BY <1>1, <1>2, <2>3
       DEF ProfilerInv, CountInv, EveryLaunchCounted, BufferFrame, registrationVars
  <2> QED
    BY <1>4, <2>2, <2>4 DEF CountInv
<1> QED
  BY <1>6, <1>9, <1>11, <1>13, <1>14, <1>15 DEF ProfilerInv

-----------------------------------------------------------------------------
(* The launching threads. *)

\* What every callback of a launch leaves alone.
ThreadFrame == <<registrationVars, metrics, maxCompleted, buffer, user, processed>>

\* What the callbacks leave of the counts: none of the launches counted becomes
\* another.
LEMMA LaunchCounts ==
    ASSUME ProfilerInv, UNCHANGED ThreadFrame, ProfilerTypeOK', RecordTypes',
           Launched \subseteq Launched', missed => missed',
           \A c \in Launched : ~Waiting(c) => launch'[c].external = launch[c].external,
           \A c \in Launched : /\ launch'[c].scope = launch[c].scope
                               /\ watchers'[c] = watchers[c]
    PROVE  CountInv'
<1> USE DEF ThreadFrame, registrationVars
<1>0. /\ processed \subseteq Launched /\ Launched \subseteq Corr
      /\ \A c \in Corr : Waiting(c) => c \notin processed /\ ~Adding(c)
      /\ \A c : Adding(c)' <=> Adding(c)
      /\ buffer.at = "addMetric" => buffer.corr \in Launched
  BY DEF ProfilerInv, PlaceInv, ProfilerTypeOK, Adding
<1>1. \A d \in Data, s \in Scope : CountedIn(d, s) \subseteq CountedIn(d, s)'
  BY <1>0 DEF CountedIn
<1>2. \A d \in Data, s \in Scope : metrics'[d][s] <= Cardinality(CountedIn(d, s)')
  BY <1>1, CountsKept
<1>3. EveryLaunchCounted'
  BY <1>0 DEF ProfilerInv, CountInv, EveryLaunchCounted
<1> QED
  BY <1>0, <1>2, <1>3 DEF ProfilerInv, CountInv

\* The end of a callback: what enterOp pushed is popped.
LEMMA ExitKeeps ==
    ASSUME ProfilerInv, NEW t \in Launcher, NEW from \in {"enqueued", "returned"},
           NEW to \in {"returned", "idle"}, to = "returned" <=> from = "enqueued" /\ driver.nested,
           ExitCallback(t, from, to)
    PROVE  ProfilerInv'
<1> DEFINE c == call[t].corr
<1>1. /\ UNCHANGED ThreadFrame
      /\ UNCHANGED <<scopeIdCounter, known, corrIdToExternId, external, kernels, watchers>>
  BY DEF ExitCallback, ThreadFrame, recordVars
<1>2. /\ call[t].at = from /\ call' = [call EXCEPT ![t].at = to]
      /\ missed' = (missed \/ ~initialized)
  BY DEF ExitCallback
<1>3. call \in [Launcher -> [at : {"idle", "runtime", "driver", "enqueued", "returned"},
                             corr : 0..MaxLaunches]]
  BY DEF ProfilerInv, RecordTypes
<1>4. /\ call' \in [Launcher -> [at : {"idle", "runtime", "driver", "enqueued", "returned"},
                                 corr : 0..MaxLaunches]]
      /\ call'[t].at = to /\ call'[t].corr = c
      /\ \A u \in Launcher : u # t => call'[u] = call[u]
  BY <1>2, <1>3
<1>5. c \in Launched
  BY <1>2 DEF ProfilerInv, CallInv
<1>6. /\ profilerState \in [Launcher -> [scope : Scope, dataSet : SUBSET Data,
                                         isRecording : BOOLEAN]]
      /\ externIds \in [Launcher -> Seq(Scope)] /\ inProgress \in [Launcher -> SUBSET Data]
      /\ maxSubmitted \in 0..MaxLaunches /\ launch \in [Launched -> Launch]
      /\ Launched \subseteq Corr
  BY DEF ProfilerInv, ProfilerTypeOK, RecordTypes
<1>7. /\ profilerState' \in [Launcher -> [scope : Scope, dataSet : SUBSET Data,
                                          isRecording : BOOLEAN]]
      /\ externIds' \in [Launcher -> Seq(Scope)] /\ inProgress' \in [Launcher -> SUBSET Data]
      /\ maxSubmitted' \in 0..MaxLaunches /\ launch' \in [Launched -> Launch]
      /\ Launched' = Launched
      /\ \A x \in Launched : launch'[x].scope = launch[x].scope
                             /\ launch'[x].external = launch[x].external
      /\ \A u \in Launcher : u # t => /\ profilerState'[u] = profilerState[u]
                                      /\ externIds'[u] = externIds[u]
                                      /\ inProgress'[u] = inProgress[u]
  <2>1. CASE initialized
    <3>1. exitOp(t)
      BY <2>1 DEF ExitCallback
    <3>2. /\ profilerState' = [profilerState EXCEPT ![t].isRecording = FALSE]
          /\ inProgress' = [inProgress EXCEPT ![t] = @ \ profilerState[t].dataSet]
          /\ maxSubmitted' = AtomicMax(maxSubmitted, c)
          /\ launch' = [launch EXCEPT ![c].submitted = TRUE]
          /\ externIds' = (IF profilerState[t].isRecording
                           THEN [externIds EXCEPT ![t] = SubSeq(@, 1, Len(@) - 1)]
                           ELSE externIds)
      BY <3>1 DEF exitOp
    <3>3. SubSeq(externIds[t], 1, Len(externIds[t]) - 1) \in Seq(Scope)
      BY <1>6
    <3>4. externIds' \in [Launcher -> Seq(Scope)]
      BY <1>6, <3>2, <3>3
    <3>5. maxSubmitted' \in 0..MaxLaunches
      BY <1>5, <1>6, <3>2, LaunchesAssumption DEF AtomicMax, Corr
    <3>6. launch' \in [Launched -> Launch] /\ Launched' = Launched
      BY <1>5, <1>6, <3>2 DEF Launched, Launch
    <3>7. \A x \in Launched : launch'[x].scope = launch[x].scope
                              /\ launch'[x].external = launch[x].external
      BY <1>5, <1>6, <3>2 DEF Launch
    <3>8. /\ profilerState' \in [Launcher -> [scope : Scope, dataSet : SUBSET Data,
                                          isRecording : BOOLEAN]]
          /\ inProgress' \in [Launcher -> SUBSET Data]
      BY <1>6, <3>2
    <3> QED
      BY <1>6, <3>2, <3>4, <3>5, <3>6, <3>7, <3>8
  <2>2. CASE ~initialized
    BY <1>6, <2>2 DEF ExitCallback, Launched
  <2> QED
    BY <2>1, <2>2
<1>8. \A x : (Waiting(x)' <=> Waiting(x)) /\ (Adding(x)' <=> Adding(x))
             /\ (Enqueued(x)' <=> Enqueued(x))
  BY <1>1, <1>2, <1>4 DEF Waiting, Adding, Enqueued, ThreadFrame
<1>9. ProfilerTypeOK' /\ RecordTypes'
  <2>1. ProfilerTypeOK'
    <3>1. ProfilerTypeOK
      BY DEF ProfilerInv
    <3> QED
      BY <1>1, <1>7, <3>1 DEF ProfilerTypeOK, ThreadFrame, registrationVars
  <2>2. RecordTypes'
    <3>1. RecordTypes /\ missed' \in BOOLEAN
      BY <1>2 DEF ProfilerInv, RecordTypes, ProfilerTypeOK
    <3> QED
      BY <1>1, <1>4, <1>7, <3>1 DEF RecordTypes, ThreadFrame, registrationVars
  <2> QED
    BY <2>1, <2>2
<1>10. CallInv'
  BY <1>1, <1>2, <1>4, <1>5, <1>7
     DEF ProfilerInv, CallInv, ThreadFrame, registrationVars
<1>11. CounterInv'
  <2>1. Runtimes' = Runtimes
    BY <1>2, <1>4, <1>7 DEF Runtimes
  <2> QED
    BY <1>1, <1>7, <2>1 DEF ProfilerInv, CounterInv
<1>12. PlaceInv'
  BY <1>1, <1>7, <1>8 DEF ProfilerInv, PlaceInv, ThreadFrame
<1>13. CorrelationInv'
  <2>1. \A u \in Launcher :
           /\ profilerState'[u].isRecording => externIds'[u] # <<>>
           /\ call'[u].at = "driver" /\ call'[u].corr \in DOMAIN corrIdToExternId =>
                  /\ externIds'[u] # <<>>
                  /\ corrIdToExternId[call'[u].corr] = externIds'[u][Len(externIds'[u])]
    <3> SUFFICES ASSUME NEW u \in Launcher
                 PROVE  /\ profilerState'[u].isRecording => externIds'[u] # <<>>
                        /\ call'[u].at = "driver" /\ call'[u].corr \in DOMAIN corrIdToExternId =>
                              /\ externIds'[u] # <<>>
                              /\ corrIdToExternId[call'[u].corr]
                                    = externIds'[u][Len(externIds'[u])]
      OBVIOUS
    <3>1. CASE u # t
      BY <1>4, <1>7, <3>1 DEF ProfilerInv, CorrelationInv
    <3>2. CASE u = t
      <4>1. profilerState'[t].isRecording => externIds'[t] # <<>>
        BY <1>6 DEF ProfilerInv, CorrelationInv, ExitCallback, exitOp
      <4> QED
        BY <1>4, <3>2, <4>1
    <3> QED
      BY <3>1, <3>2
  <2>2. \A x \in DOMAIN corrIdToExternId : x \in Launched
    BY DEF ProfilerInv, ProfilerTypeOK
  <2> QED
    BY <1>1, <1>7, <1>8, <2>1, <2>2
       DEF ProfilerInv, CorrelationInv, ThreadFrame, registrationVars
<1>14. CleanInv'
  <2> SUFFICES ASSUME ~missed', ~driver.nested, NEW u \in Launcher
               PROVE  /\ call'[u].at = "idle" => externIds'[u] = <<>> /\ inProgress'[u] = {}
                                                 /\ ~profilerState'[u].isRecording
                      /\ call'[u].at # "idle" =>
                           /\ externIds'[u] = <<profilerState'[u].scope>>
                           /\ inProgress'[u] = profilerState'[u].dataSet
                           /\ profilerState'[u].isRecording
                           /\ launch'[call'[u].corr].scope = profilerState'[u].scope
    BY <1>1 DEF CleanInv, ThreadFrame, registrationVars
  <2>1. ~missed /\ initialized /\ to = "idle"
    BY <1>2
  <2>2. CASE u # t
    <3>1. /\ call'[u] = call[u] /\ profilerState'[u] = profilerState[u]
          /\ externIds'[u] = externIds[u] /\ inProgress'[u] = inProgress[u]
      BY <1>4, <1>7, <2>2
    <3>2. call[u].at # "idle" => call[u].corr \in Launched
      BY DEF ProfilerInv, CallInv
    <3>3. /\ call[u].at = "idle" => externIds[u] = <<>> /\ inProgress[u] = {}
                                     /\ ~profilerState[u].isRecording
          /\ call[u].at # "idle" => /\ externIds[u] = <<profilerState[u].scope>>
                                    /\ inProgress[u] = profilerState[u].dataSet
                                    /\ profilerState[u].isRecording
                                    /\ launch[call[u].corr].scope = profilerState[u].scope
      BY <2>1 DEF ProfilerInv, CleanInv
    <3>4. call[u].at # "idle" => launch'[call[u].corr].scope = launch[call[u].corr].scope
      BY <1>7, <3>2
    <3> QED
      BY <3>1, <3>3, <3>4
  <2>3. CASE u = t
    <3>1. /\ externIds[t] = <<profilerState[t].scope>> /\ profilerState[t].isRecording
          /\ inProgress[t] = profilerState[t].dataSet
      BY <1>2, <2>1 DEF ProfilerInv, CleanInv
    <3>2. exitOp(t)
      BY <2>1 DEF ExitCallback
    <3>3. SubSeq(externIds[t], 1, Len(externIds[t]) - 1) = <<>>
      BY <1>6, <3>1
    <3>4. externIds'[t] = <<>>
      BY <1>6, <3>1, <3>2, <3>3 DEF exitOp
    <3>5. inProgress'[t] = {} /\ ~profilerState'[t].isRecording
      BY <1>6, <3>1, <3>2 DEF exitOp
    <3> QED
      BY <1>4, <2>1, <2>3, <3>4, <3>5
  <2> QED
    BY <2>2, <2>3
<1>15. AwaitedInv'
  BY <1>1, <1>2, <1>7, <1>8 DEF ProfilerInv, AwaitedInv, ThreadFrame, registrationVars
<1>16. CountInv'
  BY <1>1, <1>2, <1>7, <1>9, LaunchCounts
<1>17. FlushInv'
  BY <1>1 DEF ProfilerInv, FlushInv, ThreadFrame, registrationVars
<1> QED
  BY <1>9, <1>10, <1>11, <1>12, <1>13, <1>14, <1>15, <1>16, <1>17 DEF ProfilerInv

\* The runtime API calls the driver API only on CUPTI.
LEMMA NestedOnCupti == ProfilerInv /\ driver.nested => driver.backend = "cupti"
BY DriversAssumption DEF ProfilerInv, RecordTypes

\* Entering a callback: a scope is left for it, the thread's stack is not
\* empty afterwards, and the data objects that start know the scope.
LEMMA Entering ==
    ASSUME ProfilerInv, NEW t \in Launcher, RecordAndEnter(t),
           scopeIdCounter <= 2 * MaxLaunches
    PROVE  /\ scopeIdCounter \in Scope /\ scopeIdCounter' = scopeIdCounter + 1
           /\ scopeIdCounter' \in 1..2 * MaxLaunches + 1
           /\ profilerState' \in [Launcher -> [scope : Scope, dataSet : SUBSET Data,
                                               isRecording : BOOLEAN]]
           /\ externIds' \in [Launcher -> Seq(Scope)]
           /\ inProgress' \in [Launcher -> SUBSET Data]
           /\ known' \in [Data -> SUBSET Scope]
           /\ profilerState'[t] = [scope |-> scopeIdCounter, dataSet |-> registered,
                                   isRecording |-> TRUE]
           /\ externIds'[t] = (IF profilerState[t].isRecording THEN externIds[t]
                               ELSE Append(externIds[t], scopeIdCounter))
           /\ externIds'[t] # <<>>
           /\ inProgress'[t] = inProgress[t] \cup registered
           /\ \A u \in Launcher : u # t => /\ profilerState'[u] = profilerState[u]
                                           /\ externIds'[u] = externIds[u]
                                           /\ inProgress'[u] = inProgress[u]
           /\ \A d \in Data : /\ known[d] \subseteq known'[d]
                              /\ d \in registered \ inProgress[t] =>
                                    scopeIdCounter \in known'[d]
<1>1. /\ scopeIdCounter \in 1..2 * MaxLaunches + 1 /\ registered \subseteq Data
      /\ profilerState \in [Launcher -> [scope : Scope, dataSet : SUBSET Data,
                                         isRecording : BOOLEAN]]
      /\ externIds \in [Launcher -> Seq(Scope)] /\ inProgress \in [Launcher -> SUBSET Data]
      /\ known \in [Data -> SUBSET Scope]
      /\ profilerState[t].isRecording => externIds[t] # <<>>
  BY DEF ProfilerInv, ProfilerTypeOK, CorrelationInv
<1>2. /\ scopeIdCounter' = scopeIdCounter + 1
      /\ profilerState' = [profilerState EXCEPT
             ![t] = [scope |-> scopeIdCounter, dataSet |-> registered, isRecording |-> TRUE]]
      /\ externIds' = (IF profilerState[t].isRecording THEN externIds
                       ELSE [externIds EXCEPT ![t] = Append(@, scopeIdCounter)])
      /\ inProgress' = [inProgress EXCEPT ![t] = @ \cup registered]
      /\ known' = [d \in Data |-> IF d \in registered \ inProgress[t]
                                  THEN known[d] \cup {scopeIdCounter} ELSE known[d]]
  BY DEF RecordAndEnter
<1>3. scopeIdCounter \in Scope /\ scopeIdCounter' \in 1..2 * MaxLaunches + 1
  BY <1>1, <1>2, LaunchesAssumption DEF Scope
<1>4. /\ Append(externIds[t], scopeIdCounter) \in Seq(Scope)
      /\ Append(externIds[t], scopeIdCounter) # <<>>
  <2>1. externIds[t] \in Seq(Scope)
    BY <1>1
  <2>2. \A S : \A q \in Seq(S), e \in S : Append(q, e) \in Seq(S) /\ Append(q, e) # <<>>
    BY AppendProperties
  <2> QED
    BY <1>3, <2>1, <2>2
<1>5. externIds' \in [Launcher -> Seq(Scope)] /\ externIds'[t] # <<>>
  BY <1>1, <1>2, <1>4
<1>6. profilerState' \in [Launcher -> [scope : Scope, dataSet : SUBSET Data,
                                       isRecording : BOOLEAN]]
  BY <1>1, <1>2, <1>3
<1>7. inProgress' \in [Launcher -> SUBSET Data] /\ known' \in [Data -> SUBSET Scope]
  BY <1>1, <1>2, <1>3
<1>8. \A u \in Launcher : u # t => /\ profilerState'[u] = profilerState[u]
                                   /\ externIds'[u] = externIds[u]
                                   /\ inProgress'[u] = inProgress[u]
  BY <1>1, <1>2
<1>9. \A d \in Data : /\ known[d] \subseteq known'[d]
                      /\ d \in registered \ inProgress[t] => scopeIdCounter \in known'[d]
  BY <1>2
<1>10. /\ profilerState'[t] = [scope |-> scopeIdCounter, dataSet |-> registered,
                               isRecording |-> TRUE]
       /\ externIds'[t] = (IF profilerState[t].isRecording THEN externIds[t]
                           ELSE Append(externIds[t], scopeIdCounter))
       /\ inProgress'[t] = inProgress[t] \cup registered
  BY <1>1, <1>2
<1> QED
  BY <1>2, <1>3, <1>5, <1>6, <1>7, <1>8, <1>9, <1>10

\* The callback of the driver API a runtime API call makes.
LEMMA DriverEnterKeeps == ProfilerInv /\ (\E t \in Launcher : DriverEnter(t)) => ProfilerInv'
<1> SUFFICES ASSUME ProfilerInv, NEW t \in Launcher, DriverEnter(t)
             PROVE  ProfilerInv'
  OBVIOUS
<1> DEFINE c == call[t].corr
<1>1. /\ UNCHANGED ThreadFrame
      /\ UNCHANGED <<corrIdToExternId, maxSubmitted, external, kernels, launch, watchers>>
  BY DEF DriverEnter, ThreadFrame, recordVars
<1>2. /\ call[t].at = "runtime" /\ call' = [call EXCEPT ![t].at = "driver"]
      /\ missed' = (missed \/ ~initialized)
  BY DEF DriverEnter
<1>3. call \in [Launcher -> [at : {"idle", "runtime", "driver", "enqueued", "returned"},
                             corr : 0..MaxLaunches]]
  BY DEF ProfilerInv, RecordTypes
<1>4. /\ call' \in [Launcher -> [at : {"idle", "runtime", "driver", "enqueued", "returned"},
                                 corr : 0..MaxLaunches]]
      /\ call'[t].at = "driver" /\ call'[t].corr = c
      /\ \A u \in Launcher : u # t => call'[u] = call[u]
  BY <1>2, <1>3
<1>5. c \in Launched /\ driver.nested /\ driver.backend = "cupti"
  BY <1>2, NestedOnCupti DEF ProfilerInv, CallInv
<1>6. Launched' = Launched
  BY <1>1 DEF Launched
<1>7. \A x : (Waiting(x)' <=> Waiting(x)) /\ (Adding(x)' <=> Adding(x))
             /\ (Enqueued(x)' <=> Enqueued(x))
  BY <1>1, <1>2, <1>4 DEF Waiting, Adding, Enqueued, ThreadFrame
<1>8. /\ Runtimes' = Runtimes \ {c} /\ c \in Runtimes
      /\ Cardinality(Runtimes') = Cardinality(Runtimes) - 1
      /\ Cardinality(Runtimes) \in Nat
  <2>1. Runtimes' \subseteq Runtimes \ {c}
    <3> SUFFICES ASSUME NEW u \in Launcher, call'[u].at = "runtime", call'[u].corr \in Launched
                 PROVE  call[u].at = "runtime" /\ call[u].corr = call'[u].corr
                        /\ call[u].corr # c
      BY <1>6 DEF Runtimes
    <3>1. u # t /\ call'[u] = call[u]
      BY <1>4
    <3> QED
      BY <1>2, <3>1 DEF ProfilerInv, CallInv
  <2>2. Runtimes \ {c} \subseteq Runtimes'
    BY <1>4, <1>6 DEF Runtimes
  <2>3. c \in Runtimes
    BY <1>2, <1>5 DEF Runtimes
  <2>4. IsFiniteSet(Runtimes) /\ Cardinality(Runtimes) \in Nat
    BY CountsFinite DEF ProfilerInv
  <2>5. Runtimes' = Runtimes \ {c}
    BY <2>1, <2>2
  <2> QED
    BY <2>3, <2>4, <2>5, FS_RemoveElement
<1>9. /\ scopeIdCounter <= 2 * MaxLaunches
      /\ scopeIdCounter + 1 + Cardinality(Runtimes') <= 1 + 2 * Cardinality(Launched)
      /\ scopeIdCounter \in Nat
  <2>1. Cardinality(Launched) \in Nat /\ Cardinality(Launched) <= MaxLaunches
    BY LaunchesFinite DEF ProfilerInv
  <2>2. scopeIdCounter + Cardinality(Runtimes) <= 1 + 2 * Cardinality(Launched)
    BY DEF ProfilerInv, CounterInv
  <2>3. scopeIdCounter \in Nat
    BY LaunchesAssumption DEF ProfilerInv, ProfilerTypeOK
  <2>4. Cardinality(Runtimes) >= 1
    <3>1. Cardinality(Runtimes) # 0
      BY <1>8, CountsFinite, FS_EmptySet DEF ProfilerInv
    <3> QED
      BY <1>8, <3>1
  <2> QED
    BY <1>8, <2>1, <2>2, <2>3, <2>4, LaunchesAssumption
<1>10. /\ scopeIdCounter' \in 1..2 * MaxLaunches + 1
       /\ scopeIdCounter' <= scopeIdCounter + 1
       /\ profilerState' \in [Launcher -> [scope : Scope, dataSet : SUBSET Data,
                                           isRecording : BOOLEAN]]
       /\ externIds' \in [Launcher -> Seq(Scope)]
       /\ inProgress' \in [Launcher -> SUBSET Data]
       /\ known' \in [Data -> SUBSET Scope]
       /\ \A u \in Launcher : profilerState'[u].isRecording => externIds'[u] # <<>>
       /\ \A u \in Launcher : u # t => externIds'[u] = externIds[u]
  <2>1. CASE initialized
    <3>1. RecordAndEnter(t)
      BY <2>1 DEF DriverEnter
    <3>2. \A u \in Launcher : profilerState[u].isRecording => externIds[u] # <<>>
      BY DEF ProfilerInv, CorrelationInv
    <3> QED
      BY <1>9, <3>1, <3>2, Entering
  <2>2. CASE ~initialized
    BY <1>9, <2>2 DEF DriverEnter, threadVars, ProfilerInv, ProfilerTypeOK, CorrelationInv
  <2> QED
    BY <2>1, <2>2
<1>11. ProfilerTypeOK' /\ RecordTypes'
  <2>1. ProfilerTypeOK'
    <3>1. ProfilerTypeOK
      BY DEF ProfilerInv
    <3> QED
      BY <1>1, <1>6, <1>10, <3>1 DEF ProfilerTypeOK, ThreadFrame, registrationVars
  <2>2. RecordTypes'
    <3>1. RecordTypes /\ missed' \in BOOLEAN
      BY <1>2 DEF ProfilerInv, RecordTypes, ProfilerTypeOK
    <3> QED
      BY <1>1, <1>4, <1>6, <3>1 DEF RecordTypes, ThreadFrame, registrationVars
  <2> QED
    BY <2>1, <2>2
<1>12. CallInv'
  BY <1>1, <1>2, <1>4, <1>5, <1>6 DEF ProfilerInv, CallInv, ThreadFrame, registrationVars
<1>13. CounterInv'
  <2>1. Cardinality(Launched) \in Nat /\ Cardinality(Runtimes') \in Int
    BY <1>8, LaunchesFinite DEF ProfilerInv
  <2> QED
    BY <1>6, <1>9, <1>10, <2>1 DEF CounterInv
<1>14. PlaceInv'
  BY <1>1, <1>6, <1>7 DEF ProfilerInv, PlaceInv, ThreadFrame
<1>15. CorrelationInv'
  <2>1. ASSUME NEW u \in Launcher, call'[u].at = "driver",
               call'[u].corr \in DOMAIN corrIdToExternId
        PROVE  FALSE
    <3>1. Waiting(call'[u].corr)
      <4>1. CASE u = t
        BY <1>2, <1>4, <4>1 DEF Waiting
      <4>2. CASE u # t
        BY <1>4, <2>1, <4>2 DEF Waiting
      <4> QED
        BY <4>1, <4>2
    <3> QED
      BY <1>5, <2>1, <3>1 DEF ProfilerInv, CorrelationInv
  <2> QED
    BY <1>1, <1>6, <1>7, <1>10, <2>1
       DEF ProfilerInv, CorrelationInv, ThreadFrame, registrationVars
<1>16. CleanInv'
  BY <1>1, <1>5 DEF CleanInv, ThreadFrame, registrationVars
<1>17. AwaitedInv'
  BY <1>1, <1>5, <1>6 DEF ProfilerInv, AwaitedInv, ThreadFrame, registrationVars
<1>18. CountInv'
  BY <1>1, <1>2, <1>6, <1>11, LaunchCounts
<1>19. FlushInv'
  BY <1>1 DEF ProfilerInv, FlushInv, ThreadFrame, registrationVars
<1> QED
  BY <1>11, <1>12, <1>13, <1>14, <1>15, <1>16, <1>17, <1>18, <1>19 DEF ProfilerInv

\* The driver enqueues the kernel: its launch waits no more, and its record is
\* in one stream.
LEMMA EnqueueKeeps ==
    ProfilerInv /\ (\E t \in Launcher, s \in Stream : Enqueue(t, s)) => ProfilerInv'
<1> SUFFICES ASSUME ProfilerInv, NEW t \in Launcher, NEW r \in Stream, Enqueue(t, r)
             PROVE  ProfilerInv'
  OBVIOUS
<1> DEFINE c == call[t].corr
           stack == externIds[t]
           top == IF stack = <<>> THEN Dummy ELSE stack[Len(stack)]
<1>1. /\ UNCHANGED ThreadFrame
      /\ UNCHANGED <<profilerState, externIds, inProgress, scopeIdCounter, known,
                     corrIdToExternId, maxSubmitted, watchers, missed>>
  BY DEF Enqueue, ThreadFrame, threadVars
<1>2. /\ call[t].at = "driver" /\ call' = [call EXCEPT ![t].at = "enqueued"]
      /\ kernels' = [kernels EXCEPT ![r] = Append(@, c)]
      /\ external' = (IF driver.backend = "cupti" /\ stack # <<>> THEN Append(external, c)
                      ELSE external)
      /\ launch' = [launch EXCEPT ![c].external = top]
  BY DEF Enqueue
<1>3. call \in [Launcher -> [at : {"idle", "runtime", "driver", "enqueued", "returned"},
                             corr : 0..MaxLaunches]]
  BY DEF ProfilerInv, RecordTypes
<1>4. /\ call' \in [Launcher -> [at : {"idle", "runtime", "driver", "enqueued", "returned"},
                                 corr : 0..MaxLaunches]]
      /\ call'[t].at = "enqueued" /\ call'[t].corr = c
      /\ \A u \in Launcher : u # t => call'[u] = call[u]
  BY <1>2, <1>3
<1>5. /\ c \in Launched /\ c \in Corr /\ Waiting(c) /\ c \notin processed /\ ~Adding(c)
      /\ ~Enqueued(c) /\ ~In(c, external)
  <2>1. c \in Launched /\ c \in Corr /\ Waiting(c)
    BY <1>2 DEF ProfilerInv, CallInv, ProfilerTypeOK, Waiting
  <2> QED
    BY <2>1 DEF ProfilerInv, PlaceInv, CorrelationInv
<1>6. \A x : Waiting(x)' <=> Waiting(x) /\ x # c
  <2>1. ASSUME NEW x
        PROVE  Waiting(x)' <=> Waiting(x) /\ x # c
    <3>1. ASSUME NEW u \in Launcher, call'[u].corr = x, call'[u].at \in {"runtime", "driver"}
          PROVE  Waiting(x) /\ x # c
      <4>1. u # t /\ call'[u] = call[u]
        BY <1>4, <3>1
      <4> QED
        BY <1>2, <3>1, <4>1 DEF Waiting, ProfilerInv, CallInv
    <3>2. ASSUME NEW u \in Launcher, call[u].corr = x, call[u].at \in {"runtime", "driver"},
                 x # c
          PROVE  Waiting(x)'
      BY <1>4, <3>2 DEF Waiting
    <3> QED
      BY <3>1, <3>2 DEF Waiting
  <2> QED
    BY <2>1
<1>7. /\ launch \in [Launched -> Launch] /\ externIds \in [Launcher -> Seq(Scope)]
      /\ external \in Seq(Corr) /\ kernels \in [Stream -> Seq(Corr)] /\ Launched \subseteq Corr
  BY DEF ProfilerInv, ProfilerTypeOK, RecordTypes
<1>8. top \in Scope
  <2>1. stack \in Seq(Scope) /\ Dummy \in Scope
    BY <1>7, LaunchesAssumption DEF Scope, Dummy
  <2>2. stack # <<>> => stack[Len(stack)] \in Scope
    BY <2>1
  <2> QED
    BY <2>1, <2>2
<1>9. /\ launch' \in [Launched -> Launch] /\ Launched' = Launched
      /\ launch'[c].external = top
      /\ \A x \in Launched : /\ launch'[x].scope = launch[x].scope
                             /\ x # c => launch'[x].external = launch[x].external
  BY <1>2, <1>5, <1>7, <1>8 DEF Launched, Launch
<1>10. /\ external' \in Seq(Corr)
       /\ \A x : In(x, external') <=>
              In(x, external) \/ (x = c /\ driver.backend = "cupti" /\ stack # <<>>)
  <2>1. CASE driver.backend = "cupti" /\ stack # <<>>
    <3>1. external' = Append(external, c)
      BY <1>2, <2>1
    <3> QED
      BY <1>5, <1>7, <2>1, <3>1, InAppend
  <2>2. CASE ~(driver.backend = "cupti" /\ stack # <<>>)
    BY <1>2, <1>7, <2>2
  <2> QED
    BY <2>1, <2>2
<1>11. /\ kernels' \in [Stream -> Seq(Corr)] /\ Distinct(kernels'[r])
       /\ \A x : In(x, kernels'[r]) <=> In(x, kernels[r]) \/ x = c
       /\ \A s \in Stream : s # r => kernels'[s] = kernels[s]
  <2>1. kernels[r] \in Seq(Corr) /\ Distinct(kernels[r]) /\ ~In(c, kernels[r])
    BY <1>5, <1>7 DEF ProfilerInv, PlaceInv, Enqueued
  <2>2. kernels'[r] = Append(kernels[r], c) /\ Append(kernels[r], c) \in Seq(Corr)
    BY <1>2, <1>5, <1>7, <2>1
  <2>3. Distinct(kernels'[r])
    BY <1>5, <2>1, <2>2, DistinctAppend
  <2>4. \A x : In(x, kernels'[r]) <=> In(x, kernels[r]) \/ x = c
    BY <1>5, <2>1, <2>2, InAppend
  <2> QED
    BY <1>2, <1>7, <2>2, <2>3, <2>4
<1>12. \A x : (Enqueued(x)' <=> Enqueued(x) \/ x = c) /\ (Adding(x)' <=> Adding(x))
  BY <1>1, <1>11 DEF Enqueued, Adding, ThreadFrame
<1>13. ProfilerTypeOK' /\ RecordTypes'
  <2>1. ProfilerTypeOK'
    <3>1. ProfilerTypeOK
      BY DEF ProfilerInv
    <3> QED
      BY <1>1, <1>9, <1>10, <1>11, <3>1 DEF ProfilerTypeOK, ThreadFrame, registrationVars
  <2>2. RecordTypes'
    <3>1. RecordTypes
      BY DEF ProfilerInv
    <3> QED
      BY <1>1, <1>4, <1>9, <3>1 DEF RecordTypes, ThreadFrame, registrationVars
  <2> QED
    BY <2>1, <2>2
<1>14. CallInv'
  BY <1>1, <1>2, <1>4, <1>5, <1>9 DEF ProfilerInv, CallInv, ThreadFrame, registrationVars
<1>15. CounterInv'
  <2>1. Runtimes' = Runtimes
    BY <1>2, <1>4, <1>9 DEF Runtimes
  <2> QED
    BY <1>1, <1>9, <2>1 DEF ProfilerInv, CounterInv
<1>16. PlaceInv'
  <2>1. \A s \in Stream : Distinct(kernels'[s])
    BY <1>11 DEF ProfilerInv, PlaceInv
  <2>2. \A p, s \in Stream, x \in Corr : In(x, kernels'[p]) /\ In(x, kernels'[s]) => p = s
    <3>1. \A s \in Stream : ~In(c, kernels[s])
      BY <1>5 DEF Enqueued
    <3>2. \A s \in Stream, x \in Corr : In(x, kernels'[s]) <=>
              In(x, kernels[s]) \/ (s = r /\ x = c)
      BY <1>11
    <3> QED
      BY <3>1, <3>2 DEF ProfilerInv, PlaceInv
  <2>3. \A x \in Corr : Enqueued(x)' => /\ x \in Launched' /\ x \notin processed'
                                        /\ ~Waiting(x)' /\ ~Adding(x)'
    BY <1>1, <1>5, <1>6, <1>9, <1>12 DEF ProfilerInv, PlaceInv, ThreadFrame
  <2>4. \A x \in Corr : Waiting(x)' => x \notin processed' /\ ~Adding(x)'
    BY <1>1, <1>6, <1>12 DEF ProfilerInv, PlaceInv, ThreadFrame
  <2> QED
    BY <1>1, <1>9, <2>1, <2>2, <2>3, <2>4 DEF ProfilerInv, PlaceInv, ThreadFrame
<1>17. CorrelationInv'
  <2>1. c \in DOMAIN corrIdToExternId => corrIdToExternId[c] = top
    BY <1>2 DEF ProfilerInv, CorrelationInv
  <2>2. \A x \in DOMAIN corrIdToExternId : x \in Launched /\ x \in Corr
    BY <1>7 DEF ProfilerInv, ProfilerTypeOK
  <2>3. \A x \in DOMAIN corrIdToExternId : ~Waiting(x)' =>
            corrIdToExternId[x] = launch'[x].external
    BY <1>6, <1>9, <2>1, <2>2 DEF ProfilerInv, CorrelationInv
  <2>4. \A x \in Corr : In(x, external') => x \in Launched /\ ~Waiting(x)'
    BY <1>5, <1>6, <1>10 DEF ProfilerInv, CorrelationInv
  <2>5. driver.externalFirst => \A x \in Corr : In(x, external') =>
            x \notin processed /\ ~Adding(x)
    BY <1>5, <1>10 DEF ProfilerInv, CorrelationInv
  <2>6. \A u \in Launcher : call'[u].at = "driver" => call'[u] = call[u]
    BY <1>4
  <2> QED
    BY <1>1, <1>6, <1>9, <1>12, <2>3, <2>4, <2>5, <2>6
       DEF ProfilerInv, CorrelationInv, ThreadFrame, registrationVars
<1>18. CleanInv'
  <2>1. \A u \in Launcher : /\ call'[u].corr = call[u].corr
                            /\ call'[u].at = "idle" <=> call[u].at = "idle"
    BY <1>2, <1>4
  <2>2. \A u \in Launcher : call[u].at # "idle" =>
            launch'[call[u].corr].scope = launch[call[u].corr].scope
    BY <1>9 DEF ProfilerInv, CallInv
  <2> QED
    BY <1>1, <2>1, <2>2 DEF ProfilerInv, CleanInv, ThreadFrame, registrationVars
<1>19. AwaitedInv'
  <2>1. \A x \in Launched : x \notin processed => watchers[x] \subseteq registered
    BY DEF ProfilerInv, AwaitedInv
  <2> SUFFICES ASSUME ~missed, ~driver.nested, NEW x \in Launched
               PROVE  /\ \A d \in watchers[x] : launch'[x].scope \in known[d]
                      /\ ~Waiting(x)' => launch'[x].external = launch'[x].scope
                      /\ x \notin processed /\ ~Waiting(x)' =>
                             In(x, external') \/ x \in DOMAIN corrIdToExternId
                      /\ Waiting(x)' /\ driver.backend # "cupti" =>
                             x \in DOMAIN corrIdToExternId
    BY <1>1, <1>9, <2>1 DEF AwaitedInv, ThreadFrame, registrationVars
  <2>2. \A d \in watchers[x] : launch'[x].scope \in known[d]
    BY <1>9 DEF ProfilerInv, AwaitedInv
  <2>3. CASE x = c
    <3>1. stack = <<profilerState[t].scope>> /\ launch[c].scope = profilerState[t].scope
      BY <1>2 DEF ProfilerInv, CleanInv
    <3>2. stack # <<>> /\ top = launch[c].scope
      BY <3>1
    <3>3. driver.backend # "cupti" => c \in DOMAIN corrIdToExternId
      BY <1>5 DEF ProfilerInv, AwaitedInv
    <3> QED
      BY <1>6, <1>9, <1>10, <2>2, <2>3, <3>2, <3>3
  <2>4. CASE x # c
    BY <1>6, <1>9, <1>10, <2>2, <2>4 DEF ProfilerInv, AwaitedInv
  <2> QED
    BY <2>3, <2>4
<1>20. CountInv'
  BY <1>1, <1>5, <1>9, <1>13, LaunchCounts
<1>21. FlushInv'
  BY <1>1 DEF ProfilerInv, FlushInv, ThreadFrame, registrationVars
<1> QED
  BY <1>13, <1>14, <1>15, <1>16, <1>17, <1>18, <1>19, <1>20, <1>21 DEF ProfilerInv

\* A launch begins: the next one, which nothing knows of yet.
LEMMA EnterKeeps == ProfilerInv /\ (\E t \in Launcher : LaunchEnter(t)) => ProfilerInv'
<1> SUFFICES ASSUME ProfilerInv, NEW t \in Launcher, LaunchEnter(t)
             PROVE  ProfilerInv'
  OBVIOUS
<1> DEFINE n == Cardinality(Launched)
<1>0. PICK c : c = n + 1
  OBVIOUS
<1>1. /\ UNCHANGED ThreadFrame
      /\ UNCHANGED <<maxSubmitted, external, kernels, missed>>
  BY DEF LaunchEnter, ThreadFrame, recordVars
<1>2. /\ call[t].at = "idle" /\ c \in Corr
      /\ call' = [call EXCEPT ![t] =
                     [at |-> IF driver.nested THEN "runtime" ELSE "driver", corr |-> c]]
      /\ launch' = [x \in Launched \cup {c} |->
                       IF x = c THEN [scope |-> profilerState'[t].scope, external |-> Dummy,
                                      submitted |-> FALSE]
                       ELSE launch[x]]
      /\ watchers' = [watchers EXCEPT ![c] = registered]
  BY <1>0 DEF LaunchEnter, Begin
<1>3. /\ n \in Nat /\ n <= MaxLaunches /\ Launched = 1..n /\ IsFiniteSet(Launched)
      /\ c \notin Launched /\ n + 1 <= MaxLaunches
  <2>1. n \in Nat /\ n <= MaxLaunches /\ IsFiniteSet(Launched) /\ Launched = 1..n
    BY LaunchesFinite DEF ProfilerInv, RecordTypes
  <2> QED
    BY <1>0, <1>2, <2>1, LaunchesAssumption DEF Corr
<1>4. /\ Launched' = Launched \cup {c} /\ Cardinality(Launched') = n + 1
      /\ Launched' = 1..Cardinality(Launched') /\ Launched' \subseteq Corr
  <2>1. Launched' = Launched \cup {c}
    BY <1>2 DEF Launched
  <2>2. Cardinality(Launched') = n + 1
    BY <1>3, <2>1, FS_AddElement
  <2>3. Launched' = 1..(n + 1)
    BY <1>0, <1>3, <2>1
  <2>4. Launched \subseteq Corr
    BY DEF ProfilerInv, ProfilerTypeOK
  <2> QED
    BY <1>2, <2>1, <2>2, <2>3, <2>4
<1>5. call \in [Launcher -> [at : {"idle", "runtime", "driver", "enqueued", "returned"},
                             corr : 0..MaxLaunches]]
  BY DEF ProfilerInv, RecordTypes
<1>6. /\ call' \in [Launcher -> [at : {"idle", "runtime", "driver", "enqueued", "returned"},
                                 corr : 0..MaxLaunches]]
      /\ call'[t].at = (IF driver.nested THEN "runtime" ELSE "driver") /\ call'[t].corr = c
      /\ \A u \in Launcher : u # t => call'[u] = call[u]
  <2>1. c \in 0..MaxLaunches
    BY <1>2, LaunchesAssumption DEF Corr
  <2>2. (IF driver.nested THEN "runtime" ELSE "driver")
           \in {"idle", "runtime", "driver", "enqueued", "returned"}
    OBVIOUS
  <2> QED
    BY <1>2, <1>5, <2>1, <2>2
<1>7. \A u \in Launcher : call[u].at # "idle" => call[u].corr \in Launched /\ call[u].corr # c
  BY <1>3 DEF ProfilerInv, CallInv
<1>8. /\ \A x : Waiting(x)' <=> Waiting(x) \/ x = c
      /\ \A x : Waiting(x) => x \in Launched
  <2>1. Waiting(c)' /\ \A u \in Launcher : call'[u].at # "idle" /\ u # t => call'[u] = call[u]
    BY <1>0, <1>6 DEF Waiting
  <2>2. \A x : Waiting(x) => x \in Launched
    BY <1>7 DEF Waiting
  <2>3. ASSUME NEW x, Waiting(x)
        PROVE  Waiting(x)'
    BY <1>2, <1>6, <2>3 DEF Waiting
  <2>4. ASSUME NEW x, Waiting(x)', x # c
        PROVE  Waiting(x)
    BY <1>6, <2>4 DEF Waiting
  <2> QED
    BY <1>6, <2>1, <2>2, <2>3, <2>4 DEF Waiting
<1>9. /\ c \notin processed /\ ~Adding(c) /\ ~Enqueued(c) /\ ~In(c, external)
      /\ c \notin DOMAIN corrIdToExternId
  BY <1>2, <1>3 DEF ProfilerInv, ProfilerTypeOK, PlaceInv, CorrelationInv, Adding
<1>10. \A x : (Adding(x)' <=> Adding(x)) /\ (Enqueued(x)' <=> Enqueued(x))
  BY <1>1 DEF Adding, Enqueued, ThreadFrame
<1>11. scopeIdCounter \in Nat /\ scopeIdCounter <= 2 * MaxLaunches
       /\ scopeIdCounter + Cardinality(Runtimes) <= 1 + 2 * n
       /\ IsFiniteSet(Runtimes) /\ Cardinality(Runtimes) \in Nat
  <2>1. scopeIdCounter + Cardinality(Runtimes) <= 1 + 2 * n
    BY DEF ProfilerInv, CounterInv
  <2>2. IsFiniteSet(Runtimes) /\ Cardinality(Runtimes) \in Nat
    BY CountsFinite DEF ProfilerInv
  <2>3. scopeIdCounter \in Nat
    BY LaunchesAssumption DEF ProfilerInv, ProfilerTypeOK
  <2> QED
    BY <1>3, <2>1, <2>2, <2>3, LaunchesAssumption
<1>12. /\ scopeIdCounter' \in 1..2 * MaxLaunches + 1
       /\ scopeIdCounter' <= scopeIdCounter + 1
       /\ profilerState' \in [Launcher -> [scope : Scope, dataSet : SUBSET Data,
                                           isRecording : BOOLEAN]]
       /\ externIds' \in [Launcher -> Seq(Scope)] /\ externIds'[t] # <<>>
       /\ inProgress' \in [Launcher -> SUBSET Data]
       /\ known' \in [Data -> SUBSET Scope]
       /\ \A u \in Launcher : u # t => /\ profilerState'[u] = profilerState[u]
                                       /\ externIds'[u] = externIds[u]
                                       /\ inProgress'[u] = inProgress[u]
       /\ \A d \in Data : known[d] \subseteq known'[d]
       /\ ~driver.nested => RecordAndEnter(t)
  <2>1. CASE RecordAndEnter(t)
    BY <1>11, <2>1, Entering
  <2>2. CASE driver.nested /\ EnterWithoutContext(t)
    <3>1. /\ scopeIdCounter \in 1..2 * MaxLaunches + 1
          /\ profilerState \in [Launcher -> [scope : Scope, dataSet : SUBSET Data,
                                             isRecording : BOOLEAN]]
          /\ externIds \in [Launcher -> Seq(Scope)] /\ inProgress \in [Launcher -> SUBSET Data]
          /\ known \in [Data -> SUBSET Scope]
      BY DEF ProfilerInv, ProfilerTypeOK
    <3>2. /\ profilerState' = [profilerState EXCEPT ![t].isRecording = TRUE]
          /\ externIds' = [externIds EXCEPT ![t] = Append(@, Dummy)]
          /\ UNCHANGED <<scopeIdCounter, inProgress, known>>
      BY <2>2 DEF EnterWithoutContext
    <3>3. Dummy \in Scope /\ externIds[t] \in Seq(Scope)
      BY <3>1, LaunchesAssumption DEF Dummy, Scope
    <3>4. Append(externIds[t], Dummy) \in Seq(Scope) /\ Append(externIds[t], Dummy) # <<>>
      BY <3>3, AppendProperties
    <3>5. externIds' \in [Launcher -> Seq(Scope)] /\ externIds'[t] # <<>>
      BY <3>1, <3>2, <3>4
    <3>6. profilerState' \in [Launcher -> [scope : Scope, dataSet : SUBSET Data,
                                           isRecording : BOOLEAN]]
      BY <3>1, <3>2
    <3>7. scopeIdCounter' \in 1..2 * MaxLaunches + 1 /\ scopeIdCounter' <= scopeIdCounter + 1
      BY <1>11, <3>1, <3>2
    <3>8. \A u \in Launcher : u # t => /\ profilerState'[u] = profilerState[u]
                                       /\ externIds'[u] = externIds[u]
                                       /\ inProgress'[u] = inProgress[u]
      BY <3>1, <3>2
    <3> QED
      BY <2>2, <3>1, <3>2, <3>5, <3>6, <3>7, <3>8
  <2> QED
    BY <2>1, <2>2 DEF LaunchEnter
<1>13. corrIdToExternId' = (IF driver.backend = "cupti" THEN corrIdToExternId
           ELSE [x \in DOMAIN corrIdToExternId \cup {c} |->
                    IF x = c THEN externIds'[t][Len(externIds'[t])] ELSE corrIdToExternId[x]])
  BY <1>6, <1>12 DEF LaunchEnter, Correlate
<1>14. externIds'[t][Len(externIds'[t])] \in Scope
  <2>1. externIds'[t] \in Seq(Scope) /\ externIds'[t] # <<>>
    BY <1>12
  <2> QED
    BY <2>1
<1>15. /\ launch' \in [Launched' -> Launch]
       /\ launch'[c].scope = profilerState'[t].scope
       /\ \A x \in Launched : launch'[x] = launch[x]
  <2>1. launch \in [Launched -> Launch] /\ Dummy \in Scope
    BY LaunchesAssumption DEF ProfilerInv, RecordTypes, Scope, Dummy
  <2>2. [scope |-> profilerState'[t].scope, external |-> Dummy, submitted |-> FALSE] \in Launch
    BY <1>12, <2>1 DEF Launch
  <2>3. launch' \in [Launched \cup {c} -> Launch]
    BY <1>2, <2>1, <2>2
  <2> QED
    BY <1>2, <1>3, <1>4, <2>3
<1>16. /\ watchers' \in [Corr -> SUBSET Data] /\ watchers'[c] = registered
       /\ \A x \in Launched : watchers'[x] = watchers[x]
  BY <1>2, <1>3 DEF ProfilerInv, ProfilerTypeOK
<1>17. ProfilerTypeOK' /\ RecordTypes'
  <2>1. ProfilerTypeOK
    BY DEF ProfilerInv
  <2>2. /\ DOMAIN corrIdToExternId' \subseteq Launched'
        /\ \A x \in DOMAIN corrIdToExternId' : corrIdToExternId'[x] \in Scope
    BY <1>4, <1>13, <1>14, <2>1 DEF ProfilerTypeOK
  <2>3. ProfilerTypeOK'
    BY <1>1, <1>4, <1>12, <1>16, <2>1, <2>2 DEF ProfilerTypeOK, ThreadFrame, registrationVars
  <2>4. RecordTypes'
    <3>1. RecordTypes
      BY DEF ProfilerInv
    <3> QED
      BY <1>1, <1>4, <1>6, <1>15, <3>1 DEF RecordTypes, ThreadFrame, registrationVars
  <2> QED
    BY <2>3, <2>4
<1>18. CallInv'
  <2>1. \A u \in Launcher : call'[u].at # "idle" => call'[u].corr \in Launched'
    BY <1>4, <1>6, <1>7
  <2>2. \A u, v \in Launcher :
            call'[u].at # "idle" /\ call'[v].at # "idle" /\ call'[u].corr = call'[v].corr => u = v
    BY <1>6, <1>7 DEF ProfilerInv, CallInv
  <2>3. \A u \in Launcher : call'[u].at \in {"runtime", "returned"} => driver.nested
    BY <1>6 DEF ProfilerInv, CallInv
  <2> QED
    BY <1>1, <2>1, <2>2, <2>3 DEF CallInv, ThreadFrame, registrationVars
<1>19. CounterInv'
  <2>1. Runtimes' \subseteq Runtimes \cup {c}
    BY <1>4, <1>6 DEF Runtimes
  <2>2. /\ IsFiniteSet(Runtimes \cup {c})
        /\ Cardinality(Runtimes \cup {c}) = Cardinality(Runtimes) + 1
    BY <1>3, <1>11, FS_AddElement DEF Runtimes
  <2>3. IsFiniteSet(Runtimes') /\ Cardinality(Runtimes') <= Cardinality(Runtimes) + 1
    BY <2>1, <2>2, FS_Subset
  <2>4. Cardinality(Runtimes') \in Nat
    BY <2>3, FS_CardinalityType
  <2>5. scopeIdCounter' \in Nat
    BY <1>12, LaunchesAssumption
  <2> QED
    BY <1>3, <1>4, <1>11, <1>12, <2>3, <2>4, <2>5 DEF CounterInv
<1>20. PlaceInv'
  <2>1. \A x \in Corr : Enqueued(x) => x # c
    BY <1>9
  <2> QED
    BY <1>1, <1>4, <1>8, <1>9, <1>10, <2>1 DEF ProfilerInv, PlaceInv, ThreadFrame
<1>21. CorrelationInv'
  <2>1. \A x \in DOMAIN corrIdToExternId : x \in Launched /\ x # c
    BY <1>3 DEF ProfilerInv, ProfilerTypeOK
  <2>2. /\ \A x \in DOMAIN corrIdToExternId : x \in DOMAIN corrIdToExternId'
                                             /\ corrIdToExternId'[x] = corrIdToExternId[x]
        /\ \A x \in DOMAIN corrIdToExternId' :
               x \in DOMAIN corrIdToExternId \/ (x = c /\ driver.backend # "cupti")
        /\ c \in DOMAIN corrIdToExternId' =>
               corrIdToExternId'[c] = externIds'[t][Len(externIds'[t])]
    BY <1>9, <1>13
  <2>3. \A x \in DOMAIN corrIdToExternId' : ~Waiting(x)' =>
            corrIdToExternId'[x] = launch'[x].external
    BY <1>8, <1>15, <2>1, <2>2 DEF ProfilerInv, CorrelationInv
  <2>4. \A x \in DOMAIN corrIdToExternId' : Waiting(x)' => driver.backend # "cupti"
    BY <1>8, <2>1, <2>2 DEF ProfilerInv, CorrelationInv
  <2>5. ASSUME NEW u \in Launcher
        PROVE  /\ profilerState'[u].isRecording => externIds'[u] # <<>>
               /\ call'[u].at = "driver" /\ call'[u].corr \in DOMAIN corrIdToExternId' =>
                     /\ externIds'[u] # <<>>
                     /\ corrIdToExternId'[call'[u].corr] = externIds'[u][Len(externIds'[u])]
    <3>1. CASE u = t
      BY <1>6, <1>12, <2>2, <3>1
    <3>2. CASE u # t
      <4>1. /\ call'[u] = call[u] /\ externIds'[u] = externIds[u]
            /\ profilerState'[u] = profilerState[u]
        BY <1>6, <1>12, <3>2
      <4>2. call[u].at = "driver" => call[u].corr # c
        BY <1>7
      <4> QED
        BY <2>2, <4>1, <4>2 DEF ProfilerInv, CorrelationInv
    <3> QED
      BY <3>1, <3>2
  <2>6. \A x \in Corr : In(x, external) => x \in Launched' /\ ~Waiting(x)'
    BY <1>4, <1>8, <1>9 DEF ProfilerInv, CorrelationInv
  <2>7. driver.externalFirst => DOMAIN corrIdToExternId' \cap processed = {}
    BY <1>9, <2>2 DEF ProfilerInv, CorrelationInv
  <2>8. buffer.at = "addMetric" => buffer.corr \in DOMAIN corrIdToExternId'
    BY <2>2 DEF ProfilerInv, CorrelationInv
  <2> QED
    BY <1>1, <1>10, <2>3, <2>4, <2>5, <2>6, <2>7, <2>8
       DEF ProfilerInv, CorrelationInv, ThreadFrame, registrationVars
<1>22. ASSUME ~missed, ~driver.nested
       PROVE  /\ externIds'[t] = <<profilerState'[t].scope>>
              /\ inProgress'[t] = registered /\ profilerState'[t].dataSet = registered
              /\ profilerState'[t].isRecording
              /\ \A d \in registered : profilerState'[t].scope \in known'[d]
  <2>1. externIds[t] = <<>> /\ inProgress[t] = {} /\ ~profilerState[t].isRecording
    BY <1>2, <1>22 DEF ProfilerInv, CleanInv
  <2>2. /\ profilerState'[t] = [scope |-> scopeIdCounter, dataSet |-> registered,
                                isRecording |-> TRUE]
        /\ externIds'[t] = (IF profilerState[t].isRecording THEN externIds[t]
                            ELSE Append(externIds[t], scopeIdCounter))
        /\ inProgress'[t] = inProgress[t] \cup registered
        /\ \A d \in Data : d \in registered \ inProgress[t] => scopeIdCounter \in known'[d]
    BY <1>11, <1>12, <1>22, Entering
  <2>3. Append(<<>>, scopeIdCounter) = <<scopeIdCounter>>
    OBVIOUS
  <2>4. registered \subseteq Data
    BY DEF ProfilerInv, ProfilerTypeOK
  <2> QED
    BY <2>1, <2>2, <2>3, <2>4
<1>23. CleanInv'
  <2> SUFFICES ASSUME ~missed, ~driver.nested, NEW u \in Launcher
               PROVE  /\ call'[u].at = "idle" => externIds'[u] = <<>> /\ inProgress'[u] = {}
                                                 /\ ~profilerState'[u].isRecording
                      /\ call'[u].at # "idle" =>
                           /\ externIds'[u] = <<profilerState'[u].scope>>
                           /\ inProgress'[u] = profilerState'[u].dataSet
                           /\ profilerState'[u].isRecording
                           /\ launch'[call'[u].corr].scope = profilerState'[u].scope
    BY <1>1 DEF CleanInv, ThreadFrame, registrationVars
  <2>1. CASE u = t
    <3>1. call'[u].at # "idle" /\ call'[u].corr = c
      BY <1>6, <2>1
    <3> QED
      BY <1>15, <1>22, <2>1, <3>1
  <2>2. CASE u # t
    <3>1. /\ call'[u] = call[u] /\ profilerState'[u] = profilerState[u]
          /\ externIds'[u] = externIds[u] /\ inProgress'[u] = inProgress[u]
      BY <1>6, <1>12, <2>2
    <3>2. call[u].at # "idle" => launch'[call[u].corr].scope = launch[call[u].corr].scope
      BY <1>7, <1>15
    <3>3. /\ call[u].at = "idle" => externIds[u] = <<>> /\ inProgress[u] = {}
                                     /\ ~profilerState[u].isRecording
          /\ call[u].at # "idle" => /\ externIds[u] = <<profilerState[u].scope>>
                                    /\ inProgress[u] = profilerState[u].dataSet
                                    /\ profilerState[u].isRecording
                                    /\ launch[call[u].corr].scope = profilerState[u].scope
      BY DEF ProfilerInv, CleanInv
    <3> QED
      BY <3>1, <3>2, <3>3
  <2> QED
    BY <2>1, <2>2
<1>24. AwaitedInv'
  <2>1. \A x \in Launched' : x \notin processed => watchers'[x] \subseteq registered
    BY <1>4, <1>16 DEF ProfilerInv, AwaitedInv
  <2> SUFFICES ASSUME ~missed, ~driver.nested, NEW x \in Launched'
               PROVE  /\ \A d \in watchers'[x] : launch'[x].scope \in known'[d]
                      /\ ~Waiting(x)' => launch'[x].external = launch'[x].scope
                      /\ x \notin processed /\ ~Waiting(x)' =>
                             In(x, external) \/ x \in DOMAIN corrIdToExternId'
                      /\ Waiting(x)' /\ driver.backend # "cupti" =>
                             x \in DOMAIN corrIdToExternId'
    BY <1>1, <2>1 DEF AwaitedInv, ThreadFrame, registrationVars
  <2>2. CASE x = c
    BY <1>8, <1>13, <1>15, <1>16, <1>22, <2>2
  <2>3. CASE x # c
    <3>1. x \in Launched /\ x \in Corr /\ (Waiting(x)' <=> Waiting(x))
      BY <1>4, <1>8, <2>3
    <3>2. launch'[x] = launch[x] /\ watchers'[x] = watchers[x] /\ watchers[x] \subseteq Data
      BY <1>15, <1>16, <3>1 DEF ProfilerInv, ProfilerTypeOK
    <3>3. x \in DOMAIN corrIdToExternId => x \in DOMAIN corrIdToExternId'
      BY <1>13
    <3> QED
      BY <1>12, <3>1, <3>2, <3>3 DEF ProfilerInv, AwaitedInv
  <2> QED
    BY <2>2, <2>3
<1>25. CountInv'
  BY <1>1, <1>4, <1>15, <1>16, <1>17, LaunchCounts
<1>26. FlushInv'
  BY <1>1 DEF ProfilerInv, FlushInv, ThreadFrame, registrationVars
<1> QED
  BY <1>17, <1>18, <1>19, <1>20, <1>21, <1>23, <1>24, <1>25, <1>26 DEF ProfilerInv

-----------------------------------------------------------------------------
(* The theorem. *)

\* So does no step at all.
LEMMA StutterKeeps == ProfilerInv /\ UNCHANGED profilerVars => ProfilerInv'
<1> SUFFICES ASSUME ProfilerInv, UNCHANGED profilerVars
             PROVE  ProfilerInv'
  OBVIOUS
<1>1. UNCHANGED <<registered, initialized, session, user, watchers>> /\ UNCHANGED Others
  BY DEF profilerVars, registrationVars, historyVars, Others
<1>2. FlushInv'
  BY <1>1 DEF ProfilerInv, FlushInv, Others
<1> QED
  BY <1>1, <1>2, UserKeeps DEF ProfilerInv, ProfilerTypeOK, RecordTypes, AwaitedInv

\* Every step of the profiler keeps the invariant.
LEMMA InvNext == ProfilerInv /\ [ProfilerNext]_profilerVars => ProfilerInv'
<1> SUFFICES ASSUME ProfilerInv, [ProfilerNext]_profilerVars
             PROVE  ProfilerInv'
  OBVIOUS
<1>1. CASE UNCHANGED profilerVars
  BY <1>1, StutterKeeps
<1>2. CASE Launching
  <2> SUFFICES ASSUME NEW t \in Launcher,
                      \/ LaunchEnter(t) \/ DriverEnter(t)
                      \/ \E s \in Stream : Enqueue(t, s)
                      \/ DriverExit(t) \/ RuntimeExit(t)
               PROVE  ProfilerInv'
    BY <1>2 DEF Launching
  <2>1. CASE LaunchEnter(t)
    BY <2>1, EnterKeeps
  <2>2. CASE DriverEnter(t)
    BY <2>2, DriverEnterKeeps
  <2>3. CASE \E s \in Stream : Enqueue(t, s)
    BY <2>3, EnqueueKeeps
  <2>4. CASE DriverExit(t)
    <3>1. ExitCallback(t, "enqueued", IF driver.nested THEN "returned" ELSE "idle")
      BY <2>4 DEF DriverExit
    <3>2. CASE driver.nested
      BY <3>1, <3>2, ExitKeeps
    <3>3. CASE ~driver.nested
      BY <3>1, <3>3, ExitKeeps
    <3> QED
      BY <3>2, <3>3
  <2>5. CASE RuntimeExit(t)
    BY <2>5, ExitKeeps DEF RuntimeExit
  <2> QED
    BY <2>1, <2>2, <2>3, <2>4, <2>5
<1>3. CASE BufferCallback
  BY <1>3, ExternalKeeps, EraseKeeps, CompleteKeeps, KernelKeeps, SelectKeeps, AddKeeps
     DEF BufferCallback
<1>4. CASE UserStep
  BY <1>4, UserStepKeeps
<1> QED
  BY <1>1, <1>2, <1>3, <1>4 DEF ProfilerNext

\* However launches, buffers, activations, flushes and finalisations are
\* interleaved, each kernel is counted at most once, under the scope of its
\* launch, and by every data object registered throughout
\* (CuptiProfiler::processActivityKernel, ThreadState::enterOp and exitOp).
THEOREM EachLaunchCountedOnce == ProfilerSpec => []LaunchesCountedOnce
<1>1. ProfilerInit => ProfilerInv
  BY InvInit
<1>2. ProfilerInv /\ [ProfilerNext]_profilerVars => ProfilerInv'
  BY InvNext
<1>3. ProfilerInv => LaunchesCountedOnce
  BY InvImpliesCounted
<1> QED
  BY <1>1, <1>2, <1>3, PTL DEF ProfilerSpec

=============================================================================
