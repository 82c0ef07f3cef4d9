------------------------- MODULE CompileCacheProofs -------------------------
(***************************************************************************)
(* Proofs about CompileCache, for any number of processes, stages, runs and *)
(* deletions: CacheInv is inductive, and entries are complete, read whole   *)
(* and used.                                                                *)
(***************************************************************************)
EXTENDS CompileCache, TLAPS

-----------------------------------------------------------------------------
(* The names of the outputs. *)

LEMMA OutputFacts ==
    /\ Len(Stages) \in Nat /\ MetadataAt \in Nat /\ GroupAt = MetadataAt + 1
    /\ MetadataAt = Len(Stages) + 1
    /\ \A j \in 1..Len(Stages) : Outputs[j] = Stages[j]
    /\ Outputs[MetadataAt] = "metadata" /\ Outputs[GroupAt] = "group"
<1>1. Stages \in Seq(STRING) /\ Len(Stages) \in Nat
  BY StagesAssumption
<1>2. /\ \A j \in 1..Len(Stages) : Outputs[j] = Stages[j]
      /\ Outputs[Len(Stages) + 1] = "metadata"
      /\ Outputs[Len(Stages) + 2] = "group"
  BY <1>1 DEF Outputs
<1> QED
  BY <1>1, <1>2 DEF MetadataAt, GroupAt

LEMMA OutputNames ==
    /\ \A j \in 1..MetadataAt : Outputs[j] \in Children /\ Outputs[j] # "group"
    /\ \A j \in 1..GroupAt : /\ Outputs[j] \in Names
                             /\ Outputs[j] = "group" <=> j = GroupAt
                             /\ Outputs[j] \notin Children => j = GroupAt
    /\ "metadata" \in Children /\ Binary \in Children
    /\ Binary # "group" /\ Binary # "metadata" /\ Binary \notin Unlisted
    /\ \E j \in 1..Len(Stages) : Outputs[j] = Binary
<1>1. \A j \in 1..MetadataAt : Outputs[j] \in Children
  BY DEF Children
<1>2. \A j \in 1..MetadataAt : Outputs[j] # "group"
  <2> TAKE j \in 1..MetadataAt
  <2>1. CASE j \in 1..Len(Stages)
    BY <2>1, OutputFacts, StagesAssumption
  <2>2. CASE j = MetadataAt
    BY <2>2, OutputFacts
  <2> QED
    BY <2>1, <2>2, OutputFacts
<1>3. \A j \in 1..GroupAt : j \in 1..MetadataAt \/ j = GroupAt
  BY OutputFacts
<1>4. PICK b \in 1..Len(Stages) : Stages[b] = Binary /\ Binary \notin Unlisted
  BY BinaryAssumption
<1>5. Outputs[b] = Binary /\ Binary \in Children
  BY <1>1, <1>4, OutputFacts
<1>6. Binary # "group" /\ Binary # "metadata"
  BY <1>4, StagesAssumption
<1>7. "metadata" \in Children
  BY <1>1, OutputFacts
<1>8. \A j \in 1..GroupAt : /\ Outputs[j] \in Names
                            /\ Outputs[j] = "group" <=> j = GroupAt
                            /\ Outputs[j] \notin Children => j = GroupAt
  BY <1>1, <1>2, <1>3, OutputFacts DEF Names
<1> QED
  BY <1>1, <1>2, <1>4, <1>5, <1>6, <1>7, <1>8

-----------------------------------------------------------------------------
(* Types. *)

LEMMA WrittenType ==
    ASSUME TypeOK, NEW p \in Procs, NEW w \in BOOLEAN
    PROVE  Written(p, w) \in Contents /\ Unwritten(config[p]) \in Contents
<1>1. config[p].version \in Versions /\ metadataGroup[p] \in SUBSET Children
  BY DEF TypeOK, Config
<1> QED
  BY <1>1 DEF Written, Unwritten, Contents

LEMMA TypeInit == Init => TypeOK
<1> SUFFICES ASSUME Init PROVE TypeOK
  OBVIOUS
<1>1. \A p \in Procs : Unwritten(config[p]) \in Contents
  BY DEF Init, Config, Unwritten, Contents
<1>2. 1 \in 1..GroupAt
  BY OutputFacts
<1> QED
  BY <1>1, <1>2 DEF Init, TypeOK, Ended

\* What a process forgets is well typed afterwards.
LEMMA ForgetType ==
    ASSUME TypeOK, NEW p \in Procs, NEW c \in Config, Forget(p, c)
    PROVE  /\ found' \in [Procs -> BOOLEAN]
           /\ listed' \in [Procs -> SUBSET Children]
           /\ metadataGroup' \in [Procs -> SUBSET Children]
           /\ k' \in [Procs -> 1..GroupAt]
           /\ temp' \in [Procs -> Contents]
           /\ DOMAIN kernel' = Procs
           /\ \A q \in Procs : /\ DOMAIN kernel'[q] \subseteq Children
                               /\ \A n \in DOMAIN kernel'[q] : kernel'[q][n] \in Contents
<1>1. Unwritten(c) \in Contents /\ 1 \in 1..GroupAt
  BY OutputFacts DEF Config, Unwritten, Contents
<1> QED
  BY <1>1 DEF Forget, TypeOK

LEMMA FailType ==
    ASSUME TypeOK, NEW p \in Procs, Fail(p)
    PROVE  TypeOK'
<1>1. config[p] \in Config
  BY DEF TypeOK
<1> QED
  BY <1>1, ForgetType DEF Fail, GoTo, TypeOK, Ended

\* Storing a well-typed file.
LEMMA StoreType ==
    ASSUME TypeOK, NEW n \in Names, NEW c \in Contents, Store(n, c)
    PROVE  /\ DOMAIN files' \subseteq Names
           /\ \A m \in DOMAIN files' : files'[m] \in Contents
           /\ evicted' \subseteq Names
BY DEF Store, TypeOK

\* Reading a well-typed file.
LEMMA ReadType ==
    ASSUME TypeOK, NEW p \in Procs, NEW n \in Children, HasFile(n), ReadInto(p, n)
    PROVE  /\ DOMAIN kernel' = Procs
           /\ \A q \in Procs : /\ DOMAIN kernel'[q] \subseteq Children
                               /\ \A m \in DOMAIN kernel'[q] : kernel'[q][m] \in Contents
BY DEF ReadInto, HasFile, TypeOK

LEMMA TypeStep ==
    ASSUME TypeOK, NEW p \in Procs, Step(p)
    PROVE  TypeOK'
<1> USE DEF GoTo, procVars
<1>k. k[p] \in 1..GroupAt /\ GroupAt \in Nat /\ MetadataAt \in Nat
      /\ GroupAt = MetadataAt + 1 /\ 1 \in 1..GroupAt
  BY OutputFacts DEF TypeOK
<1>1. CASE LookUp(p)
  BY <1>1 DEF LookUp, HasFile, TypeOK
<1>2. CASE OpenGroup(p)
  <2>1. files["group"].children \in SUBSET Children
    BY <1>2 DEF OpenGroup, HasFile, TypeOK, Contents
  <2> QED
    BY <1>2, <2>1 DEF OpenGroup, TypeOK
<1>3. CASE OpenGroupFails(p)
  BY <1>3, FailType DEF OpenGroupFails
<1>4. CASE CheckChild(p)
  <2>1. k[p] + 1 \in 1..GroupAt /\ Output(p) \in Children
    BY <1>4, <1>k, OutputNames DEF CheckChild, Output
  <2> QED
    BY <1>4, <2>1 DEF CheckChild, Output, TypeOK
<1>5. CASE ChildrenChecked(p)
  BY <1>5 DEF ChildrenChecked, TypeOK
<1>6. CASE Decide(p)
  BY <1>6, <1>k DEF Decide, TypeOK
<1>7. CASE ReadHit(p)
  BY <1>7 DEF ReadHit, TypeOK
<1>8. CASE ReadHitFails(p)
  BY <1>8, FailType DEF ReadHitFails
<1>9. CASE SkipOutput(p)
  <2>1. k[p] # GroupAt
    BY <1>9, OutputFacts, UnlistedAssumption DEF SkipOutput, Stored, Output
  <2>2. k[p] + 1 \in 1..GroupAt
    BY <2>1, <1>k
  <2> QED
    BY <1>9, <2>2 DEF SkipOutput, TypeOK
<1>10. CASE OpenTemp(p)
  BY <1>10, WrittenType DEF OpenTemp, TypeOK
<1>11. CASE WriteTemp(p)
  BY <1>11, WrittenType DEF WriteTemp, TypeOK
<1>12. CASE Replace(p)
  <2>1. Output(p) \in Names /\ {Output(p)} \ {"group"} \subseteq Children
    BY <1>k, OutputNames DEF Output, Names
  <2>2. temp[p] \in Contents /\ Unwritten(config[p]) \in Contents
    BY WrittenType DEF TypeOK
  <2>3. /\ DOMAIN files' \subseteq Names
        /\ \A m \in DOMAIN files' : files'[m] \in Contents
        /\ evicted' \subseteq Names
    BY <1>12, <2>1, <2>2, StoreType DEF Replace
  <2>4. k' \in [Procs -> 1..GroupAt]
    BY <1>12, <1>k DEF Replace, TypeOK
  <2>5. metadataGroup' \in [Procs -> SUBSET Children]
    BY <1>12, <2>1 DEF Replace, TypeOK
  <2> QED
    BY <1>12, <2>2, <2>3, <2>4, <2>5 DEF Replace, TypeOK
<1>13. CASE ReadMetadata(p)
  BY <1>13, ReadType, OutputNames DEF ReadMetadata, TypeOK
<1>14. CASE ReadMetadataFails(p)
  BY <1>14, FailType DEF ReadMetadataFails
<1>15. CASE ReadAsm(p)
  <2>1. k[p] + 1 \in 1..GroupAt /\ Output(p) \in Children
    BY <1>15, <1>k, OutputFacts, OutputNames DEF ReadAsm, Output
  <2>2. /\ DOMAIN kernel' = Procs
        /\ \A q \in Procs : /\ DOMAIN kernel'[q] \subseteq Children
                            /\ \A m \in DOMAIN kernel'[q] : kernel'[q][m] \in Contents
    BY <1>15, <2>1, ReadType DEF ReadAsm, TypeOK
  <2> QED
    BY <1>15, <2>1, <2>2 DEF ReadAsm, TypeOK
<1>16. CASE ReadAsmFails(p)
  BY <1>16, FailType DEF ReadAsmFails
<1>17. CASE TakeKernel(p)
  BY <1>17 DEF TakeKernel, TypeOK, Ended
<1>18. CASE TakeKernelFails(p)
  BY <1>18, FailType DEF TakeKernelFails
<1> QED
  BY <1>1, <1>2, <1>3, <1>4, <1>5, <1>6, <1>7, <1>8, <1>9, <1>10, <1>11, <1>12,
     <1>13, <1>14, <1>15, <1>16, <1>17, <1>18 DEF Step

LEMMA TypeNext == TypeOK /\ [Next]_vars => TypeOK'
<1> SUFFICES ASSUME TypeOK, [Next]_vars PROVE TypeOK'
  OBVIOUS
<1>1. CASE \E p \in Procs : Step(p)
  BY <1>1, TypeStep
<1>2. ASSUME NEW p \in Procs, Crash(p) PROVE TypeOK'
  <2>1. config[p] \in Config
    BY DEF TypeOK
  <2> QED
    BY <1>2, <2>1, ForgetType DEF Crash, GoTo, TypeOK, Ended
<1>3. ASSUME NEW p \in Procs, Restart(p) PROVE TypeOK'
  <2>1. PICK c \in Config : config' = [config EXCEPT ![p] = c] /\ Forget(p, c)
    BY <1>3 DEF Restart
  <2> QED
    BY <1>3, <2>1, ForgetType DEF Restart, GoTo, TypeOK
<1>4. ASSUME NEW name \in Names, Evict(name) PROVE TypeOK'
  BY <1>4 DEF Evict, HasFile, TypeOK, procVars
<1>5. CASE UNCHANGED vars
  BY <1>5 DEF vars, TypeOK
<1> QED
  BY <1>1, <1>2, <1>3, <1>4, <1>5 DEF Next, Quiet

\* compile()'s state and the cache directory stay well typed: put() never
\* writes a file that is not one of the key's, and no index of the loops over
\* stages and children leaves its range.
THEOREM TypeCorrect == Spec => []TypeOK
<1>1. Init => TypeOK
  BY TypeInit
<1>2. TypeOK /\ [Next]_vars => TypeOK'
  BY TypeNext
<1> QED
  BY <1>1, <1>2, PTL DEF Spec

-----------------------------------------------------------------------------
(* What one step does for the other processes. *)

\* Process q's own state is what it was.
SameLocal(q) ==
    /\ pc'[q] = pc[q] /\ config'[q] = config[q] /\ found'[q] = found[q]
    /\ listed'[q] = listed[q] /\ metadataGroup'[q] = metadataGroup[q]
    /\ k'[q] = k[q] /\ temp'[q] = temp[q] /\ kernel'[q] = kernel[q]

\* No file is lost unless it is deleted.
NothingLost ==
    /\ DOMAIN files \cup evicted \subseteq DOMAIN files' \cup evicted'
    /\ evictions \in Nat /\ evictions' \in Nat /\ evictions <= evictions'
    /\ HasFile("group") => "group" \in DOMAIN files' \/ evictions' > 0

LEMMA StoreLosesNothing ==
    ASSUME TypeOK, NEW n \in Names, NEW c \in Contents, Store(n, c), evictions' = evictions
    PROVE  /\ NothingLost
           /\ DOMAIN files' = DOMAIN files \cup {n}
           /\ files'[n] = c
           /\ \A m \in DOMAIN files : m # n => files'[m] = files[m]
           /\ evicted' \subseteq evicted
BY DEF Store, NothingLost, TypeOK, HasFile

LEMMA EvictLosesNothing ==
    ASSUME TypeOK, NEW n \in Names, Evict(n)
    PROVE  NothingLost
BY DEF Evict, NothingLost, TypeOK, HasFile

LEMMA SameLosesNothing ==
    ASSUME TypeOK, UNCHANGED <<files, evicted, evictions>>
    PROVE  NothingLost
BY DEF NothingLost, TypeOK, HasFile

LEMMA KnownKept ==
    ASSUME NothingLost, NEW S, Known(S)
    PROVE  S \subseteq DOMAIN files' \cup evicted'
BY DEF NothingLost, Known

\* A process that takes no step keeps its invariant.
LEMMA OthersKept ==
    ASSUME NEW q \in Procs, ProcInv(q), SameLocal(q), NothingLost
    PROVE  ProcInv(q)'
<1>1. Known(metadataGroup[q])'
  BY KnownKept DEF ProcInv, SameLocal, Known
<1>2. evictions > 0 => evictions' > 0
  BY DEF NothingLost
<1>3. LookUpSound(q)'
  <2>1. pc'[q] = "check" => Known(listed[q])'
    BY KnownKept DEF ProcInv, SameLocal, Known, LookUpSound
  <2> QED
    BY <1>2, <2>1 DEF ProcInv, SameLocal, LookUpSound, NothingLost, HasFile
<1>4. PutSound(q)'
  BY <1>2 DEF ProcInv, SameLocal, PutSound, Putting, Stored, Output, Written
<1>5. ReadSound(q)'
  BY <1>2 DEF ProcInv, SameLocal, ReadSound, Reading
<1> QED
  BY <1>1, <1>3, <1>4, <1>5 DEF ProcInv

\* What a failing step needs is there.
LEMMA NeededThere ==
    ASSUME FilesSound, NEW S, Known(S), NEW n \in S, evictions = 0
    PROVE  HasFile(n)
BY DEF FilesSound, Known, HasFile

\* A process that has ended, or has not begun, has nothing to keep.
LEMMA ForgottenSound ==
    ASSUME TypeOK, NEW p \in Procs, NEW c, Forget(p, c), pc'[p] \in Ended \cup {"new"}
    PROVE  ProcInv(p)'
<1>1. k'[p] = 1 /\ metadataGroup'[p] = {} /\ kernel'[p] = [n \in {} |-> n]
  BY DEF Forget, TypeOK
<1>2. DOMAIN [n \in {} |-> n] = {}
  OBVIOUS
<1> QED
  BY <1>1, <1>2 DEF ProcInv, Known, LookUpSound, PutSound, Putting, ReadSound, Reading, Ended

-----------------------------------------------------------------------------
(* What a step does for the process that takes it. *)

LEMMA LookUpStep ==
    ASSUME TypeOK, NEW p \in Procs, ProcInv(p), LookUp(p)
    PROVE  ProcInv(p)'
<1>1. /\ pc'[p] = (IF HasFile("group") THEN "open" ELSE "decide")
      /\ found'[p] = HasFile("group")
      /\ k'[p] = 1 /\ metadataGroup'[p] = {} /\ kernel'[p] = kernel[p]
      /\ files' = files /\ evicted' = evicted /\ evictions' = evictions
  BY DEF LookUp, GoTo, TypeOK, ProcInv, LookUpSound
<1> QED
  BY <1>1 DEF ProcInv, Known, HasFile, LookUpSound, PutSound, Putting, ReadSound, Reading

LEMMA OpenGroupStep ==
    ASSUME TypeOK, FilesSound, NEW p \in Procs, ProcInv(p), OpenGroup(p)
    PROVE  ProcInv(p)'
<1>1. /\ pc[p] = "open" /\ HasFile("group") /\ pc'[p] = "check"
      /\ listed'[p] = files["group"].children
      /\ k'[p] = k[p] /\ found'[p] = found[p]
      /\ metadataGroup'[p] = metadataGroup[p] /\ kernel'[p] = kernel[p]
      /\ files' = files /\ evicted' = evicted /\ evictions' = evictions
  BY DEF OpenGroup, GoTo, TypeOK
<1>2. k[p] = 1 /\ found[p]
  BY <1>1 DEF ProcInv, LookUpSound
<1>3. Needed \subseteq files["group"].children /\ Known(files["group"].children)
  BY <1>1 DEF FilesSound
<1> QED
  BY <1>1, <1>2, <1>3 DEF ProcInv, Known, LookUpSound, PutSound, Putting, ReadSound, Reading

LEMMA CheckChildStep ==
    ASSUME TypeOK, FilesSound, NEW p \in Procs, ProcInv(p), CheckChild(p)
    PROVE  ProcInv(p)'
<1>1. /\ pc[p] = "check" /\ k[p] \in Nat /\ pc'[p] = pc[p] /\ k'[p] = k[p] + 1
      /\ listed'[p] = listed[p] /\ found'[p] = found[p] /\ kernel'[p] = kernel[p]
      /\ metadataGroup'[p] = IF Outputs[k[p]] \in listed[p] /\ HasFile(Outputs[k[p]])
                             THEN metadataGroup[p] \cup {Outputs[k[p]]}
                             ELSE metadataGroup[p]
      /\ files' = files /\ evicted' = evicted /\ evictions' = evictions
  BY DEF CheckChild, TypeOK
<1>2. /\ found[p] /\ Needed \subseteq listed[p] /\ Known(listed[p])
      /\ \A j \in 1..(k[p] - 1) :
           Outputs[j] \in listed[p] => Outputs[j] \in metadataGroup[p] \/ evictions > 0
  BY <1>1 DEF ProcInv, LookUpSound
<1>3. Outputs[k[p]] \in listed[p] => Outputs[k[p]] \in metadataGroup'[p] \/ evictions > 0
  BY <1>1, <1>2, NeededThere DEF TypeOK
<1>4. \A j \in 1..(k[p] + 1 - 1) : j \in 1..(k[p] - 1) \/ j = k[p]
  BY <1>1
<1>5. LookUpSound(p)'
  BY <1>1, <1>2, <1>3, <1>4 DEF LookUpSound, Known
<1>6. Known(metadataGroup[p])'
  BY <1>1 DEF ProcInv, Known, HasFile
<1> QED
  BY <1>1, <1>5, <1>6 DEF ProcInv, PutSound, Putting, ReadSound, Reading

LEMMA ChildrenCheckedStep ==
    ASSUME TypeOK, FilesSound, NEW p \in Procs, ProcInv(p), ChildrenChecked(p)
    PROVE  ProcInv(p)'
<1>1. /\ pc[p] = "check" /\ k[p] = GroupAt /\ pc'[p] = "decide"
      /\ found'[p] = found[p] /\ metadataGroup'[p] = metadataGroup[p]
      /\ kernel'[p] = kernel[p]
      /\ files' = files /\ evicted' = evicted /\ evictions' = evictions
  BY DEF ChildrenChecked, GoTo, TypeOK
<1>2. /\ found[p] /\ Needed \subseteq listed[p]
      /\ \A j \in 1..(GroupAt - 1) :
           Outputs[j] \in listed[p] => Outputs[j] \in metadataGroup[p] \/ evictions > 0
  BY <1>1 DEF ProcInv, LookUpSound
<1>3. \A n \in Needed : \E j \in 1..(GroupAt - 1) : Outputs[j] = n
  BY OutputFacts, OutputNames DEF Needed
<1>4. Needed \subseteq metadataGroup[p] \/ evictions > 0
  BY <1>2, <1>3
<1> QED
  BY <1>1, <1>2, <1>4 DEF ProcInv, Known, LookUpSound, PutSound, Putting, ReadSound, Reading

LEMMA DecideStep ==
    ASSUME TypeOK, FilesSound, NEW p \in Procs, ProcInv(p), Decide(p)
    PROVE  ProcInv(p)'
<1>1. /\ pc[p] = "decide" /\ pc'[p] = IF CacheHit(p) THEN "hit" ELSE "stage"
      /\ k'[p] = 1 /\ found'[p] = found[p] /\ metadataGroup'[p] = metadataGroup[p]
      /\ kernel'[p] = kernel[p] /\ config'[p] = config[p]
      /\ files' = files /\ evicted' = evicted /\ evictions' = evictions
  BY DEF Decide, GoTo, TypeOK, procVars
<1>2. IF found[p] THEN Needed \subseteq metadataGroup[p] \/ evictions > 0
                  ELSE metadataGroup[p] = {}
  BY <1>1 DEF ProcInv, LookUpSound
<1>3. CacheHit(p) => Needed \subseteq metadataGroup[p] \/ evictions > 0
  BY <1>2 DEF CacheHit
<1>4. ~CacheHit(p) /\ found[p] => config[p].alwaysCompile \/ evictions > 0
  BY <1>2 DEF CacheHit, Needed
<1> QED
  BY <1>1, <1>3, <1>4 DEF ProcInv, Known, LookUpSound, PutSound, Putting, ReadSound, Reading

\* The steps on the way to a read.
LEMMA HitStep ==
    ASSUME TypeOK, NEW p \in Procs, ProcInv(p), ReadHit(p)
    PROVE  ProcInv(p)'
<1>1. /\ pc[p] = "hit" /\ pc'[p] = "construct"
      /\ k'[p] = k[p] /\ metadataGroup'[p] = metadataGroup[p] /\ kernel'[p] = kernel[p]
      /\ files' = files /\ evicted' = evicted /\ evictions' = evictions
  BY DEF ReadHit, GoTo, TypeOK, procVars
<1> QED
  BY <1>1 DEF ProcInv, Known, LookUpSound, PutSound, Putting, ReadSound, Reading

LEMMA SkipOutputStep ==
    ASSUME TypeOK, NEW p \in Procs, ProcInv(p), SkipOutput(p)
    PROVE  ProcInv(p)'
<1>1. /\ pc[p] = "stage" /\ pc'[p] = "stage" /\ k[p] \in Nat /\ k'[p] = k[p] + 1
      /\ Outputs[k[p]] \in Unlisted
      /\ config'[p] = config[p] /\ found'[p] = found[p]
      /\ metadataGroup'[p] = metadataGroup[p] /\ kernel'[p] = kernel[p]
      /\ files' = files /\ evicted' = evicted /\ evictions' = evictions
  BY DEF SkipOutput, Stored, Output, TypeOK, procVars
<1>2. \A j \in 1..(k[p] + 1 - 1) : j \in 1..(k[p] - 1) \/ j = k[p]
  BY <1>1
<1> QED
  BY <1>1, <1>2 DEF ProcInv, Known, LookUpSound, PutSound, Putting, ReadSound, Reading

LEMMA OpenTempStep ==
    ASSUME TypeOK, NEW p \in Procs, ProcInv(p), OpenTemp(p)
    PROVE  ProcInv(p)'
<1>1. /\ pc[p] = "stage" /\ pc'[p] = "write" /\ Stored(p)
      /\ k'[p] = k[p] /\ config'[p] = config[p] /\ found'[p] = found[p]
      /\ metadataGroup'[p] = metadataGroup[p] /\ kernel'[p] = kernel[p]
      /\ files' = files /\ evicted' = evicted /\ evictions' = evictions
  BY DEF OpenTemp, GoTo, TypeOK
<1>2. Stored(p)'
  BY <1>1 DEF Stored, Output
<1> QED
  BY <1>1, <1>2 DEF ProcInv, Known, LookUpSound, PutSound, Putting, ReadSound, Reading

LEMMA WriteTempStep ==
    ASSUME TypeOK, NEW p \in Procs, ProcInv(p), WriteTemp(p)
    PROVE  ProcInv(p)'
<1>1. /\ pc[p] = "write" /\ pc'[p] = "replace" /\ temp'[p] = Written(p, TRUE)
      /\ k'[p] = k[p] /\ config'[p] = config[p] /\ found'[p] = found[p]
      /\ metadataGroup'[p] = metadataGroup[p] /\ kernel'[p] = kernel[p]
      /\ files' = files /\ evicted' = evicted /\ evictions' = evictions
  BY DEF WriteTemp, GoTo, TypeOK
<1>2. Stored(p) => Stored(p)'
  BY <1>1 DEF Stored, Output
<1>3. Written(p, TRUE)' = Written(p, TRUE)
  BY <1>1 DEF Written, Output
<1> QED
  BY <1>1, <1>2, <1>3 DEF ProcInv, Known, LookUpSound, PutSound, Putting, ReadSound, Reading

\* When the group is stored, what is needed is in it.
LEMMA GroupNamesNeeded ==
    ASSUME TypeOK, NEW p \in Procs, PutSound(p), Putting(p), k[p] = GroupAt
    PROVE  Needed \subseteq metadataGroup[p]
<1>1. \A j \in 1..(GroupAt - 1) :
        Outputs[j] \notin Unlisted => Outputs[j] \in metadataGroup[p] \cup {"group"}
  BY DEF PutSound
<1>2. \A n \in Needed : /\ \E j \in 1..(GroupAt - 1) : Outputs[j] = n
                        /\ n \notin Unlisted /\ n # "group"
  BY OutputFacts, OutputNames, UnlistedAssumption DEF Needed
<1> QED
  BY <1>1, <1>2

LEMMA ReplaceStep ==
    ASSUME TypeOK, FilesSound, NEW p \in Procs, ProcInv(p), Replace(p)
    PROVE  ProcInv(p)' /\ FilesSound' /\ NothingLost
<1>1. /\ pc[p] = "replace" /\ k[p] \in 1..GroupAt /\ GroupAt \in Nat
      /\ config'[p] = config[p] /\ found'[p] = found[p] /\ kernel'[p] = kernel[p]
      /\ metadataGroup'[p] = metadataGroup[p] \cup ({Output(p)} \ {"group"})
      /\ evictions' = evictions
  BY OutputFacts DEF Replace, TypeOK
<1>2. IF k[p] = GroupAt THEN pc'[p] = "construct" /\ k'[p] = 1
                        ELSE pc'[p] = "stage" /\ k'[p] = k[p] + 1
  BY DEF Replace, GoTo, TypeOK
<1>3. Output(p) \in Names /\ temp[p] \in Contents /\ temp[p] = Written(p, TRUE)
  BY <1>1, OutputNames DEF Output, TypeOK, ProcInv, PutSound, Putting
<1>4. /\ NothingLost
      /\ DOMAIN files' = DOMAIN files \cup {Output(p)}
      /\ files'[Output(p)] = temp[p]
      /\ \A m \in DOMAIN files : m # Output(p) => files'[m] = files[m]
      /\ evicted' \subseteq evicted
  BY <1>1, <1>3, StoreLosesNothing DEF Replace
<1>5. temp[p].whole /\ (Output(p) = "group" => temp[p].children = metadataGroup[p])
  BY <1>3 DEF Written
<1>6. Output(p) = "group" => k[p] = GroupAt
  BY <1>1, OutputNames DEF Output
<1>7. /\ \A S : Known(S) => S \subseteq DOMAIN files' \cup evicted'
      /\ Known(metadataGroup[p])
  BY <1>4, KnownKept DEF ProcInv
<1>8. k[p] = GroupAt => Needed \subseteq metadataGroup[p]
  BY <1>1, GroupNamesNeeded DEF ProcInv, Putting
<1>9. FilesSound'
  <2>1. evictions' = 0 => evicted' = {}
    BY <1>1, <1>4 DEF FilesSound
  <2>2. \A n \in DOMAIN files' : files'[n].whole
    BY <1>4, <1>5 DEF FilesSound
  <2>3. ASSUME "group" \in DOMAIN files'
        PROVE  /\ Needed \subseteq files'["group"].children
               /\ files'["group"].children \subseteq DOMAIN files' \cup evicted'
    <3>1. CASE Output(p) = "group"
      BY <3>1, <1>4, <1>5, <1>6, <1>7, <1>8
    <3>2. CASE Output(p) # "group"
      BY <2>3, <3>2, <1>4, <1>7 DEF FilesSound, HasFile
    <3> QED
      BY <3>1, <3>2
  <2> QED
    BY <2>1, <2>2, <2>3 DEF FilesSound, HasFile, Known
<1>10. Known(metadataGroup[p])'
  BY <1>1, <1>4, <1>7 DEF Known
<1>11. PutSound(p)'
  <2>1. CASE k[p] = GroupAt
    BY <2>1, <1>2 DEF PutSound, Putting
  <2>2. CASE k[p] # GroupAt
    <3>1. pc'[p] = "stage" /\ k'[p] = k[p] + 1
      BY <2>2, <1>2
    <3>2. found[p] => config[p].alwaysCompile \/ evictions > 0
      BY <1>1 DEF ProcInv, PutSound, Putting
    <3>3. \A j \in 1..(k[p] - 1) :
            Outputs[j] \notin Unlisted => Outputs[j] \in metadataGroup[p] \cup {"group"}
      BY <1>1 DEF ProcInv, PutSound, Putting
    <3>4. \A j \in 1..(k[p] + 1 - 1) : j \in 1..(k[p] - 1) \/ j = k[p]
      BY <1>1
    <3>5. \A j \in 1..(k'[p] - 1) :
            Outputs[j] \notin Unlisted => Outputs[j] \in metadataGroup'[p] \cup {"group"}
      BY <1>1, <3>1, <3>3, <3>4 DEF Output
    <3> QED
      BY <1>1, <3>1, <3>2, <3>5 DEF PutSound, Putting
  <2> QED
    BY <2>1, <2>2
<1>12. ReadSound(p)'
  BY <1>1, <1>2, <1>8 DEF ReadSound, Reading, ProcInv
<1>13. LookUpSound(p)'
  BY <1>2 DEF LookUpSound
<1> QED
  BY <1>4, <1>9, <1>10, <1>11, <1>12, <1>13 DEF ProcInv

LEMMA ReadMetadataStep ==
    ASSUME TypeOK, FilesSound, NEW p \in Procs, ProcInv(p), ReadMetadata(p)
    PROVE  ProcInv(p)'
<1>1. /\ pc[p] = "construct" /\ HasFile("metadata") /\ pc'[p] = "asm"
      /\ k'[p] = k[p] /\ metadataGroup'[p] = metadataGroup[p]
      /\ kernel'[p] = [n \in DOMAIN kernel[p] \cup {"metadata"} |->
                         IF n = "metadata" THEN files["metadata"] ELSE kernel[p][n]]
      /\ files' = files /\ evicted' = evicted /\ evictions' = evictions
  BY DEF ReadMetadata, ReadInto, GoTo, TypeOK
<1>2. k[p] = 1
  BY <1>1 DEF ProcInv, ReadSound, Reading
<1>3. \A n \in DOMAIN kernel'[p] : kernel'[p][n].whole
  BY <1>1 DEF FilesSound, HasFile, ProcInv, ReadSound
<1>4. \A j \in 1..(k'[p] - 1) : FALSE
  BY <1>1, <1>2
<1>5. Needed \subseteq metadataGroup[p] \/ evictions > 0
  BY <1>1 DEF ProcInv, ReadSound, Reading
<1>6. ReadSound(p)'
  BY <1>1, <1>3, <1>4, <1>5 DEF ReadSound, Reading
<1> QED
  BY <1>1, <1>6 DEF ProcInv, Known, LookUpSound, PutSound, Putting

LEMMA ReadAsmStep ==
    ASSUME TypeOK, FilesSound, NEW p \in Procs, ProcInv(p), ReadAsm(p)
    PROVE  ProcInv(p)'
<1>1. /\ pc[p] = "asm" /\ pc'[p] = "asm" /\ k[p] \in Nat /\ k'[p] = k[p] + 1
      /\ metadataGroup'[p] = metadataGroup[p]
      /\ files' = files /\ evicted' = evicted /\ evictions' = evictions
  BY DEF ReadAsm, TypeOK
<1>2. kernel'[p] = IF Output(p) \in metadataGroup[p]
                   THEN [n \in DOMAIN kernel[p] \cup {Output(p)} |->
                           IF n = Output(p) THEN files[Output(p)] ELSE kernel[p][n]]
                   ELSE kernel[p]
  BY DEF ReadAsm, ReadInto, TypeOK
<1>3. Output(p) \in metadataGroup[p] => HasFile(Output(p))
  BY DEF ReadAsm
<1>4. \A n \in DOMAIN kernel'[p] : kernel'[p][n].whole
  BY <1>2, <1>3 DEF FilesSound, HasFile, ProcInv, ReadSound
<1>5. \A j \in 1..(k[p] + 1 - 1) : j \in 1..(k[p] - 1) \/ j = k[p]
  BY <1>1
<1>6. \A j \in 1..(k'[p] - 1) :
        Outputs[j] \in metadataGroup'[p] => Outputs[j] \in DOMAIN kernel'[p]
  BY <1>1, <1>2, <1>5 DEF ProcInv, ReadSound, Output
<1>7. Needed \subseteq metadataGroup[p] \/ evictions > 0
  BY <1>1 DEF ProcInv, ReadSound, Reading
<1>8. ReadSound(p)'
  BY <1>1, <1>4, <1>6, <1>7 DEF ReadSound, Reading
<1> QED
  BY <1>1, <1>8 DEF ProcInv, Known, LookUpSound, PutSound, Putting

LEMMA TakeKernelStep ==
    ASSUME TypeOK, NEW p \in Procs, ProcInv(p), TakeKernel(p)
    PROVE  ProcInv(p)'
<1>1. /\ pc'[p] = "done"
      /\ metadataGroup'[p] = metadataGroup[p] /\ kernel'[p] = kernel[p]
      /\ files' = files /\ evicted' = evicted /\ evictions' = evictions
  BY DEF TakeKernel, GoTo, TypeOK, procVars
<1> QED
  BY <1>1 DEF ProcInv, Known, LookUpSound, PutSound, Putting, ReadSound, Reading

-----------------------------------------------------------------------------
(* No step fails while nothing has been deleted. *)

LEMMA FailsOnlyIfDeleted ==
    ASSUME TypeOK, FilesSound, NEW p \in Procs, ProcInv(p),
           OpenGroupFails(p) \/ ReadHitFails(p) \/ ReadMetadataFails(p)
             \/ ReadAsmFails(p) \/ TakeKernelFails(p)
    PROVE  evictions > 0
<1> SUFFICES ASSUME evictions = 0 PROVE FALSE
  BY DEF TypeOK
<1>1. Reading(p) => Needed \subseteq metadataGroup[p]
  BY DEF ProcInv, ReadSound
<1>2. \A n \in metadataGroup[p] : HasFile(n)
  BY NeededThere DEF ProcInv
<1>3. Reading(p) => HasFile("metadata") /\ "metadata" \in metadataGroup[p]
  BY <1>1, <1>2 DEF Needed
<1>4. ~OpenGroupFails(p)
  BY DEF OpenGroupFails, ProcInv, LookUpSound
<1>5. ~ReadHitFails(p) /\ ~ReadMetadataFails(p)
  BY <1>3 DEF ReadHitFails, ReadMetadataFails, Reading
<1>6. ~ReadAsmFails(p)
  BY <1>2 DEF ReadAsmFails
<1>7. ~TakeKernelFails(p)
  <2> SUFFICES ASSUME pc[p] = "asm", k[p] = MetadataAt PROVE Binary \in DOMAIN kernel[p]
    BY DEF TakeKernelFails
  <2>1. \A j \in 1..(MetadataAt - 1) :
          Outputs[j] \in metadataGroup[p] => Outputs[j] \in DOMAIN kernel[p]
    BY DEF ProcInv, ReadSound
  <2>2. \E j \in 1..(MetadataAt - 1) : Outputs[j] = Binary
    BY OutputFacts, OutputNames
  <2> QED
    BY <1>1, <2>1, <2>2 DEF Needed, Reading
<1> QED
  BY <1>4, <1>5, <1>6, <1>7

-----------------------------------------------------------------------------
(* The invariant. *)

Failing(p) ==
    \/ OpenGroupFails(p) \/ ReadHitFails(p) \/ ReadMetadataFails(p)
    \/ ReadAsmFails(p) \/ TakeKernelFails(p)

\* A step changes the state of one process only.
LEMMA OthersSame ==
    ASSUME TypeOK, NEW p \in Procs, NEW q \in Procs \ {p},
           Step(p) \/ Crash(p) \/ Restart(p)
    PROVE  SameLocal(q)
<1> USE DEF SameLocal, TypeOK, GoTo, procVars
<1>1. ASSUME NEW c, Forget(p, c)
      PROVE  /\ found'[q] = found[q] /\ listed'[q] = listed[q]
             /\ metadataGroup'[q] = metadataGroup[q] /\ k'[q] = k[q]
             /\ temp'[q] = temp[q] /\ kernel'[q] = kernel[q]
  BY <1>1 DEF Forget
<1>2. CASE Failing(p)
  <2>1. Fail(p)
    BY <1>2 DEF Failing, OpenGroupFails, ReadHitFails, ReadMetadataFails, ReadAsmFails,
                TakeKernelFails
  <2> QED
    BY <1>1, <2>1 DEF Fail
<1>3. CASE LookUp(p)
  BY <1>3 DEF LookUp
<1>4. CASE OpenGroup(p)
  BY <1>4 DEF OpenGroup
<1>5. CASE CheckChild(p)
  BY <1>5 DEF CheckChild
<1>6. CASE ChildrenChecked(p)
  BY <1>6 DEF ChildrenChecked
<1>7. CASE Decide(p)
  BY <1>7 DEF Decide
<1>8. CASE ReadHit(p)
  BY <1>8 DEF ReadHit
<1>9. CASE SkipOutput(p)
  BY <1>9 DEF SkipOutput
<1>10. CASE OpenTemp(p)
  BY <1>10 DEF OpenTemp
<1>11. CASE WriteTemp(p)
  BY <1>11 DEF WriteTemp
<1>12. CASE Replace(p)
  BY <1>12 DEF Replace
<1>13. CASE ReadMetadata(p)
  BY <1>13 DEF ReadMetadata, ReadInto
<1>14. CASE ReadAsm(p)
  BY <1>14 DEF ReadAsm, ReadInto
<1>15. CASE TakeKernel(p)
  BY <1>15 DEF TakeKernel
<1>16. CASE Crash(p)
  BY <1>1, <1>16 DEF Crash
<1>17. CASE Restart(p)
  BY <1>1, <1>17 DEF Restart
<1> QED
  BY <1>2, <1>3, <1>4, <1>5, <1>6, <1>7, <1>8, <1>9, <1>10, <1>11, <1>12, <1>13, <1>14,
     <1>15, <1>16, <1>17 DEF Step, Failing

\* Which of the steps touch the cache directory.
LEMMA OnlyReplaceStores ==
    ASSUME NEW p \in Procs, Step(p), ~Replace(p)
    PROVE  UNCHANGED <<files, evicted, evictions>>
BY DEF Step, LookUp, OpenGroup, OpenGroupFails, CheckChild, ChildrenChecked, Decide, ReadHit,
       ReadHitFails, SkipOutput, OpenTemp, WriteTemp, ReadMetadata, ReadMetadataFails,
       ReadAsm, ReadAsmFails, TakeKernel, TakeKernelFails, Fail

LEMMA OwnStep ==
    ASSUME TypeOK, FilesSound, NEW p \in Procs, ProcInv(p), Step(p)
    PROVE  ProcInv(p)' /\ FilesSound' /\ NothingLost
<1>1. CASE Replace(p)
  BY <1>1, ReplaceStep
<1>2. CASE ~Replace(p)
  <2>1. UNCHANGED <<files, evicted, evictions>>
    BY <1>2, OnlyReplaceStores
  <2>2. FilesSound' /\ NothingLost
    BY <2>1, SameLosesNothing DEF FilesSound, HasFile, Known
  <2>3. CASE Failing(p)
    <3>1. Fail(p)
      BY <2>3 DEF Failing, OpenGroupFails, ReadHitFails, ReadMetadataFails, ReadAsmFails,
                  TakeKernelFails
    <3>2. Forget(p, config[p]) /\ pc'[p] = "failed"
      BY <3>1 DEF Fail, GoTo, TypeOK
    <3> QED
      BY <2>2, <3>2, ForgottenSound DEF Ended
  <2>4. CASE ~Failing(p)
    BY <1>2, <2>2, <2>4, LookUpStep, OpenGroupStep, CheckChildStep, ChildrenCheckedStep,
       DecideStep, HitStep, SkipOutputStep, OpenTempStep, WriteTempStep, ReadMetadataStep,
       ReadAsmStep, TakeKernelStep DEF Step, Failing
  <2> QED
    BY <2>3, <2>4
<1> QED
  BY <1>1, <1>2

LEMMA FailureStep ==
    ASSUME TypeOK, FilesSound, FailsOnlyAfterEviction, NothingLost,
           NEW p \in Procs, ProcInv(p), Step(p),
           \A q \in Procs \ {p} : SameLocal(q)
    PROVE  FailsOnlyAfterEviction'
<1>1. CASE Failing(p)
  BY <1>1, FailsOnlyIfDeleted DEF Failing, FailsOnlyAfterEviction, NothingLost
<1>2. CASE ~Failing(p)
  <2>1. pc'[p] # "failed"
    BY <1>2 DEF Failing, Step, GoTo, TypeOK, LookUp, OpenGroup, CheckChild, ChildrenChecked,
                Decide, ReadHit, SkipOutput, OpenTemp, WriteTemp, Replace, ReadMetadata,
                ReadAsm, TakeKernel
  <2> QED
    BY <2>1 DEF FailsOnlyAfterEviction, SameLocal, NothingLost
<1> QED
  BY <1>1, <1>2

LEMMA InvInit == Init => CacheInv
<1> SUFFICES ASSUME Init PROVE CacheInv
  OBVIOUS
<1>1. TypeOK
  BY TypeInit
<1>2. DOMAIN files = {} /\ evicted = {}
  BY DEF Init
<1>3. FilesSound
  BY <1>2 DEF FilesSound, HasFile
<1>4. ASSUME NEW p \in Procs PROVE ProcInv(p)
  <2>1. pc[p] = "new" /\ k[p] = 1 /\ metadataGroup[p] = {} /\ DOMAIN kernel[p] = {}
    BY DEF Init
  <2> QED
    BY <2>1 DEF ProcInv, Known, LookUpSound, PutSound, Putting, ReadSound, Reading
<1>5. FailsOnlyAfterEviction
  BY DEF Init, FailsOnlyAfterEviction
<1> QED
  BY <1>1, <1>3, <1>4, <1>5 DEF CacheInv

LEMMA InvNext == CacheInv /\ [Next]_vars => CacheInv'
<1> SUFFICES ASSUME CacheInv, [Next]_vars PROVE CacheInv'
  OBVIOUS
<1>1. TypeOK /\ FilesSound /\ FailsOnlyAfterEviction /\ \A p \in Procs : ProcInv(p)
  BY DEF CacheInv
<1>2. TypeOK'
  BY <1>1, TypeNext
<1>3. ASSUME NEW p \in Procs, Step(p) PROVE CacheInv'
  <2>1. ProcInv(p)' /\ FilesSound' /\ NothingLost
    BY <1>1, <1>3, OwnStep
  <2>2. \A q \in Procs \ {p} : SameLocal(q)
    BY <1>1, <1>3, OthersSame
  <2>3. \A q \in Procs \ {p} : ProcInv(q)'
    BY <1>1, <2>1, <2>2, OthersKept
  <2>4. FailsOnlyAfterEviction'
    BY <1>1, <1>3, <2>1, <2>2, FailureStep
  <2> QED
    BY <1>2, <2>1, <2>3, <2>4 DEF CacheInv
<1>4. ASSUME NEW p \in Procs, Crash(p) \/ Restart(p) PROVE CacheInv'
  <2>1. UNCHANGED <<files, evicted, evictions>>
    BY <1>4 DEF Crash, Restart
  <2>2. FilesSound' /\ NothingLost
    BY <1>1, <2>1, SameLosesNothing DEF FilesSound, HasFile, Known
  <2>3. \A q \in Procs \ {p} : SameLocal(q)
    BY <1>1, <1>4, OthersSame
  <2>4. \A q \in Procs \ {p} : ProcInv(q)'
    BY <1>1, <2>2, <2>3, OthersKept
  <2>5. pc'[p] \in {"crashed", "new"} /\ \E c : Forget(p, c)
    BY <1>1, <1>4 DEF Crash, Restart, GoTo, TypeOK
  <2>6. ProcInv(p)'
    BY <1>1, <2>5, ForgottenSound DEF Ended
  <2>7. FailsOnlyAfterEviction'
    BY <1>1, <2>1, <2>3, <2>5 DEF FailsOnlyAfterEviction, SameLocal
  <2> QED
    BY <1>2, <2>2, <2>4, <2>6, <2>7 DEF CacheInv
<1>5. ASSUME NEW name \in Names, Evict(name) PROVE CacheInv'
  <2>1. NothingLost /\ evictions' > 0
    BY <1>1, <1>5, EvictLosesNothing DEF Evict, TypeOK
  <2>2. \A q \in Procs : SameLocal(q)
    BY <1>5 DEF Evict, SameLocal, procVars
  <2>3. \A q \in Procs : ProcInv(q)'
    BY <1>1, <2>1, <2>2, OthersKept
  <2>4. FilesSound'
    <3>1. /\ DOMAIN files' = DOMAIN files \ {name}
          /\ \A n \in DOMAIN files' : files'[n] = files[n]
      BY <1>5 DEF Evict
    <3>2. HasFile("group")' => HasFile("group") /\ files'["group"] = files["group"]
      BY <3>1 DEF HasFile
    <3>3. HasFile("group")' => Known(files["group"].children)'
      BY <1>1, <2>1, <3>2, KnownKept DEF FilesSound, Known
    <3> QED
      BY <1>1, <2>1, <3>1, <3>2, <3>3 DEF FilesSound
  <2> QED
    BY <1>2, <2>1, <2>3, <2>4 DEF CacheInv, FailsOnlyAfterEviction
<1>6. CASE UNCHANGED vars
  <2>1. UNCHANGED <<files, evicted, evictions>>
    BY <1>6 DEF vars
  <2>2. FilesSound' /\ NothingLost /\ FailsOnlyAfterEviction'
    BY <1>1, <1>6, SameLosesNothing DEF FilesSound, HasFile, Known, FailsOnlyAfterEviction, vars
  <2>3. \A q \in Procs : SameLocal(q)
    BY <1>6 DEF vars, SameLocal
  <2> QED
    BY <1>1, <1>2, <2>2, <2>3, OthersKept DEF CacheInv
<1> QED
  BY <1>3, <1>4, <1>5, <1>6 DEF Next, Quiet

\* The invariant of lookup, storing and reading holds whatever the processes
\* do at the same time, wherever they are interrupted and whatever is deleted.
THEOREM CacheInvCorrect == Spec => []CacheInv
<1>1. Init => CacheInv
  BY InvInit
<1>2. CacheInv /\ [Next]_vars => CacheInv'
  BY InvNext
<1> QED
  BY <1>1, <1>2, PTL DEF Spec

\* put() and put_group() never leave a group file whose files are missing or
\* cut short.
THEOREM EntryCompleteCorrect == Spec => []EntryComplete
<1>1. CacheInv => EntryComplete
  BY DEF CacheInv, FilesSound, EntryComplete, Known, HasFile, Needed
<1> QED
  BY <1>1, CacheInvCorrect, PTL

\* compile() fails only if a file has been deleted.
THEOREM FailureCorrect == Spec => []FailsOnlyAfterEviction
<1>1. CacheInv => FailsOnlyAfterEviction
  BY DEF CacheInv
<1> QED
  BY <1>1, CacheInvCorrect, PTL

\* CompiledKernel never reads a file that was not written to its end.
THEOREM NothingPartialCorrect == Spec => []NothingPartialRead
<1>1. CacheInv => NothingPartialRead
  BY DEF CacheInv, ProcInv, ReadSound, NothingPartialRead
<1> QED
  BY <1>1, CacheInvCorrect, PTL

\* An entry that was found is used, unless the process was told not to use it
\* or a file was deleted.
THEOREM EntryUsedCorrect == Spec => []EntryUsed
<1>1. CacheInv => EntryUsed
  BY DEF CacheInv, ProcInv, PutSound, Putting, EntryUsed
<1> QED
  BY <1>1, CacheInvCorrect, PTL

=============================================================================
