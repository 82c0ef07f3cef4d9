---------------------------- MODULE CompileCache ----------------------------
(***************************************************************************)
(* compile() and the FileCacheManager of one key: processes that compile    *)
(* the same kernel at the same time look for an entry in the cache          *)
(* directory, compile and store what they do not find, and read the result. *)
(* A process may be interrupted anywhere and files may be deleted.          *)
(*                                                                         *)
(* Temporary files have names of their own (pid and uuid): one is seen by   *)
(* the process that writes it only, and stays behind if that is cut off.    *)
(***************************************************************************)
EXTENDS Integers, Sequences

CONSTANTS
    Procs,
    Stages,         \* the names of the stages' outputs, in order
    Unlisted,       \* those stored with TRITON_CACHE_DUMP_ALL only
    Binary,         \* the output that holds the kernel
    Versions,       \* what compilation depends on and the key leaves out
    MaxRuns,        \* a bound on the compilations of one process
    MaxEvictions    \* a bound on the files deleted

\* What put() is called for, in order: the stages, the metadata, the group.
Outputs == Stages \o <<"metadata", "group">>
MetadataAt == Len(Stages) + 1
GroupAt == Len(Stages) + 2
Children == {Outputs[j] : j \in 1..MetadataAt}
Names == Children \cup {"group"}

\* The contents of a file: what it was compiled from, whether it has been
\* written to its end, and, in a group file, the files of the group.
Contents == [version : Versions, whole : BOOLEAN, children : SUBSET Children]

Config == [version : Versions, alwaysCompile : BOOLEAN, dumpAll : BOOLEAN]

ASSUME StagesAssumption ==
    /\ Stages \in Seq(STRING)
    /\ \A j \in 1..Len(Stages) : Stages[j] \notin {"metadata", "group"}
    /\ \A j, l \in 1..Len(Stages) : Stages[j] = Stages[l] => j = l
ASSUME UnlistedAssumption == "metadata" \notin Unlisted /\ "group" \notin Unlisted
ASSUME BinaryAssumption ==
    \E j \in 1..Len(Stages) : Stages[j] = Binary /\ Binary \notin Unlisted
ASSUME BoundAssumption == MaxRuns \in Nat /\ MaxEvictions \in Nat

VARIABLES
    files,          \* the cache directory: name -> contents
    pc,
    config,         \* the environment a process compiles in
    found,          \* the group file was there when the process looked
    listed,         \* child_paths of the group file it has read
    metadataGroup,  \* metadata_group, as a set of names
    k,              \* the output the process is at
    temp,           \* the contents of its temporary file
    kernel,         \* what its CompiledKernel has read: name -> contents
    runs,
    evicted,        \* the children deleted and not stored again since
    evictions

vars == <<files, pc, config, found, listed, metadataGroup, k, temp, kernel,
          runs, evicted, evictions>>
procVars == <<config, found, listed, metadataGroup, temp, kernel, runs>>

HasFile(name) == name \in DOMAIN files

Ended == {"done", "failed", "crashed"}

\* What a temporary file holds before anything is written to it.
Unwritten(c) == [version |-> c.version, whole |-> FALSE, children |-> {}]

-----------------------------------------------------------------------------
Init ==
    /\ files = [n \in {} |-> n]
    /\ pc = [p \in Procs |-> "new"]
    /\ config \in [Procs -> Config]
    /\ found = [p \in Procs |-> FALSE]
    /\ listed = [p \in Procs |-> {}]
    /\ metadataGroup = [p \in Procs |-> {}]
    /\ k = [p \in Procs |-> 1]
    /\ temp = [p \in Procs |-> Unwritten(config[p])]
    /\ kernel = [p \in Procs |-> [n \in {} |-> n]]
    /\ runs = [p \in Procs |-> 1]
    /\ evicted = {}
    /\ evictions = 0

GoTo(p, label) == pc' = [pc EXCEPT ![p] = label]

\* Process p loses, or starts without, what compile() keeps in local variables.
Forget(p, c) ==
    /\ found' = [found EXCEPT ![p] = FALSE]
    /\ listed' = [listed EXCEPT ![p] = {}]
    /\ metadataGroup' = [metadataGroup EXCEPT ![p] = {}]
    /\ k' = [k EXCEPT ![p] = 1]
    /\ temp' = [temp EXCEPT ![p] = Unwritten(c)]
    /\ kernel' = [kernel EXCEPT ![p] = [n \in {} |-> n]]

\* An exception leaves compile().
Fail(p) == /\ GoTo(p, "failed")
           /\ Forget(p, config[p])
           /\ UNCHANGED <<files, config, runs, evicted, evictions>>

\* get_group: is there a group file?
LookUp(p) ==
    /\ pc[p] = "new"
    /\ found' = [found EXCEPT ![p] = HasFile("group")]
    /\ GoTo(p, IF HasFile("group") THEN "open" ELSE "decide")
    /\ UNCHANGED <<files, config, listed, metadataGroup, k, temp, kernel, runs,
                   evicted, evictions>>

\* get_group: read it.
OpenGroup(p) ==
    /\ pc[p] = "open" /\ HasFile("group")
    /\ listed' = [listed EXCEPT ![p] = files["group"].children]
    /\ GoTo(p, "check")
    /\ UNCHANGED <<files, config, found, metadataGroup, k, temp, kernel, runs,
                   evicted, evictions>>

OpenGroupFails(p) == pc[p] = "open" /\ ~HasFile("group") /\ Fail(p)

\* get_group: the next child is kept if its file exists.
CheckChild(p) ==
    /\ pc[p] = "check" /\ k[p] <= MetadataAt
    /\ metadataGroup' = [metadataGroup EXCEPT ![p] =
         IF Outputs[k[p]] \in listed[p] /\ HasFile(Outputs[k[p]])
         THEN @ \cup {Outputs[k[p]]} ELSE @]
    /\ k' = [k EXCEPT ![p] = @ + 1]
    /\ UNCHANGED <<files, pc, config, found, listed, temp, kernel, runs, evicted,
                   evictions>>

ChildrenChecked(p) ==
    /\ pc[p] = "check" /\ k[p] = GroupAt
    /\ GoTo(p, "decide")
    /\ listed' = [listed EXCEPT ![p] = {}]
    /\ UNCHANGED <<files, config, found, metadataGroup, k, temp, kernel, runs, evicted,
                   evictions>>

\* A version that looks for the metadata file, not for it in a group.
CacheHitByFile(p) == ~config[p].alwaysCompile /\ HasFile("metadata")

CacheHit(p) == ~config[p].alwaysCompile /\ "metadata" \in metadataGroup[p]

\* Cache hit or start of the compilation pipeline.
Decide(p) ==
    /\ pc[p] = "decide"
    /\ GoTo(p, IF CacheHit(p) THEN "hit" ELSE "stage")
    /\ k' = [k EXCEPT ![p] = 1]
    /\ UNCHANGED <<files, evicted, evictions>>
    /\ UNCHANGED procVars

\* The hit's metadata is read once before CompiledKernel reads it.
ReadHit(p) ==
    /\ pc[p] = "hit" /\ HasFile("metadata")
    /\ GoTo(p, "construct")
    /\ UNCHANGED <<files, k, evicted, evictions>>
    /\ UNCHANGED procVars

ReadHitFails(p) == pc[p] = "hit" /\ ~HasFile("metadata") /\ Fail(p)

-----------------------------------------------------------------------------
(* A miss: the stages, the metadata and the group are stored, one put each. *)

Output(p) == Outputs[k[p]]

Stored(p) == Output(p) \in Unlisted => config[p].dumpAll

\* A stage whose output is not kept.
SkipOutput(p) ==
    /\ pc[p] = "stage" /\ ~Stored(p)
    /\ k' = [k EXCEPT ![p] = @ + 1]
    /\ UNCHANGED <<files, pc, evicted, evictions>>
    /\ UNCHANGED procVars

Written(p, whole) ==
    [version |-> config[p].version, whole |-> whole,
     children |-> IF Output(p) = "group" THEN metadataGroup[p] ELSE {}]

Store(name, contents) ==
    /\ files' = [n \in DOMAIN files \cup {name} |->
                   IF n = name THEN contents ELSE files[n]]
    /\ evicted' = evicted \ {name}

\* A version that opens the file itself, not a temporary one.
OpenInPlace(p) ==
    /\ pc[p] = "stage" /\ Stored(p)
    /\ temp' = [temp EXCEPT ![p] = Written(p, FALSE)]
    /\ Store(Output(p), Written(p, FALSE))
    /\ GoTo(p, "write")
    /\ UNCHANGED <<config, found, listed, metadataGroup, k, kernel, runs, evictions>>

\* put: open the temporary file.
OpenTemp(p) ==
    /\ pc[p] = "stage" /\ Stored(p)
    /\ temp' = [temp EXCEPT ![p] = Written(p, FALSE)]
    /\ GoTo(p, "write")
    /\ UNCHANGED <<files, config, found, listed, metadataGroup, k, kernel, runs,
                   evicted, evictions>>

\* put: write and close it.
WriteTemp(p) ==
    /\ pc[p] = "write"
    /\ temp' = [temp EXCEPT ![p] = Written(p, TRUE)]
    /\ GoTo(p, "replace")
    /\ UNCHANGED <<files, config, found, listed, metadataGroup, k, kernel, runs,
                   evicted, evictions>>

\* A version that forgets what the metadata file is called.
ReplaceUnlistedMetadata(p) ==
    /\ pc[p] = "replace"
    /\ Store(Output(p), temp[p])
    /\ metadataGroup' = [metadataGroup EXCEPT ![p] = @ \cup ({Output(p)} \ {"group", "metadata"})]
    /\ IF k[p] = GroupAt THEN GoTo(p, "construct") /\ k' = [k EXCEPT ![p] = 1]
                         ELSE GoTo(p, "stage") /\ k' = [k EXCEPT ![p] = @ + 1]
    /\ temp' = [temp EXCEPT ![p] = Unwritten(config[p])]
    /\ UNCHANGED <<config, found, listed, kernel, runs, evictions>>

\* put: os.replace.  The file becomes one of the group.
Replace(p) ==
    /\ pc[p] = "replace"
    /\ Store(Output(p), temp[p])
    /\ metadataGroup' = [metadataGroup EXCEPT ![p] = @ \cup ({Output(p)} \ {"group"})]
    /\ IF k[p] = GroupAt THEN GoTo(p, "construct") /\ k' = [k EXCEPT ![p] = 1]
                         ELSE GoTo(p, "stage") /\ k' = [k EXCEPT ![p] = @ + 1]
    /\ temp' = [temp EXCEPT ![p] = Unwritten(config[p])]
    /\ UNCHANGED <<config, found, listed, kernel, runs, evictions>>

-----------------------------------------------------------------------------
(* CompiledKernel. *)

ReadInto(p, name) ==
    kernel' = [kernel EXCEPT ![p] =
                 [n \in DOMAIN @ \cup {name} |-> IF n = name THEN files[name] ELSE @[n]]]

ReadMetadata(p) ==
    /\ pc[p] = "construct" /\ "metadata" \in metadataGroup[p] /\ HasFile("metadata")
    /\ ReadInto(p, "metadata")
    /\ GoTo(p, "asm")
    /\ UNCHANGED <<files, config, found, listed, metadataGroup, k, temp, runs,
                   evicted, evictions>>

ReadMetadataFails(p) ==
    /\ pc[p] = "construct"
    /\ "metadata" \notin metadataGroup[p] \/ ~HasFile("metadata")
    /\ Fail(p)

\* The next file of the group is read.
ReadAsm(p) ==
    /\ pc[p] = "asm" /\ k[p] <= Len(Stages)
    /\ Output(p) \in metadataGroup[p] => HasFile(Output(p))
    /\ IF Output(p) \in metadataGroup[p] THEN ReadInto(p, Output(p)) ELSE UNCHANGED kernel
    /\ k' = [k EXCEPT ![p] = @ + 1]
    /\ UNCHANGED <<files, pc, config, found, listed, metadataGroup, temp, runs,
                   evicted, evictions>>

ReadAsmFails(p) ==
    /\ pc[p] = "asm" /\ k[p] <= Len(Stages)
    /\ Output(p) \in metadataGroup[p] /\ ~HasFile(Output(p))
    /\ Fail(p)

\* self.kernel = self.asm[binary_ext], a KeyError if it is not in the group.
TakeKernel(p) ==
    /\ pc[p] = "asm" /\ k[p] = MetadataAt /\ Binary \in DOMAIN kernel[p]
    /\ GoTo(p, "done")
    /\ UNCHANGED <<files, k, evicted, evictions>>
    /\ UNCHANGED procVars

TakeKernelFails(p) ==
    /\ pc[p] = "asm" /\ k[p] = MetadataAt /\ Binary \notin DOMAIN kernel[p]
    /\ Fail(p)

-----------------------------------------------------------------------------
(* The surroundings. *)

\* The process is interrupted, or a stage of the compilation fails.
Crash(p) ==
    /\ pc[p] \notin Ended
    /\ GoTo(p, "crashed")
    /\ Forget(p, config[p])
    /\ UNCHANGED <<files, config, runs, evicted, evictions>>

\* The process, or another in its place, compiles the kernel again.
Restart(p) ==
    /\ pc[p] \in Ended /\ runs[p] < MaxRuns
    /\ \E c \in Config : config' = [config EXCEPT ![p] = c] /\ Forget(p, c)
    /\ GoTo(p, "new")
    /\ runs' = [runs EXCEPT ![p] = @ + 1]
    /\ UNCHANGED <<files, evicted, evictions>>

\* Somebody deletes a file of the cache directory.
Evict(name) ==
    /\ HasFile(name) /\ evictions < MaxEvictions
    /\ files' = [n \in DOMAIN files \ {name} |-> files[n]]
    /\ evicted' = evicted \cup {name}
    /\ evictions' = evictions + 1
    /\ UNCHANGED <<pc, k>>
    /\ UNCHANGED procVars

AllEnded == \A p \in Procs : pc[p] \in Ended
Quiet == AllEnded /\ UNCHANGED vars

Step(p) ==
    \/ LookUp(p) \/ OpenGroup(p) \/ OpenGroupFails(p) \/ CheckChild(p)
    \/ ChildrenChecked(p) \/ Decide(p) \/ ReadHit(p) \/ ReadHitFails(p)
    \/ SkipOutput(p) \/ OpenTemp(p) \/ WriteTemp(p) \/ Replace(p)
    \/ ReadMetadata(p) \/ ReadMetadataFails(p) \/ ReadAsm(p) \/ ReadAsmFails(p)
    \/ TakeKernel(p) \/ TakeKernelFails(p)

Next == \/ \E p \in Procs : Step(p) \/ Crash(p) \/ Restart(p)
        \/ \E name \in Names : Evict(name)
        \/ Quiet

Spec == Init /\ [][Next]_vars

-----------------------------------------------------------------------------
\* Files are of the cache's names, and each process is at a step of a lookup or
\* of a compilation (FileCacheManager, compile).
TypeOK ==
    /\ DOMAIN files \subseteq Names
    /\ \A n \in DOMAIN files : files[n] \in Contents
    /\ pc \in [Procs -> {"new", "open", "check", "decide", "hit", "stage", "write",
                         "replace", "construct", "asm"} \cup Ended]
    /\ config \in [Procs -> Config]
    /\ found \in [Procs -> BOOLEAN]
    /\ listed \in [Procs -> SUBSET Children]
    /\ metadataGroup \in [Procs -> SUBSET Children]
    /\ k \in [Procs -> 1..GroupAt]
    /\ temp \in [Procs -> Contents]
    /\ DOMAIN kernel = Procs
    /\ \A p \in Procs : /\ DOMAIN kernel[p] \subseteq Children
                        /\ \A n \in DOMAIN kernel[p] : kernel[p][n] \in Contents
    /\ runs \in [Procs -> Nat]
    /\ evicted \subseteq Names
    /\ evictions \in Nat

\* Once there is a group file, the metadata, the binary and all else it names
\* are there and complete, unless somebody has deleted them: whenever the
\* processes that wrote them were interrupted.
EntryComplete ==
    HasFile("group") =>
        \A n \in files["group"].children \cup {"metadata", Binary} :
            n \in evicted \/ (HasFile(n) /\ files[n].whole)

\* Without deletions compile() never fails, whatever the other processes do
\* and wherever they are interrupted.
FailsOnlyAfterEviction ==
    (\E p \in Procs : pc[p] = "failed") => evictions > 0

\* What a finished process has read was completely written.
NothingPartialRead ==
    \A p \in Procs : \A n \in DOMAIN kernel[p] : kernel[p][n].whole

\* A process that has found an entry uses it: nothing is compiled again, unless
\* it asked for that or files have been deleted.
EntryUsed ==
    \A p \in Procs :
        found[p] /\ pc[p] \in {"stage", "write", "replace"}
          => config[p].alwaysCompile \/ evictions > 0

\* What getenv.hpp insists on, that whatever a compilation depends on is part
\* of the key: the kernel a process gets was compiled in its own environment.
KernelAsAsked ==
    \A p \in Procs : pc[p] = "done" =>
        \A n \in DOMAIN kernel[p] : kernel[p][n].version = config[p].version

-----------------------------------------------------------------------------
(***************************************************************************)
(* The inductive invariant behind the first four.                           *)
(***************************************************************************)

\* Files that are there or have been deleted.
Known(names) == names \subseteq DOMAIN files \cup evicted

Needed == {"metadata", Binary}

\* Only complete files get their final names, and a group file names what is
\* needed and was there before it.
FilesSound ==
    /\ evictions = 0 => evicted = {}
    /\ \A n \in DOMAIN files : files[n].whole
    /\ HasFile("group") => /\ Needed \subseteq files["group"].children
                           /\ Known(files["group"].children)

Putting(p) == pc[p] \in {"stage", "write", "replace"}
Reading(p) == pc[p] \in {"hit", "construct", "asm"}

\* A group that was found names what is needed, and the check of its children
\* loses none of them unless it was deleted.
LookUpSound(p) ==
    /\ pc[p] = "new" => k[p] = 1 /\ metadataGroup[p] = {}
    /\ pc[p] = "open" => /\ found[p] /\ k[p] = 1
                         /\ HasFile("group") \/ evictions > 0
    /\ pc[p] = "check" =>
         /\ found[p] /\ Needed \subseteq listed[p] /\ Known(listed[p])
         /\ \A j \in 1..(k[p] - 1) :
              Outputs[j] \in listed[p] => Outputs[j] \in metadataGroup[p] \/ evictions > 0
    /\ pc[p] = "decide" =>
         IF found[p] THEN Needed \subseteq metadataGroup[p] \/ evictions > 0
                     ELSE metadataGroup[p] = {}

\* What a process has stored is in its group.
PutSound(p) ==
    Putting(p) =>
        /\ found[p] => config[p].alwaysCompile \/ evictions > 0
        /\ pc[p] # "stage" => Stored(p)
        /\ \A j \in 1..(k[p] - 1) :
             Outputs[j] \notin Unlisted => Outputs[j] \in metadataGroup[p] \cup {"group"}
        /\ pc[p] = "replace" => temp[p] = Written(p, TRUE)

\* A process that reads has what it needs in its group, reads it whole and
\* misses nothing.
ReadSound(p) ==
    /\ Reading(p) => /\ Needed \subseteq metadataGroup[p] \/ evictions > 0
                     /\ pc[p] # "asm" => k[p] = 1
    /\ pc[p] = "asm" => \A j \in 1..(k[p] - 1) :
                          Outputs[j] \in metadataGroup[p] => Outputs[j] \in DOMAIN kernel[p]
    /\ \A n \in DOMAIN kernel[p] : kernel[p][n].whole

ProcInv(p) ==
    /\ Known(metadataGroup[p])
    /\ LookUpSound(p)
    /\ PutSound(p)
    /\ ReadSound(p)

\* Every file is what its name says, and every process knows only what it found
\* or stored (FileCacheManager.get_group, put_group).
CacheInv ==
    /\ TypeOK
    /\ FilesSound
    /\ FailsOnlyAfterEviction
    /\ \A p \in Procs : ProcInv(p)

=============================================================================
