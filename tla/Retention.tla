------------------------------- MODULE Retention -------------------------------
(***************************************************************************)
(* Manager.Cleanup (internal/job/manager.go) and the CleanupOld operations *)
(* of the state store, the result cache and the artifact storage, against  *)
(* uploads, submissions, running jobs and a restart that use the same      *)
(* files.  A file is removed for its age, unless the pass has seen a       *)
(* reference to it: everything depends on the order in which references    *)
(* are written, collected and dropped.                                     *)
(*                                                                         *)
(* Time is counted in ticks, and an age stops growing where its retention  *)
(* ends.  A job has one item, and all inputs have the same content and so  *)
(* one cache key.  HTTP is served after recovery; failing writes of the    *)
(* commit path are the subject of ItemCommit.                              *)
(***************************************************************************)
EXTENDS Naturals, FiniteSets

CONSTANTS
    Jobs, Artifacts, Inputs, \* identities; one whose file is gone may come again
    JobWorkers,
    ArtifactRetention, StateRetention, CacheRetention, StagingRetention,
    JobTicks,  \* JOB_TIMEOUT: ticks that a job may see
    MaxMisses, \* bound: cached artifacts that cannot be opened (the mount is away)
    MaxFaults, \* bound: passes given up and progress writes that fail
    MaxCrashes \* bound: crashes in a behaviour

NoArtifact == <<>>
NoInput    == <<>>

ASSUME RetentionAssumption ==
    /\ NoArtifact \notin Artifacts
    /\ {ArtifactRetention, StateRetention, CacheRetention, StagingRetention} \subseteq Nat \ {0}
    /\ JobWorkers \in Nat \ {0}
    /\ JobTicks \in Nat /\ 2 * JobTicks < ArtifactRetention
    /\ {MaxMisses, MaxFaults, MaxCrashes} \subseteq Nat

VARIABLES
    rec,     \* the records of the state store
    files,   \* ARTIFACT_OUTPUT_ROOT
    staged,  \* ARTIFACT_INPUT_ROOT
    cache,   \* the artifact of the cache entry
    age,     \* ticks since each of these files was written
    pc, mem, \* a running job: where its item is, and the artifact it has
    ran,     \* ticks that it has seen
    jan,     \* the janitor's pass: its step, what it keeps, records left to see
    due,     \* the janitor's ticker has fired
    recovered,
    since,   \* history: jobs submitted since the pass listed the records
    crashes, faults, misses

running == <<pc, mem, ran>>
vars == <<rec, files, staged, cache, age, running, jan, due, recovered, since, crashes, faults, misses>>

Absent == [state |-> "absent", input |-> NoInput, planned |-> NoArtifact, out |-> NoArtifact]
Idle   == [at |-> "idle", keep |-> {}, inputs |-> {}, todo |-> {}, old |-> {}]

MaybeArtifact == Artifacts \cup {NoArtifact}

TypeOK ==
    /\ rec \in [Jobs -> [state : {"absent", "queued", "processing", "completed"},
                         input : Inputs \cup {NoInput}, planned : MaybeArtifact, out : MaybeArtifact]]
    /\ files \subseteq Artifacts /\ staged \subseteq Inputs /\ cache \in MaybeArtifact
    /\ age \in [record : [Jobs -> 0 .. StateRetention], artifact : [Artifacts -> 0 .. ArtifactRetention],
                input : [Inputs -> 0 .. StagingRetention], entry : 0 .. CacheRetention]
    /\ pc \in [Jobs -> {"idle", "open", "lookup", "convert", "commit", "save", "store", "finish"}]
    /\ mem \in [Jobs -> MaybeArtifact]
    /\ ran \in [Jobs -> 0 .. JobTicks]
    /\ jan \in [at : {"idle", "refs", "artifacts", "staging", "records", "look", "remove", "entries", "recover"},
                keep : SUBSET Artifacts, inputs : SUBSET Inputs, todo : SUBSET Jobs, old : SUBSET Jobs]
    /\ Cardinality(jan.old) <= 1
    /\ {due, recovered} \subseteq BOOLEAN
    /\ since \subseteq Jobs
    /\ crashes \in 0 .. MaxCrashes /\ faults \in 0 .. MaxFaults /\ misses \in 0 .. MaxMisses

Init ==
    /\ rec = [j \in Jobs |-> Absent]
    /\ files = {} /\ staged = {} /\ cache = NoArtifact
    /\ age = [record |-> [j \in Jobs |-> 0], artifact |-> [a \in Artifacts |-> 0],
              input |-> [i \in Inputs |-> 0], entry |-> 0]
    /\ pc = [j \in Jobs |-> "idle"] /\ mem = [j \in Jobs |-> NoArtifact]
    /\ ran = [j \in Jobs |-> 0]
    /\ jan = Idle /\ due = FALSE /\ recovered = TRUE
    /\ since = {}
    /\ crashes = 0 /\ faults = 0 /\ misses = 0

Exists(j)     == rec[j].state # "absent"
Unfinished(j) == rec[j].state \in {"queued", "processing"}
Fault         == faults < MaxFaults /\ faults' = faults + 1

-------------------------------------------------------------------------------
\* Clients: Stage an upload, Submit a job.  Submit does not look at the input.
Upload(i) ==
    /\ recovered
    /\ i \notin staged /\ \A j \in Jobs : rec[j].input # i
    /\ staged' = staged \cup {i}
    /\ age' = [age EXCEPT !.input[i] = 0]
    /\ UNCHANGED <<rec, files, cache, running, jan, due, recovered, since, crashes, faults, misses>>

\* state.Store.Put: the record is a new file.
Write(j, r) ==
    /\ rec' = [rec EXCEPT ![j] = r]
    /\ age' = [age EXCEPT !.record[j] = 0]

Submit(j, i) ==
    /\ recovered
    /\ ~Exists(j)
    /\ Write(j, [Absent EXCEPT !.state = "queued", !.input = i])
    /\ since' = since \cup {j}
    /\ UNCHANGED <<files, staged, cache, running, jan, due, recovered, crashes, faults, misses>>

-------------------------------------------------------------------------------
\* A worker and the item of its job.
Goto(j, step, a) ==
    /\ pc' = [pc EXCEPT ![j] = step]
    /\ mem' = [mem EXCEPT ![j] = a]
    /\ ran' = [ran EXCEPT ![j] = IF step = "idle" THEN 0 ELSE @]

Start(j) ==
    /\ recovered
    /\ rec[j].state = "queued"
    /\ Cardinality({k \in Jobs : pc[k] # "idle"}) < JobWorkers
    /\ Write(j, [rec[j] EXCEPT !.state = "processing"])
    /\ Goto(j, "open", NoArtifact)
    /\ UNCHANGED <<files, staged, cache, jan, due, recovered, since, crashes, faults, misses>>

\* OpenInput; from here on the item has its own copy.
Open(j) ==
    /\ pc[j] = "open"
    /\ Goto(j, IF rec[j].input \in staged THEN "lookup" ELSE "finish", NoArtifact)
    /\ UNCHANGED <<rec, files, staged, cache, age, jan, due, recovered, since, crashes, faults, misses>>

\* readCachedResult.
Lookup(j) ==
    /\ pc[j] = "lookup"
    /\ IF cache \in files THEN Goto(j, "save", cache) ELSE Goto(j, "convert", NoArtifact)
    /\ UNCHANGED <<rec, files, staged, cache, age, jan, due, recovered, since, crashes, faults, misses>>

LookupFails(j) ==
    /\ pc[j] = "lookup" /\ cache \in files
    /\ misses < MaxMisses /\ misses' = misses + 1
    /\ Goto(j, "convert", NoArtifact)
    /\ UNCHANGED <<rec, files, staged, cache, age, jan, due, recovered, since, crashes, faults>>

\* NewArtifactID: nothing refers to the identity.
Unused(a) ==
    /\ a \notin files \cup jan.keep \cup {cache}
    /\ \A k \in Jobs : a \notin {rec[k].planned, rec[k].out, mem[k]}

Plan(j, a) ==
    /\ pc[j] = "convert"
    /\ Unused(a)
    /\ Write(j, [rec[j] EXCEPT !.planned = a])
    /\ Goto(j, "commit", NoArtifact)
    /\ UNCHANGED <<files, staged, cache, jan, due, recovered, since, crashes, faults, misses>>

Commit(j) ==
    /\ pc[j] = "commit"
    /\ files' = files \cup {rec[j].planned}
    /\ age' = [age EXCEPT !.artifact[rec[j].planned] = 0]
    /\ Goto(j, "save", rec[j].planned)
    /\ UNCHANGED <<rec, staged, cache, jan, due, recovered, since, crashes, faults, misses>>

\* A tool rejects the input, or the output mount is gone.
ItemFails(j) ==
    /\ pc[j] \in {"convert", "commit"}
    /\ Goto(j, "finish", NoArtifact)
    /\ UNCHANGED <<rec, files, staged, cache, age, jan, due, recovered, since, crashes, faults, misses>>

\* The progress write that names the artifact: of commitResult, or of
\* persistItemProgress for a cache hit, where an error is ignored.
CacheHit(j) == mem[j] # rec[j].planned

Save(j) ==
    /\ pc[j] = "save"
    /\ Write(j, [rec[j] EXCEPT !.out = mem[j]])
    /\ Goto(j, IF CacheHit(j) THEN "finish" ELSE "store", mem[j])
    /\ UNCHANGED <<files, staged, cache, jan, due, recovered, since, crashes, faults, misses>>

SaveFails(j) ==
    /\ pc[j] = "save"
    /\ Fault
    /\ Goto(j, "finish", IF CacheHit(j) THEN mem[j] ELSE NoArtifact)
    /\ UNCHANGED <<rec, files, staged, cache, age, jan, due, recovered, since, crashes, misses>>

Store(j) ==
    /\ pc[j] = "store"
    /\ cache' = mem[j]
    /\ age' = [age EXCEPT !.entry = 0]
    /\ Goto(j, "finish", mem[j])
    /\ UNCHANGED <<rec, files, staged, jan, due, recovered, since, crashes, faults, misses>>

Finish(j) ==
    /\ pc[j] = "finish"
    /\ Write(j, [rec[j] EXCEPT !.state = "completed", !.out = mem[j]])
    /\ Goto(j, "idle", NoArtifact)
    /\ UNCHANGED <<files, staged, cache, jan, due, recovered, since, crashes, faults, misses>>

-------------------------------------------------------------------------------
\* Mutant of References: identities that were planned here, not those of cache hits.
ReferencesPlanned(j) == {rec[j].planned} \ {NoArtifact}

\* The janitor.  A pass starts with the records and then the cache entries, in
\* this order: a cache hit that the records do not show yet is still in the cache.
References(j) == {rec[j].planned, rec[j].out} \ {NoArtifact}

\* Mutant of InputsInUse: the inputs of queued jobs only.
InputsInUseQueued == {rec[j].input : j \in {k \in Jobs : rec[k].state = "queued"}}

InputsInUse == {rec[j].input : j \in {k \in Jobs : Unfinished(k)}}

ListRecords ==
    /\ jan.at = "idle" /\ due
    /\ due' = FALSE
    /\ jan' = [Idle EXCEPT !.at = "refs", !.keep = UNION {References(j) : j \in Jobs}, !.inputs = InputsInUse]
    /\ since' = {}
    /\ UNCHANGED <<rec, files, staged, cache, age, running, recovered, crashes, faults, misses>>

\* Mutant of ReferencedArtifacts: the cache entries do not count.
ReferencedArtifactsIgnored ==
    /\ jan.at = "refs"
    /\ jan' = [jan EXCEPT !.at = "artifacts"]
    /\ UNCHANGED <<rec, files, staged, cache, age, running, due, recovered, since, crashes, faults, misses>>

ReferencedArtifacts ==
    /\ jan.at = "refs"
    /\ jan' = [jan EXCEPT !.at = "artifacts", !.keep = @ \cup ({cache} \ {NoArtifact})]
    /\ UNCHANGED <<rec, files, staged, cache, age, running, due, recovered, since, crashes, faults, misses>>

\* CleanupOldExcept and CleanupStagedOldExcept, file by file.
OldFiles  == {a \in files \ jan.keep : age.artifact[a] >= ArtifactRetention}
OldInputs == {i \in staged \ jan.inputs : age.input[i] >= StagingRetention}

RemoveArtifact(a) ==
    /\ jan.at = "artifacts" /\ a \in OldFiles
    /\ files' = files \ {a}
    /\ age' = [age EXCEPT !.artifact[a] = 0]
    /\ UNCHANGED <<rec, staged, cache, running, jan, due, recovered, since, crashes, faults, misses>>

ArtifactsDone ==
    /\ jan.at = "artifacts" /\ OldFiles = {}
    /\ jan' = [jan EXCEPT !.at = "staging", !.keep = {}]
    /\ UNCHANGED <<rec, files, staged, cache, age, running, due, recovered, since, crashes, faults, misses>>

RemoveInput(i) ==
    /\ jan.at = "staging" /\ i \in OldInputs
    /\ staged' = staged \ {i}
    /\ age' = [age EXCEPT !.input[i] = 0]
    /\ UNCHANGED <<rec, files, cache, running, jan, due, recovered, since, crashes, faults, misses>>

StagingDone ==
    /\ jan.at = "staging" /\ OldInputs = {}
    /\ jan' = [jan EXCEPT !.at = "records", !.inputs = {}, !.todo = {j \in Jobs : Exists(j)}]
    /\ UNCHANGED <<rec, files, staged, cache, age, running, due, recovered, since, crashes, faults, misses>>

\* Mutant of SeeOld: the old records are collected first.
SeeOldAll(j) ==
    /\ jan.at = "records" /\ j \in jan.todo
    /\ age.record[j] >= StateRetention
    /\ jan' = [jan EXCEPT !.todo = @ \ {j}, !.old = @ \cup {j}]
    /\ UNCHANGED <<rec, files, staged, cache, age, running, due, recovered, since, crashes, faults, misses>>

\* state.Store.CleanupOld: for one record after another, its age, then its
\* content, then its removal.
SeeOld(j) ==
    /\ jan.at = "records" /\ j \in jan.todo
    /\ age.record[j] >= StateRetention
    /\ jan' = [jan EXCEPT !.at = "look", !.todo = @ \ {j}, !.old = {j}]
    /\ UNCHANGED <<rec, files, staged, cache, age, running, due, recovered, since, crashes, faults, misses>>

\* Mutant of Removable: whatever is old may go.
RemovableAny(j) == Exists(j)

Removable(j) == rec[j].state = "completed"

LookAt(j) ==
    /\ jan.at = "look" /\ j \in jan.old
    /\ jan' = IF Removable(j) THEN [jan EXCEPT !.at = "remove"]
                              ELSE [jan EXCEPT !.at = "records", !.old = {}]
    /\ UNCHANGED <<rec, files, staged, cache, age, running, due, recovered, since, crashes, faults, misses>>

RemoveRecord(j) ==
    /\ jan.at = "remove" /\ j \in jan.old
    /\ Write(j, Absent)
    /\ jan' = [jan EXCEPT !.at = "records", !.old = {}]
    /\ UNCHANGED <<files, staged, cache, running, due, recovered, since, crashes, faults, misses>>

RecordsDone ==
    /\ jan.at = "records" /\ \A j \in jan.todo : age.record[j] < StateRetention
    /\ jan' = [jan EXCEPT !.at = "entries", !.todo = {}]
    /\ UNCHANGED <<rec, files, staged, cache, age, running, due, recovered, since, crashes, faults, misses>>

\* Mutant of CleanupEntries: cache entries never expire.
CleanupEntriesNever ==
    /\ jan.at = "entries"
    /\ jan' = [Idle EXCEPT !.at = IF recovered THEN "idle" ELSE "recover"]
    /\ since' = {}
    /\ UNCHANGED <<rec, files, staged, cache, age, running, due, recovered, crashes, faults, misses>>

\* cache.Store.CleanupOld, and the end of the pass: at the start of the process
\* Recover follows.
CleanupEntries ==
    /\ jan.at = "entries"
    /\ IF age.entry >= CacheRetention
       THEN cache' = NoArtifact /\ age' = [age EXCEPT !.entry = 0]
       ELSE UNCHANGED <<cache, age>>
    /\ jan' = [Idle EXCEPT !.at = IF recovered THEN "idle" ELSE "recover"]
    /\ since' = {}
    /\ UNCHANGED <<rec, files, staged, running, due, recovered, crashes, faults, misses>>

\* A directory cannot be read, or the output mount is gone: the pass is over.
GiveUp ==
    /\ jan.at # "idle" /\ recovered
    /\ Fault
    /\ jan' = Idle /\ since' = {}
    /\ UNCHANGED <<rec, files, staged, cache, age, running, due, recovered, crashes, misses>>

-------------------------------------------------------------------------------
\* The process stops, for any time; the next one cleans up and then recovers.
Crash ==
    /\ crashes < MaxCrashes
    /\ crashes' = crashes + 1
    /\ pc' = [j \in Jobs |-> "idle"] /\ mem' = [j \in Jobs |-> NoArtifact]
    /\ ran' = [j \in Jobs |-> 0]
    /\ jan' = Idle /\ due' = TRUE /\ recovered' = FALSE /\ since' = {}
    /\ UNCHANGED <<rec, files, staged, cache, age, faults, misses>>

\* reconcileProgress, as far as artifacts go: the recorded one, else the planned.
Reconcile(j) ==
    LET named == IF rec[j].out # NoArtifact THEN rec[j].out ELSE rec[j].planned
    IN  [rec[j] EXCEPT !.state = "completed", !.out = IF named \in files THEN named ELSE NoArtifact]

Recover ==
    /\ jan.at = "recover"
    /\ LET interrupted == {j \in Jobs : rec[j].state = "processing"}
       IN  /\ rec' = [j \in Jobs |-> IF j \in interrupted THEN Reconcile(j) ELSE rec[j]]
           /\ age' = [age EXCEPT !.record = [j \in Jobs |-> IF j \in interrupted THEN 0 ELSE @[j]]]
    /\ jan' = Idle /\ recovered' = TRUE
    /\ UNCHANGED <<files, staged, cache, running, due, since, crashes, faults, misses>>

\* A cache hit that no record shows yet.
Unrecorded(j) == mem[j] \notin {NoArtifact, rec[j].planned, rec[j].out}

Older(f, retention) == [x \in DOMAIN f |-> IF f[x] < retention THEN f[x] + 1 ELSE f[x]]

\* A tick is a JANITOR_INTERVAL.  While the service runs, a pass follows each
\* and is over before the next; a job sees JobTicks of them, and a cache hit is
\* on record before the next pass (JOB_TIMEOUT < JANITOR_INTERVAL).
Tick ==
    /\ jan.at = "idle" /\ (recovered => ~due)
    /\ \A j \in Jobs : ~Unrecorded(j) /\ (pc[j] # "idle" => ran[j] < JobTicks)
    /\ ran' = [j \in Jobs |-> IF pc[j] = "idle" THEN 0 ELSE ran[j] + 1]
    /\ due' = TRUE
    /\ age' = [record   |-> [j \in Jobs |-> IF Exists(j) THEN Older(age.record, StateRetention)[j] ELSE 0],
               artifact |-> [a \in Artifacts |-> IF a \in files THEN Older(age.artifact, ArtifactRetention)[a] ELSE 0],
               input    |-> [i \in Inputs |-> IF i \in staged THEN Older(age.input, StagingRetention)[i] ELSE 0],
               entry    |-> IF cache # NoArtifact /\ age.entry < CacheRetention THEN age.entry + 1 ELSE age.entry]
    /\ UNCHANGED <<rec, files, staged, cache, pc, mem, jan, recovered, since, crashes, faults, misses>>

-------------------------------------------------------------------------------
Item(j) ==
    \/ Open(j) \/ Lookup(j) \/ LookupFails(j) \/ (\E a \in Artifacts : Plan(j, a)) \/ Commit(j)
    \/ Save(j) \/ Store(j) \/ Finish(j)
    \/ ItemFails(j) \/ SaveFails(j)

Cleanup ==
    \/ ListRecords \/ ReferencedArtifacts
    \/ (\E a \in Artifacts : RemoveArtifact(a)) \/ ArtifactsDone
    \/ (\E i \in Inputs : RemoveInput(i)) \/ StagingDone
    \/ \E j \in Jobs : SeeOld(j) \/ LookAt(j) \/ RemoveRecord(j)
    \/ RecordsDone \/ CleanupEntries

Next ==
    \/ \E i \in Inputs : Upload(i) \/ \E j \in Jobs : Submit(j, i)
    \/ \E j \in Jobs : Start(j) \/ Item(j)
    \/ Cleanup \/ GiveUp \/ Recover \/ Crash \/ Tick

\* Goroutines run, the ticker fires, and time passes however often jobs hit the
\* cache in between.
Fairness ==
    /\ WF_vars(\E j \in Jobs : Start(j))
    /\ \A j \in Jobs : WF_vars(Item(j))
    /\ WF_vars(Cleanup) /\ WF_vars(Recover) /\ SF_vars(Tick)

Spec == Init /\ [][Next]_vars
FairSpec == Spec /\ Fairness

-------------------------------------------------------------------------------
\* Properties.

\* An artifact that a record reports is there: no pass of the janitor, whatever
\* snapshot of records and cache it works from, removes what a job has found in
\* the cache, has committed, or has been recovered with.
ResultsResolve == \A j \in Jobs : rec[j].out # NoArtifact => rec[j].out \in files

\* CleanupOld reads a record's age, its state and removes it in three steps; a
\* job that is queued or running never loses its record in between.
UnfinishedStay == [][\A j \in Jobs : Unfinished(j) => rec'[j].state # "absent"]_vars

\* A staged input goes only if no unfinished job needs it, but for jobs that
\* were submitted while the pass was under way: the promise tested by
\* TestCleanupKeepsDurablyReferencedStagingArtifact, against everything that
\* runs beside a pass.
InputsStay ==
    [][\A i \in staged \ staged' : \A j \in Jobs : Unfinished(j) /\ rec[j].input = i => j \in since]_vars

\* Every artifact is removed some day: the references of records, planned
\* identities and cache entries do not keep one another alive, however clients
\* submit and whatever a crash leaves behind.
Reclaimed == \A a \in Artifacts : a \in files ~> a \notin files

\* A result stays for STATE_RETENTION after the job has completed (README.md:351).
ResultsRetained ==
    [][\A j \in Jobs : rec[j].state = "completed" /\ rec'[j].state = "absent"
                       => age.record[j] >= StateRetention]_vars
===============================================================================
