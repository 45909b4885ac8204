------------------------------ MODULE ItemCommit ------------------------------
(***************************************************************************)
(* How one item becomes a committed artifact: processItem from the cache   *)
(* lookup on, commitResult, the thumbnail part of processVideo and         *)
(* persistItemProgress (internal/job/manager.go), the output side of       *)
(* LocalStore (internal/storage/store.go), the result cache, a crash at    *)
(* any point, and reconcileProgress on the way up again.                   *)
(*                                                                         *)
(* JobLifecycle says which goroutine holds a job; here the holder is given *)
(* and the steps inside an item are told apart.  A conversion is reduced   *)
(* to its outcome: a validated file in the workspace, or a failure.        *)
(***************************************************************************)
EXTENDS Naturals, ItemVerdicts

CONSTANTS
    Jobs,      \* job identities
    Items,     \* identities of items
    ItemsOf,   \* the items of each job: [Jobs -> SUBSET Items]
    Keys,      \* cache keys
    Key,       \* the cache key of each item: [Jobs \X Items -> Keys]
    MaxFaults, \* bound: failing writes, reads and tools in a behaviour
    MaxCrashes \* bound: crashes in a behaviour

ASSUME ItemCommitAssumption ==
    /\ ItemsOf \in [Jobs -> SUBSET Items]
    /\ Key \in [Jobs \X Items -> Keys]
    /\ MaxFaults \in Nat
    /\ MaxCrashes \in Nat

\* Artifact identities are fresh (storage.NewArtifactID), so they are named
\* after the item they are drawn for.
Artifacts   == {"norm", "thumb"} \X (Jobs \X Items)
Norm(j, i)  == <<"norm", <<j, i>>>>
Thumb(j, i) == <<"thumb", <<j, i>>>>
NoArtifact  == <<>>

\* What a file holds: nothing, what was committed, or something else since.
Contents == {"absent", "written", "altered"}

\* domain.ItemResult; sha is the content that Output.SHA256 and Size describe.
ItemResult ==
    [status : Statuses, out : Artifacts \cup {NoArtifact}, sha : Contents,
     thumb : Artifacts \cup {NoArtifact}]

Without(s)  == [status |-> s, out |-> NoArtifact, sha |-> "absent", thumb |-> NoArtifact]
Success(a, c) == [status |-> "success", out |-> a, sha |-> c, thumb |-> NoArtifact]
NoResult    == Without("none")

\* domain.ItemProgress: its state, whether PlannedOutputID and
\* PlannedThumbnailID are set, and its Result.
ItemProgress ==
    [st : ProgressStates \ {"none", "planned"}, planned : BOOLEAN, tplanned : BOOLEAN, result : ItemResult]

Fresh == [st |-> "pending", planned |-> FALSE, tplanned |-> FALSE, result |-> NoResult]

VARIABLES
    disk,    \* state.Store: per job its state, progress list and final results
    mem,     \* progressTracker.record.Progress of each running job
    pc,      \* where each item goroutine is
    res,     \* its result variable
    files,   \* ARTIFACT_OUTPUT_ROOT
    cache,   \* cache.Store
    up,      \* the process has recovered and serves
    crashes, faults

vars == <<disk, mem, pc, res, files, cache, up, crashes, faults>>

Steps == {"none", "start", "lookup", "plan", "commit", "save", "mark", "thumb", "thumbCommit",
          "thumbSave", "store", "report", "done"}

TypeOK ==
    /\ disk \in [Jobs -> [state : {"queued", "processing", "completed"},
                          prog : [Items -> ItemProgress], final : [Items -> ItemResult]]]
    /\ mem \in [Jobs -> [Items -> ItemProgress]]
    /\ pc \in [Jobs -> [Items -> Steps]]
    /\ res \in [Jobs -> [Items -> ItemResult]]
    /\ files \in [Artifacts -> Contents]
    /\ cache \in [Keys -> ItemResult]
    /\ up \in BOOLEAN
    /\ crashes \in 0 .. MaxCrashes /\ faults \in 0 .. MaxFaults

FreshList == [i \in Items |-> Fresh]
Nowhere   == [i \in Items |-> "none"]
NoResults == [i \in Items |-> NoResult]

Init ==
    /\ disk = [j \in Jobs |-> [state |-> "queued", prog |-> FreshList, final |-> NoResults]]
    /\ mem = [j \in Jobs |-> FreshList]
    /\ pc = [j \in Jobs |-> Nowhere]
    /\ res = [j \in Jobs |-> NoResults]
    /\ files = [a \in Artifacts |-> "absent"]
    /\ cache = [k \in Keys |-> NoResult]
    /\ up = TRUE
    /\ crashes = 0 /\ faults = 0

-------------------------------------------------------------------------------
\* Something fails: a write of the state store after its three attempts, or the
\* output directory or a tool while recovering.
Fault   == faults < MaxFaults /\ faults' = faults + 1
NoFault == UNCHANGED faults

\* progressTracker.update: the change is kept in memory, and the whole progress
\* list is written, with what earlier failed writes left in memory.
TrackOk(j, i, p) ==
    /\ mem' = [mem EXCEPT ![j][i] = p]
    /\ disk' = [disk EXCEPT ![j].prog = [mem[j] EXCEPT ![i] = p]]
    /\ NoFault

TrackFails(j, i, p) ==
    /\ mem' = [mem EXCEPT ![j][i] = p]
    /\ UNCHANGED disk
    /\ Fault

Track(j, i, p) == TrackOk(j, i, p) \/ TrackFails(j, i, p)

At(j, i, step)     == up /\ pc[j][i] = step
Goto(j, i, step)   == pc' = [pc EXCEPT ![j][i] = step]
Becomes(j, i, r)   == res' = [res EXCEPT ![j][i] = r]

\* processJob's first two writes, taken together: JobLifecycle splits them.
Begin(j) ==
    /\ up
    /\ disk[j].state = "queued"
    /\ disk' = [disk EXCEPT ![j].state = "processing"]
    /\ pc' = [pc EXCEPT ![j] = [i \in Items |-> IF i \in ItemsOf[j] THEN "start" ELSE "none"]]
    /\ UNCHANGED <<mem, res, files, cache, up, crashes, faults>>

Start(j, i) ==
    /\ At(j, i, "start")
    /\ Track(j, i, [mem[j][i] EXCEPT !.st = "processing"])
    /\ Goto(j, i, "lookup")
    /\ UNCHANGED <<res, files, cache, up, crashes>>

-------------------------------------------------------------------------------
\* readCachedResult: the artifact is opened and hashed before it is reported
\* again; a thumbnail that does not match is dropped from the result.
Matches(a, c) == c # "absent" /\ files[a] = c

\* Mutant of Usable: the artifact of a cached result is not opened.
UsableUnopened(r) == r.status = "success"

Usable(r) == r.status = "success" /\ Matches(r.out, r.sha)

WithThumbnail(r) ==
    IF r.thumb # NoArtifact /\ ~Matches(r.thumb, "written") THEN [r EXCEPT !.thumb = NoArtifact] ELSE r

Cached(j, i) == cache[Key[<<j, i>>]]

CacheHit(j, i) ==
    /\ At(j, i, "lookup")
    /\ Usable(Cached(j, i))
    /\ Becomes(j, i, WithThumbnail(Cached(j, i)))
    /\ Goto(j, i, "report")
    /\ UNCHANGED <<disk, mem, files, cache, up, crashes, faults>>

\* The converter is run and its output validated: there is no usable entry, or
\* there is one and it or its artifact cannot be read just now.
Convert(j, i) ==
    /\ At(j, i, "lookup")
    /\ Goto(j, i, "plan")
    /\ UNCHANGED <<disk, mem, res, files, cache, up, crashes, faults>>

\* The item is rejected or fails before anything is committed: a bad input, a
\* limit, a tool, a cancelled context.
GiveUp(j, i) ==
    /\ At(j, i, "lookup")
    /\ \E s \in {"rejected", "failed"} : Becomes(j, i, Without(s))
    /\ Goto(j, i, "report")
    /\ UNCHANGED <<disk, mem, files, cache, up, crashes, faults>>

-------------------------------------------------------------------------------
\* commitResult.

\* Mutant of Plan: the identity of the output is not recorded.
PlanUnrecorded(j, i) ==
    /\ At(j, i, "plan")
    /\ Goto(j, i, "commit")
    /\ UNCHANGED <<disk, mem, res, files, cache, up, crashes, faults>>

\* The identity of the output is drawn and recorded first; an error of that
\* write is ignored.
Plan(j, i) ==
    /\ At(j, i, "plan")
    /\ Track(j, i, [mem[j][i] EXCEPT !.planned = TRUE])
    /\ Goto(j, i, "commit")
    /\ UNCHANGED <<res, files, cache, up, crashes>>

\* LocalStore Begin, CopyOutput and Commit: the only visible effect is the
\* rename.
Appears(a) == files' = [files EXCEPT ![a] = "written"]

\* They may fail before it, or after it (Stat), when the artifact is in place
\* although the caller gets an error.
PublishFails(a) == Appears(a) \/ UNCHANGED files

\* LocalStore.Remove, whose error the caller ignores.
Remove(a) == files' = [files EXCEPT ![a] = "absent"] \/ UNCHANGED files

Commit(j, i) ==
    /\ At(j, i, "commit")
    /\ \/ Appears(Norm(j, i)) /\ Goto(j, i, "save") /\ UNCHANGED res
       \/ /\ PublishFails(Norm(j, i))
          /\ Becomes(j, i, Without("failed"))
          /\ Goto(j, i, "report")
    /\ UNCHANGED <<disk, mem, cache, up, crashes, faults>>

\* Mutant of Save: the error of the write is ignored.
SaveUnchecked(j, i) ==
    LET r == Success(Norm(j, i), "written")
        p == [mem[j][i] EXCEPT !.st = "committed", !.result = r]
    IN  /\ At(j, i, "save")
        /\ Becomes(j, i, r)
        /\ Track(j, i, p) /\ Goto(j, i, "store")
        /\ UNCHANGED <<files, cache, up, crashes>>

\* The committed artifact is recorded.  If that write fails the item goes on to
\* be marked failed.
Save(j, i) ==
    LET r == Success(Norm(j, i), "written")
        p == [mem[j][i] EXCEPT !.st = "committed", !.result = r]
    IN  /\ At(j, i, "save")
        /\ Becomes(j, i, r)
        /\ \/ TrackOk(j, i, p) /\ \E step \in {"thumb", "store"} : Goto(j, i, step)
           \/ TrackFails(j, i, p) /\ Goto(j, i, "mark")
        /\ UNCHANGED <<files, cache, up, crashes>>

\* Progress.Result in the tracker is a pointer to result, so that the record in
\* memory changes with it, without the tracker's lock; until then a write of
\* another item carries the success to disk.
MarkFailed(j, i) ==
    /\ At(j, i, "mark")
    /\ Becomes(j, i, [res[j][i] EXCEPT !.status = "failed"])
    /\ mem' = [mem EXCEPT ![j][i].result.status = "failed"]
    /\ Goto(j, i, "report")
    /\ UNCHANGED <<disk, files, cache, up, crashes, faults>>

-------------------------------------------------------------------------------
\* The thumbnail of processVideo.  Whatever goes wrong costs the thumbnail, not
\* the item.

\* Mutant of ThumbPlan: the identity of the thumbnail is not recorded.
ThumbPlanUnrecorded(j, i) ==
    /\ At(j, i, "thumb")
    /\ Goto(j, i, "thumbCommit")
    /\ UNCHANGED <<disk, mem, res, files, cache, up, crashes, faults>>

ThumbPlan(j, i) ==
    /\ At(j, i, "thumb")
    /\ \/ Goto(j, i, "store") /\ UNCHANGED <<disk, mem, faults>>
       \/ Track(j, i, [mem[j][i] EXCEPT !.tplanned = TRUE]) /\ Goto(j, i, "thumbCommit")
    /\ UNCHANGED <<res, files, cache, up, crashes>>

ThumbCommit(j, i) ==
    /\ At(j, i, "thumbCommit")
    /\ \/ Appears(Thumb(j, i)) /\ Goto(j, i, "thumbSave")
       \/ /\ PublishFails(Thumb(j, i))
          /\ Goto(j, i, "store")
    /\ UNCHANGED <<disk, mem, res, cache, up, crashes, faults>>

\* The thumbnail is hashed and recorded, the error of the write ignored; if it
\* cannot be hashed it is removed, best effort.
ThumbSave(j, i) ==
    LET r == [res[j][i] EXCEPT !.thumb = Thumb(j, i)]
    IN  /\ At(j, i, "thumbSave")
        /\ Goto(j, i, "store")
        /\ \/ /\ Track(j, i, [mem[j][i] EXCEPT !.result = r])
              /\ Becomes(j, i, r)
              /\ UNCHANGED files
           \/ /\ Remove(Thumb(j, i))
              /\ UNCHANGED <<disk, mem, res, faults>>
        /\ UNCHANGED <<cache, up, crashes>>

-------------------------------------------------------------------------------
\* writeCachedResult; its error is ignored.
WriteCache(j, i) ==
    /\ At(j, i, "store")
    /\ cache' = [cache EXCEPT ![Key[<<j, i>>]] = res[j][i]] \/ UNCHANGED cache
    /\ Goto(j, i, "report")
    /\ UNCHANGED <<disk, mem, res, files, up, crashes, faults>>

\* Mutant of OnRecord: a success is taken to be on record.
OnRecordAlways(p, r) == r.status = "success"

\* hasCommittedResult: no second write for a result that is on record.
OnRecord(p, r) == r.status = "success" /\ p.st = "committed" /\ p.result = r

\* Mutant of StateOf: the status is taken for the state.
StateOfStatus(r) == r.status

StateOf(r) == IF r.status = "success" THEN "committed" ELSE r.status

\* persistItemProgress; its error is ignored.  Warnings are not modelled: one
\* added since the commit makes a result differ from the one on record.
Report(j, i) ==
    /\ At(j, i, "report")
    /\ \/ OnRecord(mem[j][i], res[j][i]) /\ UNCHANGED <<disk, mem, faults>>
       \/ Track(j, i, [mem[j][i] EXCEPT !.st = StateOf(res[j][i]), !.result = res[j][i]])
    /\ Goto(j, i, "done")
    /\ UNCHANGED <<res, files, cache, up, crashes>>

\* processJob's last write; when it fails the job is left as it is.
Finish(j) ==
    /\ up
    /\ disk[j].state = "processing"
    /\ \A i \in ItemsOf[j] : pc[j][i] = "done"
    /\ \/ disk' = [disk EXCEPT ![j] = [state |-> "completed", prog |-> mem[j], final |-> res[j]]] /\ NoFault
       \/ UNCHANGED disk /\ Fault
    /\ pc' = [pc EXCEPT ![j] = Nowhere]
    /\ mem' = [mem EXCEPT ![j] = FreshList]
    /\ res' = [res EXCEPT ![j] = NoResults]
    /\ UNCHANGED <<files, cache, up, crashes>>

-------------------------------------------------------------------------------
\* A crash loses memory.  While the service is down a file may be altered or
\* removed by somebody else.
Crash ==
    /\ crashes < MaxCrashes
    /\ crashes' = crashes + 1
    /\ up' = FALSE
    /\ mem' = [j \in Jobs |-> FreshList]
    /\ pc' = [j \in Jobs |-> Nowhere]
    /\ res' = [j \in Jobs |-> NoResults]
    /\ \/ UNCHANGED files
       \/ \E a \in Artifacts, c \in {"absent", "altered"} :
              files[a] = "written" /\ files' = [files EXCEPT ![a] = c]
    /\ UNCHANGED <<disk, cache, faults>>

\* The artifact that reconcileItemWithPolicy looks for.
Expected(j, i, p) ==
    CASE p.result.out # NoArtifact -> p.result.out
      [] p.result.out = NoArtifact /\ p.planned -> Norm(j, i)
      [] OTHER -> NoArtifact

\* Mutant of VerifyRecorded: what does not match counts as interrupted.
VerifyRecordedInterrupts(p) ==
    IF Matches(p.result.out, p.result.sha) THEN {WithThumbnail(p.result)} ELSE {Without("interrupted")}

\* An artifact with a recorded hash must match it.
VerifyRecorded(p) ==
    IF Matches(p.result.out, p.result.sha) THEN {WithThumbnail(p.result)} ELSE {Without("failed")}

\* A planned artifact that is there is probed, which an altered file may pass,
\* and hashed anew.
ProbePlanned(a) ==
    CASE files[a] = "absent"  -> {Without("interrupted")}
      [] files[a] = "written" -> {Success(a, "written")}
      [] files[a] = "altered" -> {Success(a, "altered"), Without("failed")}

\* reconcileProgress for one item.
Verdict(j, i, p) ==
    LET a == Expected(j, i, p)
    IN  CASE p.st \in {"rejected", "failed"} -> {p.result}
          [] p.st \notin {"rejected", "failed"} /\ a = NoArtifact -> {Without("interrupted")}
          [] p.st \notin {"rejected", "failed"} /\ a # NoArtifact ->
                IF p.result.out = NoArtifact THEN ProbePlanned(a) ELSE VerifyRecorded(p)

\* The same when the output directory cannot be read or the probe cannot run: a
\* mount that is gone looks like a missing artifact.
VerdictBlind(j, i, p) ==
    CASE p.st \in {"rejected", "failed"} -> {p.result}
      [] p.st \notin {"rejected", "failed"} /\ Expected(j, i, p) = NoArtifact -> {Without("interrupted")}
      [] p.st \notin {"rejected", "failed"} /\ Expected(j, i, p) # NoArtifact ->
            {Without("failed")}
                \cup (IF p.result.out = NoArtifact THEN {Without("interrupted")}
                      ELSE {[r EXCEPT !.thumb = NoArtifact] : r \in VerifyRecorded(p)})

\* Recover, for one job that was processing: nothing else runs.
Recover(j) ==
    LET Clear == [i \in ItemsOf[j] |-> Verdict(j, i, disk[j].prog[i])]
        Any   == [i \in ItemsOf[j] |-> Clear[i] \cup VerdictBlind(j, i, disk[j].prog[i])]
        Ends(V) == {f \in [ItemsOf[j] -> UNION {V[i] : i \in ItemsOf[j]}] : \A i \in ItemsOf[j] : f[i] \in V[i]}
    IN  /\ ~up
        /\ disk[j].state = "processing"
        /\ \E f \in Ends(Any) :
              /\ IF f \in Ends(Clear) THEN NoFault ELSE Fault
              /\ disk' = [disk EXCEPT ![j].state = "completed",
                                     ![j].final = [i \in Items |-> IF i \in ItemsOf[j] THEN f[i] ELSE NoResult]]
        /\ UNCHANGED <<mem, pc, res, files, cache, up, crashes>>

Serve ==
    /\ ~up
    /\ \A j \in Jobs : disk[j].state # "processing"
    /\ up' = TRUE
    /\ UNCHANGED <<disk, mem, pc, res, files, cache, crashes, faults>>

ItemStep(j, i) ==
    \/ Start(j, i) \/ CacheHit(j, i) \/ Convert(j, i) \/ GiveUp(j, i)
    \/ Plan(j, i) \/ Commit(j, i) \/ Save(j, i) \/ MarkFailed(j, i)
    \/ ThumbPlan(j, i) \/ ThumbCommit(j, i) \/ ThumbSave(j, i)
    \/ WriteCache(j, i) \/ Report(j, i)

Next ==
    \/ \E j \in Jobs : Begin(j) \/ Finish(j) \/ Recover(j) \/ \E i \in Items : ItemStep(j, i)
    \/ Crash \/ Serve

Spec == Init /\ [][Next]_vars

-------------------------------------------------------------------------------
\* Properties.

\* Whether a result vouches only for artifacts that are there, byte for byte.
Vouched(r) ==
    r.status = "success" =>
        Matches(r.out, r.sha) /\ (r.thumb # NoArtifact => Matches(r.thumb, "written"))

\* A job that completes reports success only for artifacts that are on disk at
\* that moment and match the reported hash, whether processJob or Recover
\* completes it, and after a cache hit, a failed write, or damage to a file.
SuccessIsVouched ==
    [][\A j \in Jobs : \A i \in Items :
        disk[j].state # "completed" /\ disk'[j].state = "completed" => Vouched(disk'[j].final[i])]_vars

\* An artifact that made it into the output directory before a crash is not
\* reported as interrupted: recovery finds it by the identity recorded before
\* the rename ("validate an already committed artifact without rerunning a
\* converter", domain.go ItemProgress), unless the item is durably a failure or
\* something failed on the way.
RecoveryFindsArtifacts ==
    [][\A j \in Jobs : \A i \in ItemsOf[j] :
        (/\ ~up /\ disk[j].state = "processing" /\ disk'[j].state = "completed"
         /\ disk[j].prog[i].st \notin {"rejected", "failed"}
         /\ files[Norm(j, i)] = "written"
         /\ faults' = 0)
            => disk'[j].final[i].status = "success" /\ disk'[j].final[i].out = Norm(j, i)]_vars

\* No artifact is visible before a durable record names it, so that no crash
\* leaves one that neither recovery nor the retention of Manager.Cleanup can
\* tell from garbage, as long as no write fails.
NamedBeforeVisible ==
    faults = 0 =>
        \A j \in Jobs : \A i \in Items :
            /\ files[Norm(j, i)] # "absent" => disk[j].prog[i].planned
            /\ files[Thumb(j, i)] # "absent" => disk[j].prog[i].tplanned

\* Once an item has reported, a crash changes nothing: recovery would give the
\* result that processJob is about to write (commitResult, persistItemProgress
\* and reconcileProgress agree), as long as no write fails.
CrashIsTransparent ==
    faults = 0 =>
        \A j \in Jobs : \A i \in Items :
            pc[j][i] = "done" => Verdict(j, i, disk[j].prog[i]) = {res[j][i]}

\* Every artifact the cache hands out is named by the durable progress of the
\* job that made it, even when writes fail: nothing enters the cache before
\* commitResult has recorded it.
CacheHoldsCommitted ==
    \A k \in Keys :
        cache[k].status = "success" =>
            \E j \in Jobs, i \in Items :
                disk[j].prog[i].st = "committed" /\ disk[j].prog[i].result.out = cache[k].out

\* The progress of an item as JobLifecycle sees it.
Seen(p) == IF p.st = "processing" /\ p.planned THEN "planned" ELSE p.st

\* Recovery ends an item only as JobLifecycle's RecoverReconcile allows from
\* the progress on disk: a durable commit is never called interrupted, and a
\* rejection or failure is kept.
RecoveryFitsLifecycle ==
    [][\A j \in Jobs : \A i \in ItemsOf[j] :
        (~up /\ disk[j].state = "processing" /\ disk'[j].state = "completed")
            => disk'[j].final[i].status \in Reconciled(Seen(disk[j].prog[i]))]_vars
===============================================================================
