---------------------------- MODULE ItemCommit_proofs ----------------------------
(***************************************************************************)
(* Proofs about ItemCommit, for any jobs, items and cache keys and any     *)
(* number of crashes and faults: what a durable record, the cache and a    *)
(* final result say about the files, and what recovery makes of them.      *)
(***************************************************************************)
EXTENDS ItemCommit, TLAPS

-------------------------------------------------------------------------------
\* The inductive invariant.

\* Only a job on record as processing, in a process that serves, has goroutines,
\* one for each of its items; the other entries are as they were made.
Workers ==
    \A j \in Jobs : \A i \in Items :
        /\ disk[j].state = "queued" => disk[j].prog[i] = Fresh
        /\ i \notin ItemsOf[j] => disk[j].prog[i] = Fresh
        /\ pc[j][i] # "none" =>
              /\ up /\ disk[j].state = "processing" /\ i \in ItemsOf[j]
              /\ \A l \in ItemsOf[j] : pc[j][l] # "none"
        /\ pc[j][i] = "none" => mem[j][i] = Fresh /\ res[j][i] = NoResult

\* What a progress entry of an item may say, in memory or on disk.
Sound(j, i, p) ==
    /\ p.st \in {"pending", "processing"} => p.result = NoResult
    /\ p.st = "pending" => ~p.planned
    /\ p.st \in {"rejected", "failed"} => p.result.status = p.st
    /\ p.st = "committed" =>
          /\ p.result.status \in {"success", "failed"}
          /\ p.result.out # NoArtifact /\ p.result.sha = "written"
          /\ p.planned => p.result.out = Norm(j, i)

RecordsSound ==
    \A j \in Jobs : \A i \in Items : Sound(j, i, disk[j].prog[i]) /\ Sound(j, i, mem[j][i])

\* Without a fault, what a goroutine remembers is what is on disk.
InStep ==
    faults = 0 =>
        \A j \in Jobs : \A i \in Items :
            /\ pc[j][i] # "none" => disk[j].prog[i] = mem[j][i]
            /\ disk[j].prog[i].st = "committed" => disk[j].prog[i].result.status = "success"

\* What an item goroutine has in hand at each of its steps.
Phase(j, i) ==
    LET m == mem[j][i]
        r == res[j][i]
    IN  /\ pc[j][i] = "start" => m = Fresh /\ r = NoResult
        /\ pc[j][i] \in {"lookup", "plan"} => m.st = "processing" /\ ~m.planned /\ r = NoResult
        /\ pc[j][i] \in {"commit", "save"} => m.st = "processing" /\ m.planned /\ r = NoResult
        /\ pc[j][i] = "save" => files[Norm(j, i)] = "written"
        /\ pc[j][i] = "mark" => faults > 0
        /\ pc[j][i] \in {"mark", "thumb", "thumbCommit", "thumbSave", "store"} =>
              /\ m.st = "committed" /\ m.planned /\ m.result = r
              /\ r.status = "success" /\ r.out = Norm(j, i)
        /\ pc[j][i] \in {"mark", "thumb", "thumbCommit", "thumbSave"} => r.thumb = NoArtifact
        /\ pc[j][i] \in {"thumbCommit", "thumbSave"} => m.tplanned
        /\ pc[j][i] = "thumbSave" => files[Thumb(j, i)] = "written"
        /\ pc[j][i] \in {"report", "done"} =>
              /\ r.status \in {"success", "rejected", "failed"}
              /\ r.status = "success" /\ m.planned =>
                    m.st = "committed" /\ m.result.out = Norm(j, i) /\ r.out = Norm(j, i)
        /\ pc[j][i] = "report" /\ m.st = "committed" /\ faults = 0 => m.result.status = "success"
        /\ pc[j][i] = "done" => m.st = StateOf(r) /\ m.result = r

Phases == \A j \in Jobs : \A i \in Items : Phase(j, i)

\* The thumbnail of an item is only referred to once the item is past its last
\* chance to remove it.
Past(a) ==
    \A j \in Jobs : \A i \in Items :
        a = Thumb(j, i) => disk[j].state # "queued" /\ pc[j][i] \in {"none", "store", "report", "done"}

\* What a running item reports as a success is there.
Reported(r) ==
    r.status = "success" =>
        /\ r.sha = "written" /\ \E j \in Jobs : \E i \in Items : r.out = Norm(j, i)
        /\ Vouched(r)
        /\ Past(r.thumb)

ResultsSound == \A j \in Jobs : \A i \in Items : Reported(res[j][i])

Durable(j, i) == disk[j].prog[i].st = "committed" /\ disk[j].prog[i].result.out = Norm(j, i)

\* The item that made a cached artifact has it on record, and will not say
\* anything else.
Settled(j, i) ==
    /\ Durable(j, i)
    /\ pc[j][i] # "none" =>
          pc[j][i] \in {"report", "done"} /\ res[j][i].status = "success" /\ mem[j][i].planned

CacheSound ==
    /\ \A j \in Jobs : \A i \in Items :
          pc[j][i] \in {"thumb", "thumbCommit", "thumbSave", "store"} => Durable(j, i)
    /\ \A k \in Keys : cache[k].status = "success" =>
          /\ cache[k].sha = "written"
          /\ Past(cache[k].thumb)
          /\ \E j \in Jobs : \E i \in Items : cache[k].out = Norm(j, i) /\ Settled(j, i)

\* An artifact in place belongs to a job that has begun, and to an item that has
\* planned it.
FilesPlanned ==
    \A j \in Jobs : \A i \in Items :
        /\ files[Norm(j, i)] # "absent" =>
              disk[j].state # "queued" /\ (pc[j][i] # "none" => mem[j][i].planned)
        /\ files[Thumb(j, i)] # "absent" =>
              disk[j].state # "queued" /\ (pc[j][i] # "none" => mem[j][i].tplanned)

IInv ==
    /\ TypeOK /\ Workers /\ RecordsSound /\ InStep /\ Phases /\ ResultsSound /\ CacheSound
    /\ FilesPlanned /\ NamedBeforeVisible

-------------------------------------------------------------------------------
\* Artifact identities: those of different items differ, and none is the absent
\* one.
LEMMA ArtifactsDiffer ==
    /\ \A j \in Jobs, i \in Items : Norm(j, i) \in Artifacts /\ Thumb(j, i) \in Artifacts
    /\ \A j \in Jobs, i \in Items : Norm(j, i) # NoArtifact /\ Thumb(j, i) # NoArtifact
    /\ \A j, k \in Jobs, i, l \in Items :
          /\ Norm(j, i) # Thumb(k, l)
          /\ Norm(j, i) = Norm(k, l) => j = k /\ i = l
          /\ Thumb(j, i) = Thumb(k, l) => j = k /\ i = l
  BY DEF Artifacts, Norm, Thumb, NoArtifact

\* The results and progress entries that the actions make are of their types.
LEMMA ResultTypes ==
    /\ NoResult \in ItemResult /\ Fresh \in ItemProgress
    /\ \A s \in Statuses : Without(s) \in ItemResult
    /\ \A a \in Artifacts, c \in Contents : Success(a, c) \in ItemResult
    /\ \A r \in ItemResult : [r EXCEPT !.status = "failed"] \in ItemResult
    /\ \A r \in ItemResult : [r EXCEPT !.thumb = NoArtifact] \in ItemResult
    /\ \A r \in ItemResult, a \in Artifacts : [r EXCEPT !.thumb = a] \in ItemResult
    /\ \A r \in ItemResult : WithThumbnail(r) \in ItemResult
  BY DEF NoResult, Fresh, Without, Success, ItemResult, ItemProgress, Statuses, Contents, ProgressStates,
         WithThumbnail

\* What the actions make of a progress entry is one.
LEMMA ProgressTypes ==
    /\ \A p \in ItemProgress : [p EXCEPT !.st = "processing"] \in ItemProgress
    /\ \A p \in ItemProgress : [p EXCEPT !.planned = TRUE] \in ItemProgress
    /\ \A p \in ItemProgress : [p EXCEPT !.tplanned = TRUE] \in ItemProgress
    /\ \A p \in ItemProgress, r \in ItemResult : [p EXCEPT !.result = r] \in ItemProgress
    /\ \A p \in ItemProgress, s \in ProgressStates \ {"none", "planned"}, r \in ItemResult :
          [p EXCEPT !.st = s, !.result = r] \in ItemProgress
    /\ \A p \in ItemProgress : [p EXCEPT !.result.status = "failed"] \in ItemProgress
  BY DEF ItemProgress, ItemResult, ProgressStates, Statuses

\* An update of an entry changes the fields it names.
LEMMA EntryUpdates ==
    ASSUME NEW p \in ItemProgress
    PROVE  /\ \A s : LET q == [p EXCEPT !.st = s]
                    IN q.st = s /\ q.planned = p.planned /\ q.tplanned = p.tplanned /\ q.result = p.result
           /\ LET q == [p EXCEPT !.planned = TRUE]
              IN q.st = p.st /\ q.planned /\ q.tplanned = p.tplanned /\ q.result = p.result
           /\ LET q == [p EXCEPT !.tplanned = TRUE]
              IN q.st = p.st /\ q.planned = p.planned /\ q.tplanned /\ q.result = p.result
           /\ \A r : LET q == [p EXCEPT !.result = r]
                    IN q.st = p.st /\ q.planned = p.planned /\ q.tplanned = p.tplanned /\ q.result = r
           /\ \A s, r : LET q == [p EXCEPT !.st = s, !.result = r]
                       IN q.st = s /\ q.planned = p.planned /\ q.tplanned = p.tplanned /\ q.result = r
  BY DEF ItemProgress

\* So does an update of a result.
LEMMA ResultUpdates ==
    ASSUME NEW r \in ItemResult
    PROVE  /\ LET q == [r EXCEPT !.status = "failed"]
              IN q.status = "failed" /\ q.out = r.out /\ q.sha = r.sha /\ q.thumb = r.thumb
           /\ \A a : LET q == [r EXCEPT !.thumb = a]
                    IN q.status = r.status /\ q.out = r.out /\ q.sha = r.sha /\ q.thumb = a
  BY DEF ItemResult

\* readCachedResult keeps a thumbnail only if it is there.
LEMMA WithThumbnailKeeps ==
    ASSUME NEW r \in ItemResult
    PROVE  /\ WithThumbnail(r).status = r.status
           /\ WithThumbnail(r).out = r.out /\ WithThumbnail(r).sha = r.sha
           /\ \/ WithThumbnail(r).thumb = NoArtifact
              \/ WithThumbnail(r).thumb = r.thumb /\ Matches(r.thumb, "written")
  BY ResultUpdates DEF WithThumbnail

\* Every variable has its type in the initial states.
LEMMA TypeInit == Init => TypeOK
  BY ResultTypes, ItemCommitAssumption
     DEF Init, TypeOK, FreshList, Nowhere, NoResults, Steps, Contents

-------------------------------------------------------------------------------
\* What a step of one item may change.

\* The entries of the other items stay, in memory and, unless memory is written
\* out, on disk.
OthersStay(j, i) ==
    /\ \A k \in Jobs, l \in Items :
          k # j \/ l # i => pc'[k][l] = pc[k][l] /\ mem'[k][l] = mem[k][l] /\ res'[k][l] = res[k][l]
    /\ \A k \in Jobs : k # j => disk'[k] = disk[k]
    /\ disk'[j].state = disk[j].state
    /\ \/ disk' = disk
       \/ \A l \in Items : disk'[j].prog[l] = mem'[j][l]

\* A change of memory that stays there only is a fault, but for MarkFailed.
WrittenUnlessFault(j, i) ==
    /\ faults' \in {faults, faults + 1}
    /\ faults' = faults /\ pc[j][i] # "mark" =>
          \/ mem' = mem /\ disk' = disk
          \/ \A l \in Items : disk'[j].prog[l] = mem'[j][l]

\* Only the item's own artifacts come or go.
OwnFilesOnly(j, i) ==
    /\ \A a \in Artifacts : a \notin {Norm(j, i), Thumb(j, i)} => files'[a] = files[a]
    /\ files'[Norm(j, i)] # files[Norm(j, i)] => pc[j][i] = "commit" /\ files'[Norm(j, i)] = "written"
    /\ files'[Thumb(j, i)] # files[Thumb(j, i)] =>
          \/ pc[j][i] = "thumbCommit" /\ files'[Thumb(j, i)] = "written"
          \/ pc[j][i] = "thumbSave" /\ files'[Thumb(j, i)] = "absent"

\* The order of an item's steps.
After(step) ==
    CASE step = "start" -> {"lookup"}
      [] step = "lookup" -> {"report", "plan"}
      [] step = "plan" -> {"commit"}
      [] step = "commit" -> {"save", "report"}
      [] step = "save" -> {"thumb", "store", "mark"}
      [] step = "mark" -> {"report"}
      [] step = "thumb" -> {"store", "thumbCommit"}
      [] step = "thumbCommit" -> {"thumbSave", "store"}
      [] step = "thumbSave" -> {"store"}
      [] step = "store" -> {"report"}
      [] step = "report" -> {"done"}
      [] OTHER -> {}

\* progressTracker.update changes one entry in memory, and on disk all or none.
LEMMA TrackEffect ==
    ASSUME TypeOK, NEW j \in Jobs, NEW i \in Items, NEW p \in ItemProgress, Track(j, i, p)
    PROVE  /\ mem' \in [Jobs -> [Items -> ItemProgress]]
           /\ disk' \in [Jobs -> [state : {"queued", "processing", "completed"},
                                  prog : [Items -> ItemProgress], final : [Items -> ItemResult]]]
           /\ faults' \in 0 .. MaxFaults /\ faults' \in {faults, faults + 1}
           /\ mem'[j][i] = p
           /\ \A k \in Jobs, l \in Items : k # j \/ l # i => mem'[k][l] = mem[k][l]
           /\ \A k \in Jobs : k # j => disk'[k] = disk[k]
           /\ disk'[j].state = disk[j].state
           /\ disk' = disk \/ \A l \in Items : disk'[j].prog[l] = mem'[j][l]
           /\ faults' = faults => \A l \in Items : disk'[j].prog[l] = mem'[j][l]
  <1>1. mem' = [mem EXCEPT ![j][i] = p]
    BY DEF Track, TrackOk, TrackFails
  <1>2. mem' \in [Jobs -> [Items -> ItemProgress]]
    BY <1>1 DEF TypeOK
  <1>3. mem'[j][i] = p /\ \A k \in Jobs, l \in Items : k # j \/ l # i => mem'[k][l] = mem[k][l]
    BY <1>1 DEF TypeOK
  <1>4. mem'[j] = [mem[j] EXCEPT ![i] = p]
    BY <1>1 DEF TypeOK
  <1>5. CASE TrackOk(j, i, p)
    <2>1. disk' = [disk EXCEPT ![j].prog = mem'[j]]
      BY <1>4, <1>5 DEF TrackOk
    <2>2. mem'[j] \in [Items -> ItemProgress]
      BY <1>2
    <2>3. disk'[j].prog = mem'[j] /\ disk'[j].state = disk[j].state
          /\ \A k \in Jobs : k # j => disk'[k] = disk[k]
      BY <2>1 DEF TypeOK
    <2>4. disk' \in [Jobs -> [state : {"queued", "processing", "completed"},
                              prog : [Items -> ItemProgress], final : [Items -> ItemResult]]]
      BY <2>1, <2>2 DEF TypeOK
    <2>5. QED
      BY <1>2, <1>3, <1>5, <2>3, <2>4 DEF TrackOk, NoFault, TypeOK
  <1>6. CASE TrackFails(j, i, p)
    BY <1>2, <1>3, <1>6, ItemCommitAssumption DEF TrackFails, Fault, TypeOK
  <1>7. QED
    BY <1>5, <1>6 DEF Track

\* The goroutine moves on, and the others stay where they are.
LEMMA GotoEffect ==
    ASSUME TypeOK, NEW j \in Jobs, NEW i \in Items, NEW step \in Steps, Goto(j, i, step)
    PROVE  /\ pc' \in [Jobs -> [Items -> Steps]]
           /\ pc'[j][i] = step
           /\ \A k \in Jobs, l \in Items : k # j \/ l # i => pc'[k][l] = pc[k][l]
  BY DEF Goto, TypeOK

\* Its result changes, and no other.
LEMMA BecomesEffect ==
    ASSUME TypeOK, NEW j \in Jobs, NEW i \in Items, NEW r \in ItemResult, Becomes(j, i, r)
    PROVE  /\ res' \in [Jobs -> [Items -> ItemResult]]
           /\ res'[j][i] = r
           /\ \A k \in Jobs, l \in Items : k # j \/ l # i => res'[k][l] = res[k][l]
  BY DEF Becomes, TypeOK

\* An artifact appears or goes, and the others stay as they are.
LEMMA FileEffect ==
    ASSUME TypeOK, NEW a \in Artifacts, Appears(a) \/ Remove(a)
    PROVE  /\ files' \in [Artifacts -> Contents]
           /\ \A b \in Artifacts : b # a => files'[b] = files[b]
           /\ Appears(a) => files'[a] = "written"
           /\ files'[a] \in {files[a], "written", "absent"}
  BY DEF Appears, Remove, TypeOK, Contents

\* All that a step of an item leaves as it is.
Frame(j, i) ==
    /\ TypeOK'
    /\ OthersStay(j, i) /\ WrittenUnlessFault(j, i) /\ OwnFilesOnly(j, i)
    /\ pc'[j][i] \in After(pc[j][i])
    /\ up /\ up'
    /\ cache' # cache => pc[j][i] = "store"

\* A step that moves the goroutine on, perhaps sets its result and perhaps
\* updates its entry stays within that frame.
LEMMA FrameOf ==
    ASSUME TypeOK, NEW j \in Jobs, NEW i \in Items,
           NEW step \in Steps, Goto(j, i, step), step \in After(pc[j][i]),
           (\E r \in ItemResult : Becomes(j, i, r)) \/ UNCHANGED res,
           (\E p \in ItemProgress : Track(j, i, p)) \/ UNCHANGED <<disk, mem, faults>>,
           cache' \in [Keys -> ItemResult], cache' # cache => pc[j][i] = "store",
           files' \in [Artifacts -> Contents], OwnFilesOnly(j, i),
           up, UNCHANGED <<up, crashes>>
    PROVE  Frame(j, i)
  <1>1. /\ pc' \in [Jobs -> [Items -> Steps]] /\ pc'[j][i] = step
        /\ \A k \in Jobs, l \in Items : k # j \/ l # i => pc'[k][l] = pc[k][l]
    BY GotoEffect
  <1>2. /\ res' \in [Jobs -> [Items -> ItemResult]]
        /\ \A k \in Jobs, l \in Items : k # j \/ l # i => res'[k][l] = res[k][l]
    <2>1. CASE UNCHANGED res
      BY <2>1 DEF TypeOK
    <2>2. CASE \E r \in ItemResult : Becomes(j, i, r)
      BY <2>2, BecomesEffect
    <2>3. QED
      BY <2>1, <2>2
  <1>3. /\ mem' \in [Jobs -> [Items -> ItemProgress]]
        /\ disk' \in [Jobs -> [state : {"queued", "processing", "completed"},
                               prog : [Items -> ItemProgress], final : [Items -> ItemResult]]]
        /\ faults' \in 0 .. MaxFaults /\ faults' \in {faults, faults + 1}
        /\ \A k \in Jobs, l \in Items : k # j \/ l # i => mem'[k][l] = mem[k][l]
        /\ \A k \in Jobs : k # j => disk'[k] = disk[k]
        /\ disk'[j].state = disk[j].state
        /\ disk' = disk \/ \A l \in Items : disk'[j].prog[l] = mem'[j][l]
        /\ faults' = faults =>
              \/ mem' = mem /\ disk' = disk
              \/ \A l \in Items : disk'[j].prog[l] = mem'[j][l]
    <2>1. CASE UNCHANGED <<disk, mem, faults>>
      BY <2>1 DEF TypeOK
    <2>2. CASE \E p \in ItemProgress : Track(j, i, p)
      BY <2>2, TrackEffect
    <2>3. QED
      BY <2>1, <2>2
  <1>4. TypeOK'
    BY <1>1, <1>2, <1>3 DEF TypeOK
  <1>5. QED
    BY <1>1, <1>2, <1>3, <1>4 DEF Frame, OthersStay, WrittenUnlessFault

\* Every action of an item stays within the frame; what Report writes is a
\* progress state because an item only reports when it has ended (Phase).
LEMMA ItemFrame ==
    ASSUME TypeOK, NEW j \in Jobs, NEW i \in Items, Phase(j, i), ItemStep(j, i)
    PROVE  Frame(j, i)
  <1> USE DEF At
  <1>1. mem[j][i] \in ItemProgress /\ res[j][i] \in ItemResult /\ Cached(j, i) \in ItemResult
    BY ItemCommitAssumption DEF TypeOK, Cached
  <1>2. ASSUME UNCHANGED files PROVE files' \in [Artifacts -> Contents] /\ OwnFilesOnly(j, i)
    BY <1>2, ArtifactsDiffer DEF TypeOK, OwnFilesOnly
  <1>3. ASSUME UNCHANGED cache PROVE cache' \in [Keys -> ItemResult]
    BY <1>3 DEF TypeOK
  <1>4. CASE Start(j, i)
    <2>1. "lookup" \in Steps /\ "lookup" \in After(pc[j][i])
      BY <1>4 DEF Start, Steps, After
    <2>2. QED
      BY <1>1, <1>2, <1>3, <1>4, <2>1, FrameOf, ProgressTypes DEF Start
  <1>5. CASE CacheHit(j, i)
    <2>1. "report" \in Steps /\ "report" \in After(pc[j][i])
      BY <1>5 DEF CacheHit, Steps, After
    <2>2. WithThumbnail(Cached(j, i)) \in ItemResult
      BY <1>1, ResultTypes
    <2>3. QED
      BY <1>2, <1>3, <1>5, <2>1, <2>2, FrameOf DEF CacheHit
  <1>6. CASE Convert(j, i)
    <2>1. "plan" \in Steps /\ "plan" \in After(pc[j][i])
      BY <1>6 DEF Convert, Steps, After
    <2>2. QED
      BY <1>2, <1>3, <1>6, <2>1, FrameOf DEF Convert
  <1>7. CASE GiveUp(j, i)
    <2>1. "report" \in Steps /\ "report" \in After(pc[j][i])
      BY <1>7 DEF GiveUp, Steps, After
    <2>2. \E r \in ItemResult : Becomes(j, i, r)
      BY <1>7, ResultTypes DEF GiveUp, Statuses
    <2>3. QED
      BY <1>2, <1>3, <1>7, <2>1, <2>2, FrameOf DEF GiveUp
  <1>8. CASE Plan(j, i)
    <2>1. "commit" \in Steps /\ "commit" \in After(pc[j][i])
      BY <1>8 DEF Plan, Steps, After
    <2>2. QED
      BY <1>1, <1>2, <1>3, <1>8, <2>1, FrameOf, ProgressTypes DEF Plan
  <1>9. CASE Commit(j, i)
    <2>1. PICK step \in {"save", "report"} : Goto(j, i, step)
      BY <1>9 DEF Commit
    <2>2. step \in Steps /\ step \in After(pc[j][i])
      BY <1>9 DEF Commit, Steps, After
    <2>3. (\E r \in ItemResult : Becomes(j, i, r)) \/ UNCHANGED res
      BY <1>9, ResultTypes DEF Commit, Statuses
    <2>4. files' \in [Artifacts -> Contents] /\ OwnFilesOnly(j, i)
      <3>1. CASE UNCHANGED files
        BY <1>2, <3>1
      <3>2. CASE Appears(Norm(j, i))
        BY <1>9, <3>2, FileEffect, ArtifactsDiffer DEF OwnFilesOnly, Commit
      <3>3. QED
        BY <1>9, <3>1, <3>2 DEF Commit, PublishFails
    <2>5. QED
      BY <1>3, <1>9, <2>1, <2>2, <2>3, <2>4, FrameOf DEF Commit
  <1>10. CASE Save(j, i)
    <2>1. PICK step \in {"thumb", "store", "mark"} : Goto(j, i, step)
      BY <1>10 DEF Save
    <2>2. step \in Steps /\ step \in After(pc[j][i])
      BY <1>10 DEF Save, Steps, After
    <2>3. Success(Norm(j, i), "written") \in ItemResult
      BY ResultTypes, ArtifactsDiffer DEF Contents
    <2>4. \E p \in ItemProgress : Track(j, i, p)
      <3>1. "committed" \in ProgressStates \ {"none", "planned"}
        BY DEF ProgressStates
      <3>2. [mem[j][i] EXCEPT !.st = "committed", !.result = Success(Norm(j, i), "written")] \in ItemProgress
        BY <1>1, <2>3, <3>1, ProgressTypes
      <3>3. QED
        BY <1>10, <3>2 DEF Save, Track
    <2>5. QED
      BY <1>2, <1>3, <1>10, <2>1, <2>2, <2>3, <2>4, FrameOf DEF Save
  <1>11. CASE MarkFailed(j, i)
    <2>1. "report" \in Steps /\ "report" \in After(pc[j][i])
      BY <1>11 DEF MarkFailed, Steps, After
    <2>2. /\ pc' \in [Jobs -> [Items -> Steps]] /\ pc'[j][i] = "report"
          /\ \A k \in Jobs, l \in Items : k # j \/ l # i => pc'[k][l] = pc[k][l]
      BY <1>11, <2>1, GotoEffect DEF MarkFailed
    <2>3. /\ res' \in [Jobs -> [Items -> ItemResult]]
          /\ \A k \in Jobs, l \in Items : k # j \/ l # i => res'[k][l] = res[k][l]
      BY <1>1, <1>11, BecomesEffect, ResultTypes DEF MarkFailed
    <2>4. mem' = [mem EXCEPT ![j][i] = [mem[j][i] EXCEPT !.result.status = "failed"]]
      BY <1>11 DEF MarkFailed, TypeOK
    <2>5. [mem[j][i] EXCEPT !.result.status = "failed"] \in ItemProgress
      BY <1>1, ProgressTypes
    <2>6. /\ mem' \in [Jobs -> [Items -> ItemProgress]]
          /\ \A k \in Jobs, l \in Items : k # j \/ l # i => mem'[k][l] = mem[k][l]
      BY <2>4, <2>5 DEF TypeOK
    <2>7. TypeOK'
      BY <1>11, <2>2, <2>3, <2>6 DEF MarkFailed, TypeOK
    <2>8. QED
      BY <1>2, <1>11, <2>1, <2>2, <2>3, <2>6, <2>7
         DEF MarkFailed, Frame, OthersStay, WrittenUnlessFault, TypeOK
  <1>12. CASE ThumbPlan(j, i)
    <2>1. PICK step \in {"store", "thumbCommit"} : Goto(j, i, step)
      BY <1>12 DEF ThumbPlan
    <2>2. step \in Steps /\ step \in After(pc[j][i])
      BY <1>12 DEF ThumbPlan, Steps, After
    <2>3. (\E p \in ItemProgress : Track(j, i, p)) \/ UNCHANGED <<disk, mem, faults>>
      BY <1>1, <1>12, ProgressTypes DEF ThumbPlan
    <2>4. QED
      BY <1>2, <1>3, <1>12, <2>1, <2>2, <2>3, FrameOf DEF ThumbPlan
  <1>13. CASE ThumbCommit(j, i)
    <2>1. PICK step \in {"thumbSave", "store"} : Goto(j, i, step)
      BY <1>13 DEF ThumbCommit
    <2>2. step \in Steps /\ step \in After(pc[j][i])
      BY <1>13 DEF ThumbCommit, Steps, After
    <2>3. files' \in [Artifacts -> Contents] /\ OwnFilesOnly(j, i)
      <3>1. CASE UNCHANGED files
        BY <1>2, <3>1
      <3>2. CASE Appears(Thumb(j, i))
        BY <1>13, <3>2, FileEffect, ArtifactsDiffer DEF OwnFilesOnly, ThumbCommit
      <3>3. QED
        BY <1>13, <3>1, <3>2 DEF ThumbCommit, PublishFails
    <2>4. QED
      BY <1>3, <1>13, <2>1, <2>2, <2>3, FrameOf DEF ThumbCommit
  <1>14. CASE ThumbSave(j, i)
    <2> DEFINE r == [res[j][i] EXCEPT !.thumb = Thumb(j, i)]
    <2>1. "store" \in Steps /\ "store" \in After(pc[j][i])
      BY <1>14 DEF ThumbSave, Steps, After
    <2>2. r \in ItemResult /\ [mem[j][i] EXCEPT !.result = r] \in ItemProgress
      BY <1>1, ResultTypes, ProgressTypes, ArtifactsDiffer
    <2>3. files' \in [Artifacts -> Contents] /\ OwnFilesOnly(j, i)
      <3>1. CASE UNCHANGED files
        BY <1>2, <3>1
      <3>2. CASE Remove(Thumb(j, i)) /\ ~UNCHANGED files
        <4>1. files' = [files EXCEPT ![Thumb(j, i)] = "absent"]
          BY <3>2 DEF Remove
        <4>2. QED
          BY <1>14, <4>1, ArtifactsDiffer DEF OwnFilesOnly, ThumbSave, TypeOK, Contents
      <3>3. QED
        BY <1>14, <3>1, <3>2 DEF ThumbSave
    <2> HIDE DEF r
    <2>4. \/ Track(j, i, [mem[j][i] EXCEPT !.result = r]) /\ Becomes(j, i, r)
          \/ UNCHANGED <<disk, mem, res, faults>>
      BY <1>14 DEF ThumbSave, r
    <2>5. QED
      BY <1>3, <1>14, <2>1, <2>2, <2>3, <2>4, FrameOf DEF ThumbSave
  <1>15. CASE WriteCache(j, i)
    <2>1. "report" \in Steps /\ "report" \in After(pc[j][i])
      BY <1>15 DEF WriteCache, Steps, After
    <2>2. cache' \in [Keys -> ItemResult]
      BY <1>1, <1>15, ItemCommitAssumption DEF WriteCache, TypeOK
    <2>3. QED
      BY <1>2, <1>15, <2>1, <2>2, FrameOf DEF WriteCache
  <1>16. CASE Report(j, i)
    <2>1. "done" \in Steps /\ "done" \in After(pc[j][i])
      BY <1>16 DEF Report, Steps, After
    <2>2. (\E p \in ItemProgress : Track(j, i, p)) \/ UNCHANGED <<disk, mem, faults>>
      <3>1. res[j][i].status \in {"success", "rejected", "failed"}
        BY <1>16 DEF Report, Phase
      <3>2. StateOf(res[j][i]) \in ProgressStates \ {"none", "planned"}
        BY <3>1 DEF StateOf, ProgressStates
      <3>3. [mem[j][i] EXCEPT !.st = StateOf(res[j][i]), !.result = res[j][i]] \in ItemProgress
        BY <1>1, <3>2, ProgressTypes
      <3>4. QED
        BY <1>16, <3>3 DEF Report
    <2>3. QED
      BY <1>2, <1>3, <1>16, <2>1, <2>2, FrameOf DEF Report
  <1>17. QED
    BY <1>4, <1>5, <1>6, <1>7, <1>8, <1>9, <1>10, <1>11, <1>12, <1>13, <1>14, <1>15, <1>16 DEF ItemStep

-------------------------------------------------------------------------------
\* What a step makes of the item itself.

\* A reference to a thumbnail that is past stays past: no step leads back.
LEMMA PastStays ==
    ASSUME TypeOK, NEW j \in Jobs, NEW i \in Items, Frame(j, i), NEW a, Past(a)
    PROVE  Past(a)'
  <1> SUFFICES ASSUME NEW k \in Jobs, NEW l \in Items, a = Thumb(k, l)
               PROVE  disk'[k].state # "queued" /\ pc'[k][l] \in {"none", "store", "report", "done"}
    BY DEF Past
  <1>1. disk[k].state # "queued" /\ pc[k][l] \in {"none", "store", "report", "done"}
    BY DEF Past
  <1>2. disk'[k].state = disk[k].state
    BY DEF Frame, OthersStay
  <1>3. CASE k = j /\ l = i
    BY <1>1, <1>2, <1>3 DEF Frame, After
  <1>4. CASE k # j \/ l # i
    BY <1>1, <1>2, <1>4 DEF Frame, OthersStay
  <1>5. QED
    BY <1>3, <1>4

\* An artifact that is there stays, but for the thumbnail that ThumbSave drops.
LEMMA WrittenStays ==
    ASSUME TypeOK, NEW j \in Jobs, NEW i \in Items, Frame(j, i),
           NEW a \in Artifacts, files[a] = "written", a = Thumb(j, i) => pc[j][i] # "thumbSave"
    PROVE  files'[a] = "written"
  BY DEF Frame, OwnFilesOnly

\* Nothing refers to no thumbnail.
LEMMA NothingPast == Past(NoArtifact)
  BY ArtifactsDiffer DEF Past

\* What was reported as a success stays true of the files.
LEMMA ReportedStays ==
    ASSUME TypeOK, NEW j \in Jobs, NEW i \in Items, Frame(j, i), NEW r \in ItemResult, Reported(r)
    PROVE  Reported(r)'
  <1> SUFFICES ASSUME r.status = "success"
               PROVE  Vouched(r)' /\ Past(r.thumb)'
    BY DEF Reported
  <1>1. /\ r.sha = "written" /\ Vouched(r) /\ Past(r.thumb)
        /\ \E k \in Jobs : \E l \in Items : r.out = Norm(k, l)
    BY DEF Reported
  <1>2. Past(r.thumb)'
    BY <1>1, PastStays
  <1>3. files'[r.out] = "written"
    BY <1>1, WrittenStays, ArtifactsDiffer DEF Vouched, Matches
  <1>4. ASSUME r.thumb # NoArtifact PROVE files'[r.thumb] = "written"
    <2>1. r.thumb \in Artifacts /\ files[r.thumb] = "written"
      BY <1>1, <1>4 DEF Vouched, Matches, ItemResult
    <2>2. r.thumb = Thumb(j, i) => pc[j][i] # "thumbSave"
      BY <1>1 DEF Past
    <2>3. QED
      BY <2>1, <2>2, WrittenStays
  <1>5. QED
    BY <1>1, <1>2, <1>3, <1>4 DEF Vouched, Matches

\* The item's result, its entry in memory and its step agree after each action.
LEMMA OwnKept ==
    ASSUME IInv, NEW j \in Jobs, NEW i \in Items, ItemStep(j, i)
    PROVE  Phase(j, i)' /\ Sound(j, i, mem'[j][i]) /\ Reported(res[j][i])'
  <1>1. TypeOK /\ Phase(j, i) /\ Sound(j, i, mem[j][i]) /\ Reported(res[j][i]) /\ Frame(j, i)
    BY ItemFrame DEF IInv, Phases, RecordsSound, ResultsSound
  <1>2. mem[j][i] \in ItemProgress /\ res[j][i] \in ItemResult /\ Cached(j, i) \in ItemResult
    BY <1>1, ItemCommitAssumption DEF TypeOK, Cached
  <1>3. ASSUME res'[j][i] = res[j][i] PROVE Reported(res[j][i])'
    <2>1. PICK r \in ItemResult : r = res[j][i]
      BY <1>2
    <2>2. Reported(r)'
      BY <1>1, <2>1, ReportedStays
    <2>3. QED
      BY <1>3, <2>1, <2>2
  <1>4. CASE Start(j, i)
    <2>1. mem[j][i] = Fresh /\ res[j][i] = NoResult
      BY <1>1, <1>4 DEF Start, At, Phase
    <2>2. pc'[j][i] = "lookup"
      BY <1>1, <1>4, GotoEffect DEF Start, Steps
    <2>3. LET q == mem'[j][i] IN q.st = "processing" /\ ~q.planned /\ q.result = NoResult
      <3>1. [mem[j][i] EXCEPT !.st = "processing"] \in ItemProgress
        BY <1>2, ProgressTypes
      <3>2. mem'[j][i] = [mem[j][i] EXCEPT !.st = "processing"]
        BY <1>1, <1>4, <3>1, TrackEffect DEF Start
      <3>3. QED
        BY <1>2, <2>1, <3>2, EntryUpdates DEF Fresh
    <2>4. res'[j][i] = NoResult
      BY <1>4, <2>1 DEF Start
    <2>5. Phase(j, i)'
      BY <2>2, <2>3, <2>4 DEF Phase
    <2>6. Sound(j, i, mem'[j][i])
      BY <2>3 DEF Sound
    <2>7. QED
      BY <1>3, <2>1, <2>4, <2>5, <2>6
  <1>5. CASE CacheHit(j, i)
    <2> DEFINE c == Cached(j, i)
    <2>1. /\ c.status = "success" /\ c.sha = "written" /\ files[c.out] = "written"
          /\ Past(c.thumb) /\ \E k \in Jobs : \E l \in Items : c.out = Norm(k, l)
      <3>1. Key[<<j, i>>] \in Keys
        BY ItemCommitAssumption
      <3>2. Usable(c)
        BY <1>5 DEF CacheHit
      <3>3. c.sha = "written" /\ Past(c.thumb) /\ \E k \in Jobs : \E l \in Items : c.out = Norm(k, l)
        BY <3>1, <3>2 DEF IInv, CacheSound, Cached, Usable
      <3>4. QED
        BY <3>2, <3>3 DEF Usable, Matches
    <2> HIDE DEF c
    <2>2. PICK w \in ItemResult : w = WithThumbnail(c)
      BY <1>2, ResultTypes DEF c
    <2>3. Reported(w)
      BY <1>2, <2>1, <2>2, WithThumbnailKeeps, NothingPast DEF Reported, Vouched, Matches, c
    <2>4. Reported(w)'
      BY <1>1, <2>3, ReportedStays
    <2>5. res'[j][i] = w
      BY <1>1, <1>5, <2>2, BecomesEffect DEF CacheHit, c
    <2>6. pc[j][i] = "lookup" /\ pc'[j][i] = "report" /\ mem'[j][i] = mem[j][i]
      BY <1>1, <1>5, GotoEffect DEF CacheHit, At, Steps
    <2>7. w.status = "success"
      BY <1>2, <2>1, <2>2, WithThumbnailKeeps DEF c
    <2>8. Phase(j, i)'
      BY <1>1, <2>5, <2>6, <2>7 DEF Phase
    <2>9. QED
      BY <1>1, <2>4, <2>5, <2>6, <2>8
  <1>6. CASE Convert(j, i)
    <2>1. pc[j][i] = "lookup" /\ pc'[j][i] = "plan" /\ mem'[j][i] = mem[j][i] /\ res'[j][i] = res[j][i]
      BY <1>1, <1>6, GotoEffect DEF Convert, At, Steps
    <2>2. Phase(j, i)'
      BY <1>1, <2>1 DEF Phase
    <2>3. QED
      BY <1>1, <1>3, <2>1, <2>2
  <1>7. CASE GiveUp(j, i)
    <2>1. PICK s \in {"rejected", "failed"} : Becomes(j, i, Without(s))
      BY <1>7 DEF GiveUp
    <2>2. Without(s) \in ItemResult /\ Without(s).status = s
      BY ResultTypes DEF Statuses, Without
    <2>3. res'[j][i].status \in {"rejected", "failed"}
      BY <1>1, <2>1, <2>2, BecomesEffect
    <2>4. pc'[j][i] = "report" /\ mem'[j][i] = mem[j][i]
      BY <1>1, <1>7, GotoEffect DEF GiveUp, Steps
    <2>5. Phase(j, i)'
      BY <1>1, <1>7, <2>3, <2>4 DEF Phase, GiveUp, At
    <2>6. QED
      BY <1>1, <2>3, <2>4, <2>5 DEF Reported
  <1>8. CASE Plan(j, i)
    <2>1. mem[j][i].st = "processing" /\ res[j][i] = NoResult
      BY <1>1, <1>8 DEF Plan, At, Phase
    <2>2. pc'[j][i] = "commit"
      BY <1>1, <1>8, GotoEffect DEF Plan, Steps
    <2>3. LET q == mem'[j][i] IN q.st = "processing" /\ q.planned /\ q.result = mem[j][i].result
      <3>1. [mem[j][i] EXCEPT !.planned = TRUE] \in ItemProgress
        BY <1>2, ProgressTypes
      <3>2. mem'[j][i] = [mem[j][i] EXCEPT !.planned = TRUE]
        BY <1>1, <1>8, <3>1, TrackEffect DEF Plan
      <3>3. QED
        BY <1>2, <2>1, <3>2, EntryUpdates
    <2>4. res'[j][i] = NoResult
      BY <1>8, <2>1 DEF Plan
    <2>5. Phase(j, i)'
      BY <2>2, <2>3, <2>4 DEF Phase
    <2>6. Sound(j, i, mem'[j][i])
      BY <1>1, <2>1, <2>3 DEF Sound
    <2>7. QED
      BY <1>3, <2>1, <2>4, <2>5, <2>6
  <1>9. CASE Commit(j, i)
    <2>1. pc[j][i] = "commit" /\ mem'[j][i] = mem[j][i]
      BY <1>9 DEF Commit, At
    <2>2. CASE Appears(Norm(j, i)) /\ Goto(j, i, "save") /\ UNCHANGED res
      <3>1. pc'[j][i] = "save" /\ files'[Norm(j, i)] = "written" /\ res'[j][i] = res[j][i]
        BY <1>1, <2>2, GotoEffect, FileEffect, ArtifactsDiffer DEF Steps
      <3>2. Phase(j, i)'
        BY <1>1, <2>1, <3>1 DEF Phase
      <3>3. QED
        BY <1>1, <1>3, <2>1, <3>1, <3>2
    <2>3. CASE Becomes(j, i, Without("failed")) /\ Goto(j, i, "report")
      <3>1. Without("failed") \in ItemResult /\ Without("failed").status = "failed"
        BY ResultTypes DEF Statuses, Without
      <3>2. pc'[j][i] = "report" /\ res'[j][i].status = "failed"
        BY <1>1, <2>3, <3>1, GotoEffect, BecomesEffect DEF Steps
      <3>3. Phase(j, i)'
        BY <1>1, <2>1, <3>2 DEF Phase
      <3>4. QED
        BY <1>1, <2>1, <3>2, <3>3 DEF Reported
    <2>4. QED
      BY <1>9, <2>2, <2>3 DEF Commit
  <1>10. CASE Save(j, i)
    <2> DEFINE a == Success(Norm(j, i), "written")
    <2>1. /\ a \in ItemResult /\ a.status = "success" /\ a.out = Norm(j, i) /\ a.sha = "written"
          /\ a.thumb = NoArtifact
      BY ResultTypes, ArtifactsDiffer DEF Success, Contents
    <2> HIDE DEF a
    <2>2. pc[j][i] = "save" /\ mem[j][i].planned /\ files[Norm(j, i)] = "written" /\ UNCHANGED files
      BY <1>1, <1>10 DEF Save, At, Phase
    <2>3. PICK p \in ItemProgress : p = [mem[j][i] EXCEPT !.st = "committed", !.result = a]
      BY <1>2, <2>1, ProgressTypes DEF ProgressStates
    <2>4. /\ Becomes(j, i, a)
          /\ \/ TrackOk(j, i, p) /\ \E step \in {"thumb", "store"} : Goto(j, i, step)
             \/ TrackFails(j, i, p) /\ Goto(j, i, "mark")
      BY <1>10, <2>3 DEF Save, a
    <2>5. res'[j][i] = a
      BY <1>1, <2>1, <2>4, BecomesEffect
    <2>6. mem'[j][i] = p
      BY <1>1, <2>4, TrackEffect DEF Track
    <2>7. p.st = "committed" /\ p.planned /\ p.result = a
      BY <1>2, <2>2, <2>3, EntryUpdates
    <2>8. /\ pc'[j][i] \in {"thumb", "store", "mark"}
          /\ pc'[j][i] = "mark" => faults' > 0
      <3>1. CASE \E step \in {"thumb", "store"} : Goto(j, i, step)
        BY <1>1, <3>1, GotoEffect DEF Steps
      <3>2. CASE TrackFails(j, i, p) /\ Goto(j, i, "mark")
        <4>1. pc'[j][i] = "mark"
          BY <1>1, <3>2, GotoEffect DEF Steps
        <4>2. faults' > 0
          BY <1>1, <3>2, ItemCommitAssumption DEF TrackFails, Fault, TypeOK
        <4>3. QED
          BY <4>1, <4>2
      <3>3. QED
        BY <2>4, <3>1, <3>2
    <2>9. Phase(j, i)'
      BY <2>1, <2>5, <2>6, <2>7, <2>8 DEF Phase
    <2>10. Sound(j, i, mem'[j][i])
      BY <2>1, <2>6, <2>7, ArtifactsDiffer DEF Sound
    <2>11. Reported(res[j][i])'
      <3>1. Reported(a)
        BY <2>1, <2>2, NothingPast DEF Reported, Vouched, Matches
      <3>2. PICK r \in ItemResult : r = a
        BY <2>1
      <3>3. Reported(r)'
        BY <1>1, <3>1, <3>2, ReportedStays
      <3>4. QED
        BY <2>5, <3>2, <3>3
    <2>12. QED
      BY <2>9, <2>10, <2>11
  <1>11. CASE MarkFailed(j, i)
    <2>1. /\ mem[j][i].st = "committed" /\ mem[j][i].planned /\ mem[j][i].result = res[j][i]
          /\ res[j][i].status = "success" /\ res[j][i].out = Norm(j, i) /\ res[j][i].sha = "written"
      BY <1>1, <1>11 DEF MarkFailed, At, Phase, Reported
    <2>2. PICK r \in ItemResult : r = [res[j][i] EXCEPT !.status = "failed"]
      BY <1>2, ResultTypes
    <2>3. r.status = "failed" /\ r.out = Norm(j, i) /\ r.sha = "written"
      BY <1>2, <2>1, <2>2, ResultUpdates
    <2>4. res'[j][i] = r /\ pc'[j][i] = "report"
      BY <1>1, <1>11, <2>2, BecomesEffect, GotoEffect DEF MarkFailed, Steps
    <2>5. /\ mem'[j][i].st = "committed" /\ mem'[j][i].planned
          /\ mem'[j][i].result.status = "failed" /\ mem'[j][i].result.out = Norm(j, i)
          /\ mem'[j][i].result.sha = "written"
      <3>1. mem'[j][i] = [mem[j][i] EXCEPT !.result.status = "failed"]
        BY <1>1, <1>11 DEF MarkFailed, TypeOK
      <3>2. mem'[j][i] = [mem[j][i] EXCEPT !.result = r]
        BY <1>2, <2>1, <2>2, <3>1
      <3>3. QED
        BY <1>2, <2>1, <2>3, <3>2, EntryUpdates
    <2>6. Phase(j, i)'
      <3>1. faults' > 0
        BY <1>1, <1>11 DEF MarkFailed, At, Phase
      <3>2. QED
        BY <2>3, <2>4, <3>1 DEF Phase
    <2>7. Sound(j, i, mem'[j][i])
      BY <2>5, ArtifactsDiffer DEF Sound
    <2>8. QED
      BY <2>3, <2>4, <2>6, <2>7 DEF Reported
  <1>12. CASE ThumbPlan(j, i)
    <2>1. pc[j][i] = "thumb" /\ res'[j][i] = res[j][i]
      BY <1>12 DEF ThumbPlan, At
    <2>2. CASE Goto(j, i, "store") /\ UNCHANGED <<disk, mem, faults>>
      <3>1. pc'[j][i] = "store" /\ mem'[j][i] = mem[j][i]
        BY <1>1, <2>2, GotoEffect DEF Steps
      <3>2. Phase(j, i)'
        BY <1>1, <2>1, <3>1 DEF Phase
      <3>3. QED
        BY <1>1, <1>3, <2>1, <3>1, <3>2
    <2>3. CASE Track(j, i, [mem[j][i] EXCEPT !.tplanned = TRUE]) /\ Goto(j, i, "thumbCommit")
      <3>1. PICK p \in ItemProgress : p = [mem[j][i] EXCEPT !.tplanned = TRUE]
        BY <1>2, ProgressTypes
      <3>2. /\ p.tplanned /\ p.st = mem[j][i].st /\ p.planned = mem[j][i].planned
            /\ p.result = mem[j][i].result
        BY <1>2, <3>1, EntryUpdates
      <3>3. pc'[j][i] = "thumbCommit" /\ mem'[j][i] = p
        BY <1>1, <2>3, <3>1, GotoEffect, TrackEffect DEF Steps
      <3>4. Phase(j, i)'
        BY <1>1, <2>1, <3>2, <3>3 DEF Phase
      <3>5. Sound(j, i, mem'[j][i])
        BY <1>1, <3>2, <3>3 DEF Sound
      <3>6. QED
        BY <1>3, <2>1, <3>4, <3>5
    <2>4. QED
      BY <1>12, <2>2, <2>3 DEF ThumbPlan
  <1>13. CASE ThumbCommit(j, i)
    <2>1. pc[j][i] = "thumbCommit" /\ mem'[j][i] = mem[j][i] /\ res'[j][i] = res[j][i]
      BY <1>13 DEF ThumbCommit, At
    <2>2. \/ pc'[j][i] = "thumbSave" /\ files'[Thumb(j, i)] = "written"
          \/ pc'[j][i] = "store"
      BY <1>1, <1>13, GotoEffect, FileEffect, ArtifactsDiffer DEF ThumbCommit, Steps
    <2>3. Phase(j, i)'
      BY <1>1, <2>1, <2>2 DEF Phase
    <2>4. QED
      BY <1>1, <1>3, <2>1, <2>3
  <1>14. CASE ThumbSave(j, i)
    <2>1. /\ pc[j][i] = "thumbSave" /\ pc'[j][i] = "store"
          /\ mem[j][i].result = res[j][i] /\ mem[j][i].st = "committed" /\ mem[j][i].planned
          /\ res[j][i].status = "success" /\ res[j][i].out = Norm(j, i)
          /\ files[Thumb(j, i)] = "written"
      BY <1>1, <1>14, GotoEffect DEF ThumbSave, At, Phase, Steps
    <2>2. PICK r \in ItemResult : r = [res[j][i] EXCEPT !.thumb = Thumb(j, i)]
      BY <1>2, ResultTypes, ArtifactsDiffer
    <2>3. r.status = "success" /\ r.out = Norm(j, i) /\ r.sha = res[j][i].sha /\ r.thumb = Thumb(j, i)
      BY <1>2, <2>1, <2>2, ResultUpdates
    <2>4. CASE /\ Track(j, i, [mem[j][i] EXCEPT !.result = r]) /\ Becomes(j, i, r)
               /\ UNCHANGED files
      <3>1. PICK p \in ItemProgress : p = [mem[j][i] EXCEPT !.result = r]
        BY <1>2, ProgressTypes
      <3>2. p.st = "committed" /\ p.planned /\ p.result = r
        BY <1>2, <2>1, <3>1, EntryUpdates
      <3>3. mem'[j][i] = p /\ res'[j][i] = r
        BY <1>1, <2>4, <3>1, TrackEffect, BecomesEffect
      <3>4. Phase(j, i)'
        BY <2>1, <2>3, <3>2, <3>3 DEF Phase
      <3>5. r.sha = "written" /\ files[Norm(j, i)] = "written"
        BY <1>1, <2>1, <2>3 DEF Reported, Vouched, Matches
      <3>6. Sound(j, i, mem'[j][i])
        BY <2>3, <3>2, <3>3, <3>5, ArtifactsDiffer DEF Sound
      <3>7. Past(Thumb(j, i))'
        <4>1. disk'[j].state = "processing"
          BY <1>1, <2>1 DEF IInv, Workers, Frame, OthersStay
        <4>2. QED
          BY <2>1, <4>1, ArtifactsDiffer DEF Past
      <3>8. files'[r.out] = "written" /\ files'[r.thumb] = "written"
        BY <2>1, <2>3, <2>4, <3>5
      <3>9. Reported(r)'
        BY <2>3, <3>5, <3>7, <3>8 DEF Reported, Vouched, Matches
      <3>10. QED
        BY <3>3, <3>4, <3>6, <3>9
    <2>5. CASE Remove(Thumb(j, i)) /\ UNCHANGED <<disk, mem, res, faults>>
      <3>1. mem'[j][i] = mem[j][i] /\ res'[j][i] = res[j][i]
        BY <2>5
      <3>2. Phase(j, i)'
        BY <2>1, <3>1 DEF Phase
      <3>3. QED
        BY <1>1, <1>3, <3>1, <3>2
    <2>6. QED
      BY <1>14, <2>2, <2>4, <2>5 DEF ThumbSave
  <1>15. CASE WriteCache(j, i)
    <2>1. /\ pc[j][i] = "store" /\ pc'[j][i] = "report" /\ mem'[j][i] = mem[j][i]
          /\ res'[j][i] = res[j][i]
      BY <1>1, <1>15, GotoEffect DEF WriteCache, At, Steps
    <2>2. Phase(j, i)'
      BY <1>1, <2>1 DEF Phase
    <2>3. QED
      BY <1>1, <1>3, <2>1, <2>2
  <1>16. CASE Report(j, i)
    <2>1. /\ pc[j][i] = "report" /\ pc'[j][i] = "done" /\ res'[j][i] = res[j][i]
          /\ res[j][i].status \in {"success", "rejected", "failed"}
      BY <1>1, <1>16, GotoEffect DEF Report, At, Steps, Phase
    <2>2. CASE OnRecord(mem[j][i], res[j][i]) /\ UNCHANGED <<disk, mem, faults>>
      <3>1. Phase(j, i)'
        BY <1>1, <2>1, <2>2 DEF Phase, OnRecord, StateOf
      <3>2. QED
        BY <1>1, <1>3, <2>1, <2>2, <3>1
    <2>3. CASE Track(j, i, [mem[j][i] EXCEPT !.st = StateOf(res[j][i]), !.result = res[j][i]])
      <3>1. StateOf(res[j][i]) \in ProgressStates \ {"none", "planned"}
        BY <2>1 DEF StateOf, ProgressStates
      <3>2. PICK p \in ItemProgress : p = [mem[j][i] EXCEPT !.st = StateOf(res[j][i]), !.result = res[j][i]]
        BY <1>2, <3>1, ProgressTypes
      <3>3. /\ p.st = StateOf(res[j][i]) /\ p.result = res[j][i] /\ p.planned = mem[j][i].planned
        BY <1>2, <3>2, EntryUpdates
      <3>4. mem'[j][i] = p
        BY <1>1, <2>3, <3>2, TrackEffect
      <3>5. res[j][i].status = "success" /\ mem[j][i].planned => res[j][i].out = Norm(j, i)
        BY <1>1, <2>1 DEF Phase
      <3>6. Phase(j, i)'
        BY <2>1, <3>3, <3>4, <3>5 DEF Phase, StateOf
      <3>7. Sound(j, i, mem'[j][i])
        BY <1>1, <2>1, <3>3, <3>4, <3>5, ArtifactsDiffer DEF Sound, StateOf, Reported
      <3>8. QED
        BY <1>3, <2>1, <3>6, <3>7
    <2>4. QED
      BY <1>16, <2>2, <2>3 DEF Report
  <1>17. QED
    BY <1>4, <1>5, <1>6, <1>7, <1>8, <1>9, <1>10, <1>11, <1>12, <1>13, <1>14, <1>15, <1>16 DEF ItemStep

\* Plans are not forgotten, a result that is being reported does not change, and
\* an item goes on from Save only when the commit is on disk.
LEMMA OwnGrows ==
    ASSUME IInv, NEW j \in Jobs, NEW i \in Items, ItemStep(j, i)
    PROVE  /\ mem[j][i].planned => mem'[j][i].planned
           /\ mem[j][i].tplanned => mem'[j][i].tplanned
           /\ pc[j][i] = "report" => res'[j][i] = res[j][i]
           /\ pc[j][i] = "save" /\ pc'[j][i] # "mark" => disk'[j].prog[i] = mem'[j][i]
           /\ cache' # cache => /\ UNCHANGED <<res, mem, disk>>
                                /\ cache' = [cache EXCEPT ![Key[<<j, i>>]] = res[j][i]]
  <1>1. TypeOK
    BY DEF IInv
  <1>2. mem[j][i] \in ItemProgress /\ res[j][i] \in ItemResult
    BY <1>1 DEF TypeOK
  <1>3. ASSUME NEW p \in ItemProgress, Track(j, i, p), p.planned = mem[j][i].planned \/ p.planned,
               p.tplanned = mem[j][i].tplanned \/ p.tplanned
        PROVE  /\ mem[j][i].planned => mem'[j][i].planned
               /\ mem[j][i].tplanned => mem'[j][i].tplanned
    BY <1>1, <1>3, TrackEffect
  <1>4. CASE CacheHit(j, i) \/ Convert(j, i) \/ GiveUp(j, i) \/ Commit(j, i) \/ ThumbCommit(j, i) \/ WriteCache(j, i)
    BY <1>4 DEF CacheHit, Convert, GiveUp, Commit, ThumbCommit, WriteCache, At
  <1>5. CASE Start(j, i)
    <2>1. PICK p \in ItemProgress : p = [mem[j][i] EXCEPT !.st = "processing"]
      BY <1>2, ProgressTypes
    <2>2. p.planned = mem[j][i].planned /\ p.tplanned = mem[j][i].tplanned
      BY <1>2, <2>1, EntryUpdates
    <2>3. QED
      BY <1>3, <1>5, <2>1, <2>2 DEF Start, At
  <1>6. CASE Plan(j, i)
    <2>1. PICK p \in ItemProgress : p = [mem[j][i] EXCEPT !.planned = TRUE]
      BY <1>2, ProgressTypes
    <2>2. p.planned /\ p.tplanned = mem[j][i].tplanned
      BY <1>2, <2>1, EntryUpdates
    <2>3. QED
      BY <1>3, <1>6, <2>1, <2>2 DEF Plan, At
  <1>7. CASE Save(j, i)
    <2>1. PICK a \in ItemResult : a = Success(Norm(j, i), "written")
      BY ResultTypes, ArtifactsDiffer DEF Contents
    <2>2. PICK p \in ItemProgress : p = [mem[j][i] EXCEPT !.st = "committed", !.result = a]
      BY <1>2, <2>1, ProgressTypes DEF ProgressStates
    <2>3. p.planned = mem[j][i].planned /\ p.tplanned = mem[j][i].tplanned
      BY <1>2, <2>2, EntryUpdates
    <2>4. /\ pc[j][i] = "save" /\ UNCHANGED cache
          /\ \/ TrackOk(j, i, p)
             \/ TrackFails(j, i, p) /\ Goto(j, i, "mark")
      BY <1>7, <2>1, <2>2 DEF Save, At
    <2>5. pc'[j][i] # "mark" => disk'[j].prog[i] = mem'[j][i]
      BY <1>1, <2>4, GotoEffect DEF TrackOk, Steps, TypeOK
    <2>6. QED
      BY <1>3, <2>3, <2>4, <2>5 DEF Track
  <1>8. CASE MarkFailed(j, i)
    <2>1. mem'[j][i] = [mem[j][i] EXCEPT !.result.status = "failed"]
      BY <1>1, <1>8 DEF MarkFailed, TypeOK
    <2>2. mem'[j][i] = [mem[j][i] EXCEPT !.result = [mem[j][i].result EXCEPT !.status = "failed"]]
      BY <2>1
    <2>3. mem'[j][i].planned = mem[j][i].planned /\ mem'[j][i].tplanned = mem[j][i].tplanned
      BY <1>2, <2>2, EntryUpdates
    <2>4. QED
      BY <1>8, <2>3 DEF MarkFailed, At
  <1>9. CASE ThumbPlan(j, i)
    <2>1. PICK p \in ItemProgress : p = [mem[j][i] EXCEPT !.tplanned = TRUE]
      BY <1>2, ProgressTypes
    <2>2. p.planned = mem[j][i].planned /\ p.tplanned
      BY <1>2, <2>1, EntryUpdates
    <2>3. UNCHANGED mem \/ Track(j, i, p)
      BY <1>9, <2>1 DEF ThumbPlan
    <2>4. QED
      BY <1>3, <1>9, <2>2, <2>3 DEF ThumbPlan, At
  <1>10. CASE ThumbSave(j, i)
    <2>1. PICK p \in ItemProgress : p = [mem[j][i] EXCEPT !.result = [res[j][i] EXCEPT !.thumb = Thumb(j, i)]]
      BY <1>2, ResultTypes, ProgressTypes, ArtifactsDiffer
    <2>2. p.planned = mem[j][i].planned /\ p.tplanned = mem[j][i].tplanned
      BY <1>2, <2>1, EntryUpdates
    <2>3. UNCHANGED mem \/ Track(j, i, p)
      BY <1>10, <2>1 DEF ThumbSave
    <2>4. QED
      BY <1>3, <1>10, <2>2, <2>3 DEF ThumbSave, At
  <1>11. CASE Report(j, i)
    <2>1. PICK p : p = [mem[j][i] EXCEPT !.st = StateOf(res[j][i]), !.result = res[j][i]]
      OBVIOUS
    <2>2. p.planned = mem[j][i].planned /\ p.tplanned = mem[j][i].tplanned
      BY <1>2, <2>1, EntryUpdates
    <2>3. p \in ItemProgress
      <3>1. res[j][i].status \in {"success", "rejected", "failed"}
        BY <1>11 DEF Report, At, IInv, Phases, Phase
      <3>2. StateOf(res[j][i]) \in ProgressStates \ {"none", "planned"}
        BY <3>1 DEF StateOf, ProgressStates
      <3>3. QED
        BY <1>2, <2>1, <3>2, ProgressTypes
    <2>4. UNCHANGED mem \/ Track(j, i, p)
      BY <1>11, <2>1 DEF Report
    <2>5. QED
      BY <1>3, <1>11, <2>2, <2>3, <2>4 DEF Report, At
  <1>12. QED
    BY <1>4, <1>5, <1>6, <1>7, <1>8, <1>9, <1>10, <1>11 DEF ItemStep

\* A step of one item keeps the invariant of all of them.
LEMMA ItemStepKeeps ==
    ASSUME IInv, NEW j \in Jobs, NEW i \in Items, ItemStep(j, i)
    PROVE  IInv'
  <1>1. Frame(j, i) /\ TypeOK /\ Phase(j, i)
    BY ItemFrame DEF IInv, Phases
  <1>2. Phase(j, i)' /\ Sound(j, i, mem'[j][i]) /\ Reported(res[j][i])'
    BY OwnKept
  <1>3. TypeOK'
    BY <1>1 DEF Frame
  <1>4. /\ \A k \in Jobs, l \in Items :
              k # j \/ l # i => pc'[k][l] = pc[k][l] /\ mem'[k][l] = mem[k][l] /\ res'[k][l] = res[k][l]
        /\ \A k \in Jobs : disk'[k].state = disk[k].state
        /\ \A k \in Jobs, l \in Items :
              \/ disk'[k].prog[l] = disk[k].prog[l]
              \/ k = j /\ disk'[k].prog[l] = mem'[k][l]
    BY <1>1 DEF Frame, OthersStay
  <1>5. up /\ up' /\ disk[j].state = "processing" /\ i \in ItemsOf[j]
        /\ pc[j][i] # "none" /\ pc'[j][i] # "none"
    BY <1>1 DEF Frame, After, IInv, Workers
  <1>6. faults' = 0 => faults = 0 /\ pc[j][i] # "mark"
    BY <1>1, ItemCommitAssumption DEF Frame, WrittenUnlessFault, TypeOK, Phase
  <1>7. \A k \in Jobs, l \in Items :
           k # j \/ l # i => files'[Norm(k, l)] = files[Norm(k, l)] /\ files'[Thumb(k, l)] = files[Thumb(k, l)]
    BY <1>1, ArtifactsDiffer DEF Frame, OwnFilesOnly
  <1>8. Workers'
    <2> SUFFICES ASSUME NEW k \in Jobs, NEW l \in Items
                 PROVE  /\ disk'[k].state = "queued" => disk'[k].prog[l] = Fresh
                        /\ l \notin ItemsOf[k] => disk'[k].prog[l] = Fresh
                        /\ pc'[k][l] # "none" =>
                              /\ up' /\ disk'[k].state = "processing" /\ l \in ItemsOf[k]
                              /\ \A n \in ItemsOf[k] : pc'[k][n] # "none"
                        /\ pc'[k][l] = "none" => mem'[k][l] = Fresh /\ res'[k][l] = NoResult
      BY DEF Workers
    <2>1. /\ disk[k].state = "queued" => disk[k].prog[l] = Fresh
          /\ l \notin ItemsOf[k] => disk[k].prog[l] = Fresh
          /\ pc[k][l] # "none" =>
                /\ disk[k].state = "processing" /\ l \in ItemsOf[k]
                /\ \A n \in ItemsOf[k] : pc[k][n] # "none"
          /\ pc[k][l] = "none" => mem[k][l] = Fresh /\ res[k][l] = NoResult
      BY DEF IInv, Workers
    <2>2. ItemsOf[k] \subseteq Items
      BY ItemCommitAssumption
    <2>3. QED
      BY <1>4, <1>5, <2>1, <2>2
  <1>9. RecordsSound'
    <2> SUFFICES ASSUME NEW k \in Jobs, NEW l \in Items
                 PROVE  Sound(k, l, disk'[k].prog[l]) /\ Sound(k, l, mem'[k][l])
      BY DEF RecordsSound, Sound
    <2>1. Sound(k, l, disk[k].prog[l]) /\ Sound(k, l, mem[k][l])
      BY DEF IInv, RecordsSound
    <2>2. Sound(k, l, mem'[k][l])
      BY <1>2, <1>4, <2>1
    <2>3. QED
      BY <1>4, <2>1, <2>2
  <1>10. Phases'
    <2> SUFFICES ASSUME NEW k \in Jobs, NEW l \in Items, k # j \/ l # i
                 PROVE  Phase(k, l)'
      BY <1>2 DEF Phases
    <2>1. Phase(k, l)
      BY DEF IInv, Phases
    <2>2. pc[k][l] = "mark" => faults' > 0
      BY <1>1, <2>1, ItemCommitAssumption DEF Frame, WrittenUnlessFault, TypeOK, Phase
    <2>3. QED
      BY <1>4, <1>6, <1>7, <2>1, <2>2 DEF Phase
  <1>11. InStep'
    <2> SUFFICES ASSUME faults' = 0, NEW k \in Jobs, NEW l \in Items
                 PROVE  /\ pc'[k][l] # "none" => disk'[k].prog[l] = mem'[k][l]
                        /\ disk'[k].prog[l].st = "committed" => disk'[k].prog[l].result.status = "success"
      BY DEF InStep
    <2>1. /\ pc[k][l] # "none" => disk[k].prog[l] = mem[k][l]
          /\ disk[k].prog[l].st = "committed" => disk[k].prog[l].result.status = "success"
      BY <1>6 DEF IInv, InStep
    <2>2. pc[k][l] # "none" <=> pc'[k][l] # "none"
      BY <1>4, <1>5
    <2>3. pc[k][l] # "none" => disk'[k].prog[l] = mem'[k][l]
      <3>1. faults' = faults
        BY <1>6
      <3>2. \/ mem' = mem /\ disk' = disk
            \/ \A n \in Items : disk'[j].prog[n] = mem'[j][n]
        BY <1>1, <1>6, <3>1 DEF Frame, WrittenUnlessFault
      <3>3. QED
        BY <1>4, <2>1, <3>2
    <2>4. mem'[j][i].st = "committed" => mem'[j][i].result.status = "success"
      BY <1>1, <1>2, <1>6 DEF Phase, StateOf, Frame, After
    <2>5. pc[k][l] = "none" => mem[k][l] = Fresh /\ Fresh.st # "committed"
      BY DEF IInv, Workers, Fresh
    <2>6. CASE k = j /\ l = i
      BY <1>5, <2>2, <2>3, <2>4, <2>6
    <2>7. CASE k # j \/ l # i
      BY <1>4, <2>1, <2>2, <2>3, <2>5, <2>7
    <2>8. QED
      BY <2>6, <2>7
  <1>12. ResultsSound'
    <2> SUFFICES ASSUME NEW k \in Jobs, NEW l \in Items, k # j \/ l # i
                 PROVE  Reported(res[k][l])'
      BY <1>2 DEF ResultsSound
    <2>1. PICK r \in ItemResult : r = res[k][l]
      BY <1>1 DEF TypeOK
    <2>2. Reported(r)'
      BY <1>1, <2>1, ReportedStays DEF IInv, ResultsSound
    <2>3. QED
      BY <1>4, <2>1, <2>2
  <1>13. ASSUME NEW k \in Jobs, NEW l \in Items, Durable(k, l),
                k = j /\ l = i => pc'[j][i] # "none" /\ mem'[j][i].st = "committed" /\ mem'[j][i].result.out = Norm(j, i),
                k # j \/ l # i =>
                    (pc[k][l] # "none" => mem[k][l].st = "committed" /\ mem[k][l].result.out = Norm(k, l))
         PROVE  Durable(k, l)'
    <2>1. \/ disk'[k].prog[l] = disk[k].prog[l]
          \/ k = j /\ disk'[k].prog[l] = mem'[k][l]
      BY <1>4
    <2>2. CASE disk'[k].prog[l] = disk[k].prog[l]
      BY <1>13, <2>2 DEF Durable
    <2>3. CASE k = j /\ disk'[k].prog[l] = mem'[k][l]
      <3>1. CASE l = i
        BY <1>13, <2>3, <3>1 DEF Durable
      <3>2. CASE l # i
        <4>1. l \in ItemsOf[j]
          BY <1>13, <2>3 DEF IInv, Workers, Durable, Fresh
        <4>2. pc[k][l] # "none" /\ mem'[k][l] = mem[k][l]
          BY <1>4, <1>5, <2>3, <3>2, <4>1 DEF IInv, Workers
        <4>3. QED
          BY <1>13, <2>3, <3>2, <4>2 DEF Durable
      <3>3. QED
        BY <3>1, <3>2
    <2>4. QED
      BY <2>1, <2>2, <2>3
  <1>14. ASSUME NEW k \in Jobs, NEW l \in Items, Settled(k, l)
         PROVE  Settled(k, l)'
    <2>1. /\ Durable(k, l)
          /\ pc[k][l] # "none" => /\ pc[k][l] \in {"report", "done"} /\ res[k][l].status = "success"
                                  /\ mem[k][l].planned
                                  /\ mem[k][l].st = "committed" /\ mem[k][l].result.out = Norm(k, l)
      BY <1>14 DEF Settled, IInv, Phases, Phase
    <2>2. CASE k = j /\ l = i
      <3>1. pc[j][i] = "report" /\ pc'[j][i] = "done"
        BY <1>1, <1>5, <2>1, <2>2 DEF Frame, After
      <3>2. res'[j][i].status = "success" /\ mem'[j][i].planned
        BY <2>1, <2>2, <3>1, OwnGrows
      <3>3. mem'[j][i].st = "committed" /\ mem'[j][i].result.out = Norm(j, i)
        BY <1>2, <3>1, <3>2 DEF Phase
      <3>4. Durable(k, l)'
        BY <1>5, <1>13, <2>1, <2>2, <3>3
      <3>5. QED
        BY <2>2, <3>1, <3>2, <3>4 DEF Settled
    <2>3. CASE k # j \/ l # i
      <3>1. Durable(k, l)'
        BY <1>13, <2>1, <2>3
      <3>2. QED
        BY <1>4, <2>1, <2>3, <3>1 DEF Settled
    <2>4. QED
      BY <2>2, <2>3
  <1>15. CacheSound'
    <2>1. ASSUME NEW k \in Jobs, NEW l \in Items, pc'[k][l] \in {"thumb", "thumbCommit", "thumbSave", "store"}
          PROVE  Durable(k, l)'
      <3>1. CASE k # j \/ l # i
        <4>1. /\ pc[k][l] \in {"thumb", "thumbCommit", "thumbSave", "store"}
              /\ mem[k][l].st = "committed" /\ mem[k][l].result.out = Norm(k, l)
          BY <1>4, <2>1, <3>1 DEF IInv, Phases, Phase
        <4>2. Durable(k, l)
          BY <4>1 DEF IInv, CacheSound
        <4>3. QED
          BY <1>13, <3>1, <4>1, <4>2
      <3>2. CASE k = j /\ l = i
        <4>1. mem'[j][i].st = "committed" /\ mem'[j][i].result.out = Norm(j, i)
          BY <1>2, <2>1, <3>2 DEF Phase
        <4>2. CASE pc[j][i] = "save"
          BY <2>1, <3>2, <4>1, <4>2, OwnGrows DEF Durable
        <4>3. CASE pc[j][i] # "save"
          <5>1. pc[j][i] \in {"thumb", "thumbCommit", "thumbSave", "store"}
            BY <1>1, <2>1, <3>2, <4>3 DEF Frame, After
          <5>2. Durable(k, l)
            BY <3>2, <5>1 DEF IInv, CacheSound
          <5>3. QED
            BY <1>5, <1>13, <3>2, <4>1, <5>2
        <4>4. QED
          BY <4>2, <4>3
      <3>3. QED
        BY <3>1, <3>2
    <2>2. ASSUME NEW r \in ItemResult, r.status = "success", r.sha = "written", Past(r.thumb),
                 NEW k \in Jobs, NEW l \in Items, r.out = Norm(k, l), Settled(k, l)
          PROVE  Past(r.thumb)' /\ Settled(k, l)'
      BY <1>1, <1>14, <2>2, PastStays
    <2>3. ASSUME NEW key \in Keys, cache'[key].status = "success"
          PROVE  /\ cache'[key].sha = "written"
                 /\ Past(cache[key].thumb)'
                 /\ \E k \in Jobs : \E l \in Items : cache'[key].out = Norm(k, l) /\ Settled(k, l)'
      <3>1. CASE cache'[key] = cache[key]
        <4>1. PICK r \in ItemResult : r = cache[key]
          BY <1>1 DEF TypeOK
        <4>2. /\ r.status = "success" /\ r.sha = "written" /\ Past(r.thumb)
              /\ \E k \in Jobs : \E l \in Items : r.out = Norm(k, l) /\ Settled(k, l)
          BY <2>3, <3>1, <4>1 DEF IInv, CacheSound
        <4>3. QED
          BY <2>2, <3>1, <4>1, <4>2
      <3>2. CASE cache'[key] # cache[key]
        <4>1. PICK r \in ItemResult : r = res[j][i]
          BY <1>1 DEF TypeOK
        <4>2. pc[j][i] = "store" /\ pc'[j][i] = "report" /\ UNCHANGED <<res, mem, disk>> /\ cache'[key] = r
          <5>1. pc[j][i] = "store" /\ UNCHANGED <<res, mem, disk>>
                /\ cache' = [cache EXCEPT ![Key[<<j, i>>]] = res[j][i]]
            BY <1>1, <3>2, OwnGrows DEF Frame
          <5>2. cache'[key] = r
            BY <1>1, <3>2, <4>1, <5>1 DEF TypeOK
          <5>3. pc'[j][i] = "report"
            BY <1>1, <5>1 DEF Frame, After
          <5>4. QED
            BY <5>1, <5>2, <5>3
        <4>3. /\ r.status = "success" /\ r.out = Norm(j, i) /\ mem[j][i].planned /\ Durable(j, i)
              /\ r.sha = "written" /\ Past(r.thumb)
          BY <4>1, <4>2 DEF IInv, Phases, Phase, CacheSound, ResultsSound, Reported
        <4>4. Past(r.thumb)'
          BY <1>1, <4>3, PastStays
        <4>5. Settled(j, i)'
          BY <4>1, <4>2, <4>3 DEF Settled, Durable
        <4>6. QED
          BY <4>2, <4>3, <4>4, <4>5
      <3>3. QED
        BY <3>1, <3>2
    <2>4. QED
      BY <2>1, <2>3 DEF CacheSound
  <1>16. FilesPlanned'
    <2> SUFFICES ASSUME NEW k \in Jobs, NEW l \in Items
                 PROVE  /\ files'[Norm(k, l)] # "absent" =>
                              disk'[k].state # "queued" /\ (pc'[k][l] # "none" => mem'[k][l].planned)
                        /\ files'[Thumb(k, l)] # "absent" =>
                              disk'[k].state # "queued" /\ (pc'[k][l] # "none" => mem'[k][l].tplanned)
      BY DEF FilesPlanned
    <2>1. /\ files[Norm(k, l)] # "absent" =>
                disk[k].state # "queued" /\ (pc[k][l] # "none" => mem[k][l].planned)
          /\ files[Thumb(k, l)] # "absent" =>
                disk[k].state # "queued" /\ (pc[k][l] # "none" => mem[k][l].tplanned)
      BY DEF IInv, FilesPlanned
    <2>2. CASE k # j \/ l # i
      BY <1>4, <1>7, <2>1, <2>2
    <2>3. CASE k = j /\ l = i
      <3>1. files'[Norm(j, i)] # "absent" => mem[j][i].planned
        BY <1>1, <1>5, <2>1, <2>3 DEF Frame, OwnFilesOnly, Phase
      <3>2. files'[Thumb(j, i)] # "absent" => mem[j][i].tplanned
        BY <1>1, <1>5, <2>1, <2>3 DEF Frame, OwnFilesOnly, Phase
      <3>3. QED
        BY <1>4, <1>5, <2>3, <3>1, <3>2, OwnGrows
    <2>4. QED
      BY <2>2, <2>3
  <1>17. NamedBeforeVisible'
    <2> SUFFICES ASSUME faults' = 0, NEW k \in Jobs, NEW l \in Items
                 PROVE  /\ files'[Norm(k, l)] # "absent" => disk'[k].prog[l].planned
                        /\ files'[Thumb(k, l)] # "absent" => disk'[k].prog[l].tplanned
      BY DEF NamedBeforeVisible
    <2>1. CASE pc'[k][l] # "none"
      BY <1>11, <1>16, <2>1 DEF InStep, FilesPlanned
    <2>2. CASE pc'[k][l] = "none"
      <3>1. k # j \/ l # i
        BY <1>5, <2>2
      <3>2. /\ files[Norm(k, l)] # "absent" => disk[k].prog[l].planned
            /\ files[Thumb(k, l)] # "absent" => disk[k].prog[l].tplanned
        BY <1>6 DEF IInv, NamedBeforeVisible
      <3>3. CASE disk'[k].prog[l] = disk[k].prog[l]
        BY <1>7, <3>1, <3>2, <3>3
      <3>4. CASE disk'[k].prog[l] # disk[k].prog[l]
        <4>1. k = j /\ disk'[k].prog[l] = mem'[k][l]
          BY <1>4, <3>4
        <4>2. l \notin ItemsOf[j]
          BY <1>4, <1>5, <2>2, <3>1, <4>1 DEF IInv, Workers
        <4>3. disk[k].prog[l] = Fresh /\ disk'[k].prog[l] = Fresh
          BY <1>8, <4>1, <4>2 DEF IInv, Workers
        <4>4. QED
          BY <3>4, <4>3
      <3>5. QED
        BY <3>3, <3>4
    <2>3. QED
      BY <2>1, <2>2
  <1>18. QED
    BY <1>3, <1>8, <1>9, <1>10, <1>11, <1>12, <1>15, <1>16, <1>17 DEF IInv

-------------------------------------------------------------------------------
\* Recovery.

\* reconcileProgress gives results, for whatever entry it finds.
LEMMA VerdictType ==
    ASSUME TypeOK, NEW j \in Jobs, NEW i \in Items, NEW p \in ItemProgress
    PROVE  Verdict(j, i, p) \subseteq ItemResult /\ VerdictBlind(j, i, p) \subseteq ItemResult
  <1>1. p.result \in ItemResult /\ p.result.out \in Artifacts \cup {NoArtifact}
    BY DEF ItemProgress, ItemResult
  <1>2. Without("failed") \in ItemResult /\ Without("interrupted") \in ItemResult
    BY ResultTypes DEF Statuses
  <1>3. VerifyRecorded(p) \subseteq ItemResult
    BY <1>1, <1>2, ResultTypes DEF VerifyRecorded
  <1>4. Norm(j, i) \in Artifacts /\ ProbePlanned(Norm(j, i)) \subseteq ItemResult
    <2>1. files[Norm(j, i)] \in {"absent", "written", "altered"}
      BY ArtifactsDiffer DEF TypeOK, Contents
    <2>2. Success(Norm(j, i), "written") \in ItemResult /\ Success(Norm(j, i), "altered") \in ItemResult
      BY ResultTypes, ArtifactsDiffer DEF Contents
    <2>3. QED
      BY <1>2, <2>1, <2>2, ArtifactsDiffer DEF ProbePlanned
  <1>5. p.result.out = NoArtifact => Expected(j, i, p) \in {Norm(j, i), NoArtifact}
    BY DEF Expected
  <1>6. Verdict(j, i, p) \subseteq ItemResult
    BY <1>1, <1>2, <1>3, <1>4, <1>5 DEF Verdict
  <1>7. VerdictBlind(j, i, p) \subseteq ItemResult
    BY <1>1, <1>2, <1>3, ResultTypes DEF VerdictBlind
  <1>8. QED
    BY <1>6, <1>7

\* A success that reconcileProgress gives is one that it has verified, and what
\* it gives an item is what the lifecycle allows.
LEMMA VerdictSound ==
    ASSUME TypeOK, NEW j \in Jobs, NEW i \in Items, NEW p \in ItemProgress, Sound(j, i, p),
           NEW r, r \in Verdict(j, i, p) \cup VerdictBlind(j, i, p)
    PROVE  Vouched(r) /\ r.status \in Reconciled(Seen(p))
  <1>1. p.result \in ItemResult /\ p.st \in {"pending", "processing", "committed", "rejected", "failed"}
    BY DEF ItemProgress, ProgressStates
  <1>2. \A s : s # "success" => Vouched(Without(s)) /\ Without(s).status = s
    BY DEF Vouched, Without
  <1>3. CASE p.st \in {"rejected", "failed"}
    <2>1. r = p.result /\ r.status = p.st
      BY <1>3 DEF Verdict, VerdictBlind, Sound
    <2>2. QED
      BY <1>3, <2>1 DEF Vouched, Reconciled, Seen
  <1>4. CASE p.st \in {"pending", "processing"}
    <2>1. p.result.out = NoArtifact /\ (p.st = "pending" => ~p.planned)
      BY <1>4 DEF Sound, NoResult, Without
    <2>2. CASE ~p.planned
      <3>1. Expected(j, i, p) = NoArtifact
        BY <2>1, <2>2 DEF Expected
      <3>2. r = Without("interrupted")
        BY <1>4, <3>1 DEF Verdict, VerdictBlind
      <3>3. Seen(p) \in {"pending", "processing"}
        BY <1>4, <2>2 DEF Seen
      <3>4. QED
        BY <1>2, <3>2, <3>3 DEF Reconciled
    <2>3. CASE p.planned
      <3>1. Expected(j, i, p) = Norm(j, i) /\ p.st = "processing" /\ Norm(j, i) # NoArtifact
        BY <1>4, <2>1, <2>3, ArtifactsDiffer DEF Expected
      <3>2. r \in ProbePlanned(Norm(j, i)) \cup {Without("failed"), Without("interrupted")}
        BY <2>1, <3>1 DEF Verdict, VerdictBlind
      <3>3. Seen(p) = "planned"
        BY <2>3, <3>1 DEF Seen
      <3>4. \/ r \in {Without("failed"), Without("interrupted")}
            \/ \E c \in {"written", "altered"} : files[Norm(j, i)] = c /\ r = Success(Norm(j, i), c)
        <4>1. files[Norm(j, i)] \in {"absent", "written", "altered"}
          BY ArtifactsDiffer DEF TypeOK, Contents
        <4>2. QED
          BY <3>2, <4>1 DEF ProbePlanned
      <3>5. CASE r \in {Without("failed"), Without("interrupted")}
        BY <1>2, <3>3, <3>5 DEF Reconciled
      <3>6. ASSUME NEW c \in {"written", "altered"}, files[Norm(j, i)] = c, r = Success(Norm(j, i), c)
            PROVE  Vouched(r) /\ r.status = "success"
        BY <3>6 DEF Success, Vouched, Matches
      <3>7. QED
        BY <3>3, <3>4, <3>5, <3>6 DEF Reconciled
    <2>4. QED
      BY <2>2, <2>3
  <1>5. CASE p.st = "committed"
    <2>1. p.result.out # NoArtifact /\ p.result.sha = "written" /\ p.result.status \in {"success", "failed"}
      BY <1>5 DEF Sound
    <2>2. Expected(j, i, p) = p.result.out
      BY <2>1 DEF Expected
    <2>3. PICK w : w = WithThumbnail(p.result)
      OBVIOUS
    <2>4. \/ r = Without("failed")
          \/ Matches(p.result.out, p.result.sha) /\ (r = w \/ r = [w EXCEPT !.thumb = NoArtifact])
          \/ r = [Without("failed") EXCEPT !.thumb = NoArtifact]
      BY <1>5, <2>1, <2>2, <2>3 DEF Verdict, VerdictBlind, VerifyRecorded
    <2>5. Without("failed") \in ItemResult
      BY ResultTypes DEF Statuses
    <2>6. w \in ItemResult
      BY <1>1, <2>3, ResultTypes
    <2>7. \/ r.status = "failed"
          \/ /\ Matches(p.result.out, p.result.sha) /\ r.status = p.result.status
             /\ r.out = p.result.out /\ r.sha = p.result.sha
             /\ r.thumb = NoArtifact \/ Matches(r.thumb, "written")
      <3>1. CASE r = Without("failed")
        BY <1>2, <3>1
      <3>2. CASE r = [Without("failed") EXCEPT !.thumb = NoArtifact]
        BY <1>2, <2>5, <3>2, ResultUpdates
      <3>3. CASE Matches(p.result.out, p.result.sha) /\ r = w
        BY <1>1, <2>3, <3>3, WithThumbnailKeeps
      <3>4. CASE Matches(p.result.out, p.result.sha) /\ r = [w EXCEPT !.thumb = NoArtifact]
        <4>1. w.status = p.result.status /\ w.out = p.result.out /\ w.sha = p.result.sha
          BY <1>1, <2>3, WithThumbnailKeeps
        <4>2. QED
          BY <2>6, <3>4, <4>1, ResultUpdates
      <3>5. QED
        BY <2>4, <3>1, <3>2, <3>3, <3>4
    <2>8. Vouched(r)
      BY <2>7 DEF Vouched
    <2>9. r.status \in {"success", "failed"}
      BY <2>1, <2>7
    <2>10. QED
      BY <1>5, <2>8, <2>9 DEF Reconciled, Seen
  <1>6. QED
    BY <1>1, <1>3, <1>4, <1>5

\* Recover gives each item one of these verdicts, and one of the clear ones
\* unless something failed.
LEMMA RecoverEffect ==
    ASSUME TypeOK, NEW j \in Jobs, Recover(j)
    PROVE  \E f :
              /\ \A i \in ItemsOf[j] :
                    /\ f[i] \in Verdict(j, i, disk[j].prog[i]) \cup VerdictBlind(j, i, disk[j].prog[i])
                    /\ faults' = faults => f[i] \in Verdict(j, i, disk[j].prog[i])
              /\ disk' = [disk EXCEPT ![j].state = "completed",
                                      ![j].final = [i \in Items |-> IF i \in ItemsOf[j] THEN f[i] ELSE NoResult]]
              /\ faults' \in {faults, faults + 1} /\ faults' \in 0 .. MaxFaults
  <1> DEFINE Clear == [i \in ItemsOf[j] |-> Verdict(j, i, disk[j].prog[i])]
             Any   == [i \in ItemsOf[j] |-> Clear[i] \cup VerdictBlind(j, i, disk[j].prog[i])]
             Ends(V) == {f \in [ItemsOf[j] -> UNION {V[i] : i \in ItemsOf[j]}] : \A i \in ItemsOf[j] : f[i] \in V[i]}
  <1>1. PICK f \in Ends(Any) :
           /\ IF f \in Ends(Clear) THEN NoFault ELSE Fault
           /\ disk' = [disk EXCEPT ![j].state = "completed",
                                   ![j].final = [i \in Items |-> IF i \in ItemsOf[j] THEN f[i] ELSE NoResult]]
    BY DEF Recover
  <1>2. \A i \in ItemsOf[j] : f[i] \in Verdict(j, i, disk[j].prog[i]) \cup VerdictBlind(j, i, disk[j].prog[i])
    OBVIOUS
  <1>3. f \in Ends(Clear) => \A i \in ItemsOf[j] : f[i] \in Verdict(j, i, disk[j].prog[i])
    OBVIOUS
  <1> HIDE DEF Clear, Any, Ends
  <1>4. faults' \in {faults, faults + 1} /\ faults' \in 0 .. MaxFaults /\ (faults' = faults => f \in Ends(Clear))
    BY <1>1, ItemCommitAssumption DEF NoFault, Fault, TypeOK
  <1>5. QED
    BY <1>1, <1>2, <1>3, <1>4

-------------------------------------------------------------------------------
\* The other actions.

\* At the start nothing has happened.
LEMMA InvInit == Init => IInv
  <1> SUFFICES ASSUME Init PROVE IInv
    OBVIOUS
  <1>1. TypeOK
    BY TypeInit
  <1>2. \A j \in Jobs, i \in Items :
           /\ disk[j].state = "queued" /\ disk[j].prog[i] = Fresh
           /\ mem[j][i] = Fresh /\ pc[j][i] = "none" /\ res[j][i] = NoResult
    BY DEF Init, FreshList, Nowhere, NoResults
  <1>3. /\ \A a \in Artifacts : files[a] = "absent"
        /\ \A k \in Keys : cache[k] = NoResult
    BY DEF Init
  <1>4. Workers /\ RecordsSound /\ InStep /\ Phases
    <2>1. Workers
      BY <1>2 DEF Workers
    <2>2. Fresh.st = "pending" /\ Fresh.planned = FALSE /\ Fresh.result = NoResult
      BY DEF Fresh
    <2>3. RecordsSound /\ InStep
      BY <1>2, <2>2 DEF RecordsSound, Sound, InStep
    <2>4. Phases
      BY <1>2, <2>2 DEF Phases, Phase
    <2>5. QED
      BY <2>1, <2>3, <2>4
  <1>5. ResultsSound /\ CacheSound
    BY <1>2, <1>3 DEF ResultsSound, Reported, CacheSound, NoResult, Without
  <1>6. FilesPlanned /\ NamedBeforeVisible
    BY <1>3, ArtifactsDiffer DEF FilesPlanned, NamedBeforeVisible
  <1>7. QED
    BY <1>1, <1>4, <1>5, <1>6 DEF IInv

\* A job is begun: it has no files and no references yet.
LEMMA BeginKeeps ==
    ASSUME IInv, NEW j \in Jobs, Begin(j)
    PROVE  IInv'
  <1>1. TypeOK /\ disk[j].state = "queued" /\ up /\ UNCHANGED <<mem, res, files, cache, up, crashes, faults>>
    BY DEF IInv, Begin
  <1>2. /\ \A k \in Jobs : k # j => pc'[k] = pc[k] /\ disk'[k] = disk[k]
        /\ \A l \in Items : pc'[j][l] = IF l \in ItemsOf[j] THEN "start" ELSE "none"
        /\ disk'[j].state = "processing" /\ disk'[j].prog = disk[j].prog
    BY <1>1 DEF Begin, TypeOK
  <1>3. TypeOK'
    <2>1. pc' \in [Jobs -> [Items -> Steps]]
      BY <1>1 DEF Begin, TypeOK, Steps
    <2>2. disk' \in [Jobs -> [state : {"queued", "processing", "completed"},
                              prog : [Items -> ItemProgress], final : [Items -> ItemResult]]]
      BY <1>1 DEF Begin, TypeOK
    <2>3. QED
      BY <1>1, <2>1, <2>2 DEF TypeOK
  <1>4. \A l \in Items :
           /\ pc[j][l] = "none" /\ mem[j][l] = Fresh /\ res[j][l] = NoResult /\ disk[j].prog[l] = Fresh
           /\ files[Norm(j, l)] = "absent" /\ files[Thumb(j, l)] = "absent"
    BY <1>1 DEF IInv, Workers, FilesPlanned
  <1>5. \A k \in Jobs, l \in Items : disk'[k].prog[l] = disk[k].prog[l]
    BY <1>2
  <1>6. Workers'
    BY <1>1, <1>2, <1>4, <1>5, ItemCommitAssumption DEF IInv, Workers
  <1>7. RecordsSound'
    BY <1>1, <1>5 DEF IInv, RecordsSound, Sound
  <1>8. InStep'
    BY <1>1, <1>2, <1>4, <1>5 DEF IInv, InStep, Fresh
  <1>9. Phases'
    <2> SUFFICES ASSUME NEW k \in Jobs, NEW l \in Items PROVE Phase(k, l)'
      BY DEF Phases
    <2>1. Phase(k, l)
      BY DEF IInv, Phases
    <2>2. CASE k = j
      BY <1>1, <1>2, <1>4, <2>2 DEF Phase
    <2>3. CASE k # j
      BY <1>1, <1>2, <2>1, <2>3 DEF Phase
    <2>4. QED
      BY <2>2, <2>3
  <1>10. ASSUME NEW a, Past(a) PROVE Past(a)'
    BY <1>1, <1>2, <1>10 DEF Past
  <1>11. ResultsSound'
    <2> SUFFICES ASSUME NEW k \in Jobs, NEW l \in Items PROVE Reported(res[k][l])'
      BY DEF ResultsSound
    <2>1. PICK r : r = res[k][l]
      OBVIOUS
    <2>2. Reported(r)
      BY <2>1 DEF IInv, ResultsSound
    <2>3. Reported(r)'
      BY <1>1, <1>10, <2>2 DEF Reported, Vouched, Matches
    <2>4. QED
      BY <1>1, <2>1, <2>3
  <1>12. ASSUME NEW k \in Jobs, NEW l \in Items, Durable(k, l)
         PROVE  Durable(k, l)' /\ k # j
    BY <1>4, <1>5, <1>12 DEF Durable, Fresh
  <1>13. CacheSound'
    <2>1. ASSUME NEW k \in Jobs, NEW l \in Items, pc'[k][l] \in {"thumb", "thumbCommit", "thumbSave", "store"}
          PROVE  Durable(k, l)'
      BY <1>2, <1>12, <2>1 DEF IInv, CacheSound
    <2>2. ASSUME NEW key \in Keys, cache[key].status = "success"
          PROVE  /\ cache'[key].sha = "written"
                 /\ Past(cache[key].thumb)'
                 /\ \E k \in Jobs : \E l \in Items : cache'[key].out = Norm(k, l) /\ Settled(k, l)'
      <3>1. PICK r : r = cache[key]
        OBVIOUS
      <3>2. r.sha = "written" /\ Past(r.thumb)
        BY <2>2, <3>1 DEF IInv, CacheSound
      <3>3. PICK k \in Jobs, l \in Items : r.out = Norm(k, l) /\ Settled(k, l)
        BY <2>2, <3>1 DEF IInv, CacheSound
      <3>4. Settled(k, l)'
        BY <1>1, <1>2, <1>12, <3>3 DEF Settled
      <3>5. Past(r.thumb)'
        BY <1>10, <3>2
      <3>6. QED
        BY <1>1, <3>1, <3>2, <3>3, <3>4, <3>5
    <2>3. QED
      BY <1>1, <2>1, <2>2 DEF CacheSound
  <1>14. FilesPlanned' /\ NamedBeforeVisible'
    <2>1. \A k \in Jobs, l \in Items :
             /\ files'[Norm(k, l)] = files[Norm(k, l)] /\ files'[Thumb(k, l)] = files[Thumb(k, l)]
             /\ k # j => disk'[k] = disk[k] /\ pc'[k] = pc[k]
      BY <1>1, <1>2
    <2>2. QED
      BY <1>1, <1>4, <1>5, <2>1 DEF IInv, FilesPlanned, NamedBeforeVisible
  <1>15. QED
    BY <1>3, <1>6, <1>7, <1>8, <1>9, <1>11, <1>13, <1>14 DEF IInv

\* A job is finished: what its goroutines remember is written, or all of it is
\* forgotten.
LEMMA FinishKeeps ==
    ASSUME IInv, NEW j \in Jobs, Finish(j)
    PROVE  IInv'
  <1>1. /\ TypeOK /\ up /\ disk[j].state = "processing" /\ \A i \in ItemsOf[j] : pc[j][i] = "done"
        /\ UNCHANGED <<files, cache, up, crashes>>
        /\ faults' \in {faults, faults + 1} /\ faults' \in 0 .. MaxFaults
    BY ItemCommitAssumption DEF IInv, Finish, NoFault, Fault, TypeOK
  <1>2. /\ \A k \in Jobs : k # j => pc'[k] = pc[k] /\ mem'[k] = mem[k] /\ res'[k] = res[k] /\ disk'[k] = disk[k]
        /\ \A l \in Items : pc'[j][l] = "none" /\ mem'[j][l] = Fresh /\ res'[j][l] = NoResult
    BY <1>1 DEF Finish, TypeOK, Nowhere, FreshList, NoResults
  <1>3. \/ disk' = disk /\ faults' = faults + 1
        \/ /\ disk'[j].state = "completed" /\ disk'[j].prog = mem[j] /\ disk'[j].final = res[j]
           /\ faults' = faults
    BY <1>1 DEF Finish, NoFault, Fault, TypeOK
  <1>4. TypeOK'
    <2>1. mem' \in [Jobs -> [Items -> ItemProgress]]
      BY <1>1, ResultTypes DEF Finish, TypeOK, FreshList
    <2>2. res' \in [Jobs -> [Items -> ItemResult]]
      BY <1>1, ResultTypes DEF Finish, TypeOK, NoResults
    <2>3. pc' \in [Jobs -> [Items -> Steps]]
      BY <1>1 DEF Finish, TypeOK, Nowhere, Steps
    <2>4. disk' \in [Jobs -> [state : {"queued", "processing", "completed"},
                              prog : [Items -> ItemProgress], final : [Items -> ItemResult]]]
      <3>1. mem[j] \in [Items -> ItemProgress] /\ res[j] \in [Items -> ItemResult]
        BY <1>1 DEF TypeOK
      <3>2. \/ disk' = disk
            \/ disk' = [disk EXCEPT ![j] = [state |-> "completed", prog |-> mem[j], final |-> res[j]]]
        BY DEF Finish
      <3>3. CASE disk' = disk
        BY <1>1, <3>3 DEF TypeOK
      <3>4. CASE disk' = [disk EXCEPT ![j] = [state |-> "completed", prog |-> mem[j], final |-> res[j]]]
        <4>1. [state |-> "completed", prog |-> mem[j], final |-> res[j]]
                 \in [state : {"queued", "processing", "completed"},
                      prog : [Items -> ItemProgress], final : [Items -> ItemResult]]
          BY <3>1
        <4>2. \A S, v : disk \in [Jobs -> S] /\ v \in S => [disk EXCEPT ![j] = v] \in [Jobs -> S]
          OBVIOUS
        <4>3. QED
          BY <1>1, <3>4, <4>1, <4>2, Zenon DEF TypeOK
      <3>5. QED
        BY <3>2, <3>3, <3>4
    <2>5. QED
      BY <1>1, <2>1, <2>2, <2>3, <2>4 DEF TypeOK
  <1>5. \A l \in Items : l \notin ItemsOf[j] => mem[j][l] = Fresh /\ disk[j].prog[l] = Fresh
    BY DEF IInv, Workers
  <1>6. \A k \in Jobs, l \in Items :
           disk'[k].prog[l] = disk[k].prog[l] \/ (k = j /\ disk'[k].prog[l] = mem[j][l])
    BY <1>2, <1>3
  <1>7. Workers'
    <2>1. disk'[j].state # "queued" /\ \A l \in Items : l \notin ItemsOf[j] => disk'[j].prog[l] = Fresh
      BY <1>1, <1>3, <1>5
    <2>2. QED
      BY <1>1, <1>2, <2>1 DEF IInv, Workers
  <1>8. RecordsSound'
    <2>1. \A l \in Items : Sound(j, l, Fresh)
      BY DEF Sound, Fresh
    <2>2. ASSUME NEW k \in Jobs, NEW l \in Items
          PROVE  Sound(k, l, disk'[k].prog[l]) /\ Sound(k, l, mem'[k][l])
      BY <1>2, <1>6, <2>1 DEF IInv, RecordsSound
    <2>3. QED
      BY <2>2 DEF RecordsSound, Sound
  <1>9. faults' = 0 => /\ faults = 0
                       /\ \A k \in Jobs, l \in Items : disk'[k].prog[l] = disk[k].prog[l]
    <2> SUFFICES ASSUME faults' = 0
                 PROVE  /\ faults = 0
                        /\ \A k \in Jobs, l \in Items : disk'[k].prog[l] = disk[k].prog[l]
      OBVIOUS
    <2>1. faults = 0 /\ disk'[j].prog = mem[j]
      BY <1>1, <1>3 DEF TypeOK
    <2>2. \A l \in Items : mem[j][l] = disk[j].prog[l]
      BY <1>1, <1>5, <2>1 DEF IInv, InStep
    <2>3. QED
      BY <1>2, <2>1, <2>2
  <1>10. InStep'
    BY <1>2, <1>9 DEF IInv, InStep
  <1>11. Phases'
    <2> SUFFICES ASSUME NEW k \in Jobs, NEW l \in Items PROVE Phase(k, l)'
      BY DEF Phases
    <2>1. Phase(k, l)
      BY DEF IInv, Phases
    <2>2. CASE k = j
      BY <1>2, <2>2 DEF Phase
    <2>3. CASE k # j
      <3>1. (faults' = 0 => faults = 0) /\ (faults > 0 => faults' > 0)
        BY <1>1 DEF TypeOK
      <3>2. QED
        BY <1>1, <1>2, <2>1, <2>3, <3>1 DEF Phase
    <2>4. QED
      BY <2>2, <2>3
  <1>12. ASSUME NEW a, Past(a) PROVE Past(a)'
    BY <1>1, <1>2, <1>3, <1>12 DEF Past
  <1>13. ResultsSound'
    <2> SUFFICES ASSUME NEW k \in Jobs, NEW l \in Items PROVE Reported(res[k][l])'
      BY DEF ResultsSound
    <2>1. CASE k = j
      BY <1>2, <2>1 DEF Reported, NoResult, Without
    <2>2. CASE k # j
      <3>1. PICK r : r = res[k][l]
        OBVIOUS
      <3>2. Reported(r)
        BY <3>1 DEF IInv, ResultsSound
      <3>3. Reported(r)'
        BY <1>1, <1>12, <3>2 DEF Reported, Vouched, Matches
      <3>4. QED
        BY <1>2, <2>2, <3>1, <3>3
    <2>3. QED
      BY <2>1, <2>2
  <1>14. ASSUME NEW k \in Jobs, NEW l \in Items, Settled(k, l)
         PROVE  Settled(k, l)'
    <2>1. CASE k = j
      <3>1. l \in ItemsOf[j]
        BY <1>5, <1>14, <2>1 DEF Settled, Durable, Fresh
      <3>2. mem[j][l].st = "committed" /\ mem[j][l].result.out = Norm(j, l)
        BY <1>1, <1>14, <2>1, <3>1 DEF Settled, IInv, Phases, Phase
      <3>3. Durable(k, l)'
        BY <1>6, <1>14, <2>1, <3>2 DEF Settled, Durable
      <3>4. QED
        BY <1>2, <2>1, <3>3 DEF Settled
    <2>2. CASE k # j
      BY <1>2, <1>14, <2>2 DEF Settled, Durable
    <2>3. QED
      BY <2>1, <2>2
  <1>15. CacheSound'
    <2>1. ASSUME NEW k \in Jobs, NEW l \in Items, pc'[k][l] \in {"thumb", "thumbCommit", "thumbSave", "store"}
          PROVE  Durable(k, l)'
      BY <1>2, <2>1 DEF IInv, CacheSound, Durable
    <2>2. ASSUME NEW key \in Keys, cache[key].status = "success"
          PROVE  /\ cache'[key].sha = "written"
                 /\ Past(cache[key].thumb)'
                 /\ \E k \in Jobs : \E l \in Items : cache'[key].out = Norm(k, l) /\ Settled(k, l)'
      <3>1. PICK r : r = cache[key]
        OBVIOUS
      <3>2. r.sha = "written" /\ Past(r.thumb) /\ \E k \in Jobs : \E l \in Items : r.out = Norm(k, l) /\ Settled(k, l)
        BY <2>2, <3>1 DEF IInv, CacheSound
      <3>3. QED
        BY <1>1, <1>12, <1>14, <3>1, <3>2
    <2>3. QED
      BY <1>1, <2>1, <2>2 DEF CacheSound
  <1>16. FilesPlanned' /\ NamedBeforeVisible'
    <2>1. FilesPlanned'
      BY <1>1, <1>2, <1>3 DEF IInv, FilesPlanned
    <2>2. NamedBeforeVisible'
      BY <1>1, <1>9 DEF IInv, NamedBeforeVisible
    <2>3. QED
      BY <2>1, <2>2
  <1>17. QED
    BY <1>4, <1>7, <1>8, <1>10, <1>11, <1>13, <1>15, <1>16 DEF IInv

-------------------------------------------------------------------------------
\* Crash, recovery and the return to service.

\* What these steps have in common: no goroutine runs, the progress on disk and
\* the cache stay as they are, and no file appears.
Quiet ==
    /\ \A j \in Jobs, i \in Items :
          /\ pc'[j][i] = "none" /\ mem'[j][i] = Fresh /\ res'[j][i] = NoResult
          /\ disk'[j].prog[i] = disk[j].prog[i]
          /\ disk'[j].state = "queued" <=> disk[j].state = "queued"
    /\ \A a \in Artifacts : files'[a] # "absent" => files[a] # "absent"
    /\ UNCHANGED cache
    /\ faults' \in {faults, faults + 1}

\* A quiet step keeps the invariant.
LEMMA QuietKeeps ==
    ASSUME IInv, TypeOK', Quiet
    PROVE  IInv'
  <1>1. /\ \A j \in Jobs, i \in Items :
              /\ pc'[j][i] = "none" /\ mem'[j][i] = Fresh /\ res'[j][i] = NoResult
              /\ disk'[j].prog[i] = disk[j].prog[i]
              /\ disk'[j].state = "queued" <=> disk[j].state = "queued"
        /\ faults' = 0 => faults = 0
    BY DEF Quiet, IInv, TypeOK
  <1>2. Workers'
    BY <1>1 DEF IInv, Workers
  <1>3. RecordsSound'
    <2>1. \A j \in Jobs, i \in Items : Sound(j, i, Fresh)
      BY DEF Sound, Fresh
    <2>2. \A j \in Jobs, i \in Items : Sound(j, i, disk'[j].prog[i]) /\ Sound(j, i, mem'[j][i])
      BY <1>1, <2>1 DEF IInv, RecordsSound
    <2>3. QED
      BY <2>2 DEF RecordsSound, Sound
  <1>4. InStep'
    BY <1>1 DEF IInv, InStep
  <1>5. Phases'
    <2> SUFFICES ASSUME NEW j \in Jobs, NEW i \in Items PROVE Phase(j, i)'
      BY DEF Phases
    <2>1. pc'[j][i] = "none"
      BY <1>1
    <2>2. QED
      BY <2>1 DEF Phase
  <1>6. ResultsSound'
    BY <1>1 DEF ResultsSound, Reported, NoResult, Without
  <1>7. ASSUME NEW a, Past(a) PROVE Past(a)'
    BY <1>1, <1>7 DEF Past
  <1>8. CacheSound'
    <2>1. ASSUME NEW k \in Jobs, NEW l \in Items, pc'[k][l] \in {"thumb", "thumbCommit", "thumbSave", "store"}
          PROVE  FALSE
      BY <1>1, <2>1
    <2>2. ASSUME NEW key \in Keys, cache[key].status = "success"
          PROVE  /\ cache'[key].sha = "written"
                 /\ Past(cache[key].thumb)'
                 /\ \E k \in Jobs : \E l \in Items : cache'[key].out = Norm(k, l) /\ Settled(k, l)'
      <3>1. PICK r : r = cache[key]
        OBVIOUS
      <3>2. r.sha = "written" /\ Past(r.thumb)
        BY <2>2, <3>1 DEF IInv, CacheSound
      <3>3. PICK k \in Jobs, l \in Items : r.out = Norm(k, l) /\ Settled(k, l)
        BY <2>2, <3>1 DEF IInv, CacheSound
      <3>4. Settled(k, l)'
        BY <1>1, <3>3 DEF Settled, Durable
      <3>5. Past(r.thumb)'
        BY <1>7, <3>2
      <3>6. cache' = cache
        BY DEF Quiet
      <3>7. QED
        BY <3>1, <3>2, <3>3, <3>4, <3>5, <3>6
    <2>3. cache' = cache
      BY DEF Quiet
    <2>4. QED
      BY <2>1, <2>2, <2>3 DEF CacheSound
  <1>9. FilesPlanned' /\ NamedBeforeVisible'
    <2>1. \A j \in Jobs, i \in Items :
             /\ files'[Norm(j, i)] # "absent" => files[Norm(j, i)] # "absent"
             /\ files'[Thumb(j, i)] # "absent" => files[Thumb(j, i)] # "absent"
      BY ArtifactsDiffer DEF Quiet
    <2>2. FilesPlanned'
      BY <1>1, <2>1 DEF IInv, FilesPlanned
    <2>3. NamedBeforeVisible'
      BY <1>1, <2>1 DEF IInv, NamedBeforeVisible
    <2>4. QED
      BY <2>2, <2>3
  <1>10. QED
    BY <1>2, <1>3, <1>4, <1>5, <1>6, <1>8, <1>9 DEF IInv

\* Nothing runs while the process is down.
LEMMA DownIsIdle ==
    ASSUME IInv, ~up, NEW j \in Jobs, NEW i \in Items
    PROVE  pc[j][i] = "none" /\ mem[j][i] = Fresh /\ res[j][i] = NoResult
  BY DEF IInv, Workers

\* A job that recovery ends keeps its progress and gets results.
LEMMA RecoverKeeps ==
    ASSUME IInv, NEW j \in Jobs, Recover(j)
    PROVE  IInv'
  <1>1. TypeOK /\ ~up /\ disk[j].state = "processing" /\ UNCHANGED <<mem, pc, res, files, cache, up, crashes>>
    BY DEF IInv, Recover
  <1>2. PICK f :
           /\ \A i \in ItemsOf[j] :
                 f[i] \in Verdict(j, i, disk[j].prog[i]) \cup VerdictBlind(j, i, disk[j].prog[i])
           /\ disk' = [disk EXCEPT ![j].state = "completed",
                                   ![j].final = [i \in Items |-> IF i \in ItemsOf[j] THEN f[i] ELSE NoResult]]
           /\ faults' \in {faults, faults + 1} /\ faults' \in 0 .. MaxFaults
    BY <1>1, RecoverEffect
  <1>3. PICK g : g = [i \in Items |-> IF i \in ItemsOf[j] THEN f[i] ELSE NoResult]
    OBVIOUS
  <1>4. g \in [Items -> ItemResult]
    <2>1. \A i \in Items : disk[j].prog[i] \in ItemProgress
      BY <1>1 DEF TypeOK
    <2>2. \A i \in Items : i \in ItemsOf[j] => f[i] \in ItemResult
      BY <1>1, <1>2, <2>1, VerdictType
    <2>3. QED
      BY <1>3, <2>2, ResultTypes
  <1>5. /\ \A k \in Jobs : k # j => disk'[k] = disk[k]
        /\ disk'[j].state = "completed" /\ disk'[j].prog = disk[j].prog
    BY <1>1, <1>2, <1>3 DEF TypeOK
  <1>6. disk' \in [Jobs -> [state : {"queued", "processing", "completed"},
                            prog : [Items -> ItemProgress], final : [Items -> ItemResult]]]
    BY <1>1, <1>2, <1>3, <1>4 DEF TypeOK
  <1>7. TypeOK'
    BY <1>1, <1>2, <1>6 DEF TypeOK
  <1>8. Quiet
    BY <1>1, <1>2, <1>5, DownIsIdle DEF Quiet
  <1>9. QED
    BY <1>7, <1>8, QuietKeeps

\* A crash forgets everything that is not on disk, and files may be lost.
LEMMA CrashKeeps == ASSUME IInv, Crash PROVE IInv'
  <1>1. TypeOK /\ UNCHANGED <<disk, cache, faults>> /\ up' = FALSE /\ crashes' \in 0 .. MaxCrashes
    BY ItemCommitAssumption DEF IInv, Crash, TypeOK
  <1>2. /\ mem' \in [Jobs -> [Items -> ItemProgress]]
        /\ pc' \in [Jobs -> [Items -> Steps]]
        /\ res' \in [Jobs -> [Items -> ItemResult]]
    BY ResultTypes DEF Crash, FreshList, Nowhere, NoResults, Steps
  <1>3. files' \in [Artifacts -> Contents]
    BY <1>1 DEF Crash, TypeOK, Contents
  <1>4. \A a \in Artifacts : files'[a] # "absent" => files[a] # "absent"
    BY <1>1 DEF Crash, TypeOK
  <1>5. \A j \in Jobs, i \in Items : pc'[j][i] = "none" /\ mem'[j][i] = Fresh /\ res'[j][i] = NoResult
    BY DEF Crash, FreshList, Nowhere, NoResults
  <1>6. TypeOK'
    BY <1>1, <1>2, <1>3 DEF TypeOK
  <1>7. Quiet
    BY <1>1, <1>4, <1>5 DEF Quiet
  <1>8. QED
    BY <1>6, <1>7, QuietKeeps

\* The process serves again.
LEMMA ServeKeeps == ASSUME IInv, Serve PROVE IInv'
  <1>1. TypeOK /\ ~up /\ up' = TRUE /\ UNCHANGED <<disk, mem, pc, res, files, cache, crashes, faults>>
    BY DEF IInv, Serve
  <1>2. TypeOK'
    BY <1>1 DEF TypeOK
  <1>3. Quiet
    BY <1>1, DownIsIdle DEF Quiet
  <1>4. QED
    BY <1>2, <1>3, QuietKeeps

\* Nothing happens.
LEMMA StutterKeeps == ASSUME IInv, UNCHANGED vars PROVE IInv'
  BY DEF IInv, vars, TypeOK, Workers, RecordsSound, InStep, Phases, Phase, ResultsSound, Reported,
         Vouched, Matches, Past, CacheSound, Settled, Durable, FilesPlanned, NamedBeforeVisible

\* The invariant is inductive.
LEMMA InvStep == IInv /\ [Next]_vars => IInv'
  <1> SUFFICES ASSUME IInv, [Next]_vars PROVE IInv'
    OBVIOUS
  <1>1. CASE UNCHANGED vars
    BY <1>1, StutterKeeps
  <1>2. ASSUME NEW j \in Jobs, Begin(j) PROVE IInv'
    BY <1>2, BeginKeeps
  <1>3. ASSUME NEW j \in Jobs, Finish(j) PROVE IInv'
    BY <1>3, FinishKeeps
  <1>4. ASSUME NEW j \in Jobs, Recover(j) PROVE IInv'
    BY <1>4, RecoverKeeps
  <1>5. ASSUME NEW j \in Jobs, NEW i \in Items, ItemStep(j, i) PROVE IInv'
    BY <1>5, ItemStepKeeps
  <1>6. CASE Crash
    BY <1>6, CrashKeeps
  <1>7. CASE Serve
    BY <1>7, ServeKeeps
  <1>8. QED
    BY <1>1, <1>2, <1>3, <1>4, <1>5, <1>6, <1>7 DEF Next

-------------------------------------------------------------------------------
\* The theorems.

\* Records, results, files and counters stay what the code declares, and every
\* write of a progress list writes a whole one.
THEOREM TypeCorrect == Spec => []TypeOK
  <1>1. IInv => TypeOK
    BY DEF IInv
  <1>2. QED
    BY InvInit, InvStep, <1>1, PTL DEF Spec

\* For any number of jobs, crashes and files lost or altered: as long as no
\* write fails, no artifact is visible before a durable record names it (Plan
\* and ThumbPlan come before the rename of commitResult).
THEOREM NamedBeforeVisibleCorrect == Spec => []NamedBeforeVisible
  <1>1. IInv => NamedBeforeVisible
    BY DEF IInv
  <1>2. QED
    BY InvInit, InvStep, <1>1, PTL DEF Spec

\* Whatever fails, the cache only hands out artifacts that a durable record
\* names as committed: the job that made one does not go back on it.
THEOREM CacheHoldsCommittedCorrect == Spec => []CacheHoldsCommitted
  <1>1. IInv => CacheHoldsCommitted
    BY DEF IInv, CacheSound, Settled, Durable, CacheHoldsCommitted
  <1>2. QED
    BY InvInit, InvStep, <1>1, PTL DEF Spec

\* What recovery would say of an item that has reported, as long as no write
\* has failed.
LEMMA DoneIsTransparent == IInv => CrashIsTransparent
  <1> SUFFICES ASSUME IInv, faults = 0, NEW j \in Jobs, NEW i \in Items, pc[j][i] = "done"
               PROVE  Verdict(j, i, disk[j].prog[i]) = {res[j][i]}
    BY DEF CrashIsTransparent
  <1>1. PICK p : p = mem[j][i]
    OBVIOUS
  <1>2. PICK r : r = res[j][i]
    OBVIOUS
  <1>3. r \in ItemResult /\ p \in ItemProgress
    BY <1>1, <1>2 DEF IInv, TypeOK
  <1>4. disk[j].prog[i] = p
    BY <1>1 DEF IInv, InStep
  <1>5. p.st = StateOf(r) /\ p.result = r /\ r.status \in {"success", "rejected", "failed"}
    BY <1>1, <1>2 DEF IInv, Phases, Phase
  <1>6. Reported(r)
    BY <1>2 DEF IInv, ResultsSound
  <1>7. CASE r.status \in {"rejected", "failed"}
    BY <1>2, <1>4, <1>5, <1>7 DEF StateOf, Verdict
  <1>8. CASE r.status = "success"
    <2>1. p.st = "committed" /\ Matches(r.out, r.sha) /\ (r.thumb # NoArtifact => Matches(r.thumb, "written"))
      BY <1>5, <1>6, <1>8 DEF StateOf, Reported, Vouched
    <2>2. r.out # NoArtifact
      BY <1>6, <1>8, ArtifactsDiffer DEF Reported
    <2>3. Expected(j, i, p) = r.out
      BY <1>5, <2>2 DEF Expected
    <2>4. WithThumbnail(r) = r
      BY <2>1 DEF WithThumbnail
    <2>5. VerifyRecorded(p) = {r}
      BY <1>5, <2>1, <2>4 DEF VerifyRecorded
    <2>6. Verdict(j, i, p) = {r}
      BY <1>5, <2>1, <2>2, <2>3, <2>5 DEF Verdict
    <2>7. QED
      BY <1>2, <1>4, <2>6
  <1>9. QED
    BY <1>5, <1>7, <1>8

\* Once an item has reported, a crash and the recovery after it give the very
\* result that processJob was about to write, as long as no write fails.
THEOREM CrashIsTransparentCorrect == Spec => []CrashIsTransparent
  <1>1. QED
    BY InvInit, InvStep, DoneIsTransparent, PTL DEF Spec

\* Only Finish and Recover complete a job.
LEMMA Completes ==
    ASSUME IInv, [Next]_vars, NEW j \in Jobs, disk[j].state # "completed", disk'[j].state = "completed"
    PROVE  Finish(j) \/ Recover(j)
  <1>1. TypeOK
    BY DEF IInv
  <1>2. ASSUME NEW k \in Jobs, Begin(k) PROVE FALSE
    BY <1>1, <1>2 DEF Begin, TypeOK
  <1>3. ASSUME NEW k \in Jobs, NEW i \in Items, ItemStep(k, i) PROVE FALSE
    <2>1. Phase(k, i)
      BY DEF IInv, Phases
    <2>2. Frame(k, i)
      BY <1>1, <1>3, <2>1, ItemFrame
    <2>3. QED
      BY <2>2 DEF Frame, OthersStay
  <1>4. ASSUME NEW k \in Jobs, k # j, Finish(k) \/ Recover(k) PROVE FALSE
    <2>1. CASE Finish(k)
      BY <1>1, <1>4, <2>1 DEF Finish, TypeOK
    <2>2. CASE Recover(k)
      <3>1. PICK w : disk' = [disk EXCEPT ![k].state = "completed", ![k].final = w]
        BY <2>2 DEF Recover
      <3>2. QED
        BY <1>1, <1>4, <3>1 DEF TypeOK
    <2>3. QED
      BY <1>4, <2>1, <2>2
  <1>5. CASE Crash \/ Serve \/ UNCHANGED vars
    BY <1>5 DEF Crash, Serve, vars
  <1>6. QED
    BY <1>2, <1>3, <1>4, <1>5 DEF Next

\* What a job that was processing gets when recovery completes it.
LEMMA RecoverResults ==
    ASSUME IInv, NEW j \in Jobs, Recover(j), NEW i \in Items
    PROVE  /\ i \notin ItemsOf[j] => disk'[j].final[i] = NoResult
           /\ i \in ItemsOf[j] =>
                 /\ disk'[j].final[i] \in Verdict(j, i, disk[j].prog[i]) \cup VerdictBlind(j, i, disk[j].prog[i])
                 /\ faults' = faults => disk'[j].final[i] \in Verdict(j, i, disk[j].prog[i])
           /\ faults' >= faults
  <1>1. TypeOK
    BY DEF IInv
  <1>2. PICK f :
           /\ \A l \in ItemsOf[j] :
                 /\ f[l] \in Verdict(j, l, disk[j].prog[l]) \cup VerdictBlind(j, l, disk[j].prog[l])
                 /\ faults' = faults => f[l] \in Verdict(j, l, disk[j].prog[l])
           /\ disk' = [disk EXCEPT ![j].state = "completed",
                                   ![j].final = [l \in Items |-> IF l \in ItemsOf[j] THEN f[l] ELSE NoResult]]
           /\ faults' \in {faults, faults + 1}
    BY <1>1, RecoverEffect
  <1>3. disk'[j].final[i] = IF i \in ItemsOf[j] THEN f[i] ELSE NoResult
    BY <1>1, <1>2 DEF TypeOK
  <1>4. faults' >= faults
    BY <1>1, <1>2 DEF TypeOK
  <1>5. QED
    BY <1>2, <1>3, <1>4

\* A job that completes vouches for what it reports: at that step every success
\* names artifacts that are on disk and match, whether processJob or Recover
\* completes it, after any cache hit, failed write or damaged file.
THEOREM SuccessIsVouchedCorrect == Spec => SuccessIsVouched
  <1> DEFINE Vouches ==
        \A j \in Jobs : \A i \in Items :
            disk[j].state # "completed" /\ disk'[j].state = "completed" => Vouched(disk'[j].final[i])
  <1>1. IInv /\ [Next]_vars => [Vouches]_vars
    <2> SUFFICES ASSUME IInv, [Next]_vars, NEW j \in Jobs, NEW i \in Items,
                        disk[j].state # "completed", disk'[j].state = "completed"
                 PROVE  Vouched(disk'[j].final[i])
      OBVIOUS
    <2>1. TypeOK
      BY DEF IInv
    <2>2. Finish(j) \/ Recover(j)
      BY Completes
    <2>3. CASE Finish(j)
      <3>1. disk' = [disk EXCEPT ![j] = [state |-> "completed", prog |-> mem[j], final |-> res[j]]]
        BY <2>3 DEF Finish
      <3>2. disk'[j].final[i] = res[j][i]
        BY <2>1, <3>1 DEF TypeOK
      <3>3. PICK r : r = res[j][i]
        OBVIOUS
      <3>4. Vouched(r)
        BY <3>3 DEF IInv, ResultsSound, Reported, Vouched
      <3>5. QED
        BY <3>2, <3>3, <3>4
    <2>4. CASE Recover(j)
      <3>1. PICK r : r = disk'[j].final[i]
        OBVIOUS
      <3>2. CASE i \in ItemsOf[j]
        <4>1. r \in Verdict(j, i, disk[j].prog[i]) \cup VerdictBlind(j, i, disk[j].prog[i])
          BY <2>4, <3>1, <3>2, RecoverResults
        <4>2. disk[j].prog[i] \in ItemProgress /\ Sound(j, i, disk[j].prog[i])
          BY <2>1 DEF TypeOK, IInv, RecordsSound
        <4>3. Vouched(r)
          BY <2>1, <4>1, <4>2, VerdictSound
        <4>4. QED
          BY <3>1, <4>3
      <3>3. CASE i \notin ItemsOf[j]
        <4>1. r = NoResult
          BY <2>4, <3>1, <3>3, RecoverResults
        <4>2. Vouched(r)
          BY <4>1 DEF Vouched, NoResult, Without
        <4>3. QED
          BY <3>1, <4>2
      <3>4. QED
        BY <3>2, <3>3
    <2>5. QED
      BY <2>2, <2>3, <2>4
  <1>2. QED
    BY InvInit, InvStep, <1>1, PTL DEF Spec, SuccessIsVouched

\* What recovery may make of an item is what JobLifecycle's RecoverReconcile
\* allows: never interrupted once durably committed, a durable rejection or
\* failure kept.
THEOREM RecoveryFitsLifecycleCorrect == Spec => RecoveryFitsLifecycle
  <1> DEFINE Fits ==
        \A j \in Jobs : \A i \in ItemsOf[j] :
            (~up /\ disk[j].state = "processing" /\ disk'[j].state = "completed")
                => disk'[j].final[i].status \in Reconciled(Seen(disk[j].prog[i]))
  <1>1. IInv /\ [Next]_vars => [Fits]_vars
    <2> SUFFICES ASSUME IInv, [Next]_vars, NEW j \in Jobs, NEW i \in ItemsOf[j],
                        ~up, disk[j].state = "processing", disk'[j].state = "completed"
                 PROVE  disk'[j].final[i].status \in Reconciled(Seen(disk[j].prog[i]))
      OBVIOUS
    <2>1. TypeOK /\ i \in Items
      BY ItemCommitAssumption DEF IInv
    <2>2. Recover(j)
      BY Completes DEF Finish
    <2>3. PICK r : r = disk'[j].final[i]
      OBVIOUS
    <2>4. r \in Verdict(j, i, disk[j].prog[i]) \cup VerdictBlind(j, i, disk[j].prog[i])
      BY <2>1, <2>2, <2>3, RecoverResults
    <2>5. disk[j].prog[i] \in ItemProgress /\ Sound(j, i, disk[j].prog[i])
      BY <2>1 DEF TypeOK, IInv, RecordsSound
    <2>6. QED
      BY <2>1, <2>3, <2>4, <2>5, VerdictSound
  <1>2. QED
    BY InvInit, InvStep, <1>1, PTL DEF Spec, RecoveryFitsLifecycle

\* An artifact that reached the output directory before a crash is found again
\* by the recovery after it, as long as nothing has failed and its item is not
\* durably a failure.
THEOREM RecoveryFindsArtifactsCorrect == Spec => RecoveryFindsArtifacts
  <1> DEFINE Finds ==
        \A j \in Jobs : \A i \in ItemsOf[j] :
            (/\ ~up /\ disk[j].state = "processing" /\ disk'[j].state = "completed"
             /\ disk[j].prog[i].st \notin {"rejected", "failed"}
             /\ files[Norm(j, i)] = "written"
             /\ faults' = 0)
                => disk'[j].final[i].status = "success" /\ disk'[j].final[i].out = Norm(j, i)
  <1>1. IInv /\ [Next]_vars => [Finds]_vars
    <2> SUFFICES ASSUME IInv, [Next]_vars, NEW j \in Jobs, NEW i \in ItemsOf[j],
                        ~up, disk[j].state = "processing", disk'[j].state = "completed",
                        disk[j].prog[i].st \notin {"rejected", "failed"},
                        files[Norm(j, i)] = "written", faults' = 0
                 PROVE  disk'[j].final[i].status = "success" /\ disk'[j].final[i].out = Norm(j, i)
      OBVIOUS
    <2>1. TypeOK /\ i \in Items
      BY ItemCommitAssumption DEF IInv
    <2>2. Recover(j)
      BY Completes DEF Finish
    <2>3. faults = 0 /\ faults' = faults
      BY <2>1, <2>2, RecoverResults DEF TypeOK
    <2>4. PICK r : r = disk'[j].final[i]
      OBVIOUS
    <2>5. PICK p : p = disk[j].prog[i]
      OBVIOUS
    <2>6. r \in Verdict(j, i, p)
      BY <2>1, <2>2, <2>3, <2>4, <2>5, RecoverResults
    <2>7. p \in ItemProgress /\ Sound(j, i, p) /\ p.planned /\ p.st \notin {"rejected", "failed"}
      BY <2>1, <2>3, <2>5 DEF TypeOK, IInv, RecordsSound, NamedBeforeVisible
    <2>8. p.st \in {"pending", "processing", "committed"} /\ p.result \in ItemResult
      BY <2>7 DEF ItemProgress, ProgressStates
    <2>9. Norm(j, i) # NoArtifact
      BY <2>1, ArtifactsDiffer
    <2>10. CASE p.st \in {"pending", "processing"}
      <3>1. p.result.out = NoArtifact
        BY <2>7, <2>10 DEF Sound, NoResult, Without
      <3>2. Expected(j, i, p) = Norm(j, i)
        BY <2>7, <3>1 DEF Expected
      <3>3. Verdict(j, i, p) = ProbePlanned(Norm(j, i))
        BY <2>9, <2>10, <3>1, <3>2 DEF Verdict
      <3>4. r = Success(Norm(j, i), "written")
        BY <2>6, <3>3 DEF ProbePlanned
      <3>5. QED
        BY <2>4, <3>4 DEF Success
    <2>11. CASE p.st = "committed"
      <3>1. p.result.out = Norm(j, i) /\ p.result.sha = "written"
        BY <2>7, <2>11 DEF Sound
      <3>2. p.result.status = "success"
        BY <2>1, <2>3, <2>5, <2>11 DEF IInv, InStep
      <3>3. Expected(j, i, p) = Norm(j, i)
        BY <2>9, <3>1 DEF Expected
      <3>4. Verdict(j, i, p) = {WithThumbnail(p.result)}
        BY <2>9, <2>11, <3>1, <3>3 DEF Verdict, VerifyRecorded, Matches
      <3>5. r = WithThumbnail(p.result)
        BY <2>6, <3>4
      <3>6. QED
        BY <2>4, <2>8, <3>1, <3>2, <3>5, WithThumbnailKeeps
    <2>12. QED
      BY <2>8, <2>10, <2>11
  <1>2. QED
    BY InvInit, InvStep, <1>1, PTL DEF Spec, RecoveryFindsArtifacts
====
