--------------------------- MODULE Retention_proofs ---------------------------
(***************************************************************************)
(* Proofs about Retention, for any jobs, artifacts and inputs, any         *)
(* durations and any number of crashes and failures: what the janitor may  *)
(* remove while jobs run, are submitted and are recovered.                 *)
(***************************************************************************)
EXTENDS Retention, FiniteSetTheorems, TLAPS

-------------------------------------------------------------------------------
\* The inductive invariant.

\* Where an item is, and what its record and its artifact are then.
Working(j) ==
    /\ pc[j] # "idle" => recovered /\ rec[j].state = "processing"
    /\ pc[j] \in {"idle", "open", "lookup", "convert", "commit"} => mem[j] = NoArtifact
    /\ pc[j] \in {"open", "lookup", "convert"} => rec[j].planned = NoArtifact
    /\ pc[j] = "commit" => rec[j].planned # NoArtifact
    /\ pc[j] = "save" => mem[j] # NoArtifact
    /\ pc[j] = "store" => mem[j] # NoArtifact /\ mem[j] = rec[j].planned
    /\ rec[j].state \in {"absent", "queued"} => rec[j].planned = NoArtifact /\ rec[j].out = NoArtifact
    /\ rec[j].state # "absent" => rec[j].input \in Inputs

Work == \A j \in Jobs : Working(j)

\* What the janitor has in hand at each step of a pass.
Pass ==
    /\ due => jan.at = "idle"
    /\ jan.at = "recover" => ~recovered
    /\ jan.old = {} \/ \E j \in Jobs : jan.old = {j}
    /\ jan.at = "remove" => \A j \in jan.old : rec[j].state = "completed"
    /\ jan.at \in {"refs", "artifacts", "staging"} =>
          \A j \in Jobs : Unfinished(j) => j \in since \/ rec[j].input \in jan.inputs

\* What a job works with is there.
MemResolves == \A j \in Jobs : mem[j] # NoArtifact => mem[j] \in files

\* The artifact a job has made itself is no older than its run.
OwnYoung ==
    \A j \in Jobs :
        mem[j] # NoArtifact /\ mem[j] = rec[j].planned => age.artifact[mem[j]] <= ran[j]

\* The item is not a cache hit, and may replace the cache entry.
Producing(j) == pc[j] \in {"convert", "commit", "store"} \/ (pc[j] = "save" /\ ~CacheHit(j))

\* A cached artifact that is there is not much older than its entry, and an entry
\* outlives its retention only by the passes that were given up.
EntryYoung ==
    cache \in files =>
        /\ age.entry < CacheRetention => age.artifact[cache] <= JobTicks + age.entry
        /\ jan.at = "recover" => age.entry < CacheRetention
        /\ recovered => /\ age.artifact[cache] <= JobTicks + CacheRetention + faults
                        /\ jan.at = "idle" /\ ~due => age.artifact[cache] < JobTicks + CacheRetention + faults

\* As long as every cached artifact can be opened, a job that converts has found
\* none, and one that is cached since is not much older than its run.
ReplacedYoung ==
    MaxMisses = 0 =>
        \A j \in Jobs : Producing(j) /\ cache \in files => age.artifact[cache] <= JobTicks + ran[j]

Old(a) == age.artifact[a] >= ArtifactRetention

\* Before a pass: an old artifact that a job uses and no record shows is the
\* cached one.
HitsCached == due => \A j \in Jobs : Unrecorded(j) /\ Old(mem[j]) => mem[j] = cache

\* During a pass: an old artifact that the pass does not keep is used by nobody,
\* but for the cached one until the cache has been looked at.
KeepsUsed ==
    jan.at \in {"refs", "artifacts"} =>
        \A a \in files \ jan.keep : Old(a) =>
            /\ \A j \in Jobs : a \in {mem[j], rec[j].out} => a = cache
            /\ jan.at = "artifacts" => a # cache

\* What holds whatever the durations are.
Base == TypeOK /\ Work /\ Pass

\* What else holds of artifacts, their ages and the cache.
Resolves == MemResolves /\ ResultsResolve
Young    == OwnYoung /\ EntryYoung /\ ReplacedYoung
Kept     == HitsCached /\ KeepsUsed

IInv == Base /\ Resolves /\ Young /\ Kept

-------------------------------------------------------------------------------
\* Types.

Records == [state : {"absent", "queued", "processing", "completed"},
            input : Inputs \cup {NoInput}, planned : MaybeArtifact, out : MaybeArtifact]

Ages == [record : [Jobs -> 0 .. StateRetention], artifact : [Artifacts -> 0 .. ArtifactRetention],
         input : [Inputs -> 0 .. StagingRetention], entry : 0 .. CacheRetention]

Passes ==
    [at : {"idle", "refs", "artifacts", "staging", "records", "look", "remove", "entries", "recover"},
     keep : SUBSET Artifacts, inputs : SUBSET Inputs, todo : SUBSET Jobs, old : SUBSET Jobs]

Places == {"idle", "open", "lookup", "convert", "commit", "save", "store", "finish"}

\* The type invariant, with the two flags one by one.
TypeParts ==
    /\ rec \in [Jobs -> Records]
    /\ files \subseteq Artifacts /\ staged \subseteq Inputs /\ cache \in MaybeArtifact
    /\ age \in Ages
    /\ pc \in [Jobs -> Places] /\ mem \in [Jobs -> MaybeArtifact] /\ ran \in [Jobs -> 0 .. JobTicks]
    /\ jan \in Passes /\ Cardinality(jan.old) <= 1
    /\ since \subseteq Jobs
    /\ crashes \in 0 .. MaxCrashes /\ faults \in 0 .. MaxFaults /\ misses \in 0 .. MaxMisses

\* The two say the same.
LEMMA PartsAreTypeOK == TypeOK <=> TypeParts /\ due \in BOOLEAN /\ recovered \in BOOLEAN
  <1>1. {due, recovered} \subseteq BOOLEAN <=> due \in BOOLEAN /\ recovered \in BOOLEAN
    BY Zenon
  <1>2. QED
    BY <1>1, Zenon DEF TypeOK, TypeParts, Records, Ages, Passes, Places

\* And so they do in the next state.
LEMMA PartsNext == TypeParts' /\ due' \in BOOLEAN /\ recovered' \in BOOLEAN => TypeOK'
  <1>1. due' \in BOOLEAN /\ recovered' \in BOOLEAN => {due', recovered'} \subseteq BOOLEAN
    BY Zenon
  <1>2. QED
    BY <1>1, Zenon DEF TypeOK, TypeParts, Records, Ages, Passes, Places

\* The constants are numbers, and the retentions are not zero.
LEMMA Durations ==
    /\ ArtifactRetention \in Nat /\ StateRetention \in Nat /\ CacheRetention \in Nat /\ StagingRetention \in Nat
    /\ ArtifactRetention > 0 /\ StateRetention > 0 /\ CacheRetention > 0 /\ StagingRetention > 0
    /\ JobTicks \in Nat /\ 2 * JobTicks < ArtifactRetention
    /\ MaxMisses \in Nat /\ MaxFaults \in Nat /\ MaxCrashes \in Nat
  <1>1. \A n \in {ArtifactRetention, StateRetention, CacheRetention, StagingRetention} : n \in Nat \ {0}
    BY RetentionAssumption
  <1>2. \A n \in {MaxMisses, MaxFaults, MaxCrashes} : n \in Nat
    BY RetentionAssumption
  <1>3. QED
    BY <1>1, <1>2, RetentionAssumption

\* Nothing and one record have at most one element.
LEMMA FewOld == Cardinality({}) <= 1 /\ \A j : Cardinality({j}) <= 1
  BY FS_EmptySet, FS_Singleton

\* A record is written, and is a new file.
LEMMA WriteEffect ==
    ASSUME TypeParts, NEW j \in Jobs, NEW r \in Records, Write(j, r)
    PROVE  /\ rec' \in [Jobs -> Records] /\ age' \in Ages
           /\ rec'[j] = r /\ \A k \in Jobs : k # j => rec'[k] = rec[k]
           /\ age'.artifact = age.artifact /\ age'.entry = age.entry
  BY Durations DEF TypeParts, Write, Ages

\* An item moves on.
LEMMA GotoEffect ==
    ASSUME TypeParts, NEW j \in Jobs, NEW step \in Places, NEW a \in MaybeArtifact, Goto(j, step, a)
    PROVE  /\ pc' \in [Jobs -> Places] /\ mem' \in [Jobs -> MaybeArtifact] /\ ran' \in [Jobs -> 0 .. JobTicks]
           /\ pc'[j] = step /\ mem'[j] = a /\ ran'[j] = IF step = "idle" THEN 0 ELSE ran[j]
           /\ \A k \in Jobs : k # j => pc'[k] = pc[k] /\ mem'[k] = mem[k] /\ ran'[k] = ran[k]
  BY Durations DEF TypeParts, Goto

\* At the start everything is empty and young.
LEMMA TypeInit == Init => TypeOK
  <1> SUFFICES ASSUME Init PROVE TypeParts /\ due \in BOOLEAN /\ recovered \in BOOLEAN
    BY PartsAreTypeOK
  <1>1. due \in BOOLEAN /\ recovered \in BOOLEAN
    BY DEF Init
  <1>2. rec \in [Jobs -> Records] /\ age \in Ages /\ jan \in Passes /\ Cardinality(jan.old) <= 1
    BY Durations, FewOld DEF Init, Absent, Idle, Records, Ages, Passes, MaybeArtifact
  <1>3. QED
    BY <1>1, <1>2, Durations DEF Init, TypeParts, Places, MaybeArtifact

-------------------------------------------------------------------------------
\* What a step of a worker may change.

\* The step takes its artifact from the cache.
Hits(j) == pc[j] = "lookup" /\ cache \in files /\ mem'[j] = cache

\* The step publishes a file of its own.
Publishes(j) ==
    /\ rec[j].planned \in Artifacts /\ rec'[j].planned = rec[j].planned
    /\ mem'[j] = rec[j].planned /\ ran'[j] = ran[j]
    /\ files' = files \cup {mem'[j]}
    /\ age'.artifact = [age.artifact EXCEPT ![mem'[j]] = 0]

\* The step puts its artifact into the cache.
Caches(j) == pc[j] = "store" /\ cache' = mem[j] /\ age'.entry = 0 /\ pc'[j] = "finish"

WorkFrame(j) ==
    /\ UNCHANGED <<staged, jan, due, since, crashes>> /\ recovered /\ recovered'
    /\ faults' \in {faults, faults + 1}
    /\ \A k \in Jobs : k # j => pc'[k] = pc[k] /\ mem'[k] = mem[k] /\ ran'[k] = ran[k] /\ rec'[k] = rec[k]
    /\ rec[j].state \in {"queued", "processing"} /\ rec'[j].state \in {"processing", "completed"}
    /\ rec'[j].input = rec[j].input
    /\ rec'[j].out \in {rec[j].out, mem[j]}
    /\ \/ mem'[j] = NoArtifact
       \/ mem'[j] = mem[j] /\ rec'[j].planned = rec[j].planned /\ ran'[j] = ran[j]
       \/ Hits(j) /\ rec[j].planned = NoArtifact /\ rec'[j] = rec[j] /\ ran'[j] = ran[j]
       \/ Publishes(j)
    /\ (files' = files /\ age'.artifact = age.artifact) \/ Publishes(j)
    /\ (cache' = cache /\ age'.entry = age.entry) \/ Caches(j)
    /\ MaxMisses = 0 /\ Producing(j)' =>
          \/ Producing(j) /\ ran'[j] = ran[j]
          \/ cache \notin files /\ files' = files

\* Every step of a worker is like that, and keeps the types.
LEMMA WorkEffect ==
    ASSUME TypeParts, Work, NEW j \in Jobs, Start(j) \/ Item(j)
    PROVE  TypeParts' /\ Working(j)' /\ WorkFrame(j)
  <1>0. /\ rec[j] \in Records /\ mem[j] \in MaybeArtifact /\ pc[j] \in Places
        /\ Working(j) /\ (files \subseteq Artifacts)
        /\ NoArtifact \notin Artifacts
    BY RetentionAssumption DEF TypeParts, Work
  <1>1. CASE Start(j)
    <2> DEFINE r == [rec[j] EXCEPT !.state = "processing"]
    <2>1. /\ r \in Records /\ r.state = "processing" /\ r.input = rec[j].input
          /\ r.planned = NoArtifact /\ r.out = rec[j].out
      BY <1>0, <1>1 DEF Start, Working, Records
    <2>2. /\ rec' \in [Jobs -> Records] /\ age' \in Ages
          /\ rec'[j] = r /\ \A k \in Jobs : k # j => rec'[k] = rec[k]
          /\ age'.artifact = age.artifact /\ age'.entry = age.entry
      <3> HIDE DEF r
      <3>1. Write(j, r)
        BY <1>1 DEF Start, r
      <3>2. QED
        BY <2>1, <3>1, WriteEffect
    <2>3. /\ pc' \in [Jobs -> Places] /\ mem' \in [Jobs -> MaybeArtifact] /\ ran' \in [Jobs -> 0 .. JobTicks]
          /\ pc'[j] = "open" /\ mem'[j] = NoArtifact /\ ran'[j] = ran[j]
          /\ \A k \in Jobs : k # j => pc'[k] = pc[k] /\ mem'[k] = mem[k] /\ ran'[k] = ran[k]
      BY <1>1, GotoEffect DEF Start, Places, MaybeArtifact
    <2> HIDE DEF r
    <2>4. /\ rec[j].state = "queued" /\ recovered
          /\ UNCHANGED <<files, staged, cache, jan, due, recovered, since, crashes, faults, misses>>
      BY <1>1 DEF Start
    <2>5. TypeParts'
      BY <2>2, <2>3, <2>4 DEF TypeParts
    <2>6. Working(j)'
      BY <1>0, <2>1, <2>2, <2>3, <2>4 DEF Working
    <2>7. WorkFrame(j)
      BY <2>1, <2>2, <2>3, <2>4 DEF WorkFrame, Producing
    <2>8. QED
      BY <2>5, <2>6, <2>7
  <1>2. CASE Item(j)
    <2>0. /\ rec[j].state = "processing" /\ recovered
      BY <1>0, <1>2 DEF Working, Item, Open, Lookup, LookupFails, Plan, Commit, Save, Store, Finish, ItemFails, SaveFails
    <2>1. CASE Open(j) \/ ItemFails(j) \/ LookupFails(j)
      <3>1. /\ UNCHANGED <<rec, files, staged, cache, age, jan, due, recovered, since, crashes, faults>>
            /\ misses' \in 0 .. MaxMisses
        BY <2>1, Durations DEF Open, ItemFails, LookupFails, TypeParts
      <3>2. PICK step \in {"lookup", "finish", "convert"} :
               /\ Goto(j, step, NoArtifact)
               /\ step = "lookup" => pc[j] = "open"
               /\ step = "convert" => pc[j] = "lookup" /\ MaxMisses # 0
        BY <2>1, Durations DEF Open, ItemFails, LookupFails, TypeParts
      <3>3. /\ pc' \in [Jobs -> Places] /\ mem' \in [Jobs -> MaybeArtifact] /\ ran' \in [Jobs -> 0 .. JobTicks]
            /\ \A k \in Jobs : k # j => pc'[k] = pc[k] /\ mem'[k] = mem[k] /\ ran'[k] = ran[k]
            /\ pc'[j] = step /\ mem'[j] = NoArtifact /\ ran'[j] = ran[j]
        BY <3>2, GotoEffect DEF Places, MaybeArtifact
      <3>4. TypeParts'
        BY <3>1, <3>3 DEF TypeParts
      <3>5. Working(j)'
        BY <1>0, <2>0, <3>1, <3>2, <3>3 DEF Working
      <3>6. WorkFrame(j)
        BY <1>0, <2>0, <3>1, <3>2, <3>3 DEF WorkFrame, Producing
      <3>7. QED
        BY <3>4, <3>5, <3>6
    <2>2. CASE Lookup(j)
      <3>1. UNCHANGED <<rec, files, staged, cache, age, jan, due, recovered, since, crashes, faults, misses>>
        BY <2>2 DEF Lookup
      <3>2. CASE cache \in files
        <4>1. /\ pc' \in [Jobs -> Places] /\ mem' \in [Jobs -> MaybeArtifact] /\ ran' \in [Jobs -> 0 .. JobTicks]
              /\ \A k \in Jobs : k # j => pc'[k] = pc[k] /\ mem'[k] = mem[k] /\ ran'[k] = ran[k]
              /\ pc'[j] = "save" /\ mem'[j] = cache /\ ran'[j] = ran[j]
          BY <2>2, <3>2, GotoEffect DEF Lookup, Places, TypeParts
        <4>2. rec[j].planned = NoArtifact /\ cache # NoArtifact /\ pc[j] = "lookup"
          BY <1>0, <2>2, <3>2 DEF Lookup, Working
        <4>3. TypeParts'
          BY <3>1, <4>1 DEF TypeParts
        <4>4. Working(j)'
          BY <1>0, <2>0, <3>1, <4>1, <4>2 DEF Working
        <4>5. WorkFrame(j)
          BY <2>0, <3>1, <3>2, <4>1, <4>2 DEF WorkFrame, Producing, Hits, CacheHit
        <4>6. QED
          BY <4>3, <4>4, <4>5
      <3>3. CASE cache \notin files
        <4>1. /\ pc' \in [Jobs -> Places] /\ mem' \in [Jobs -> MaybeArtifact] /\ ran' \in [Jobs -> 0 .. JobTicks]
              /\ \A k \in Jobs : k # j => pc'[k] = pc[k] /\ mem'[k] = mem[k] /\ ran'[k] = ran[k]
              /\ pc'[j] = "convert" /\ mem'[j] = NoArtifact /\ ran'[j] = ran[j]
          BY <2>2, <3>3, GotoEffect DEF Lookup, Places, MaybeArtifact
        <4>2. rec[j].planned = NoArtifact /\ pc[j] = "lookup"
          BY <1>0, <2>2 DEF Lookup, Working
        <4>3. TypeParts'
          BY <3>1, <4>1 DEF TypeParts
        <4>4. Working(j)'
          BY <1>0, <2>0, <3>1, <4>1, <4>2 DEF Working
        <4>5. WorkFrame(j)
          BY <2>0, <3>1, <3>3, <4>1 DEF WorkFrame, Producing
        <4>6. QED
          BY <4>3, <4>4, <4>5
      <3>4. QED
        BY <3>2, <3>3
    <2>3. ASSUME NEW a \in Artifacts, Plan(j, a) PROVE TypeParts' /\ Working(j)' /\ WorkFrame(j)
      <3> DEFINE r == [rec[j] EXCEPT !.planned = a]
      <3>0. pc[j] = "convert" /\ mem[j] = NoArtifact
        BY <1>0, <2>3 DEF Plan, Working
      <3>1. r \in Records /\ r.state = rec[j].state /\ r.input = rec[j].input /\ r.planned = a /\ r.out = rec[j].out
        BY <1>0, <3>0 DEF Records, MaybeArtifact
      <3>2. Write(j, r)
        BY <2>3 DEF Plan
      <3> HIDE DEF r
      <3>3. /\ rec' \in [Jobs -> Records] /\ age' \in Ages
            /\ rec'[j] = r /\ \A k \in Jobs : k # j => rec'[k] = rec[k]
            /\ age'.artifact = age.artifact /\ age'.entry = age.entry
        BY <3>1, <3>2, WriteEffect
      <3>4. /\ pc' \in [Jobs -> Places] /\ mem' \in [Jobs -> MaybeArtifact] /\ ran' \in [Jobs -> 0 .. JobTicks]
            /\ \A k \in Jobs : k # j => pc'[k] = pc[k] /\ mem'[k] = mem[k] /\ ran'[k] = ran[k]
            /\ pc'[j] = "commit" /\ mem'[j] = NoArtifact /\ ran'[j] = ran[j]
        BY <2>3, <1>0, <3>0, GotoEffect DEF Plan, Places, MaybeArtifact
      <3>5. UNCHANGED <<files, staged, cache, jan, due, recovered, since, crashes, faults, misses>>
        BY <2>3 DEF Plan
      <3>6. TypeParts'
        BY <3>3, <3>4, <3>5 DEF TypeParts
      <3>7. Working(j)'
        BY <1>0, <2>0, <3>0, <3>1, <3>3, <3>4, <3>5 DEF Working
      <3>8. WorkFrame(j)
        BY <1>0, <2>0, <3>0, <3>1, <3>3, <3>4, <3>5 DEF WorkFrame, Producing, CacheHit
      <3>9. QED
        BY <3>6, <3>7, <3>8
    <2>4. CASE Commit(j)
      <3>0. pc[j] = "commit" /\ rec[j].planned \in Artifacts
        BY <1>0, <2>4 DEF Commit, Working, Records, MaybeArtifact
      <3>1. /\ files' = files \cup {rec[j].planned}
            /\ age' \in Ages /\ age'.artifact = [age.artifact EXCEPT ![rec[j].planned] = 0] /\ age'.entry = age.entry
            /\ UNCHANGED <<rec, staged, cache, jan, due, recovered, since, crashes, faults, misses>>
        BY <2>4, <3>0, Durations DEF Commit, TypeParts, Ages
      <3>2. /\ pc' \in [Jobs -> Places] /\ mem' \in [Jobs -> MaybeArtifact] /\ ran' \in [Jobs -> 0 .. JobTicks]
            /\ \A k \in Jobs : k # j => pc'[k] = pc[k] /\ mem'[k] = mem[k] /\ ran'[k] = ran[k]
            /\ pc'[j] = "save" /\ mem'[j] = rec[j].planned /\ ran'[j] = ran[j]
        BY <2>4, <3>0, GotoEffect DEF Commit, Places, MaybeArtifact
      <3>3. TypeParts'
        BY <3>0, <3>1, <3>2 DEF TypeParts
      <3>4. Working(j)'
        BY <1>0, <2>0, <3>0, <3>1, <3>2 DEF Working
      <3>5. WorkFrame(j)
        BY <1>0, <2>0, <3>0, <3>1, <3>2 DEF WorkFrame, Producing, Publishes
      <3>6. QED
        BY <3>3, <3>4, <3>5
    <2>5. CASE Save(j)
      <3> DEFINE r == [rec[j] EXCEPT !.out = mem[j]]
      <3>0. pc[j] = "save" /\ mem[j] # NoArtifact
        BY <1>0, <2>5 DEF Save, Working
      <3>1. r \in Records /\ r.state = rec[j].state /\ r.input = rec[j].input /\ r.planned = rec[j].planned /\ r.out = mem[j]
        BY <1>0, <3>0 DEF Records, MaybeArtifact
      <3>2. Write(j, r)
        BY <2>5 DEF Save
      <3> HIDE DEF r
      <3>3. /\ rec' \in [Jobs -> Records] /\ age' \in Ages
            /\ rec'[j] = r /\ \A k \in Jobs : k # j => rec'[k] = rec[k]
            /\ age'.artifact = age.artifact /\ age'.entry = age.entry
        BY <3>1, <3>2, WriteEffect
      <3>4. /\ pc' \in [Jobs -> Places] /\ mem' \in [Jobs -> MaybeArtifact] /\ ran' \in [Jobs -> 0 .. JobTicks]
            /\ \A k \in Jobs : k # j => pc'[k] = pc[k] /\ mem'[k] = mem[k] /\ ran'[k] = ran[k]
            /\ pc'[j] = (IF CacheHit(j) THEN "finish" ELSE "store") /\ mem'[j] = mem[j] /\ ran'[j] = ran[j]
        BY <2>5, <1>0, <3>0, GotoEffect DEF Save, Places, MaybeArtifact
      <3>5. UNCHANGED <<files, staged, cache, jan, due, recovered, since, crashes, faults, misses>>
        BY <2>5 DEF Save
      <3>6. TypeParts'
        BY <3>3, <3>4, <3>5 DEF TypeParts
      <3>7. Working(j)'
        BY <1>0, <2>0, <3>0, <3>1, <3>3, <3>4, <3>5 DEF Working, CacheHit
      <3>8. WorkFrame(j)
        BY <1>0, <2>0, <3>0, <3>1, <3>3, <3>4, <3>5 DEF WorkFrame, Producing, CacheHit
      <3>9. QED
        BY <3>6, <3>7, <3>8
    <2>6. CASE SaveFails(j)
      <3>1. /\ UNCHANGED <<rec, files, staged, cache, age, jan, due, recovered, since, crashes, misses>>
            /\ faults' = faults + 1 /\ faults' \in 0 .. MaxFaults
        BY <2>6, Durations DEF SaveFails, Fault, TypeParts
      <3>2. /\ pc' \in [Jobs -> Places] /\ mem' \in [Jobs -> MaybeArtifact] /\ ran' \in [Jobs -> 0 .. JobTicks]
            /\ \A k \in Jobs : k # j => pc'[k] = pc[k] /\ mem'[k] = mem[k] /\ ran'[k] = ran[k]
            /\ pc'[j] = "finish" /\ mem'[j] \in {mem[j], NoArtifact} /\ ran'[j] = ran[j]
        BY <1>0, <2>6, GotoEffect DEF SaveFails, Places, MaybeArtifact
      <3>3. TypeParts'
        BY <3>1, <3>2 DEF TypeParts
      <3>4. Working(j)'
        BY <1>0, <2>0, <3>1, <3>2 DEF Working
      <3>5. WorkFrame(j)
        BY <1>0, <2>0, <3>1, <3>2 DEF WorkFrame, Producing
      <3>6. QED
        BY <3>3, <3>4, <3>5
    <2>7. CASE Store(j)
      <3>0. pc[j] = "store" /\ mem[j] # NoArtifact /\ mem[j] = rec[j].planned
        BY <1>0, <2>7 DEF Store, Working
      <3>1. /\ cache' = mem[j]
            /\ age' \in Ages /\ age'.artifact = age.artifact /\ age'.entry = 0
            /\ UNCHANGED <<rec, files, staged, jan, due, recovered, since, crashes, faults, misses>>
        BY <2>7, Durations DEF Store, TypeParts, Ages
      <3>2. /\ pc' \in [Jobs -> Places] /\ mem' \in [Jobs -> MaybeArtifact] /\ ran' \in [Jobs -> 0 .. JobTicks]
            /\ \A k \in Jobs : k # j => pc'[k] = pc[k] /\ mem'[k] = mem[k] /\ ran'[k] = ran[k]
            /\ pc'[j] = "finish" /\ mem'[j] = mem[j] /\ ran'[j] = ran[j]
        BY <1>0, <2>7, GotoEffect DEF Store, Places
      <3>3. TypeParts'
        BY <1>0, <3>1, <3>2 DEF TypeParts
      <3>4. Working(j)'
        BY <1>0, <2>0, <3>0, <3>1, <3>2 DEF Working
      <3>5. WorkFrame(j)
        BY <1>0, <2>0, <3>0, <3>1, <3>2 DEF WorkFrame, Producing, Caches
      <3>6. QED
        BY <3>3, <3>4, <3>5
    <2>8. CASE Finish(j)
      <3> DEFINE r == [rec[j] EXCEPT !.state = "completed", !.out = mem[j]]
      <3>0. pc[j] = "finish"
        BY <1>0, <2>8 DEF Finish, Working
      <3>1. r \in Records /\ r.state = "completed" /\ r.input = rec[j].input /\ r.planned = rec[j].planned /\ r.out = mem[j]
        BY <1>0, <3>0 DEF Records, MaybeArtifact
      <3>2. Write(j, r)
        BY <2>8 DEF Finish
      <3> HIDE DEF r
      <3>3. /\ rec' \in [Jobs -> Records] /\ age' \in Ages
            /\ rec'[j] = r /\ \A k \in Jobs : k # j => rec'[k] = rec[k]
            /\ age'.artifact = age.artifact /\ age'.entry = age.entry
        BY <3>1, <3>2, WriteEffect
      <3>4. /\ pc' \in [Jobs -> Places] /\ mem' \in [Jobs -> MaybeArtifact] /\ ran' \in [Jobs -> 0 .. JobTicks]
            /\ \A k \in Jobs : k # j => pc'[k] = pc[k] /\ mem'[k] = mem[k] /\ ran'[k] = ran[k]
            /\ pc'[j] = "idle" /\ mem'[j] = NoArtifact
        BY <2>8, <1>0, <3>0, GotoEffect DEF Finish, Places, MaybeArtifact
      <3>5. UNCHANGED <<files, staged, cache, jan, due, recovered, since, crashes, faults, misses>>
        BY <2>8 DEF Finish
      <3>6. TypeParts'
        BY <3>3, <3>4, <3>5 DEF TypeParts
      <3>7. Working(j)'
        BY <1>0, <2>0, <3>0, <3>1, <3>3, <3>4, <3>5 DEF Working
      <3>8. WorkFrame(j)
        BY <1>0, <2>0, <3>0, <3>1, <3>3, <3>4, <3>5 DEF WorkFrame, Producing, CacheHit
      <3>9. QED
        BY <3>6, <3>7, <3>8
    <2>9. QED
      BY <1>2, <2>1, <2>2, <2>3, <2>4, <2>5, <2>6, <2>7, <2>8 DEF Item
  <1>3. QED
    BY <1>1, <1>2

-------------------------------------------------------------------------------
\* The invariant, step by step.  The condition under which an entry that is
\* replaced in the cache is young enough for a pass that is under way.
Spaced == MaxMisses = 0 \/ JobTicks + CacheRetention + MaxFaults < ArtifactRetention

\* Every age is a number within its retention.
LEMMA AgeTypes ==
    ASSUME TypeParts
    PROVE  /\ \A a \in Artifacts : age.artifact[a] \in Nat
           /\ age.entry \in Nat /\ age.entry <= CacheRetention /\ faults \in Nat /\ faults <= MaxFaults
           /\ \A j \in Jobs : ran[j] \in Nat /\ ran[j] <= JobTicks
  BY Durations DEF TypeParts, Ages

\* The cache entry that a job replaces refers to a young artifact.
LEMMA ReplacesYoung ==
    ASSUME Spaced, TypeParts, Work, Young, NEW j \in Jobs, pc[j] = "store", cache \in files
    PROVE  ~Old(cache)
  <1>1. cache \in Artifacts /\ age.artifact[cache] \in Nat /\ faults \in Nat /\ faults <= MaxFaults
        /\ ran[j] \in Nat /\ ran[j] <= JobTicks
    BY AgeTypes DEF TypeParts
  <1>2. recovered /\ Producing(j)
    BY DEF Work, Working, Producing
  <1>3. CASE MaxMisses = 0
    <2>1. age.artifact[cache] <= JobTicks + ran[j]
      BY <1>2, <1>3 DEF Young, ReplacedYoung
    <2>2. QED
      BY <1>1, <2>1, Durations DEF Old
  <1>4. CASE JobTicks + CacheRetention + MaxFaults < ArtifactRetention
    <2>1. age.artifact[cache] <= JobTicks + CacheRetention + faults
      BY <1>2 DEF Young, EntryYoung
    <2>2. QED
      BY <1>1, <1>4, <2>1, Durations DEF Old
  <1>5. QED
    BY <1>3, <1>4 DEF Spaced

\* A worker's step keeps the types, and what is said of the steps.
LEMMA WorkBase ==
    ASSUME Base, NEW j \in Jobs, Start(j) \/ Item(j)
    PROVE  Base'
  <1>1. TypeParts /\ Work /\ Pass /\ due \in BOOLEAN /\ recovered \in BOOLEAN
    BY PartsAreTypeOK DEF Base
  <1>2. TypeParts' /\ Working(j)' /\ WorkFrame(j)
    BY <1>1, WorkEffect
  <1>3. /\ UNCHANGED <<jan, due, since>> /\ recovered /\ recovered'
        /\ \A k \in Jobs : k # j => pc'[k] = pc[k] /\ mem'[k] = mem[k] /\ ran'[k] = ran[k] /\ rec'[k] = rec[k]
        /\ rec[j].state \in {"queued", "processing"} /\ rec'[j].state \in {"processing", "completed"}
        /\ rec'[j].input = rec[j].input /\ rec'[j].out \in {rec[j].out, mem[j]}
        /\ faults' \in {faults, faults + 1}
    BY <1>2 DEF WorkFrame
  <1>4. TypeOK'
    <2>1. due' \in BOOLEAN /\ recovered' \in BOOLEAN
      BY <1>1, <1>3, Zenon
    <2>2. QED
      BY <1>2, <2>1, PartsNext
  <1>5. Work'
    BY <1>1, <1>2, <1>3 DEF Work, Working
  <1>6. Pass'
    <2>1. \A k \in Jobs : k \in jan.old /\ jan.at = "remove" => rec'[k].state = "completed"
      BY <1>1, <1>3 DEF Pass
    <2>2. \A k \in Jobs : Unfinished(k)' => Unfinished(k) /\ rec'[k].input = rec[k].input
      BY <1>3 DEF Unfinished
    <2>3. jan' = jan /\ due' = due /\ since' = since /\ jan.old \subseteq Jobs
      BY <1>1, <1>3 DEF TypeParts, Passes
    <2>4. jan.at # "recover"
      BY <1>1, <1>3 DEF Pass
    <2>5. QED
      BY <1>1, <2>1, <2>2, <2>3, <2>4 DEF Pass
  <1>7. QED
    BY <1>4, <1>5, <1>6 DEF Base

\* A worker's step keeps the invariant.
LEMMA WorkKeeps ==
    ASSUME Spaced, IInv, NEW j \in Jobs, Start(j) \/ Item(j)
    PROVE  IInv'
  <1>1. TypeParts /\ Work /\ Pass /\ Resolves /\ Young /\ Kept
    BY PartsAreTypeOK DEF IInv, Base
  <1>2. TypeParts' /\ Working(j)' /\ WorkFrame(j)
    BY <1>1, WorkEffect
  <1>3. /\ UNCHANGED <<jan, due, since>> /\ recovered /\ recovered'
        /\ \A k \in Jobs : k # j => pc'[k] = pc[k] /\ mem'[k] = mem[k] /\ ran'[k] = ran[k] /\ rec'[k] = rec[k]
        /\ rec[j].state \in {"queued", "processing"} /\ rec'[j].state \in {"processing", "completed"}
        /\ rec'[j].input = rec[j].input /\ rec'[j].out \in {rec[j].out, mem[j]}
        /\ faults' \in {faults, faults + 1}
    BY <1>2 DEF WorkFrame
  <1>4. files \subseteq files' /\ ((files' = files /\ age'.artifact = age.artifact) \/ Publishes(j))
    BY <1>2 DEF WorkFrame, Publishes
  <1>5. \A a \in Artifacts :
           /\ age'.artifact[a] \in {age.artifact[a], 0}
           /\ a \in files' => a \in files \/ age'.artifact[a] = 0
           /\ Old(a)' => Old(a) /\ (a \in files' => a \in files)
    <2>1. \A a \in Artifacts :
           /\ age'.artifact[a] \in {age.artifact[a], 0}
           /\ a \in files' => a \in files \/ age'.artifact[a] = 0
      BY <1>1, <1>4 DEF Publishes, TypeParts, Ages
    <2>2. QED
      BY <1>1, <2>1, AgeTypes, Durations DEF Old
  <1>6. /\ \/ mem'[j] = NoArtifact
           \/ mem'[j] = mem[j] /\ rec'[j].planned = rec[j].planned /\ ran'[j] = ran[j]
           \/ Hits(j) /\ rec[j].planned = NoArtifact /\ rec'[j] = rec[j] /\ ran'[j] = ran[j]
           \/ Publishes(j)
    BY <1>2 DEF WorkFrame
  <1>7. (cache' = cache /\ age'.entry = age.entry) \/ Caches(j)
    BY <1>2 DEF WorkFrame
  <1>8. Base'
    BY WorkBase DEF IInv
  <1>9. MemResolves'
    <2>1. mem'[j] # NoArtifact => mem'[j] \in files'
      BY <1>1, <1>4, <1>6 DEF Resolves, MemResolves, Hits, Publishes
    <2>2. QED
      BY <1>1, <1>3, <1>4, <2>1 DEF Resolves, MemResolves
  <1>10. ResultsResolve'
    BY <1>1, <1>3, <1>4 DEF Resolves, MemResolves, ResultsResolve
  <1>11. OwnYoung'
    <2>1. ASSUME NEW k \in Jobs, mem'[k] # NoArtifact, mem'[k] = rec'[k].planned,
                 mem'[k] = mem[k], rec'[k].planned = rec[k].planned, ran'[k] = ran[k]
          PROVE  age'.artifact[mem'[k]] <= ran'[k]
      <3>1. mem[k] \in Artifacts /\ age.artifact[mem[k]] <= ran[k]
        BY <1>1, <2>1 DEF Young, OwnYoung, TypeParts, MaybeArtifact
      <3>2. age.artifact[mem[k]] \in Nat /\ ran[k] \in Nat
        BY <1>1, <3>1, AgeTypes
      <3>3. QED
        BY <1>5, <2>1, <3>1, <3>2
    <2>2. ASSUME mem'[j] # NoArtifact, mem'[j] = rec'[j].planned
          PROVE  age'.artifact[mem'[j]] <= ran'[j]
      <3>1. CASE Publishes(j)
        <4>1. age'.artifact[mem'[j]] = 0 /\ ran'[j] \in Nat
          BY <1>1, <3>1, AgeTypes DEF Publishes, TypeParts, Ages
        <4>2. QED
          BY <4>1
      <3>2. CASE ~Publishes(j)
        <4>1. mem'[j] = mem[j] /\ rec'[j].planned = rec[j].planned /\ ran'[j] = ran[j]
          BY <1>6, <2>2, <3>2
        <4>2. QED
          BY <2>1, <2>2, <4>1
      <3>3. QED
        BY <3>1, <3>2
    <2>3. ASSUME NEW k \in Jobs, k # j, mem'[k] # NoArtifact, mem'[k] = rec'[k].planned
          PROVE  age'.artifact[mem'[k]] <= ran'[k]
      BY <1>3, <2>1, <2>3
    <2>4. QED
      BY <2>2, <2>3 DEF OwnYoung
  <1>12. ASSUME Caches(j) PROVE EntryYoung' /\ ReplacedYoung' /\ HitsCached' /\ KeepsUsed'
    <2>1. /\ pc[j] = "store" /\ cache' = mem[j] /\ age'.entry = 0 /\ pc'[j] = "finish"
          /\ mem[j] \in Artifacts /\ mem[j] \in files /\ mem[j] = rec[j].planned
      BY <1>1, <1>12 DEF Caches, Work, Working, TypeParts, MaybeArtifact, Resolves, MemResolves
    <2>2. age.artifact[mem[j]] <= ran[j] /\ ran[j] <= JobTicks /\ ran[j] \in Nat /\ age.artifact[mem[j]] \in Nat
      BY <1>1, <2>1, AgeTypes, RetentionAssumption DEF Young, OwnYoung
    <2>3. age'.artifact[cache'] \in Nat /\ age'.artifact[cache'] <= JobTicks
      BY <1>5, <2>1, <2>2, Durations
    <2>4. cache \in files => ~Old(cache)
      BY <1>1, <2>1, ReplacesYoung
    <2>5. \A k \in Jobs : ran'[k] \in Nat
      BY <1>2, Durations DEF TypeParts
    <2>6. mem'[j] \in {NoArtifact, mem[j]}
      BY <1>6, <2>1 DEF Hits, Publishes
    <2>7. jan.at # "recover" /\ faults' \in Nat
      BY <1>1, <1>3, AgeTypes DEF Pass
    <2>8. EntryYoung'
      BY <1>3, <2>1, <2>3, <2>7, Durations DEF EntryYoung
    <2>9. ReplacedYoung'
      BY <2>3, <2>5, Durations DEF ReplacedYoung
    <2>10. ASSUME NEW k \in Jobs, NEW a \in Artifacts, a = cache, Old(a)', a \in files'
           PROVE  FALSE
      BY <1>5, <2>4, <2>10
    <2>11. HitsCached'
      <3> SUFFICES ASSUME due', NEW k \in Jobs, Unrecorded(k)', Old(mem[k])', k # j
                   PROVE  FALSE
        BY <2>1, <2>6 DEF HitsCached, Unrecorded
      <3>1. mem'[k] = mem[k] /\ rec'[k] = rec[k] /\ due
        BY <1>3
      <3>2. Unrecorded(k) /\ mem[k] \in Artifacts /\ mem[k] \in files
        BY <1>1, <3>1 DEF Unrecorded, TypeParts, MaybeArtifact, Resolves, MemResolves
      <3>3. Old(mem[k])
        BY <1>5, <3>1, <3>2 DEF Old
      <3>4. mem[k] = cache
        BY <1>1, <3>1, <3>2, <3>3 DEF Kept, HitsCached
      <3>5. QED
        BY <2>4, <3>2, <3>3, <3>4
    <2>12. KeepsUsed'
      <3> SUFFICES ASSUME jan.at \in {"refs", "artifacts"}, NEW a \in files', a \notin jan.keep, Old(a)'
                   PROVE  /\ \A k \in Jobs : a \notin {mem'[k], rec'[k].out}
                          /\ a # cache'
        BY <1>3 DEF KeepsUsed
      <3>1. a \in Artifacts /\ a # NoArtifact
        BY <1>2, RetentionAssumption DEF TypeParts
      <3>2. a \in files /\ Old(a)
        BY <1>5, <3>1
      <3>3. \A k \in Jobs : a \notin {mem[k], rec[k].out}
        BY <1>1, <2>4, <3>2 DEF Kept, KeepsUsed
      <3>4. QED
        BY <1>3, <2>1, <2>6, <3>1, <3>3
    <2>13. QED
      BY <2>8, <2>9, <2>11, <2>12
  <1>13. ASSUME cache' = cache, age'.entry = age.entry
         PROVE  EntryYoung' /\ ReplacedYoung' /\ HitsCached' /\ KeepsUsed'
    <2>1. cache \in files' => /\ cache \in Artifacts /\ age.artifact[cache] \in Nat /\ age'.artifact[cache] \in Nat
                              /\ age'.artifact[cache] <= age.artifact[cache]
                              /\ cache \notin files => age'.artifact[cache] = 0
      BY <1>1, <1>2, <1>5, AgeTypes DEF TypeParts
    <2>2. jan.at # "recover" /\ faults' \in Nat /\ faults \in Nat /\ faults' >= faults /\ age.entry \in Nat
      BY <1>1, <1>3, AgeTypes DEF Pass
    <2>3. EntryYoung'
      <3>1. CASE cache \in files
        BY <1>1, <1>3, <1>13, <2>1, <2>2, <3>1, Durations DEF Young, EntryYoung
      <3>2. CASE cache \notin files
        BY <1>3, <1>13, <2>1, <2>2, <3>2, Durations DEF EntryYoung
      <3>3. QED
        BY <3>1, <3>2
    <2>4. ReplacedYoung'
      <3> SUFFICES ASSUME MaxMisses = 0, NEW k \in Jobs, Producing(k)', cache \in files'
                   PROVE  age'.artifact[cache] <= JobTicks + ran'[k]
        BY <1>13 DEF ReplacedYoung
      <3>1. ran'[k] \in Nat
        BY <1>2, Durations DEF TypeParts
      <3>2. CASE cache \notin files
        BY <2>1, <3>1, <3>2, Durations
      <3>3. CASE cache \in files
        <4>1. Producing(k) /\ ran'[k] = ran[k]
          BY <1>2, <1>3, <3>3 DEF WorkFrame, Producing, CacheHit
        <4>2. age.artifact[cache] <= JobTicks + ran[k]
          BY <1>1, <3>3, <4>1 DEF Young, ReplacedYoung
        <4>3. QED
          BY <2>1, <3>1, <4>1, <4>2, Durations
      <3>4. QED
        BY <3>2, <3>3
    <2>5. HitsCached'
      <3> SUFFICES ASSUME due', NEW k \in Jobs, Unrecorded(k)', Old(mem[k])', mem'[k] # cache
                   PROVE  FALSE
        BY <1>13 DEF HitsCached
      <3>1. mem'[k] = mem[k] /\ Unrecorded(k)
        <4>1. CASE k = j
          BY <1>3, <1>6, <4>1 DEF Unrecorded, Hits, Publishes
        <4>2. CASE k # j
          BY <1>3, <4>2 DEF Unrecorded
        <4>3. QED
          BY <4>1, <4>2
      <3>2. mem[k] \in Artifacts
        BY <1>1, <3>1 DEF Unrecorded, TypeParts, MaybeArtifact
      <3>3. Old(mem[k])
        BY <1>5, <3>1, <3>2 DEF Old
      <3>4. QED
        BY <1>1, <1>3, <3>1, <3>3 DEF Kept, HitsCached
    <2>6. KeepsUsed'
      <3> SUFFICES ASSUME jan.at \in {"refs", "artifacts"}, NEW a \in files', a \notin jan.keep, Old(a)'
                   PROVE  /\ \A k \in Jobs : a \in {mem'[k], rec'[k].out} => a = cache
                          /\ jan.at = "artifacts" => a # cache
        BY <1>3, <1>13 DEF KeepsUsed
      <3>1. a \in Artifacts /\ a # NoArtifact
        BY <1>2, RetentionAssumption DEF TypeParts
      <3>2. a \in files /\ Old(a)
        BY <1>5, <3>1
      <3>3. /\ \A k \in Jobs : a \in {mem[k], rec[k].out} => a = cache
            /\ jan.at = "artifacts" => a # cache
        BY <1>1, <3>2 DEF Kept, KeepsUsed
      <3>4. mem'[j] = a => a \in {mem[j], cache}
        <4>1. Publishes(j) /\ mem'[j] = a => age'.artifact[a] = 0
          BY <1>1, <3>1 DEF Publishes, TypeParts, Ages
        <4>2. ~(Publishes(j) /\ mem'[j] = a)
          BY <4>1, Durations DEF Old
        <4>3. QED
          BY <1>6, <3>1, <4>2 DEF Hits
      <3>5. QED
        BY <1>3, <3>3, <3>4
    <2>7. QED
      BY <2>3, <2>4, <2>5, <2>6
  <1>14. QED
    BY <1>8, <1>9, <1>10, <1>11, <1>12, <1>13, <1>7 DEF IInv, Resolves, Young, Kept

-------------------------------------------------------------------------------
\* The janitor.

\* What its steps have in common that remove no record, artifact or cache entry.
SweepFrame ==
    /\ UNCHANGED <<rec, files, cache, pc, mem, ran, recovered>>
    /\ age'.artifact = age.artifact /\ age'.entry = age.entry
    /\ ~due' /\ (due' = FALSE \/ due' = due) /\ faults' \in {faults, faults + 1}
    /\ jan'.at # "recover" /\ (jan'.at = "idle" => faults' = faults + 1)

Sweep ==
    \/ ListRecords \/ ReferencedArtifacts \/ ArtifactsDone \/ (\E i \in Inputs : RemoveInput(i))
    \/ StagingDone \/ (\E j \in Jobs : SeeOld(j) \/ LookAt(j)) \/ RecordsDone \/ GiveUp

\* They keep the types, and what a pass has in hand.
LEMMA SweepEffect ==
    ASSUME TypeParts, Work, Pass, Sweep
    PROVE  TypeParts' /\ SweepFrame /\ Pass'
  <1>1. jan \in Passes /\ age \in Ages /\ (jan.at # "idle" => ~due)
    BY DEF TypeParts, Pass
  <1>2. CASE ListRecords
    <2>1. jan' \in Passes /\ jan'.at = "refs" /\ jan'.old = {} /\ jan'.inputs = InputsInUse
      <3>1. UNION {References(k) : k \in Jobs} \subseteq Artifacts
        BY DEF References, TypeParts, Records, MaybeArtifact
      <3>2. InputsInUse \subseteq Inputs
        BY DEF InputsInUse, Unfinished, Work, Working
      <3>3. QED
        BY <1>2, <3>1, <3>2 DEF ListRecords, Passes, Idle
    <2>2. TypeParts' /\ SweepFrame
      BY <1>2, <2>1, FewOld DEF ListRecords, TypeParts, SweepFrame, running
    <2>3. \A k \in Jobs : Unfinished(k)' => rec'[k].input \in jan'.inputs
      BY <1>2, <2>1 DEF ListRecords, InputsInUse, Unfinished
    <2>4. Pass'
      BY <1>2, <2>1, <2>3 DEF ListRecords, Pass
    <2>5. QED
      BY <2>2, <2>4
  <1>3. CASE ReferencedArtifacts
    <2>1. /\ jan' \in Passes /\ jan.at = "refs" /\ jan'.at = "artifacts" /\ jan'.old = jan.old
          /\ jan'.inputs = jan.inputs
      BY <1>1, <1>3 DEF ReferencedArtifacts, Passes, TypeParts, MaybeArtifact
    <2>2. TypeParts' /\ SweepFrame
      BY <1>1, <1>3, <2>1 DEF ReferencedArtifacts, TypeParts, SweepFrame, running
    <2>3. Pass'
      BY <1>1, <1>3, <2>1 DEF ReferencedArtifacts, Pass, Unfinished
    <2>4. QED
      BY <2>2, <2>3
  <1>4. CASE ArtifactsDone
    <2>1. /\ jan' \in Passes /\ jan.at = "artifacts" /\ jan'.at = "staging" /\ jan'.old = jan.old
          /\ jan'.inputs = jan.inputs
      BY <1>1, <1>4 DEF ArtifactsDone, Passes
    <2>2. TypeParts' /\ SweepFrame
      BY <1>1, <1>4, <2>1 DEF ArtifactsDone, TypeParts, SweepFrame, running
    <2>3. Pass'
      BY <1>1, <1>4, <2>1 DEF ArtifactsDone, Pass, Unfinished
    <2>4. QED
      BY <2>2, <2>3
  <1>5. ASSUME NEW i \in Inputs, RemoveInput(i) PROVE TypeParts' /\ SweepFrame /\ Pass'
    <2>1. age' \in Ages /\ age'.artifact = age.artifact /\ age'.entry = age.entry
      BY <1>1, <1>5, Durations DEF RemoveInput, Ages
    <2>2. TypeParts' /\ SweepFrame
      BY <1>1, <1>5, <2>1 DEF RemoveInput, TypeParts, SweepFrame, running
    <2>3. Pass'
      BY <1>1, <1>5 DEF RemoveInput, Pass, Unfinished
    <2>4. QED
      BY <2>2, <2>3
  <1>6. CASE StagingDone \/ RecordsDone
    <2>1. /\ jan' \in Passes /\ jan.at # "idle" /\ jan'.at \in {"records", "entries"} /\ jan'.old = jan.old
          /\ UNCHANGED <<rec, files, staged, cache, age, running, due, recovered, since, crashes, faults, misses>>
      BY <1>1, <1>6 DEF StagingDone, RecordsDone, Passes
    <2>2. TypeParts' /\ SweepFrame
      BY <1>1, <2>1 DEF TypeParts, SweepFrame, running
    <2>3. Pass'
      BY <1>1, <2>1 DEF Pass
    <2>4. QED
      BY <2>2, <2>3
  <1>7. ASSUME NEW j \in Jobs, SeeOld(j) PROVE TypeParts' /\ SweepFrame /\ Pass'
    <2>1. /\ jan' \in Passes /\ jan.at # "idle" /\ jan'.at = "look" /\ jan'.old = {j}
          /\ UNCHANGED <<rec, files, staged, cache, age, running, due, recovered, since, crashes, faults, misses>>
      BY <1>1, <1>7 DEF SeeOld, Passes
    <2>2. TypeParts' /\ SweepFrame
      BY <1>1, <2>1, FewOld DEF TypeParts, SweepFrame, running
    <2>3. Pass'
      BY <1>1, <2>1 DEF Pass
    <2>4. QED
      BY <2>2, <2>3
  <1>8. ASSUME NEW j \in Jobs, LookAt(j) PROVE TypeParts' /\ SweepFrame /\ Pass'
    <2>1. /\ jan' \in Passes /\ jan.at # "idle" /\ j \in jan.old
          /\ \/ jan'.at = "remove" /\ jan'.old = jan.old /\ rec[j].state = "completed"
             \/ jan'.at = "records" /\ jan'.old = {}
          /\ UNCHANGED <<rec, files, staged, cache, age, running, due, recovered, since, crashes, faults, misses>>
      BY <1>1, <1>8 DEF LookAt, Passes, Removable
    <2>2. TypeParts' /\ SweepFrame
      BY <1>1, <2>1, FewOld DEF TypeParts, SweepFrame, running
    <2>3. Pass'
      BY <1>1, <2>1 DEF Pass
    <2>4. QED
      BY <2>2, <2>3
  <1>9. CASE GiveUp
    <2>1. jan' \in Passes /\ jan.at # "idle" /\ jan'.at = "idle" /\ jan'.old = {}
      BY <1>1, <1>9 DEF GiveUp, Passes, Idle
    <2>2. faults' = faults + 1 /\ faults' \in 0 .. MaxFaults
      BY <1>9, Durations DEF GiveUp, Fault, TypeParts
    <2>3. TypeParts' /\ SweepFrame
      BY <1>1, <1>9, <2>1, <2>2, FewOld DEF GiveUp, TypeParts, SweepFrame, running
    <2>4. Pass'
      BY <1>1, <1>9, <2>1 DEF GiveUp, Pass
    <2>5. QED
      BY <2>3, <2>4
  <1>10. QED
    BY <1>2, <1>3, <1>4, <1>5, <1>6, <1>7, <1>8, <1>9 DEF Sweep

\* An old artifact that somebody uses is kept by the pass, or is the cached one
\* until the cache has been looked at.
LEMMA SweepKeepsUsed ==
    ASSUME TypeParts, Pass, Resolves, Kept, Sweep, SweepFrame
    PROVE  KeepsUsed'
  <1>1. /\ UNCHANGED <<rec, files, cache, mem>> /\ age'.artifact = age.artifact
        /\ jan \in Passes
    BY DEF SweepFrame, TypeParts
  <1> SUFFICES ASSUME jan'.at \in {"refs", "artifacts"}, NEW a \in files, a \notin jan'.keep, Old(a)
               PROVE  /\ \A k \in Jobs : a \in {mem[k], rec[k].out} => a = cache
                      /\ jan'.at = "artifacts" => a # cache
    BY <1>1 DEF KeepsUsed, Old
  <1>2. a \in Artifacts /\ a # NoArtifact
    BY RetentionAssumption DEF TypeParts
  <1>3. \/ ListRecords
        \/ ReferencedArtifacts
    <2>1. ~ArtifactsDone /\ ~StagingDone /\ ~RecordsDone
      BY <1>1 DEF ArtifactsDone, StagingDone, RecordsDone, Passes
    <2>2. ~(\E i \in Inputs : RemoveInput(i)) /\ ~(\E j \in Jobs : SeeOld(j) \/ LookAt(j))
      BY <1>1 DEF RemoveInput, SeeOld, LookAt, Passes
    <2>3. ~GiveUp
      BY DEF GiveUp, Idle
    <2>4. QED
      BY <2>1, <2>2, <2>3 DEF Sweep
  <1>4. CASE ListRecords
    <2>1. due /\ jan'.at = "refs" /\ jan'.keep = UNION {References(k) : k \in Jobs}
      BY <1>4 DEF ListRecords, Idle
    <2>2. \A k \in Jobs : a \notin {rec[k].planned, rec[k].out}
      BY <1>2, <2>1 DEF References
    <2>3. \A k \in Jobs : a = mem[k] => a = cache
      BY <1>2, <2>1, <2>2 DEF Kept, HitsCached, Unrecorded
    <2>4. QED
      BY <2>1, <2>2, <2>3
  <1>5. CASE ReferencedArtifacts
    <2>1. jan.at = "refs" /\ a \notin jan.keep /\ a # cache
      BY <1>1, <1>2, <1>5 DEF ReferencedArtifacts, Passes
    <2>2. QED
      BY <1>1, <2>1 DEF Kept, KeepsUsed
  <1>6. QED
    BY <1>3, <1>4, <1>5

\* So does a step of the janitor that only looks.
LEMMA SweepBase == ASSUME Base, Sweep PROVE Base'
  <1>1. TypeParts /\ Work /\ Pass /\ due \in BOOLEAN /\ recovered \in BOOLEAN
    BY PartsAreTypeOK DEF Base
  <1>2. TypeParts' /\ SweepFrame /\ Pass'
    BY <1>1, SweepEffect
  <1>3. /\ UNCHANGED <<rec, files, cache, pc, mem, ran, recovered>>
        /\ age'.artifact = age.artifact /\ age'.entry = age.entry
        /\ ~due' /\ (due' = FALSE \/ due' = due) /\ faults' \in {faults, faults + 1}
        /\ jan'.at # "recover" /\ (jan'.at = "idle" => faults' = faults + 1)
    BY <1>2 DEF SweepFrame
  <1>4. TypeOK'
    <2>1. due' \in BOOLEAN /\ recovered' \in BOOLEAN
      <3>1. recovered' = recovered /\ (due' = FALSE \/ due' = due)
        BY <1>2 DEF SweepFrame
      <3>2. QED
        BY <1>1, <3>1, Zenon
    <2>2. QED
      BY <1>2, <2>1, PartsNext
  <1>5. Work'
    BY <1>1, <1>3 DEF Work, Working
  <1>6. QED
    BY <1>2, <1>4, <1>5 DEF Base

\* A step of the janitor that only looks keeps the invariant.
LEMMA SweepKeeps ==
    ASSUME IInv, Sweep
    PROVE  IInv'
  <1>1. TypeParts /\ Work /\ Pass /\ Resolves /\ Young /\ Kept
    BY PartsAreTypeOK DEF IInv, Base
  <1>2. TypeParts' /\ SweepFrame /\ Pass'
    BY <1>1, SweepEffect
  <1>3. /\ UNCHANGED <<rec, files, cache, pc, mem, ran, recovered>>
        /\ age'.artifact = age.artifact /\ age'.entry = age.entry
        /\ ~due' /\ (due' = FALSE \/ due' = due) /\ faults' \in {faults, faults + 1}
        /\ jan'.at # "recover" /\ (jan'.at = "idle" => faults' = faults + 1)
    BY <1>2 DEF SweepFrame
  <1>4. Base'
    BY SweepBase DEF IInv
  <1>5. MemResolves' /\ ResultsResolve'
    BY <1>1, <1>3 DEF Resolves, MemResolves, ResultsResolve
  <1>6. OwnYoung' /\ ReplacedYoung'
    BY <1>1, <1>3 DEF Young, OwnYoung, ReplacedYoung, Producing, CacheHit
  <1>7. EntryYoung'
    <2> SUFFICES ASSUME cache \in files PROVE EntryYoung'
      BY <1>3 DEF EntryYoung
    <2>1. cache \in Artifacts /\ age.artifact[cache] \in Nat /\ faults \in Nat
      BY <1>1, AgeTypes DEF TypeParts
    <2>2. QED
      BY <1>1, <1>3, <2>1, Durations DEF Young, EntryYoung
  <1>8. HitsCached'
    BY <1>3 DEF HitsCached
  <1>9. KeepsUsed'
    BY <1>1, <1>2, SweepKeepsUsed
  <1>10. QED
    BY <1>2, <1>4, <1>5, <1>6, <1>7, <1>8, <1>9 DEF IInv, Resolves, Young, Kept

\* So does the removal of an artifact.
LEMMA RemoveArtifactBase == ASSUME Base, NEW a \in Artifacts, RemoveArtifact(a) PROVE Base'
  <1>1. TypeParts /\ Work /\ Pass /\ due \in BOOLEAN /\ recovered \in BOOLEAN
    BY PartsAreTypeOK DEF Base
  <1>2. /\ jan.at = "artifacts" /\ a \in files /\ a \notin jan.keep /\ Old(a) /\ files' = files \ {a} /\ ~due
        /\ UNCHANGED <<rec, staged, cache, pc, mem, ran, jan, due, recovered, since, crashes, faults, misses>>
    BY <1>1 DEF RemoveArtifact, OldFiles, Old, Pass, running
  <1>3. /\ age' \in Ages /\ age'.entry = age.entry
        /\ \A b \in Artifacts : age'.artifact[b] = IF b = a THEN 0 ELSE age.artifact[b]
    BY <1>1, Durations DEF RemoveArtifact, TypeParts, Ages
  <1>4. TypeOK'
    BY <1>1, <1>2, <1>3, PartsNext, Zenon DEF TypeParts
  <1>5. Work' /\ Pass'
    BY <1>1, <1>2 DEF Work, Working, Pass, Unfinished
  <1>6. QED
    BY <1>4, <1>5 DEF Base

\* An artifact that the janitor removes is used by nobody.
LEMMA RemoveArtifactKeeps ==
    ASSUME IInv, NEW a \in Artifacts, RemoveArtifact(a)
    PROVE  IInv'
  <1>1. TypeParts /\ Work /\ Pass /\ Resolves /\ Young /\ Kept
    BY PartsAreTypeOK DEF IInv, Base
  <1>2. /\ jan.at = "artifacts" /\ a \in files /\ a \notin jan.keep /\ Old(a) /\ files' = files \ {a} /\ ~due
        /\ UNCHANGED <<rec, staged, cache, pc, mem, ran, jan, due, recovered, since, crashes, faults, misses>>
    BY <1>1 DEF RemoveArtifact, OldFiles, Old, Pass, running
  <1>3. /\ age' \in Ages /\ age'.entry = age.entry
        /\ \A b \in Artifacts : age'.artifact[b] = IF b = a THEN 0 ELSE age.artifact[b]
    BY <1>1, Durations DEF RemoveArtifact, TypeParts, Ages
  <1>4. a # cache /\ \A j \in Jobs : a \notin {mem[j], rec[j].out}
    BY <1>1, <1>2 DEF Kept, KeepsUsed
  <1>5. Base'
    BY RemoveArtifactBase DEF IInv
  <1>6. MemResolves' /\ ResultsResolve'
    BY <1>1, <1>2, <1>4 DEF Resolves, MemResolves, ResultsResolve
  <1>7. \A j \in Jobs : mem[j] # NoArtifact => mem[j] \in Artifacts /\ age'.artifact[mem[j]] = age.artifact[mem[j]]
    BY <1>1, <1>3, <1>4 DEF TypeParts, MaybeArtifact
  <1>8. cache \in files' => cache \in files /\ cache \in Artifacts /\ age'.artifact[cache] = age.artifact[cache]
    BY <1>1, <1>2, <1>3, <1>4 DEF TypeParts
  <1>9. OwnYoung'
    BY <1>1, <1>2, <1>7 DEF Young, OwnYoung
  <1>10. EntryYoung'
    BY <1>1, <1>2, <1>3, <1>8 DEF Young, EntryYoung
  <1>11. ReplacedYoung'
    BY <1>1, <1>2, <1>8 DEF Young, ReplacedYoung, Producing, CacheHit
  <1>12. HitsCached'
    BY <1>2 DEF HitsCached
  <1>13. KeepsUsed'
    <2>1. \A b \in files' : b \in files /\ age'.artifact[b] = age.artifact[b]
      BY <1>1, <1>2, <1>3 DEF TypeParts
    <2>2. QED
      BY <1>1, <1>2, <2>1 DEF Kept, KeepsUsed, Old
  <1>14. QED
    BY <1>5, <1>6, <1>9, <1>10, <1>11, <1>12, <1>13 DEF IInv, Resolves, Young, Kept

\* The steps that leave artifacts, their ages and the cache alone, and touch only
\* records that name no artifact afterwards and that nobody works on.
RecordFrame ==
    /\ UNCHANGED <<files, cache, pc, mem, ran, due, recovered, faults>>
    /\ jan' = jan \/ jan'.at = "records"
    /\ age'.artifact = age.artifact /\ age'.entry = age.entry
    /\ \A j \in Jobs :
          \/ rec'[j] = rec[j]
          \/ /\ pc[j] = "idle" /\ rec'[j].planned = NoArtifact /\ rec'[j].out = NoArtifact
             /\ rec'[j].state # "absent" => rec'[j].input \in Inputs

\* They keep the types and what is said of the steps.
LEMMA RecordBase == ASSUME Base, TypeParts', RecordFrame, Pass' PROVE Base'
  <1>1. TypeParts /\ Work /\ Pass /\ due \in BOOLEAN /\ recovered \in BOOLEAN
    BY PartsAreTypeOK DEF Base
  <1>2. /\ UNCHANGED <<files, cache, pc, mem, ran, due, recovered, faults>>
        /\ jan' = jan \/ jan'.at = "records"
        /\ age'.artifact = age.artifact /\ age'.entry = age.entry
        /\ \A j \in Jobs :
              \/ rec'[j] = rec[j]
              \/ /\ pc[j] = "idle" /\ rec'[j].planned = NoArtifact /\ rec'[j].out = NoArtifact
                 /\ rec'[j].state # "absent" => rec'[j].input \in Inputs
    BY DEF RecordFrame
  <1>3. TypeOK'
    BY <1>1, <1>2, PartsNext, Zenon
  <1>4. \A j \in Jobs : pc[j] = "idle" => mem[j] = NoArtifact
    BY <1>1 DEF Work, Working
  <1>5. Work'
    BY <1>1, <1>2, <1>4 DEF Work, Working
  <1>6. QED
    BY <1>3, <1>5 DEF Base

\* They keep the invariant but for what is said of the pass.
LEMMA RecordKeeps ==
    ASSUME IInv, TypeParts', RecordFrame, Pass'
    PROVE  IInv'
  <1>1. TypeParts /\ Work /\ Pass /\ Resolves /\ Young /\ Kept
    BY PartsAreTypeOK DEF IInv, Base
  <1>2. /\ UNCHANGED <<files, cache, pc, mem, ran, due, recovered, faults>>
        /\ jan' = jan \/ jan'.at = "records"
        /\ age'.artifact = age.artifact /\ age'.entry = age.entry
        /\ \A j \in Jobs :
              \/ rec'[j] = rec[j]
              \/ /\ pc[j] = "idle" /\ rec'[j].planned = NoArtifact /\ rec'[j].out = NoArtifact
                 /\ rec'[j].state # "absent" => rec'[j].input \in Inputs
    BY DEF RecordFrame
  <1>3. Base'
    BY RecordBase DEF IInv
  <1>4. \A j \in Jobs : pc[j] = "idle" => mem[j] = NoArtifact
    BY <1>1 DEF Work, Working
  <1>5. MemResolves' /\ ResultsResolve'
    BY <1>1, <1>2 DEF Resolves, MemResolves, ResultsResolve
  <1>6. OwnYoung' /\ EntryYoung'
    BY <1>1, <1>2, <1>4 DEF Young, OwnYoung, EntryYoung
  <1>7. ReplacedYoung'
    BY <1>1, <1>2 DEF Young, ReplacedYoung, Producing, CacheHit
  <1>8. HitsCached'
    BY <1>1, <1>2, <1>4 DEF Kept, HitsCached, Unrecorded, Old
  <1>9. KeepsUsed'
    <2>1. \A a \in files : a # NoArtifact
      BY <1>1, RetentionAssumption DEF TypeParts
    <2>2. \A j \in Jobs, a \in files : a = rec'[j].out => a = rec[j].out
      BY <1>2, <2>1
    <2>3. QED
      BY <1>1, <1>2, <2>2 DEF Kept, KeepsUsed, Old
  <1>10. QED
    BY <1>3, <1>5, <1>6, <1>7, <1>8, <1>9 DEF IInv, Resolves, Young, Kept

\* An upload adds an input.
LEMMA UploadEffect ==
    ASSUME Base, NEW i \in Inputs, Upload(i)
    PROVE  TypeParts' /\ RecordFrame /\ Pass'
  <1>1. TypeParts /\ Pass
    BY PartsAreTypeOK DEF Base
  <1>2. age' \in Ages /\ age'.artifact = age.artifact /\ age'.entry = age.entry
    BY <1>1, Durations DEF Upload, TypeParts, Ages
  <1>3. TypeParts' /\ RecordFrame /\ Pass'
    BY <1>1, <1>2 DEF Upload, running, TypeParts, RecordFrame, Pass, Unfinished
  <1>4. QED
    BY <1>3

\* A job that is submitted during a pass is remembered as such.
LEMMA SubmitEffect ==
    ASSUME Base, NEW j \in Jobs, NEW i \in Inputs, Submit(j, i)
    PROVE  TypeParts' /\ RecordFrame /\ Pass'
  <1>1. TypeParts /\ Pass /\ Work
    BY PartsAreTypeOK DEF Base
  <1> DEFINE r == [Absent EXCEPT !.state = "queued", !.input = i]
  <1>2. r \in Records /\ r.state = "queued" /\ r.input = i /\ r.planned = NoArtifact /\ r.out = NoArtifact
    BY DEF Absent, Records, MaybeArtifact
  <1>3. Write(j, r) /\ rec[j].state = "absent"
    BY DEF Submit, Exists
  <1> HIDE DEF r
  <1>4. /\ rec' \in [Jobs -> Records] /\ age' \in Ages
        /\ rec'[j] = r /\ \A k \in Jobs : k # j => rec'[k] = rec[k]
        /\ age'.artifact = age.artifact /\ age'.entry = age.entry
    BY <1>1, <1>2, <1>3, WriteEffect
  <1>5. pc[j] = "idle"
    BY <1>1, <1>3 DEF Work, Working, TypeParts, Places
  <1>6. TypeParts'
    BY <1>1, <1>4 DEF Submit, running, TypeParts
  <1>7. RecordFrame
    BY <1>2, <1>4, <1>5 DEF Submit, running, RecordFrame
  <1>8. Pass'
    <2>1. jan' = jan /\ due' = due /\ recovered' = recovered /\ since' = since \cup {j} /\ jan.old \subseteq Jobs
      BY <1>1 DEF Submit, TypeParts, Passes
    <2>2. \A k \in jan.old : jan.at = "remove" => rec'[k].state = "completed"
      BY <1>1, <1>3, <1>4, <2>1 DEF Pass
    <2>3. QED
      BY <1>1, <1>4, <2>1, <2>2 DEF Pass, Unfinished
  <1>9. QED
    BY <1>6, <1>7, <1>8

\* A record that the janitor removes is one of a completed job.
LEMMA RemoveRecordEffect ==
    ASSUME Base, NEW j \in Jobs, RemoveRecord(j)
    PROVE  /\ TypeParts' /\ RecordFrame /\ Pass'
           /\ rec[j].state = "completed" /\ \A k \in Jobs : k # j => rec'[k] = rec[k]
  <1>1. TypeParts /\ Pass /\ Work
    BY PartsAreTypeOK DEF Base
  <1>2. /\ Write(j, Absent) /\ jan.at = "remove" /\ rec[j].state = "completed"
        /\ jan' = [jan EXCEPT !.at = "records", !.old = {}]
        /\ UNCHANGED <<files, staged, cache, pc, mem, ran, due, recovered, since, crashes, faults, misses>>
    BY <1>1 DEF RemoveRecord, Pass, running
  <1>3. Absent \in Records /\ Absent.state = "absent" /\ Absent.planned = NoArtifact /\ Absent.out = NoArtifact
    BY DEF Absent, Records, MaybeArtifact
  <1>4. /\ rec' \in [Jobs -> Records] /\ age' \in Ages
        /\ rec'[j] = Absent /\ \A k \in Jobs : k # j => rec'[k] = rec[k]
        /\ age'.artifact = age.artifact /\ age'.entry = age.entry
    BY <1>1, <1>2, <1>3, WriteEffect
  <1>5. pc[j] = "idle"
    BY <1>1, <1>2 DEF Work, Working, TypeParts, Places
  <1>6. jan' \in Passes /\ jan'.at = "records" /\ jan'.old = {}
    BY <1>1, <1>2 DEF TypeParts, Passes
  <1>7. TypeParts'
    BY <1>1, <1>2, <1>4, <1>6, FewOld DEF TypeParts
  <1>8. Pass'
    BY <1>1, <1>2, <1>6 DEF Pass
  <1>9. RecordFrame
    BY <1>2, <1>3, <1>4, <1>5, <1>6 DEF RecordFrame
  <1>10. QED
    BY <1>2, <1>4, <1>7, <1>8, <1>9

\* The cache entry may expire, and the pass is over.
LEMMA CleanupEntriesBase == ASSUME Base, CleanupEntries PROVE Base'
  <1>1. TypeParts /\ Work /\ Pass /\ due \in BOOLEAN /\ recovered \in BOOLEAN
    BY PartsAreTypeOK DEF Base
  <1>2. /\ jan.at = "entries" /\ ~due
        /\ UNCHANGED <<rec, files, staged, pc, mem, ran, due, recovered, crashes, faults, misses>>
        /\ since' = {}
    BY <1>1 DEF CleanupEntries, Pass, running
  <1>3. jan' \in Passes /\ jan'.at = (IF recovered THEN "idle" ELSE "recover") /\ jan'.old = {}
    BY DEF CleanupEntries, Idle, Passes
  <1>4. /\ age' \in Ages /\ age'.artifact = age.artifact
        /\ \/ cache' = NoArtifact
           \/ cache' = cache /\ age'.entry = age.entry /\ age.entry < CacheRetention
    <2>1. CASE age.entry >= CacheRetention
      BY <1>1, <2>1, Durations DEF CleanupEntries, TypeParts, Ages
    <2>2. CASE ~(age.entry >= CacheRetention)
      <3>1. age.entry < CacheRetention
        BY <1>1, <2>2, AgeTypes, Durations
      <3>2. QED
        BY <1>1, <2>2, <3>1 DEF CleanupEntries, TypeParts
    <2>3. QED
      BY <2>1, <2>2
  <1>5. TypeParts'
    BY <1>1, <1>2, <1>3, <1>4, FewOld DEF TypeParts, MaybeArtifact
  <1>6. TypeOK'
    BY <1>1, <1>2, <1>5, PartsNext, Zenon
  <1>7. Work'
    BY <1>1, <1>2 DEF Work, Working
  <1>8. Pass'
    BY <1>2, <1>3 DEF Pass
  <1>9. QED
    BY <1>6, <1>7, <1>8 DEF Base

\* The cache entry expires, and the pass is over.
LEMMA CleanupEntriesKeeps == ASSUME IInv, CleanupEntries PROVE IInv'
  <1>1. TypeParts /\ Work /\ Pass /\ Resolves /\ Young /\ Kept
    BY PartsAreTypeOK DEF IInv, Base
  <1>2. /\ jan.at = "entries" /\ ~due
        /\ UNCHANGED <<rec, files, staged, pc, mem, ran, due, recovered, crashes, faults, misses>>
        /\ since' = {}
    BY <1>1 DEF CleanupEntries, Pass, running
  <1>3. jan' \in Passes /\ jan'.at = (IF recovered THEN "idle" ELSE "recover") /\ jan'.old = {}
    BY DEF CleanupEntries, Idle, Passes
  <1>4. /\ age' \in Ages /\ age'.artifact = age.artifact
        /\ \/ cache' = NoArtifact
           \/ cache' = cache /\ age'.entry = age.entry /\ age.entry < CacheRetention
    <2>1. CASE age.entry >= CacheRetention
      BY <1>1, <2>1, Durations DEF CleanupEntries, TypeParts, Ages
    <2>2. CASE ~(age.entry >= CacheRetention)
      <3>1. age.entry < CacheRetention
        BY <1>1, <2>2, AgeTypes, Durations
      <3>2. QED
        BY <1>1, <2>2, <3>1 DEF CleanupEntries, TypeParts
    <2>3. QED
      BY <2>1, <2>2
  <1>5. TypeParts'
    BY <1>1, <1>2, <1>3, <1>4, FewOld DEF TypeParts, MaybeArtifact
  <1>6. Base'
    BY CleanupEntriesBase DEF IInv
  <1>7. MemResolves' /\ ResultsResolve' /\ OwnYoung'
    BY <1>1, <1>2, <1>4 DEF Resolves, MemResolves, ResultsResolve, Young, OwnYoung
  <1>8. NoArtifact \notin files
    BY <1>1, RetentionAssumption DEF TypeParts
  <1>9. EntryYoung'
    <2> SUFFICES ASSUME cache' \in files PROVE EntryYoung'
      BY <1>2 DEF EntryYoung
    <2>1. cache' = cache /\ age'.entry = age.entry /\ age.entry < CacheRetention
      BY <1>4, <1>8
    <2>2. age.artifact[cache] <= JobTicks + age.entry
      BY <1>1, <2>1 DEF Young, EntryYoung
    <2>3. cache \in Artifacts /\ age.artifact[cache] \in Nat /\ age.entry \in Nat /\ faults \in Nat
      BY <1>1, <2>1, AgeTypes DEF TypeParts
    <2>4. age.artifact[cache] < JobTicks + CacheRetention + faults
      BY <2>1, <2>2, <2>3, Durations
    <2>5. QED
      BY <1>2, <1>4, <2>1, <2>2, <2>3, <2>4, Durations DEF EntryYoung
  <1>10. ReplacedYoung'
    BY <1>1, <1>2, <1>4, <1>8 DEF Young, ReplacedYoung, Producing, CacheHit
  <1>11. HitsCached' /\ KeepsUsed'
    BY <1>2, <1>3 DEF HitsCached, KeepsUsed
  <1>12. QED
    BY <1>6, <1>7, <1>9, <1>10, <1>11 DEF IInv, Resolves, Young, Kept

\* While the process is down, no job is at work.
LEMMA DownIsIdle ==
    ASSUME TypeParts, Work, ~recovered, NEW j \in Jobs
    PROVE  pc[j] = "idle" /\ mem[j] = NoArtifact
  BY DEF TypeParts, Work, Working, Places

\* Recovery ends every job that was processing.
LEMMA RecoverBase == ASSUME Base, Recover PROVE Base'
  <1>1. TypeParts /\ Work /\ Pass /\ due \in BOOLEAN /\ recovered \in BOOLEAN
    BY PartsAreTypeOK DEF Base
  <1>2. /\ jan.at = "recover" /\ ~recovered /\ ~due /\ recovered' = TRUE
        /\ UNCHANGED <<files, staged, cache, pc, mem, ran, due, since, crashes, faults, misses>>
    BY <1>1 DEF Recover, Pass, running
  <1>3. jan' \in Passes /\ jan'.at = "idle" /\ jan'.old = {}
    BY DEF Recover, Idle, Passes
  <1>4. /\ age' \in Ages /\ age'.artifact = age.artifact /\ age'.entry = age.entry
    BY <1>1, Durations DEF Recover, TypeParts, Ages
  <1>5. \A j \in Jobs : pc[j] = "idle" /\ mem[j] = NoArtifact
    BY <1>1, <1>2, DownIsIdle
  <1>6. \A j \in Jobs : rec'[j] = IF rec[j].state = "processing" THEN Reconcile(j) ELSE rec[j]
    BY DEF Recover
  <1>7. \A j \in Jobs :
           /\ Reconcile(j) \in Records /\ Reconcile(j).state = "completed" /\ Reconcile(j).input = rec[j].input
           /\ Reconcile(j).out \in files \cup {NoArtifact}
    BY <1>1 DEF Reconcile, TypeParts, Records, MaybeArtifact
  <1>8. rec' \in [Jobs -> Records]
    BY <1>1, <1>7 DEF Recover, TypeParts
  <1>9. TypeParts'
    BY <1>1, <1>2, <1>3, <1>4, <1>8, FewOld DEF TypeParts
  <1>10. TypeOK'
    BY <1>1, <1>2, <1>9, PartsNext, Zenon
  <1>11. Work'
    BY <1>1, <1>2, <1>5, <1>6, <1>7 DEF Work, Working
  <1>12. Pass'
    BY <1>2, <1>3 DEF Pass
  <1>13. QED
    BY <1>10, <1>11, <1>12 DEF Base

\* Recovery ends every job that was processing, with an artifact that is there.
LEMMA RecoverKeeps == ASSUME IInv, Recover PROVE IInv'
  <1>1. TypeParts /\ Work /\ Pass /\ Resolves /\ Young /\ Kept
    BY PartsAreTypeOK DEF IInv, Base
  <1>2. /\ jan.at = "recover" /\ ~recovered /\ ~due /\ recovered' = TRUE
        /\ UNCHANGED <<files, staged, cache, pc, mem, ran, due, since, crashes, faults, misses>>
    BY <1>1 DEF Recover, Pass, running
  <1>3. jan' \in Passes /\ jan'.at = "idle" /\ jan'.old = {}
    BY DEF Recover, Idle, Passes
  <1>4. /\ age' \in Ages /\ age'.artifact = age.artifact /\ age'.entry = age.entry
    BY <1>1, Durations DEF Recover, TypeParts, Ages
  <1>5. \A j \in Jobs : pc[j] = "idle" /\ mem[j] = NoArtifact
    BY <1>1, <1>2, DownIsIdle
  <1>6. \A j \in Jobs : rec'[j] = IF rec[j].state = "processing" THEN Reconcile(j) ELSE rec[j]
    BY DEF Recover
  <1>7. \A j \in Jobs :
           /\ Reconcile(j) \in Records /\ Reconcile(j).state = "completed" /\ Reconcile(j).input = rec[j].input
           /\ Reconcile(j).out \in files \cup {NoArtifact}
    BY <1>1 DEF Reconcile, TypeParts, Records, MaybeArtifact
  <1>8. rec' \in [Jobs -> Records]
    BY <1>1, <1>7 DEF Recover, TypeParts
  <1>9. TypeParts'
    BY <1>1, <1>2, <1>3, <1>4, <1>8, FewOld DEF TypeParts
  <1>10. Base'
    BY RecoverBase DEF IInv
  <1>11. MemResolves' /\ OwnYoung'
    BY <1>2, <1>5 DEF MemResolves, OwnYoung
  <1>12. ResultsResolve'
    BY <1>1, <1>2, <1>6, <1>7 DEF Resolves, ResultsResolve
  <1>13. EntryYoung'
    <2> SUFFICES ASSUME cache \in files PROVE EntryYoung'
      BY <1>2 DEF EntryYoung
    <2>1. age.entry < CacheRetention /\ age.artifact[cache] <= JobTicks + age.entry
      BY <1>1, <1>2 DEF Young, EntryYoung
    <2>2. cache \in Artifacts /\ age.artifact[cache] \in Nat /\ age.entry \in Nat /\ faults \in Nat
      BY <1>1, AgeTypes DEF TypeParts
    <2>3. age.artifact[cache] < JobTicks + CacheRetention + faults
      BY <2>1, <2>2, Durations
    <2>4. QED
      BY <1>2, <1>3, <1>4, <2>1, <2>2, <2>3, Durations DEF EntryYoung
  <1>14. ReplacedYoung'
    BY <1>2, <1>5 DEF ReplacedYoung, Producing
  <1>15. HitsCached' /\ KeepsUsed'
    BY <1>2, <1>3 DEF HitsCached, KeepsUsed
  <1>16. QED
    BY <1>10, <1>11, <1>12, <1>13, <1>14, <1>15 DEF IInv, Resolves, Young, Kept

\* A crash leaves records and files, and a pass to come.
LEMMA CrashBase == ASSUME Base, Crash PROVE Base'
  <1>1. TypeParts /\ Work /\ Pass /\ due \in BOOLEAN /\ recovered \in BOOLEAN
    BY PartsAreTypeOK DEF Base
  <1>2. /\ due' = TRUE /\ recovered' = FALSE /\ since' = {}
        /\ UNCHANGED <<rec, files, staged, cache, age, faults, misses>>
        /\ crashes' \in 0 .. MaxCrashes
    BY <1>1, Durations DEF Crash, TypeParts
  <1>3. jan' \in Passes /\ jan'.at = "idle" /\ jan'.old = {}
    BY DEF Crash, Idle, Passes
  <1>4. /\ pc' \in [Jobs -> Places] /\ mem' \in [Jobs -> MaybeArtifact] /\ ran' \in [Jobs -> 0 .. JobTicks]
        /\ \A j \in Jobs : pc'[j] = "idle" /\ mem'[j] = NoArtifact
    BY Durations DEF Crash, Places, MaybeArtifact
  <1>5. TypeOK'
    <2>1. TypeParts'
      BY <1>1, <1>2, <1>3, <1>4, FewOld DEF TypeParts
    <2>2. due' \in BOOLEAN /\ recovered' \in BOOLEAN
      BY <1>2
    <2>3. QED
      BY <2>1, <2>2, PartsNext
  <1>6. Work' /\ Pass'
    BY <1>1, <1>2, <1>3, <1>4 DEF Work, Working, Pass
  <1>7. QED
    BY <1>5, <1>6 DEF Base

\* A crash leaves records and files, and a pass to come.
LEMMA CrashKeeps == ASSUME IInv, Crash PROVE IInv'
  <1>1. TypeParts /\ Work /\ Pass /\ Resolves /\ Young /\ Kept
    BY PartsAreTypeOK DEF IInv, Base
  <1>2. /\ due' = TRUE /\ recovered' = FALSE /\ since' = {}
        /\ UNCHANGED <<rec, files, staged, cache, age, faults, misses>>
        /\ crashes' \in 0 .. MaxCrashes
    BY <1>1, Durations DEF Crash, TypeParts
  <1>3. jan' \in Passes /\ jan'.at = "idle" /\ jan'.old = {}
    BY DEF Crash, Idle, Passes
  <1>4. /\ pc' \in [Jobs -> Places] /\ mem' \in [Jobs -> MaybeArtifact] /\ ran' \in [Jobs -> 0 .. JobTicks]
        /\ \A j \in Jobs : pc'[j] = "idle" /\ mem'[j] = NoArtifact
    BY Durations DEF Crash, Places, MaybeArtifact
  <1>5. Base'
    BY CrashBase DEF IInv
  <1>6. MemResolves' /\ ResultsResolve' /\ OwnYoung'
    BY <1>1, <1>2, <1>4 DEF Resolves, MemResolves, ResultsResolve, OwnYoung
  <1>7. EntryYoung' /\ ReplacedYoung'
    BY <1>1, <1>2, <1>3, <1>4 DEF Young, EntryYoung, ReplacedYoung, Producing
  <1>8. HitsCached' /\ KeepsUsed'
    BY <1>3, <1>4 DEF HitsCached, Unrecorded, KeepsUsed
  <1>9. QED
    BY <1>5, <1>6, <1>7, <1>8 DEF IInv, Resolves, Young, Kept

\* Everything that is there gets older by at most a tick, and so does every run.
LEMMA TickEffect ==
    ASSUME TypeParts, Tick
    PROVE  /\ TypeParts'
           /\ \A a \in Artifacts : age'.artifact[a] <= age.artifact[a] + 1
           /\ age'.entry = IF cache # NoArtifact /\ age.entry < CacheRetention THEN age.entry + 1 ELSE age.entry
           /\ \A j \in Jobs : ran'[j] = IF pc[j] = "idle" THEN 0 ELSE ran[j] + 1
  <1>1. age \in Ages /\ ran \in [Jobs -> 0 .. JobTicks] /\ pc \in [Jobs -> Places]
    BY DEF TypeParts
  <1>2. \A j \in Jobs : pc[j] # "idle" => ran[j] < JobTicks
    BY DEF Tick
  <1>3. /\ ran' = [j \in Jobs |-> IF pc[j] = "idle" THEN 0 ELSE ran[j] + 1]
        /\ ran' \in [Jobs -> 0 .. JobTicks]
    BY <1>1, <1>2, Durations DEF Tick
  <1> DEFINE records   == [j \in Jobs |-> IF Exists(j) THEN Older(age.record, StateRetention)[j] ELSE 0]
             artifacts == [a \in Artifacts |-> IF a \in files THEN Older(age.artifact, ArtifactRetention)[a] ELSE 0]
             inputs    == [i \in Inputs |-> IF i \in staged THEN Older(age.input, StagingRetention)[i] ELSE 0]
             entry     == IF cache # NoArtifact /\ age.entry < CacheRetention THEN age.entry + 1 ELSE age.entry
  <1>4. age' = [record |-> records, artifact |-> artifacts, input |-> inputs, entry |-> entry]
    BY DEF Tick
  <1>5. records \in [Jobs -> 0 .. StateRetention]
    BY <1>1, Durations DEF Older, Ages
  <1>6. /\ artifacts \in [Artifacts -> 0 .. ArtifactRetention]
        /\ \A a \in Artifacts : artifacts[a] <= age.artifact[a] + 1
    BY <1>1, Durations DEF Older, Ages
  <1>7. inputs \in [Inputs -> 0 .. StagingRetention]
    BY <1>1, Durations DEF Older, Ages
  <1>8. entry \in 0 .. CacheRetention
    BY <1>1, Durations DEF Ages
  <1> HIDE DEF records, artifacts, inputs, entry
  <1>9. age' \in Ages /\ age'.artifact = artifacts /\ age'.entry = entry
    BY <1>4, <1>5, <1>6, <1>7, <1>8 DEF Ages
  <1>10. TypeParts'
    BY <1>3, <1>9 DEF Tick, TypeParts
  <1>11. QED
    BY <1>3, <1>6, <1>9, <1>10 DEF entry

\* Time passes, and the next pass is due.
LEMMA TickBase == ASSUME Base, Tick PROVE Base'
  <1>1. TypeParts /\ Work /\ Pass /\ due \in BOOLEAN /\ recovered \in BOOLEAN
    BY PartsAreTypeOK DEF Base
  <1>2. /\ jan.at = "idle" /\ (recovered => ~due) /\ due' = TRUE /\ \A j \in Jobs : ~Unrecorded(j)
        /\ UNCHANGED <<rec, files, staged, cache, pc, mem, jan, recovered, since, crashes, faults, misses>>
    BY DEF Tick
  <1>3. /\ TypeParts'
        /\ \A a \in Artifacts : age'.artifact[a] <= age.artifact[a] + 1
        /\ age'.entry = IF cache # NoArtifact /\ age.entry < CacheRetention THEN age.entry + 1 ELSE age.entry
        /\ \A j \in Jobs : ran'[j] = IF pc[j] = "idle" THEN 0 ELSE ran[j] + 1
    BY <1>1, TickEffect
  <1>4. TypeOK'
    <2>1. due' \in BOOLEAN /\ recovered' \in BOOLEAN
      BY <1>1, <1>2, Zenon
    <2>2. QED
      BY <1>3, <2>1, PartsNext
  <1>5. Work' /\ Pass'
    BY <1>1, <1>2 DEF Work, Working, Pass
  <1>6. QED
    BY <1>4, <1>5 DEF Base

\* A tick keeps the invariant: it waits for the pass and for cache hits that are
\* not on record.
LEMMA TickKeeps == ASSUME IInv, Tick PROVE IInv'
  <1>1. TypeParts /\ Work /\ Pass /\ Resolves /\ Young /\ Kept
    BY PartsAreTypeOK DEF IInv, Base
  <1>2. /\ jan.at = "idle" /\ (recovered => ~due) /\ due' = TRUE /\ \A j \in Jobs : ~Unrecorded(j)
        /\ UNCHANGED <<rec, files, staged, cache, pc, mem, jan, recovered, since, crashes, faults, misses>>
    BY DEF Tick
  <1>3. /\ TypeParts'
        /\ \A a \in Artifacts : age'.artifact[a] <= age.artifact[a] + 1
        /\ age'.entry = IF cache # NoArtifact /\ age.entry < CacheRetention THEN age.entry + 1 ELSE age.entry
        /\ \A j \in Jobs : ran'[j] = IF pc[j] = "idle" THEN 0 ELSE ran[j] + 1
    BY <1>1, TickEffect
  <1>4. Base'
    BY TickBase DEF IInv
  <1>5. MemResolves' /\ ResultsResolve'
    BY <1>1, <1>2 DEF Resolves, MemResolves, ResultsResolve
  <1>6. \A a \in Artifacts : age'.artifact[a] \in Nat
    BY <1>3, Durations DEF TypeParts, Ages
  <1>7. OwnYoung'
    <2> SUFFICES ASSUME NEW j \in Jobs, mem[j] # NoArtifact, mem[j] = rec[j].planned
                 PROVE  age'.artifact[mem[j]] <= ran'[j]
      BY <1>2 DEF OwnYoung
    <2>1. mem[j] \in Artifacts /\ age.artifact[mem[j]] <= ran[j] /\ pc[j] # "idle"
      BY <1>1 DEF TypeParts, MaybeArtifact, Young, OwnYoung, Work, Working
    <2>2. ran[j] \in Nat /\ age.artifact[mem[j]] \in Nat
      BY <1>1, <2>1, AgeTypes
    <2>3. QED
      BY <1>3, <1>6, <2>1, <2>2
  <1>8. cache \in files => /\ cache \in Artifacts /\ cache # NoArtifact
                           /\ age.artifact[cache] \in Nat /\ age'.artifact[cache] \in Nat
                           /\ age'.artifact[cache] <= age.artifact[cache] + 1
    BY <1>1, <1>3, <1>6, AgeTypes, RetentionAssumption DEF TypeParts
  <1>9. EntryYoung'
    <2> SUFFICES ASSUME cache \in files PROVE EntryYoung'
      BY <1>2 DEF EntryYoung
    <2>1. age.entry \in Nat /\ faults \in Nat
      BY <1>1, AgeTypes
    <2>2. age'.entry < CacheRetention => age'.artifact[cache] <= JobTicks + age'.entry
      BY <1>1, <1>3, <1>8, <2>1, Durations DEF Young, EntryYoung
    <2>3. recovered => age'.artifact[cache] <= JobTicks + CacheRetention + faults
      BY <1>1, <1>2, <1>8, <2>1, Durations DEF Young, EntryYoung
    <2>4. QED
      BY <1>2, <2>2, <2>3 DEF EntryYoung
  <1>10. ReplacedYoung'
    <2> SUFFICES ASSUME MaxMisses = 0, NEW j \in Jobs, Producing(j), cache \in files
                 PROVE  age'.artifact[cache] <= JobTicks + ran'[j]
      BY <1>2 DEF ReplacedYoung, Producing, CacheHit
    <2>1. pc[j] # "idle" /\ age.artifact[cache] <= JobTicks + ran[j] /\ ran[j] \in Nat
      BY <1>1, AgeTypes DEF Producing, Young, ReplacedYoung
    <2>2. QED
      BY <1>3, <1>8, <2>1, Durations
  <1>11. HitsCached' /\ KeepsUsed'
    BY <1>2 DEF HitsCached, Unrecorded, KeepsUsed
  <1>12. QED
    BY <1>4, <1>5, <1>7, <1>9, <1>10, <1>11 DEF IInv, Resolves, Young, Kept

-------------------------------------------------------------------------------
\* The invariants.

\* Nothing happens.
LEMMA StutterKeeps ==
    ASSUME UNCHANGED vars
    PROVE  (Base => Base') /\ (IInv => IInv')
  <1>1. UNCHANGED <<rec, files, staged, cache, age, pc, mem, ran, jan, due, recovered, since, crashes, faults, misses>>
    BY DEF vars, running
  <1>2. Base => Base'
    BY <1>1 DEF Base, TypeOK, Work, Working, Pass, Unfinished
  <1>3. IInv => IInv'
    BY <1>1, <1>2 DEF IInv, Resolves, MemResolves, ResultsResolve, Young, OwnYoung, EntryYoung, ReplacedYoung,
                      Producing, CacheHit, Kept, HitsCached, Unrecorded, KeepsUsed, Old
  <1>4. QED
    BY <1>2, <1>3

\* At the start nobody works on anything.
LEMMA InvInit == Init => IInv
  <1> SUFFICES ASSUME Init PROVE IInv
    OBVIOUS
  <1>1. TypeOK
    BY TypeInit
  <1>2. Work /\ Pass
    BY DEF Init, Work, Working, Pass, Idle, Absent, Unfinished
  <1>3. Resolves /\ Young
    BY DEF Init, Resolves, MemResolves, ResultsResolve, Young, OwnYoung, EntryYoung, ReplacedYoung, Absent
  <1>4. Kept
    BY DEF Init, Kept, HitsCached, KeepsUsed, Idle
  <1>5. QED
    BY <1>1, <1>2, <1>3, <1>4 DEF IInv, Base

\* The types and what is said of the steps are inductive.
LEMMA BaseStep == Base /\ [Next]_vars => Base'
  <1> SUFFICES ASSUME Base, [Next]_vars PROVE Base'
    OBVIOUS
  <1>1. ASSUME NEW j \in Jobs, Start(j) \/ Item(j) PROVE Base'
    BY <1>1, WorkBase
  <1>2. CASE Sweep
    BY <1>2, SweepBase
  <1>3. ASSUME TypeParts', RecordFrame, Pass' PROVE Base'
    BY <1>3, RecordBase
  <1>4. ASSUME NEW i \in Inputs, Upload(i) PROVE Base'
    BY <1>3, <1>4, UploadEffect
  <1>5. ASSUME NEW j \in Jobs, NEW i \in Inputs, Submit(j, i) PROVE Base'
    BY <1>3, <1>5, SubmitEffect
  <1>6. ASSUME NEW j \in Jobs, RemoveRecord(j) PROVE Base'
    BY <1>3, <1>6, RemoveRecordEffect
  <1>7. ASSUME NEW a \in Artifacts, RemoveArtifact(a) PROVE Base'
    BY <1>7, RemoveArtifactBase
  <1>8. CASE CleanupEntries
    BY <1>8, CleanupEntriesBase
  <1>9. CASE Recover
    BY <1>9, RecoverBase
  <1>10. CASE Crash
    BY <1>10, CrashBase
  <1>11. CASE Tick
    BY <1>11, TickBase
  <1>12. CASE UNCHANGED vars
    BY <1>12, StutterKeeps
  <1>13. CASE Cleanup \/ GiveUp
    BY <1>2, <1>6, <1>7, <1>8, <1>13 DEF Cleanup, Sweep
  <1>14. QED
    BY <1>1, <1>4, <1>5, <1>9, <1>10, <1>11, <1>12, <1>13 DEF Next

\* So is the invariant, for the retentions that Spaced describes.
LEMMA InvStep == ASSUME Spaced PROVE IInv /\ [Next]_vars => IInv'
  <1> SUFFICES ASSUME IInv, [Next]_vars PROVE IInv'
    OBVIOUS
  <1>1. ASSUME NEW j \in Jobs, Start(j) \/ Item(j) PROVE IInv'
    BY <1>1, WorkKeeps
  <1>2. CASE Sweep
    BY <1>2, SweepKeeps
  <1>3. ASSUME TypeParts', RecordFrame, Pass' PROVE IInv'
    BY <1>3, RecordKeeps
  <1>4. ASSUME NEW i \in Inputs, Upload(i) PROVE IInv'
    BY <1>3, <1>4, UploadEffect DEF IInv
  <1>5. ASSUME NEW j \in Jobs, NEW i \in Inputs, Submit(j, i) PROVE IInv'
    BY <1>3, <1>5, SubmitEffect DEF IInv
  <1>6. ASSUME NEW j \in Jobs, RemoveRecord(j) PROVE IInv'
    BY <1>3, <1>6, RemoveRecordEffect DEF IInv
  <1>7. ASSUME NEW a \in Artifacts, RemoveArtifact(a) PROVE IInv'
    BY <1>7, RemoveArtifactKeeps
  <1>8. CASE CleanupEntries
    BY <1>8, CleanupEntriesKeeps
  <1>9. CASE Recover
    BY <1>9, RecoverKeeps
  <1>10. CASE Crash
    BY <1>10, CrashKeeps
  <1>11. CASE Tick
    BY <1>11, TickKeeps
  <1>12. CASE UNCHANGED vars
    BY <1>12, StutterKeeps
  <1>13. CASE Cleanup \/ GiveUp
    BY <1>2, <1>6, <1>7, <1>8, <1>13 DEF Cleanup, Sweep
  <1>14. QED
    BY <1>1, <1>4, <1>5, <1>9, <1>10, <1>11, <1>12, <1>13 DEF Next

-------------------------------------------------------------------------------
\* The theorems.

\* Records, files, ages and the janitor's pass have the forms the code gives them.
THEOREM TypeCorrect == Spec => []TypeOK
  <1>1. Init => Base
    BY InvInit DEF IInv
  <1>2. Base => TypeOK
    BY DEF Base
  <1>3. QED
    BY <1>1, <1>2, BaseStep, PTL DEF Spec

\* An artifact that a record reports is there, for any number of jobs, artifacts
\* and uploads, wherever the process crashes and however passes are given up, if
\* the retentions are Spaced.
THEOREM ResultsResolveCorrect == ASSUME Spaced PROVE Spec => []ResultsResolve
  <1>1. IInv => ResultsResolve
    BY DEF IInv, Resolves
  <1>2. QED
    BY <1>1, InvInit, InvStep, PTL DEF Spec

\* A job that is queued or running never loses its record to the janitor, who
\* looks at the age, looks at the state and removes in three steps.
THEOREM UnfinishedStayCorrect == Spec => UnfinishedStay
  <1> DEFINE Stay == \A j \in Jobs : Unfinished(j) => rec'[j].state # "absent"
  <1>1. Init => Base
    BY InvInit DEF IInv
  <1>2. Base /\ [Next]_vars => [Stay]_vars
    <2> SUFFICES ASSUME Base, Next, NEW k \in Jobs, Unfinished(k)
                 PROVE  rec'[k].state # "absent"
      OBVIOUS
    <2>1. /\ rec[k].state \in {"queued", "processing"} /\ rec[k].state # "absent" /\ rec[k].state # "completed"
          /\ TypeParts /\ Work
      BY PartsAreTypeOK DEF Unfinished, Base
    <2>2. ASSUME NEW j \in Jobs, Start(j) \/ Item(j) PROVE rec'[k].state # "absent"
      <3>1. WorkFrame(j)
        BY <2>1, <2>2, WorkEffect
      <3>2. rec'[j].state \in {"processing", "completed"} /\ (k # j => rec'[k] = rec[k])
        BY <3>1 DEF WorkFrame
      <3>3. QED
        BY <2>1, <3>2
    <2>3. ASSUME NEW j \in Jobs, NEW i \in Inputs, Submit(j, i) PROVE rec'[k].state # "absent"
      BY <2>1, <2>3 DEF Submit, Exists, Write, TypeParts
    <2>4. ASSUME NEW j \in Jobs, RemoveRecord(j) PROVE rec'[k].state # "absent"
      BY <2>1, <2>4, RemoveRecordEffect
    <2>5. CASE Recover
      <3>1. rec' = [j \in Jobs |-> IF j \in {l \in Jobs : rec[l].state = "processing"} THEN Reconcile(j) ELSE rec[j]]
        BY <2>5 DEF Recover
      <3>2. Reconcile(k).state = "completed"
        BY <2>1 DEF Reconcile, TypeParts, Records
      <3>3. QED
        BY <2>1, <3>1, <3>2
    <2>6. CASE UNCHANGED rec
      BY <2>1, <2>6
    <2>7. CASE Cleanup
      BY <2>4, <2>6, <2>7 DEF Cleanup, ListRecords, ReferencedArtifacts, RemoveArtifact, ArtifactsDone, RemoveInput,
                              StagingDone, SeeOld, LookAt, RecordsDone, CleanupEntries
    <2>8. CASE GiveUp \/ Crash \/ Tick
      BY <2>6, <2>8 DEF GiveUp, Crash, Tick
    <2>9. CASE \E i \in Inputs : Upload(i)
      BY <2>6, <2>9 DEF Upload
    <2>10. QED
      BY <2>2, <2>3, <2>5, <2>7, <2>8, <2>9 DEF Next
  <1>3. QED
    BY <1>1, <1>2, BaseStep, PTL DEF Spec, UnfinishedStay

\* A staged input goes only if no unfinished job needs it, but for the jobs that
\* were submitted while the pass was under way.
THEOREM InputsStayCorrect == Spec => InputsStay
  <1> DEFINE Stay == \A i \in staged \ staged' : \A j \in Jobs : Unfinished(j) /\ rec[j].input = i => j \in since
  <1>1. Init => Base
    BY InvInit DEF IInv
  <1>2. Base /\ [Next]_vars => [Stay]_vars
    <2> SUFFICES ASSUME Base, Next, NEW i \in staged \ staged', NEW k \in Jobs, Unfinished(k), rec[k].input = i
                 PROVE  k \in since
      OBVIOUS
    <2>1. \E l \in Inputs : RemoveInput(l)
      <3>1. ~(\E l \in Inputs : Upload(l))
        BY DEF Upload
      <3>2. ~(\E l \in Inputs : \E j \in Jobs : Submit(j, l))
        BY DEF Submit
      <3>3. ~(\E j \in Jobs : Start(j) \/ Item(j))
        BY PartsAreTypeOK, WorkEffect DEF Base, WorkFrame
      <3>4. ~Recover /\ ~Crash /\ ~Tick /\ ~GiveUp
        BY DEF Recover, Crash, Tick, GiveUp
      <3>5. Cleanup
        BY <3>1, <3>2, <3>3, <3>4 DEF Next
      <3>6. QED
        BY <3>5 DEF Cleanup, ListRecords, ReferencedArtifacts, RemoveArtifact, ArtifactsDone, RemoveInput,
                    StagingDone, SeeOld, LookAt, RemoveRecord, RecordsDone, CleanupEntries
    <2>2. jan.at = "staging" /\ i \notin jan.inputs
      BY <2>1 DEF RemoveInput, OldInputs
    <2>3. QED
      BY <2>2 DEF Base, Pass
  <1>3. QED
    BY <1>1, <1>2, BaseStep, PTL DEF Spec, InputsStay
====
