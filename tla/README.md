# Media converter: specifications, model checking and proofs

The service in `src/` accepts conversion jobs over HTTP, keeps a JSON record per
job in a state directory, runs the items of a job through ffmpeg or ImageMagick,
commits the results as artifact files and recovers unfinished jobs after a
restart. This directory holds TLA+ modules of its core, TLC configurations that
model-check them, and TLAPS proofs.

    tlc -workers 2 -config MCJobLifecycle_safe.cfg MCJobLifecycle
    tlapm JobLifecycle_proofs.tla

Every safety invariant and action property that a passing run checks is also
proved (section 4); what only TLC checks is liveness.

## 1. The system

| Component | State it keeps | Operations | Talks to |
|---|---|---|---|
| Job manager (`internal/job/manager.go`) | bounded channel `queue`, mutex `mu`, worker goroutines, per job a `progressTracker` (record and its lock), results | `Submit`, `Recover`, `worker`, `processJob`, `processItem`, `commitResult`, `Cleanup`, `StopWithContext` | state store, storage, cache, pipelines |
| State store (`internal/state`) | one JSON file per job, replaced by temporary file, fsync and rename | `Get`, `Put`, `Delete`, `List`, `CleanupOld` | file system |
| Result cache (`internal/cache`) | one JSON file per cache key | `Get`, `Put`, `ReferencedArtifacts`, `CleanupOld` | file system |
| Artifact storage (`internal/storage`) | input root (staged uploads), output root (committed artifacts, `.tmp`), legacy root | `Stage`, `OpenInput`, `Begin`, `CopyOutput`, `Commit`, `Remove`, `OpenCommitted`, the cleanups | file system, mount table |
| Application (`internal/app/run.go`) | `recovered`, `recoveryMu` | start, first recovery, janitor and WebDAV tickers, shutdown | all of them |
| HTTP API (`internal/httpapi`) | `ready`, `staticReady`, checks, `readinessInFlight` | jobs, downloads, artifacts, readiness probe | job manager, storage |
| Tool runner (`internal/processor`) | one process group per call | run with a deadline and an output limit | operating system |
| Pipelines, detection (`internal/media*`, `internal/detection`) | none | process, validate, thumbnail, probe | tool runner |
| Domain (`internal/domain`) | none | `Normalized`, `ValidatePolicy`, `Aggregate` | - |
| Configuration, metrics (`internal/config`, `internal/observability`) | constants; counters | `Load`; `Record*` | - |

**How they interact.** A handler that finds the service ready calls `Submit`,
which holds `mu` from the lookup of the job to the answer: it writes the record
as queued, tries a non-blocking send on `queue` and deletes the record again when
the queue is full. A worker takes a job, loads its record, writes it as
processing, writes a fresh progress list, and starts item goroutines that share
one `progressTracker`; every change of an item's progress writes the whole
record. The last write turns the record into completed. At start `app.Run` calls
`Cleanup` and `Recover` before it listens, unless the WebDAV output mount is
absent or that attempt fails: then the tickers try again while HTTP is served.
`Recover` lists the store, completes jobs that were processing from their
progress, and sends jobs that were queued to the queue.

**What is hard.** Several goroutines write one record (Submit, a worker and its
items, Recover); the queue is bounded on both sides of Recover; every write may
fail after three attempts and the callers react differently (drop the job, fail
the item, ignore it); the process may stop between any two writes; an artifact is
visible before the record says so; recovery must reach the result that the job
would have had; a mount may vanish between a check and its use; retention deletes
files by age while conversions refer to them.

**What makes each component correct.**

* Job manager: a job is in one pair of hands at a time; an accepted request
  stays, unchanged, until it completes, and it does complete; a completed record
  never changes; a durable item verdict survives recovery; recovery terminates.
* Item commit: success is reported only for an artifact that is there and
  matches its hash; a crash at any point neither loses a committed artifact nor
  changes a reported result; the cache hands out only recorded artifacts.
* State store: records change atomically; a concurrent cleanup removes only old
  completed records.
* Storage and cache retention: nothing a record, a cache entry or a running
  conversion still refers to is removed.
* Budgets: what is accepted never exceeds the limits, and a rejected reservation
  leaves no trace.
* Readiness: a stopping service stays unready; one probe at a time; a hung probe
  does not report ready.
* Tool runner: no oversized output is reported as a success, no process
  outlives its call, and a cancelled call returns whatever the tool does.
* Pipelines: a reported success satisfies the processing contract, whatever the
  tools wrote; what the documents list as an input is accepted.
* Domain: a job runs under the policy that its client sent, also after a restart,
  and its outcome fits what became of its items.

The hazards behind these are listed, each at its line, in `PROJECT.json`.

## 2. Modules

| Module | Stands for |
|---|---|
| `JobSpec` | the abstract job service: what a client of the job API can see of a job |
| `ItemVerdicts` | the vocabulary shared by the next two: progress states, statuses, and the verdicts recovery may give |
| `JobLifecycle` | Submit, queue, workers, records, Recover, start, shutdown, crash |
| `JobLifecycle_proofs` | theorems about `JobLifecycle` |
| `MCJobLifecycle` | symmetry for TLC |
| `ItemCommit` | one item from the cache lookup to its committed artifact, crash, and reconciliation |
| `ItemCommit_proofs` | theorems about `ItemCommit` |
| `MCItemCommit` | the shared cache key and symmetry for TLC |
| `Retention`, `MCRetention` | `Manager.Cleanup` against everything that uses the files it removes |
| `Retention_proofs` | theorems about `Retention` |
| `JobBudget`, `MCJobBudget` | the byte, pixel and duration budgets that the items of a job share |
| `JobBudget_proofs` | theorems about `JobBudget`, with the lemmas about sums over sets that they need |
| `NatSets` | least elements and induction for sets of natural numbers |
| `Readiness`, `MCReadiness` | readiness probes, their time-outs, and the shutdown's `SetReady` |
| `Readiness_proofs` | theorems about `Readiness` |
| `ToolRunner` | one call of a converter or a probe: the caller, the monitor of the output's size, the process group |
| `Faststart` | `hasFaststart` on files made of boxes |
| `Faststart_proofs` | `hasFaststart` is right for every layout of boxes |
| `JobPolicy` | a policy from the request to the worker: decoded, normalized, validated, saved, loaded |
| `MediaItem`, `MCMediaItem` | one item from the uploaded file to its validated output and thumbnail; extends the three above |
| `MediaItem_proofs` | theorems about `MediaItem` |

### JobLifecycle

A step is what another goroutine can see: one read or write of the state store,
or one operation on the queue.

| Variable | Code |
|---|---|
| `disk` | the records of the state store: state, request, progress, result |
| `queue` | `Manager.queue` |
| `sub`, `subReq` | the `Submit` that holds `Manager.mu` between its Put and its answer |
| `pc`, `job`, `mem`, `item`, `res` | each worker: where it is in `processJob`, its job, `progressTracker.record`, its item goroutines, its results |
| `phase`, `ready` | `app.Run`: before the listener, serving, stopping; `Server.ready` |
| `recovered`, `recovering`, `snap` | `app.Run`'s flag; a `Recover` under way and what is left of its list |
| `acked` | history: the request a client was told is accepted |

`SubmitPut`, `SubmitSend`, `SubmitReject`, `SubmitReplay` are the paths of
`Submit`; `Dequeue` to `Complete` those of `worker` and `processJob`, where
`ItemStart` to `ItemFail` are the writes of one item; `RecoverBegin` to
`RecoverDone` those of `Recover`, and `RecoverFails`, `DeferRecovery`,
`MountReturns` what `app.Run` does around it; `Shutdown`, `Exit`, `Crash` end the
process, and `Restart` is the next one's initial state (the deployment templates
restart it). A failing write (`StoreFails`) stands for all three attempts of
`persistState`, or for the Delete of a rejected job, which also fails when the
client has gone. After a failing write of a progress update the change stays in
memory, as in `progressTracker.update`.

Abstractions: requests are told apart only by their hash; `List` is one snapshot
(exact while nothing else runs, that is, before HTTP is served) and reads every
record; records do not expire within a behaviour; the phase "stopping" begins
when the manager's context is cancelled.

`LateRecovery` separates two worlds. If it is FALSE, recovery is over before
HTTP is served: a local output directory, or a mount that is there, and a first
attempt that succeeds. If it is TRUE, the first attempt may be deferred or fail,
and the tickers repeat it while jobs are accepted and run.

### ItemCommit

`disk`, `mem` and `res` are as above, with the progress of an item in full:
state, planned identities, result with artifact, hash and thumbnail. `files` is
the output directory with each file's content (as written, altered, absent),
`cache` the result cache, `pc` where each item goroutine is. Each action is a
write of the progress record, a rename, or a cache access; a conversion is only
its outcome. `Convert` may follow any lookup: `readCachedResult` also misses when the entry or
the artifact is intact but cannot be read just then. `Appears`, `PublishFails` and `Remove` are what the storage calls do to
`files`. A crash may come between any two actions, and while the process is
down somebody may alter or remove a file. `Recover` is `reconcileProgress` with
every early return; when the output directory cannot be read it takes the path
the code takes (`VerdictBlind`): a mount that is gone looks like missing files.

`MarkFailed` is a step of its own because the code changes the result through a
shared pointer after the failing write: a write of another item in between takes
the success along.

The two modules meet in `ItemVerdicts`. `JobLifecycle` lets recovery choose any
verdict in `Reconciled` of the abstract progress; `RecoveryFitsLifecycle` checks
that `ItemCommit`, with files and hashes, never gives another.

### Retention

`rec`, `files`, `staged` and `cache` are the four directories that `Cleanup`
goes through, `age` the ticks since each file in them was written, `pc` and `mem`
the item of each running job, `jan` the janitor: its step in `Cleanup`, `keep`
and `inputKeep`, and the record it looks at. `ListRecords`,
`ReferencedArtifacts`, `RemoveArtifact`, `RemoveInput`, `SeeOld` / `LookAt` /
`RemoveRecord` and `CleanupEntries` are the calls of `Cleanup` in their order;
`GiveUp` its error returns. `Upload`, `Submit` and `Start` to `Finish` run beside
it. After `Crash` any number of ticks may pass; then one pass and `Recover` come
before HTTP is served, as in `app.Run`.

An age stops growing at its retention, so the model needs no bound on time. A
tick is a `JANITOR_INTERVAL`: a pass is shorter, one pass follows each tick, and
a cache hit is on record before the next pass. The last point rests on
`JOB_TIMEOUT < JANITOR_INTERVAL` (45 minutes and one hour by default); the
module's assumption `2 * JobTicks < ArtifactRetention` says that two runs of a job
are shorter than `ARTIFACT_RETENTION`. The configuration accepts any positive
durations, so these are assumptions on the deployment: without them TLC finds
results whose artifact is gone. Listing the records is one step; reading a
record later in the listing only shows more references.

### Readiness

`ready`, `static`, `inFlight` and `recent` are the fields of `Server`; `mount` is
what the probe asks for. A probe is two goroutines, `ask` and `wait`, and
`publish` is `finishReadinessProbe` taken apart: `LoadStatic`, `StoreReady`,
`ClearInFlight`. `Schedule` and `Refresh` start a probe; in the first the goroutine
with the timer publishes, in the second the one that asks, and `GivesUp` is its
caller's time-out. `MarkStatic` and `MarkReady` are the two stores of
`SetReady(false)`.

### JobBudget

`inputBytes`, `pixels`, `durationMS` are the counters of `jobBudget`, `pc` where
each item is in `processItem`, `need` what it turns out to need. An addition is
one step, a reservation is several: add, look at the returned sum, take back.
`reserveMedia` adds to both counters before it looks, so a rejected item blocks
others for a moment, and two items that would each fit alone can reject each
other. What must hold is that nothing leaks (`Accounted`), that what is accepted
fits (`WithinLimits`), and that transient sums reject nobody whose job fits
(`NoFalseRejection`). `status` collects what became of the items, and `Finish`
reduces it with `Aggregate` to the outcome, which a client must be able to read
back (`OutcomeSummarises`). Counters do not overflow: sizes and limits are far
below 2^63.

### ToolRunner and MediaItem

`ToolRunner` has one call of `run` at a time. `call` is where the calling
goroutine is (in the select, waiting for the result after a kill, stopping the
monitor, looking at the outcome), `monitor` and `flagged` are the monitor goroutine
and `limitExceeded`, `size` the output file. `leader` and `helper` are the tool and a
child of it that holds its pipes: `cmd.Wait` returns when neither is alive, and a
kill of the group reaches both. `cancelled` is the context of the job: its
`JOB_TIMEOUT`, or the shutdown. The tool writes, opens its file anew, forks, exits or
hangs as it likes.

`MediaItem` puts the calls of one item in order. `step` is where `processItem` and
its pipelines are: `Open`, `Detect`, `IdentifyInput`, `ProbeInput` and `Gate` up to
the cache lookup (no hit), `Acquire` for a place of the converter semaphore
(`others` are the places that other items hold), `Identify`, `ChooseOperation`,
`Convert`, `Validate`, `Commit` and `Thumbnail`. `CallTool` starts the call that a step
makes, and the step reads the answer. A media file is a record of what the
parsers tell of it; `Convert` writes any file of `Outputs` when the tool reports
success, since nothing binds a tool to its arguments. What `Commit` does in detail is `ItemCommit`,
what `Gate` reserves is `JobBudget`.

`Faststart` scales a box header to two units and the 64-bit size field to four
bits, with the conversion to a signed number that the code makes. `Layout` are the
files that a box parser can make sense of: no box is as long as the largest signed
number. `JobPolicy` keeps a missing boolean apart from FALSE, on the wire and on
disk, and abstracts the alpha colour to two (`Colors`). Signature, brand, format, streams and
boxes of a file are independent of each other: the assumption of `MediaItem` asks only that
the boxes are a `Layout` and that streams are counted by natural numbers. So the inputs
include files that `Detect` does not know and that are probed all the same: an MP4 without an
`ftyp` box, with its index in front or not, a QuickTime file whose `ftyp` box is not the
first, a film with sound of no known codec.

`converter_unavailable` of `detectImage` is left out: `config.Load` gives the path of
ImageMagick a default (`config.go:89`, `265-270`), so that it is never empty.

## 3. Runs

| Run | Instance | Shows |
|---|---|---|
| `lifecycle_safe` | 2 jobs, 2 requests, 2 workers, 2 items, queue of 1, 1 failing write, 2 crashes or shutdowns, recovery first | `TypeOK`, `OneOwner`, `AckedIsKept`, `NoStrandedJob`, `Ownership`, `CompletedIsFinal`, `DurableItemSurvives`, `ImplementsPromise` |
| `lifecycle_live` | 2 jobs, 1 request, 1 worker, 1 item, queue of 1, 1 failing write, 1 crash or shutdown, late recovery, fairness | `AckedCompletes`, `RecoveryEnds`, `RecoveryRetried` |
| `lifecycle_late` | 1 job, 2 requests, 2 workers, 1 item, 1 crash or shutdown, late recovery | `CompletedIsFinal` is violated (section 5) |
| `commit` | 2 jobs of 2 items and 1 item with the same cache key, 2 failures, 1 crash | all properties of `ItemCommit` |
| `retention_safe` | 2 jobs, 2 workers, 2 artifacts, 1 input, retentions of 3, 1, 3, 1 ticks, 1 pass given up or write failed, 1 crash | `TypeOK`, `ResultsResolve`, `UnfinishedStay`, `InputsStay` when artifacts get old before cache entries do |
| `retention_live` | 2 jobs, 2 workers, 2 artifacts, artifacts kept longer than the rest, 1 cached artifact that cannot be opened, fairness | `ResultsResolve` when a cache entry is replaced, `Reclaimed` |
| `retention_result` | 2 jobs, 1 worker | `ResultsRetained` is violated (section 5) |
| `budget` | 4 items, 3 at a time, every mixture of three kinds, limits of 6, 4 and 4 | all properties of `JobBudget` |
| `readiness_probe` | 3 probes, 2 time-outs, 2 changes of the mount, fairness | `TypeOK`, `OneProbeInFlight`, `FailsClosed`, `Rearms` |
| `readiness_stop` | 2 probes | `StoppedIsUnready` is violated (section 5) |
| `item` | 1 item among 1 place of the semaphore, outputs of up to 2 with a limit of 1, 22 inputs and 24 remains of an MP4, 162 policies, 13 outputs, fairness | all properties of `MediaItem` but the next |
| `item_m4a` | the same | `SupportedAccepted` is violated (section 5) |

Why the bounds are enough to be interesting. Two jobs and a queue of one make
the queue full for Submit and for Recover, and leave one job queued while another
is processed; two requests make a conflict for one identity; two workers and two
items make two writers of one record. Two crashes let a job that was recovered
be hit again; `lifecycle_live` has one, after which nothing but a failing write
can stop a job; `AckedCompletes` is conditional on no write failing and on the
service being ready for good at last. One failing write at any point covers each error path of
`processJob` and `Recover`; two in `ItemCommit` let a failed write be followed by
a failed repair. One job of two items there shares a progress list and a record
that either item writes, and the other job hits what they put into the cache. Two jobs and two artifacts let one job hit what another
replaces, while the janitor holds a listing older than both. In `JobBudget` some
mixtures of four items fill the budgets exactly and others exceed each of them. Three probes are one
that publishes, one that hangs and one that starts; two time-outs and two changes
of the mount let a late answer contradict a newer one. In `MediaItem` a size of 1
is within the limit and 2 is over it; one place makes the item wait; the outputs
are a good one of each kind and others that miss the contract in one point each. `FaststartAgrees`
adds every further box, or none, to the boxes of each input, which gives all
layouts of two boxes and some of four, cut off at every length. `MaxFaults`,
`MaxCrashes`, `MaxMisses`, `MaxHangs` and `MaxFlips` appear only as guards of the
actions they count.

Deadlock is checked in the lifecycle and retention runs: a serving process can
always accept or replay a request, and time passes. A stopped service without
probes has nothing left to do, so the readiness runs do not check it. The commit and budget runs stop when their
jobs are completed (there are no others), so they do not check it either. The
item runs check it: other items come and go.

Symmetry is used only in safety runs, over jobs, workers, requests and items,
which nothing distinguishes.

### Fairness

`FairSpec` adds weak fairness for each worker's next step, for the Submit that
holds the lock, for recovery, and for the exit of a stopping process. The code
justifies it: workers and the Submit are goroutines whose only waits are the
queue, a mutex held for a bounded time, and tools bounded by `JOB_TIMEOUT`;
recovery is repeated by a ticker; a stopping process cancels what it waits for.
Clients, crashes, failing writes and the return of the mount are not fair, and
`RecoveryRetried` is conditional on the service staying ready.

In `Retention` workers, the janitor and recovery are weakly fair, and time is
strongly fair: it passes however often jobs hit the cache in between. Clients,
crashes and failures are not. In `Readiness` the goroutines and timers run, and
clients poll until the service stops (only a poll or the recovery tick starts a
probe); that a probe answers or its timer fires is fair, that it answers is not:
`Rearms` is conditional on no probe hanging for ever, because a hanging refresh
does block all later probes.

In `MediaItem` the goroutines of the item and of its tool call are weakly fair, and
SIGKILL takes effect. A tool need not end, nor stop writing, nor stop forking;
a place that another item holds need not come free, and nobody need cancel. So
`CancelEnds` says that a cancellation alone ends the item wherever it waits.

## 4. Proofs

Each theorem holds for every value of the constants that the named assumption of its
module allows: any number of jobs, requests, workers, items, probes, places and crashes,
any limits and durations. The shape is the same everywhere: an inductive invariant that
contains the property, one step of the proof per action, and a last temporal step. TLC
has checked the larger inductive invariants (`ItemCommit`, `Retention`, `Placed` and
`Progress` of `JobLifecycle`) on the instances of section 3.

| Module | Theorems | Assumption beside the module's own |
|---|---|---|
| `JobLifecycle_proofs` | `TypeCorrect`, `NoStrandedJobCorrect` | - |
| | `OwnershipCorrect`, `OneOwnerCorrect`, `AckedIsKeptCorrect`, `CompletedIsFinalCorrect`, `DurableItemSurvivesCorrect`, `PromiseImplemented` (the refinement of `JobSpec`) | `~LateRecovery` |
| `ItemCommit_proofs` | `TypeCorrect`, `NamedBeforeVisibleCorrect`, `CacheHoldsCommittedCorrect`, `CrashIsTransparentCorrect`, `SuccessIsVouchedCorrect`, `RecoveryFitsLifecycleCorrect`, `RecoveryFindsArtifactsCorrect` | - |
| `Retention_proofs` | `TypeCorrect`, `UnfinishedStayCorrect`, `InputsStayCorrect` | - |
| | `ResultsResolveCorrect` | `Spaced` |
| `JobBudget_proofs` | `AccountedCorrect`, `WithinLimitsCorrect`, `NoFalseRejectionCorrect`, `OutcomeSummarisesCorrect` | - |
| `Readiness_proofs` | `TypeCorrect`, `OneProbeInFlightCorrect` | - |
| `MediaItem_proofs` | `TypeCorrect`, `OutputWithinLimitCorrect`, `NothingLeftBehindCorrect`, `PolicyKeptCorrect`, `SuccessIsCanonicalCorrect`, `FaststartAgreesCorrect` | - |
| `Faststart_proofs` | `ScanIsRight` | `Layout` of the file |

A theorem `XCorrect` says `Spec => []X`, or `Spec => X` where `X` is an action property;
`TypeCorrect` says `Spec => []TypeOK`.

### JobLifecycle

None of the safety properties is inductive: `OneOwner` says nothing
of what is on disk, but a second owner appears because a completed or queued
record is taken up again. `Ownership` adds the missing link. For each kind of
owner (place in the queue, worker, Submit, recovery list) it says that no other
owner holds the job, and that the record on disk is in the state that this owner
left it in: queued for the queue and for a worker that has not marked it yet,
processing with the worker's own request and result afterwards, equal to the
list's copy for Recover. `BootFirst` says that the recovery list is non-empty
only before HTTP is served, when no Submit runs, and that recovery starts with an
empty queue and idle workers; it is the part that needs `~LateRecovery`. The step
proof goes action by action: an owner may hand a job on, write only its own
record, and a job that Submit creates was absent and thus owned by nobody
(`OwnershipExcludes`, `WorkerFrame`). `StoreStep` then says what a step can do to
a record at all, which gives `CompletedIsFinal`, `AckedIsKept` and each case of
the refinement. The mapping of the refinement shows state, request and result of
each record and hides progress, queue and workers.

With `LateRecovery` these properties are false, as the run `lifecycle_late` shows
for one of them, so the assumption cannot be dropped. `NoStrandedJob` does not need it. A
job is taken up by Recover, so `Placed` extends the claim to the time since Recover has had
its list (`MustHold`), and says that an idle worker holds nothing; then each step hands
a job on, completes its record, or finds the record deleted, and two holders of one job
do no harm.

`DurableItemSurvives` needs to know how far the disk may lag behind a worker's
tracker. `Progress` says it: no verdict before a job is begun, no result before it is
completed, and in between, for each item, the goroutine, the tracker and the result agree
and a verdict on disk is also in the tracker (`InStep`). A committed verdict may still turn
to failed, through the failing write of its own progress, and to nothing else.

### ItemCommit

`IInv` has nine parts. `Workers` ties goroutines to records, `RecordsSound` says what a progress entry can
look like, `Phases` what an item has in hand at each of its steps, `ResultsSound` and
`CacheSound` that a success in memory or in the cache names an artifact that is there with
the reported hash and that its maker has on record and will not take back (`Settled`),
`FilesPlanned` that an artifact in place belongs to an item that planned it. `InStep` holds
while nothing has failed: then memory and disk agree. `Past` is the link between two jobs:
an item refers to another job's thumbnail only when that job is past its last chance
to remove it.

### Retention

The janitor works from what it read some steps ago, so the invariant compares ages. `OwnYoung`: an
artifact is no older than the run of the job that made it. `EntryYoung`: a cached artifact is
at most a job older than its entry, and an entry outlives its retention only by the passes
that were given up. `ReplacedYoung`: while each cached artifact can be opened, a job that
converts found none, so that what is cached since is young. `HitsCached` and
`KeepsUsed`: an old artifact that a pass does not keep is used by nobody, the cached one excepted
until the cache has been looked at. `UnfinishedStay` and `InputsStay` follow from `Base`, which
has no ages.

`ResultsResolve` needs `Spaced`: every cached artifact can be opened (`MaxMisses = 0`), or
`JobTicks + CacheRetention + MaxFaults < ArtifactRetention`. Without it, a job that could
not open the cached artifact replaces the entry by its own while another job, whose hit is not on
record yet, still refers to the old artifact. TLC finds this as soon as both sides are equal.

### JobBudget

The counters are sums over the items, for any finite set of them. `Over(S, f)` is a sum
over a set of items, by which `Held` gives each counter, `Within` bounds what has been
accepted, and `Room` says that in a job that fits no reservation is refused: a refusal would
need a sum above the total of all items. The lemmas say what a sum does when one item is added,
removed or changed, and that it grows with the set. `Verdicts` and `Told` lead to
`OutcomeSummarises`.

### Readiness

`GoroutinesAgree` says which states of the asking, the waiting and the publishing
goroutine of a probe go together; with it, who has to clear `readinessInFlight` is
one goroutine of one probe.

### MediaItem and Faststart

The first invariant follows a call through `run`. `CallClean`: once `cmd.Wait` has returned
neither the tool nor a child of it is alive, and once `stopMonitor` has returned there
is no monitor; this is why no write can follow the last look at the size.
`CallFits`: a call is made only in a step that waits for its answer, and with a limit
exactly in the steps that convert. `SizeKnown`: between the answer "ok" and the step
that reads it the size stays within the limit. Validation calls a tool without a
limit, which does not write.

The second, `ItemInv`, follows the item: its policy is the loaded form of a valid
request, its kind is known once it is detected, its files are files of the instance,
and an output that goes on has been validated for that kind. Of these files the theorem
assumes that their boxes are a `Layout`, and nothing about what their signature, brand,
format or streams have to do with each other; a tool may write any of them.

`Canonical` takes the "MP4" of the processing contract by the boxes and the brand: the index
comes first, and the brand, if there is one, is not QuickTime's. It does not ask for an
`ftyp` box, and could not (section 5). "AAC when audio is present" is meant of all sound: the
probe reports the last sound stream only, and `Canonical` holds because validation also
admits two streams at most.

`ScanIsRight` is about `hasFaststart` alone: for every layout of boxes, of any number and size, cut
off anywhere, the scan finds an index if and only if the first box that matters is a whole
`moov`. The scan is a recursive function of the offset. The proof goes down from the end
of the file to show that the function exists, then up the layout to show that the scan
stands at the start of each box it reaches. `Layout` bounds a box by 2^63 bytes,
the least size that the conversion to a signed number turns negative.

### What is only model-checked

All liveness properties: `AckedCompletes`, `RecoveryEnds`, `RecoveryRetried`, `FailsClosed`,
`Rearms`, `Reclaimed`, `CancelEnds`, `OverLimitEnds`. Fairness and ENABLED are out of the
prover's reach. So is a module with a RECURSIVE operator (there is none
here), and the library's induction theorems, whose parameter is an operator. Induction itself is
not: `NatSets` states it for a set (`InductionInSet`), which suffices for recursive
functions. The four properties of section 5 are false, and TLC shows how.

## 5. Disagreements with the documentation

`lifecycle_late`: when recovery runs from a ticker, workers are already running.
`Recover` lists a job that a live worker is processing, finds it in state
processing, and completes it with items marked `recovery_interrupted`; the
worker's next progress write takes the record back to processing. The client's
poll goes queued, processing, completed, processing. The repository's README
describes the states as a sequence and says that completed results are not
reprocessed and that only interrupted work is represented as such
(`README.md:550-554`, `867-868`). The entry in `PROJECT.json` has the quotes.

`readiness_stop`: `setArtifactReadiness` reads `staticReady` and stores `ready` in
two steps. When `SetReady(false)` of the shutdown runs in between, the service
reports ready again while it stops (`README.md:860-861`: "Stops accepting new
work", "Marks readiness false").

`retention_result`: `CleanupOld` of the state store judges a record by an age it
took before it read the state. A job whose queued record is older than
`STATE_RETENTION` and that completes in between loses its new result
(`README.md:351`: "Retention for completed/old job state"). The window is short, and
the record must have waited that long, as after a long downtime.

`item_m4a`: an M4A file starts with an `ftyp` box, so `Detect` calls it a video in
an "mp4" container; the probe corrects the kind to audio and the container to
"m4a", and `detectMedia` puts "mp4" back (`manager.go:707`), which
`supportedAudioInput` does not know. The processing contract (`README.md:52`) and the discovery
document (`discovery.go:211`) list M4A among the audio inputs; each such file is
rejected as `unsupported_format`.

Four smaller ones have no run. An MP4 or QuickTime file that does not begin with an `ftyp` box
is unknown to `Detect` (`detector.go:42-54`) and is probed all the same
(`manager.go:694-697`); without a brand its container is "mp4" by default
(`ffprobe.go:119-131`), and if its index comes first and its streams are canonical it is
copied as it is (`pipeline.go:95`) and passes `Validate`. The output reported as
`video/mp4` then has no `ftyp` box either. ISO/IEC 14496-12 lets a reader take such a file for an MP4, so
`Canonical` accepts it; a reader of the contract (`README.md:51`) may expect more.
`README.md:862-865` has the shutdown wait "up to
SHUTDOWN_TIMEOUT" before it terminates the converters; `StopWithContext` cancels first, so
running converters are killed at once and the wait is only for their goroutines.
`strip_metadata` (`README.md:696`) is ignored by the video pipeline. And an item
that is cancelled while its image is identified is reported as rejected,
`image_decode_failed`, not retryable, where `asProcessingError` has a retryable
"timeout" for a cancelled context: the pipelines wrap the cancellation in an error of their own.

Not a disagreement, but worth knowing: the safety of artifacts in `Retention`
depends on the order of the configured durations (section 2), and where a cached
artifact may be impossible to open for a moment it also needs
`ARTIFACT_RETENTION` to exceed `CACHE_RETENTION` by more than the length of a job and one
`JANITOR_INTERVAL` for each pass that was given up (`Spaced` in section 4; TLC finds
a lost artifact at equality). The defaults leave a week; nothing checks it.

## 6. What is not modelled, and the plan

In this order:

1. The proofs that are left are about behaviours the theorems exclude: what
   `JobLifecycle` still guarantees with `LateRecovery` beside `NoStrandedJob` (a job never
   loses its record once it is processing, say), and `JobSpec` weakened to match.
2. `List` record by record instead of as one snapshot, and records and cache
   entries that cannot be read for a moment (hazards at `state/store.go:160` and
   `171`).

Workspaces and the temporary files of unfinished writes are left out of
`Retention`: nothing refers to them, and they are only removed for their age. So is a client's
DELETE of an artifact or an upload (`server.go:374-380`): it removes the file whoever refers to it, and
`ResultsResolve` and `InputsStay` are claims about the service's own removals.
Left out for good: routing, encoding and authentication of the HTTP API, the
static documents, configuration and metrics (no state that decides anything),
the mount table, the deployment templates, the arguments of the external tools and
the parsing of what they print (they are modelled by the files they report or
write), and the reuse of a process number between the end of a tool and a late kill of its group.
