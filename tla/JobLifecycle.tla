----------------------------- MODULE JobLifecycle -----------------------------
(***************************************************************************)
(* The life of conversion jobs in internal/job/manager.go: Submit, the     *)
(* bounded queue, the workers, the records in the state store, crash and   *)
(* restart, and Recover as internal/app/run.go drives it.                  *)
(*                                                                         *)
(* One action is one step that other goroutines can see: a read or write   *)
(* of the state store, or an operation on the queue channel.  What happens *)
(* inside one item (workspace, conversion, artifact commit) is reduced to  *)
(* the progress it records; ItemCommit models it in full.  Retention (the  *)
(* removal of old completed records) is left out: behaviours here are      *)
(* shorter than STATE_RETENTION.                                           *)
(***************************************************************************)
EXTENDS Naturals, Sequences, FiniteSets, ItemVerdicts

CONSTANTS
    Jobs,         \* job identities
    Requests,     \* normalized requests, told apart by state.RequestHash
    NoReq,        \* no request: the identity is not in use
    NoJob,        \* no job: an idle worker, an unlocked Submit
    Workers,      \* the cfg.JobWorkers goroutines that run Manager.worker
    NumItems,     \* items in a request
    ItemWorkers,  \* cfg.MaxConcurrentItemsPerJob
    QueueSize,    \* cfg.QueueSize, the capacity of Manager.queue
    LateRecovery, \* whether HTTP may be served before Recover has succeeded
    MaxFaults,    \* bound: writes of the state store that fail in a behaviour
    MaxCrashes    \* bound: crashes and shutdowns in a behaviour

ASSUME ConstantsAssumption ==
    /\ NoReq \notin Requests
    /\ NoJob \notin Jobs
    /\ NumItems \in Nat \ {0}
    /\ ItemWorkers \in Nat \ {0}
    /\ QueueSize \in Nat \ {0}
    /\ LateRecovery \in BOOLEAN
    /\ MaxFaults \in Nat
    /\ MaxCrashes \in Nat

Items == 1 .. NumItems

NoProgress == [i \in Items |-> "none"]
NoResult   == [i \in Items |-> "none"]

JobRecord ==
    [state : {"absent", "queued", "processing", "completed"}, req : Requests \cup {NoReq},
     prog : [Items -> ProgressStates], result : [Items -> Statuses]]

Absent == [state |-> "absent", req |-> NoReq, prog |-> NoProgress, result |-> NoResult]

VARIABLES
    disk,       \* state.Store: the record of each job
    queue,      \* Manager.queue
    sub, subReq,\* job and request of the Submit that holds Manager.mu after its Put
    pc, job,    \* Manager.worker / processJob: where each worker is, and its job
    mem,        \* progressTracker.record of each worker
    item,       \* the item goroutines of a worker: each item waits, runs or is done
    res,        \* processJob's results slice
    phase,      \* app.Run: "boot" (before the listener), "serving", "stopping"
    ready,      \* Server.ready, as Submit's handler and recoverIfReady read it
    recovered,  \* app.Run's recovered flag
    recovering, \* a Recover is under way
    snap,       \* its records slice: what List returned and is still to be handled
    acked,      \* history: the request each client was told is accepted
    crashes, faults

submitVars  == <<sub, subReq>>
workerVars  == <<pc, job, mem, item, res>>
recoverVars == <<recovered, recovering, snap>>
vars == <<disk, queue, submitVars, workerVars, phase, ready, recoverVars, acked, crashes, faults>>

TypeOK ==
    /\ disk \in [Jobs -> JobRecord]
    /\ queue \in Seq(Jobs) /\ Len(queue) <= QueueSize
    /\ sub \in Jobs \cup {NoJob} /\ subReq \in Requests \cup {NoReq}
    /\ pc \in [Workers -> {"idle", "load", "mark", "reset", "items", "stopped"}]
    /\ job \in [Workers -> Jobs \cup {NoJob}]
    /\ mem \in [Workers -> JobRecord]
    /\ item \in [Workers -> [Items -> {"wait", "run", "done"}]]
    /\ res \in [Workers -> [Items -> Statuses]]
    /\ phase \in {"boot", "serving", "stopping"}
    /\ ready \in BOOLEAN /\ recovered \in BOOLEAN /\ recovering \in BOOLEAN
    /\ snap \in [Jobs -> JobRecord]
    /\ acked \in [Jobs -> Requests \cup {NoReq}]
    /\ crashes \in 0 .. MaxCrashes
    /\ faults \in 0 .. MaxFaults

NothingListed == [j \in Jobs |-> Absent]
AllWaiting    == [i \in Items |-> "wait"]

Init ==
    /\ disk = [j \in Jobs |-> Absent]
    /\ queue = <<>>
    /\ sub = NoJob /\ subReq = NoReq
    /\ pc = [w \in Workers |-> "idle"]
    /\ job = [w \in Workers |-> NoJob]
    /\ mem = [w \in Workers |-> Absent]
    /\ item = [w \in Workers |-> AllWaiting]
    /\ res = [w \in Workers |-> NoResult]
    /\ phase = "boot"
    /\ ready \in (IF LateRecovery THEN BOOLEAN ELSE {TRUE})
    /\ recovered = FALSE
    /\ recovering = FALSE
    /\ snap = NothingListed
    /\ acked = [j \in Jobs |-> NoReq]
    /\ crashes = 0
    /\ faults = 0

-------------------------------------------------------------------------------
\* Writes of the state store.  Put replaces the record atomically (temporary
\* file, fsync, rename); a failed write is a persistState whose three attempts
\* all failed, and leaves the old record.

Save(j, rec) ==
    /\ disk' = [disk EXCEPT ![j] = rec]
    /\ UNCHANGED faults

Delete(j) == Save(j, Absent)

StoreFails ==
    /\ faults < MaxFaults
    /\ faults' = faults + 1
    /\ UNCHANGED disk

-------------------------------------------------------------------------------
\* Submit.  Manager.mu is held from the Get to the answer, so that one Submit
\* at a time is between its Put and its send.  A handler that passed its
\* readiness check may still run while the process is stopping.

QueuedRecord(r) == [state |-> "queued", req |-> r, prog |-> NoProgress, result |-> NoResult]

\* Mutant of SubmitPut: the existing record is not looked up.
SubmitPutBlind(j, r) ==
    /\ phase \in {"serving", "stopping"} /\ ready
    /\ sub = NoJob
    /\ Save(j, QueuedRecord(r))
    /\ sub' = j /\ subReq' = r
    /\ UNCHANGED <<queue, workerVars, phase, ready, recoverVars, acked, crashes>>

SubmitPut(j, r) ==
    /\ phase \in {"serving", "stopping"} /\ ready
    /\ sub = NoJob
    /\ disk[j].state = "absent"
    /\ Save(j, QueuedRecord(r))
    /\ sub' = j /\ subReq' = r
    /\ UNCHANGED <<queue, workerVars, phase, ready, recoverVars, acked, crashes>>

\* Mutant of SubmitSend: a queue without a bound.
SubmitSendUnbounded ==
    /\ sub # NoJob
    /\ queue' = Append(queue, sub)
    /\ acked' = [acked EXCEPT ![sub] = subReq]
    /\ sub' = NoJob /\ subReq' = NoReq
    /\ UNCHANGED <<disk, workerVars, phase, ready, recoverVars, crashes, faults>>

\* The channel has room: the job is queued and answered with 202.
SubmitSend ==
    /\ sub # NoJob
    /\ Len(queue) < QueueSize
    /\ queue' = Append(queue, sub)
    /\ acked' = [acked EXCEPT ![sub] = subReq]
    /\ sub' = NoJob /\ subReq' = NoReq
    /\ UNCHANGED <<disk, workerVars, phase, ready, recoverVars, crashes, faults>>

\* Mutant of SubmitReject: the record is not deleted again.
SubmitRejectKeeps ==
    /\ sub # NoJob
    /\ Len(queue) >= QueueSize
    /\ sub' = NoJob /\ subReq' = NoReq
    /\ UNCHANGED <<disk, queue, workerVars, phase, ready, recoverVars, acked, crashes, faults>>

\* The channel is full: the record is deleted again and the answer is 429; if
\* the delete fails the answer is 503 and the record stays queued on disk.
SubmitReject ==
    /\ sub # NoJob
    /\ Len(queue) >= QueueSize
    /\ Delete(sub) \/ StoreFails
    /\ sub' = NoJob /\ subReq' = NoReq
    /\ UNCHANGED <<queue, workerVars, phase, ready, recoverVars, acked, crashes>>

\* Mutant of SubmitReplay: the record is looked up without Manager.mu.
SubmitReplayUnlocked(j, r) ==
    /\ phase \in {"serving", "stopping"} /\ ready
    /\ disk[j].state # "absent"
    /\ disk[j].req = r
    /\ acked' = [acked EXCEPT ![j] = r]
    /\ UNCHANGED <<disk, queue, submitVars, workerVars, phase, ready, recoverVars, crashes, faults>>

\* The same request again: 200 with the stored record, whatever became of it.
SubmitReplay(j, r) ==
    /\ phase \in {"serving", "stopping"} /\ ready
    /\ sub = NoJob
    /\ disk[j].state # "absent"
    /\ disk[j].req = r
    /\ acked' = [acked EXCEPT ![j] = r]
    /\ UNCHANGED <<disk, queue, submitVars, workerVars, phase, ready, recoverVars, crashes, faults>>

-------------------------------------------------------------------------------
\* Manager.worker and processJob.

Become(w, p, j, m, it, rs) ==
    /\ pc'   = [pc EXCEPT ![w] = p]
    /\ job'  = [job EXCEPT ![w] = j]
    /\ mem'  = [mem EXCEPT ![w] = m]
    /\ item' = [item EXCEPT ![w] = it]
    /\ res'  = [res EXCEPT ![w] = rs]

GoIdle(w) == Become(w, "idle", NoJob, Absent, AllWaiting, NoResult)

\* The select in worker chooses freely between a cancelled context and a job,
\* so a worker may still dequeue while stopping.
Dequeue(w) ==
    /\ pc[w] = "idle"
    /\ queue # <<>>
    /\ queue' = Tail(queue)
    /\ Become(w, "load", Head(queue), Absent, AllWaiting, NoResult)
    /\ UNCHANGED <<disk, submitVars, phase, ready, recoverVars, acked, crashes, faults>>

WorkerExit(w) ==
    /\ pc[w] = "idle"
    /\ phase = "stopping"
    /\ pc' = [pc EXCEPT ![w] = "stopped"]
    /\ UNCHANGED <<disk, queue, submitVars, job, mem, item, res, phase, ready, recoverVars, acked, crashes, faults>>

\* processJob loads the record; Get fails on a cancelled context, an absent
\* record or an I/O error, and the job is dropped from memory.
Load(w) ==
    /\ pc[w] = "load"
    /\ phase # "stopping"
    /\ disk[job[w]].state # "absent"
    /\ Become(w, "mark", job[w], disk[job[w]], AllWaiting, NoResult)
    /\ UNCHANGED <<disk, queue, submitVars, phase, ready, recoverVars, acked, crashes, faults>>

LoadFails(w) ==
    /\ pc[w] = "load"
    /\ \/ (phase = "stopping" \/ disk[job[w]].state = "absent") /\ UNCHANGED <<disk, faults>>
       \/ StoreFails
    /\ GoIdle(w)
    /\ UNCHANGED <<queue, submitVars, phase, ready, recoverVars, acked, crashes>>

\* Mutant of MarkProcessing: the error of the write is ignored.
MarkProcessingUnchecked(w) ==
    LET rec == [mem[w] EXCEPT !.state = "processing"]
    IN  /\ pc[w] = "mark"
        /\ Save(job[w], rec) \/ StoreFails
        /\ Become(w, "reset", job[w], rec, AllWaiting, NoResult)
        /\ UNCHANGED <<queue, submitVars, phase, ready, recoverVars, acked, crashes>>

\* First write: state processing, with whatever progress and result the loaded
\* record had.
MarkProcessing(w) ==
    LET rec == [mem[w] EXCEPT !.state = "processing"]
    IN  /\ pc[w] = "mark"
        /\ \/ Save(job[w], rec) /\ Become(w, "reset", job[w], rec, AllWaiting, NoResult)
           \/ StoreFails /\ GoIdle(w)
        /\ UNCHANGED <<queue, submitVars, phase, ready, recoverVars, acked, crashes>>

\* Mutant of ResetProgress: the record as it was loaded is written back.
ResetProgressStale(w) ==
    LET rec == [mem[w] EXCEPT !.prog = [i \in Items |-> "pending"], !.state = "queued"]
    IN  /\ pc[w] = "reset"
        /\ \/ Save(job[w], rec) /\ Become(w, "items", job[w], rec, AllWaiting, NoResult)
           \/ StoreFails /\ GoIdle(w)
        /\ UNCHANGED <<queue, submitVars, phase, ready, recoverVars, acked, crashes>>

\* Second write: a fresh progress list.
ResetProgress(w) ==
    LET rec == [mem[w] EXCEPT !.prog = [i \in Items |-> "pending"]]
    IN  /\ pc[w] = "reset"
        /\ \/ Save(job[w], rec) /\ Become(w, "items", job[w], rec, AllWaiting, NoResult)
           \/ StoreFails /\ GoIdle(w)
        /\ UNCHANGED <<queue, submitVars, phase, ready, recoverVars, acked, crashes>>

\* progressTracker.update: the change is made in memory and the whole record is
\* written; a failed write leaves the change in memory.
Track(w, i, p) ==
    LET rec == [mem[w] EXCEPT !.prog[i] = p]
    IN  /\ mem' = [mem EXCEPT ![w] = rec]
        /\ Save(job[w], rec) \/ StoreFails

Running(w) == {i \in Items : item[w][i] = "run"}

ItemStep(w, i) ==
    /\ pc[w] = "items"
    /\ UNCHANGED <<queue, submitVars, pc, job, phase, ready, recoverVars, acked, crashes>>

\* Items leave the itemJobs channel in order, at most ItemWorkers at a time.
ItemStart(w, i) ==
    /\ ItemStep(w, i)
    /\ item[w][i] = "wait"
    /\ \A k \in Items : k < i => item[w][k] # "wait"
    /\ Cardinality(Running(w)) < ItemWorkers
    /\ item' = [item EXCEPT ![w][i] = "run"]
    /\ Track(w, i, "processing")
    /\ UNCHANGED res

\* commitResult records the identity of the output before it writes it.
ItemPlan(w, i) ==
    /\ ItemStep(w, i)
    /\ item[w][i] = "run"
    /\ mem[w].prog[i] = "processing"
    /\ Track(w, i, "planned")
    /\ UNCHANGED <<item, res>>

\* commitResult, artifact renamed into place: the update makes it durable.  If
\* the update fails the item is failed, which persistItemProgress records next;
\* the Result in memory is shared, so a write of another item in between may
\* carry it as success or as failed.
ItemCommit(w, i) ==
    /\ ItemStep(w, i)
    /\ item[w][i] = "run"
    /\ mem[w].prog[i] = "planned"
    /\ LET rec == [mem[w] EXCEPT !.prog[i] = "committed"]
       IN  /\ mem' = [mem EXCEPT ![w] = rec]
           /\ \/ /\ Save(job[w], rec)
                 /\ item' = [item EXCEPT ![w][i] = "done"]
                 /\ res' = [res EXCEPT ![w][i] = "success"]
              \/ /\ StoreFails
                 /\ res' = [res EXCEPT ![w][i] = "failed"]
                 /\ UNCHANGED item

\* A cached result: persistItemProgress records it, and its error is ignored.
ItemFromCache(w, i) ==
    /\ ItemStep(w, i)
    /\ item[w][i] = "run"
    /\ mem[w].prog[i] = "processing"
    /\ Track(w, i, "committed")
    /\ item' = [item EXCEPT ![w][i] = "done"]
    /\ res' = [res EXCEPT ![w][i] = "success"]

\* The item fails (at any point, JobTimeout and cancellation included) or is
\* rejected (before anything was committed).
ItemFail(w, i) ==
    /\ ItemStep(w, i)
    /\ item[w][i] = "run"
    /\ \E s \in {"rejected", "failed"} :
        /\ s = "rejected" => mem[w].prog[i] = "processing"
        /\ Track(w, i, s)
        /\ res' = [res EXCEPT ![w][i] = s]
    /\ item' = [item EXCEPT ![w][i] = "done"]

\* All results are in: the last write of processJob.
Complete(w) ==
    /\ pc[w] = "items"
    /\ \A i \in Items : item[w][i] = "done"
    /\ Save(job[w], [mem[w] EXCEPT !.state = "completed", !.result = res[w]]) \/ StoreFails
    /\ GoIdle(w)
    /\ UNCHANGED <<queue, submitVars, phase, ready, recoverVars, acked, crashes>>

WorkerStep(w) ==
    \/ Dequeue(w) \/ WorkerExit(w)
    \/ Load(w) \/ LoadFails(w)
    \/ MarkProcessing(w) \/ ResetProgress(w)
    \/ \E i \in Items : ItemStart(w, i) \/ ItemPlan(w, i) \/ ItemCommit(w, i)
                            \/ ItemFromCache(w, i) \/ ItemFail(w, i)
    \/ Complete(w)

-------------------------------------------------------------------------------
\* Recover, and the attempts of app.Run to have it succeed once: one before the
\* listener starts, then one per tick as long as recovered is false.  Several
\* attempts only happen with LateRecovery: an output mount that is absent at
\* the start, or a first attempt that fails.

\* When an attempt may start; its mutant does not retry on a tick.
MayRecoverOnce == phase = "boot" /\ ready /\ ~recovered /\ ~recovering

MayRecover == phase \in {"boot", "serving"} /\ ready /\ ~recovered /\ ~recovering

\* The states Recover does something about; its mutant forgets queued jobs.
UnfinishedNotQueued == {"processing"}

Unfinished == {"queued", "processing"}

\* What List returns, less the records that Recover passes over.
List == [j \in Jobs |-> IF disk[j].state \in Unfinished THEN disk[j] ELSE Absent]

RecoverBegin ==
    /\ MayRecover
    /\ recovering' = TRUE
    /\ snap' = List
    /\ UNCHANGED <<disk, queue, submitVars, workerVars, phase, ready, recovered, acked, crashes, faults>>

\* Mutant of EndAttempt: a success is not remembered.
EndAttemptForgets(ok) ==
    /\ recovered' = FALSE
    /\ recovering' = FALSE
    /\ snap' = NothingListed
    /\ phase' = IF phase = "boot" THEN "serving" ELSE phase

EndAttempt(ok) ==
    /\ recovered' = ok
    /\ recovering' = FALSE
    /\ snap' = NothingListed
    /\ phase' = IF phase = "boot" THEN "serving" ELSE phase

\* A job that was processing is completed from the progress List returned.
RecoverReconcile(j) ==
    /\ recovering
    /\ snap[j].state = "processing"
    /\ \E r \in [Items -> Statuses] :
        /\ \A i \in Items : r[i] \in Reconciled(snap[j].prog[i])
        /\ Save(j, [snap[j] EXCEPT !.state = "completed", !.result = r])
    /\ snap' = [snap EXCEPT ![j] = Absent]
    /\ UNCHANGED <<queue, submitVars, workerVars, phase, ready, recovered, recovering, acked, crashes>>

\* Mutant of RecoverEnqueue: the loop stays at the same record.
RecoverEnqueueAgain(j) ==
    /\ recovering
    /\ snap[j].state = "queued"
    /\ \A k \in Jobs : snap[k].state # "processing"
    /\ Len(queue) < QueueSize
    /\ queue' = Append(queue, j)
    /\ UNCHANGED <<disk, submitVars, workerVars, recoverVars, phase, ready, acked, crashes, faults>>

\* A job that was queued is sent to the queue; the send blocks while it is full.
RecoverEnqueue(j) ==
    /\ recovering
    /\ snap[j].state = "queued"
    /\ \A k \in Jobs : snap[k].state # "processing"
    /\ Len(queue) < QueueSize
    /\ queue' = Append(queue, j)
    /\ snap' = [snap EXCEPT ![j] = Absent]
    /\ UNCHANGED <<disk, submitVars, workerVars, phase, ready, recovered, recovering, acked, crashes, faults>>

RecoverDone ==
    /\ recovering
    /\ snap = NothingListed
    /\ EndAttempt(TRUE)
    /\ UNCHANGED <<disk, queue, submitVars, workerVars, ready, acked, crashes, faults>>

\* Cleanup, List or a write of Recover fails: the attempt is given up.
RecoverFails ==
    /\ LateRecovery
    /\ (phase = "boot" /\ ready) \/ recovering
    /\ ~recovered
    /\ StoreFails
    /\ EndAttempt(FALSE)
    /\ UNCHANGED <<queue, submitVars, workerVars, ready, acked, crashes>>

\* The output mount is absent: recovery is deferred and HTTP is served.
DeferRecovery ==
    /\ phase = "boot" /\ ~ready
    /\ phase' = "serving"
    /\ UNCHANGED <<disk, queue, submitVars, workerVars, ready, recoverVars, acked, crashes, faults>>

MountReturns ==
    /\ phase = "serving" /\ ~ready
    /\ ready' = TRUE
    /\ UNCHANGED <<disk, queue, submitVars, workerVars, phase, recoverVars, acked, crashes, faults>>

RecoverStep ==
    \/ RecoverBegin \/ RecoverDone \/ RecoverFails \/ DeferRecovery
    \/ \E j \in Jobs : RecoverReconcile(j) \/ RecoverEnqueue(j)

-------------------------------------------------------------------------------
\* The process.  Memory is lost, the state store is kept, and the service
\* manager (KeepAlive, Restart=on-failure) starts it again.

Restart ==
    /\ queue' = <<>>
    /\ sub' = NoJob /\ subReq' = NoReq
    /\ pc' = [w \in Workers |-> "idle"]
    /\ job' = [w \in Workers |-> NoJob]
    /\ mem' = [w \in Workers |-> Absent]
    /\ item' = [w \in Workers |-> AllWaiting]
    /\ res' = [w \in Workers |-> NoResult]
    /\ phase' = "boot"
    /\ ready' \in (IF LateRecovery THEN BOOLEAN ELSE {TRUE})
    /\ recovered' = FALSE
    /\ recovering' = FALSE
    /\ snap' = NothingListed
    /\ UNCHANGED <<disk, acked, faults>>

Crash ==
    /\ crashes < MaxCrashes
    /\ crashes' = crashes + 1
    /\ Restart

\* SIGTERM: the manager's context is cancelled.
Shutdown ==
    /\ phase = "serving"
    /\ crashes < MaxCrashes
    /\ crashes' = crashes + 1
    /\ phase' = "stopping"
    /\ UNCHANGED <<disk, queue, submitVars, workerVars, ready, recoverVars, acked, faults>>

Exit ==
    /\ phase = "stopping"
    /\ \A w \in Workers : pc[w] = "stopped"
    /\ Restart
    /\ UNCHANGED crashes

SubmitStep ==
    \/ SubmitSend \/ SubmitReject
    \/ \E j \in Jobs, r \in Requests : SubmitPut(j, r) \/ SubmitReplay(j, r)

Next ==
    \/ SubmitStep
    \/ \E w \in Workers : WorkerStep(w)
    \/ RecoverStep
    \/ MountReturns
    \/ Crash \/ Shutdown \/ Exit

\* Goroutines that can run are eventually run: each worker (the tools it waits
\* for are bounded by JobTimeout), the Submit that holds the lock, the recovery
\* tick, and the exit of a stopping process.  Clients and crashes are free.
Fairness ==
    /\ \A w \in Workers : WF_vars(WorkerStep(w))
    /\ WF_vars(SubmitSend \/ SubmitReject)
    /\ WF_vars(RecoverStep)
    /\ WF_vars(Exit)

Spec == Init /\ [][Next]_vars
FairSpec == Spec /\ Fairness

-------------------------------------------------------------------------------
\* Properties.

\* How many goroutines hold job j: places in the queue, workers, a Submit
\* between Put and send, and a Recover that has it on its list.
Holders(j) ==
    {<<"queue", n>> : n \in {m \in 1 .. Len(queue) : queue[m] = j}}
        \cup {<<"worker", w>> : w \in {v \in Workers : job[v] = j}}
        \cup (IF sub = j THEN {<<"submit", 0>>} ELSE {})
        \cup (IF snap[j].state # "absent" THEN {<<"recover", 0>>} ELSE {})

\* No job is ever in two hands at once: not queued twice, not run by two
\* workers, and not completed by Recover (manager.go Recover) while a worker
\* runs it (processJob).  Nothing in processJob looks at the state of the record
\* it loads, so this rests on Recover being over before anything is accepted.
OneOwner == \A j \in Jobs : \A g, h \in Holders(j) : g = h

\* A request that a client was told is accepted stays on disk, unchanged, across
\* crashes, rejected submissions and concurrent writers of the same record
\* (Submit, its delete on a full queue, and every later Put of the job).
AckedIsKept == \A j \in Jobs : acked[j] # NoReq => disk[j].req = acked[j]

\* While the service is up, has recovered and no write failed, a job that is
\* not completed is in somebody's hands, so that it will still be run: no path
\* through Submit, worker, processJob and Recover drops one.
NoStrandedJob ==
    (phase = "serving" /\ recovered /\ faults = 0) =>
        \A j \in Jobs : disk[j].state \in {"queued", "processing"} => Holders(j) # {}

\* The inductive invariant behind the three above, when HTTP is served only
\* after Recover has succeeded: whoever holds a job is its only holder, and the
\* record on disk is the one that holder believes to be there.
QueueOwns ==
    \A n \in 1 .. Len(queue) :
        /\ disk[queue[n]].state = "queued"
        /\ \A m \in 1 .. Len(queue) : queue[m] = queue[n] => m = n
        /\ \A w \in Workers : job[w] # queue[n]
        /\ sub # queue[n]
        /\ snap[queue[n]].state = "absent"

OwnsItsJob(w) ==
    /\ job[w] = NoJob <=> pc[w] \in {"idle", "stopped"}
    /\ job[w] # NoJob =>
        /\ \A v \in Workers : job[v] = job[w] => v = w
        /\ sub # job[w]
        /\ snap[job[w]].state = "absent"
        /\ pc[w] \in {"load", "mark"} => disk[job[w]].state = "queued"
        /\ pc[w] = "mark" => mem[w] = disk[job[w]]
        /\ pc[w] \in {"reset", "items"} =>
            /\ disk[job[w]].state = "processing"
            /\ mem[w].state = "processing"
            /\ mem[w].req = disk[job[w]].req
            /\ mem[w].result = disk[job[w]].result

WorkerOwns == \A w \in Workers : OwnsItsJob(w)

SubmitOwns ==
    sub # NoJob =>
        /\ disk[sub].state = "queued"
        /\ disk[sub].req = subReq
        /\ acked[sub] = NoReq

RecoverOwns ==
    \A j \in Jobs :
        snap[j].state # "absent" =>
            /\ recovering
            /\ snap[j] = disk[j]
            /\ snap[j].state \in {"queued", "processing"}

BootFirst ==
    /\ ready
    /\ phase = "boot" <=> ~recovered
    /\ recovering => phase = "boot"
    /\ phase = "boot" => sub = NoJob
    /\ (phase = "boot" /\ ~recovering) => queue = <<>> /\ \A w \in Workers : job[w] = NoJob

AckedOnDisk == \A j \in Jobs : acked[j] # NoReq => disk[j].state # "absent" /\ disk[j].req = acked[j]

\* A job never has two owners and every owner sees its own record on disk: the
\* exclusion that Manager.mu, the queue and the order of app.Run give together.
Ownership == QueueOwns /\ WorkerOwns /\ SubmitOwns /\ RecoverOwns /\ BootFirst /\ AckedOnDisk

\* A completed record is final: its state and the result a client polls never
\* change again, whatever restarts, retried recoveries and slow workers do.
CompletedIsFinal ==
    [][\A j \in Jobs : disk[j].state = "completed" => disk'[j] = disk[j]]_disk

\* An item whose progress was durably committed or rejected before a crash keeps
\* that verdict in the result Recover writes (at worst its artifact no longer
\* validates), and is never converted again.
DurableItemSurvives ==
    [][\A j \in Jobs : \A i \in Items :
        disk[j].state = "processing" =>
            /\ disk[j].prog[i] = "committed" =>
                  /\ disk'[j].prog[i] \in {"committed", "failed"}
                  /\ disk'[j].result[i] \in {"none", "success", "failed"}
            /\ disk[j].prog[i] = "rejected" =>
                  /\ disk'[j].prog[i] = "rejected"
                  /\ disk'[j].result[i] \in {"none", "rejected"}]_disk

\* What a client sees through the job API implements JobSpec.
Promise == INSTANCE JobSpec WITH
    Results  <- [Items -> Statuses],
    NoResult <- NoResult,
    entry    <- [j \in Jobs |-> [state |-> disk[j].state, req |-> disk[j].req, result |-> disk[j].result]]

ImplementsPromise == Promise!Spec

\* Every accepted job is eventually completed, across crashes and shutdowns, a
\* full queue, any order of submissions and a recovery that has to wait for the
\* output mount, when no write fails and the mount is there to stay at last.
AckedCompletes ==
    (<>[]ready /\ [](faults = 0)) =>
        \A j \in Jobs : acked[j] # NoReq ~> disk[j].state = "completed"

\* Recovery terminates even when more jobs were left queued than the queue can
\* hold, because the workers were started before it (manager.go Recover).
RecoveryEnds == recovering ~> ~recovering

\* A recovery that was deferred or that failed is tried again until it succeeds,
\* once the output mount is there to stay (app.Run's ticks; bounded failures).
RecoveryRetried == <>[]ready => <>[]recovered
==============================================================================
