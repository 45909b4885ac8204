------------------------- MODULE JobLifecycle_proofs -------------------------
(***************************************************************************)
(* Theorems about JobLifecycle for every number of jobs, requests, items,  *)
(* workers and queue places, and any number of crashes and failing writes. *)
(***************************************************************************)
EXTENDS JobLifecycle, TLAPS

\* The changes processJob makes to a record keep it a record.
LEMMA RecordUpdates ==
    ASSUME NEW rec \in JobRecord
    PROVE  /\ [rec EXCEPT !.state = "processing"] \in JobRecord
           /\ [rec EXCEPT !.prog = [i \in Items |-> "pending"]] \in JobRecord
           /\ \A i \in Items : \A p \in ProgressStates : [rec EXCEPT !.prog[i] = p] \in JobRecord
           /\ \A r \in [Items -> Statuses] :
                 [rec EXCEPT !.state = "completed", !.result = r] \in JobRecord
BY DEF JobRecord, ProgressStates

\* The records that are built from nothing.
LEMMA FreshRecords ==
    /\ Absent \in JobRecord
    /\ \A r \in Requests : QueuedRecord(r) \in JobRecord
    /\ NothingListed \in [Jobs -> JobRecord]
    /\ AllWaiting \in [Items -> {"wait", "run", "done"}]
    /\ NoResult \in [Items -> Statuses]
BY DEF Absent, QueuedRecord, NothingListed, AllWaiting, JobRecord, NoProgress, NoResult,
       ProgressStates, Statuses

\* Variables that most steps leave alone keep their type.
LEMMA BecomeType ==
    ASSUME TypeOK, NEW w \in Workers,
           NEW p \in {"idle", "load", "mark", "reset", "items", "stopped"},
           NEW j \in Jobs \cup {NoJob}, NEW m \in JobRecord,
           Become(w, p, j, m, AllWaiting, NoResult)
    PROVE  /\ pc' \in [Workers -> {"idle", "load", "mark", "reset", "items", "stopped"}]
           /\ job' \in [Workers -> Jobs \cup {NoJob}]
           /\ mem' \in [Workers -> JobRecord]
           /\ item' \in [Workers -> [Items -> {"wait", "run", "done"}]]
           /\ res' \in [Workers -> [Items -> Statuses]]
BY FreshRecords DEF Become, TypeOK

LEMMA SaveType ==
    ASSUME TypeOK, NEW j \in Jobs, NEW rec \in JobRecord, Save(j, rec) \/ StoreFails
    PROVE  /\ disk' \in [Jobs -> JobRecord]
           /\ faults' \in 0 .. MaxFaults
BY ConstantsAssumption DEF Save, StoreFails, TypeOK

\* Updating one place of a two-level array keeps its type.
LEMMA NestedUpdate ==
    ASSUME NEW S, NEW I, NEW T, NEW f \in [S -> [I -> T]], NEW x \in S, NEW i \in I, NEW t \in T
    PROVE  [f EXCEPT ![x][i] = t] \in [S -> [I -> T]]
<1>1. [f[x] EXCEPT ![i] = t] \in [I -> T]
  OBVIOUS
<1>2. [f EXCEPT ![x] = [f[x] EXCEPT ![i] = t]] \in [S -> [I -> T]]
  BY <1>1
<1>3. [f EXCEPT ![x][i] = t] = [f EXCEPT ![x] = [f[x] EXCEPT ![i] = t]]
  BY Zenon
<1> QED
  BY <1>2, <1>3

\* TypeOK is not inductive alone: a busy worker writes the record of its job.
BusyHasJob == \A w \in Workers : pc[w] \in {"load", "mark", "reset", "items"} => job[w] \in Jobs

TypeInv == TypeOK /\ BusyHasJob

\* A restart forgets everything but the store.
LEMMA RestartType ==
    ASSUME TypeOK, Restart, crashes' \in 0 .. MaxCrashes
    PROVE  TypeInv'
<1>1. /\ pc' \in [Workers -> {"idle", "load", "mark", "reset", "items", "stopped"}]
      /\ job' \in [Workers -> Jobs \cup {NoJob}]
      /\ mem' \in [Workers -> JobRecord]
      /\ item' \in [Workers -> [Items -> {"wait", "run", "done"}]]
      /\ res' \in [Workers -> [Items -> Statuses]]
  BY FreshRecords DEF Restart
<1>2. queue' \in Seq(Jobs) /\ Len(queue') <= QueueSize
  BY ConstantsAssumption DEF Restart
<1>3. BusyHasJob'
  BY DEF Restart, BusyHasJob
<1> QED
  BY <1>1, <1>2, <1>3, FreshRecords DEF Restart, TypeInv, TypeOK

\* Every step keeps every variable in its range: the queue never exceeds its
\* capacity, no worker runs a job that does not exist, and every record written
\* to the store is a well-formed one.
LEMMA TypeStep == TypeInv /\ [Next]_vars => TypeInv'
<1> SUFFICES ASSUME TypeInv, [Next]_vars PROVE TypeInv'
  OBVIOUS
<1> USE ConstantsAssumption DEF TypeInv
<1>1. ASSUME NEW j \in Jobs, NEW r \in Requests, SubmitPut(j, r) PROVE TypeInv'
  <2>1. QueuedRecord(r) \in JobRecord
    BY FreshRecords
  <2>2. disk' \in [Jobs -> JobRecord] /\ faults' \in 0 .. MaxFaults
    BY <1>1, <2>1, SaveType DEF SubmitPut
  <2> QED
    BY <1>1, <2>2 DEF SubmitPut, TypeOK, BusyHasJob, workerVars, recoverVars
<1>2. CASE SubmitSend
  BY <1>2 DEF SubmitSend, TypeOK, BusyHasJob, workerVars, recoverVars
<1>3. CASE SubmitReject
  <2>1. disk' \in [Jobs -> JobRecord] /\ faults' \in 0 .. MaxFaults
    BY <1>3, FreshRecords, SaveType DEF SubmitReject, Delete, TypeOK
  <2> QED
    BY <1>3, <2>1 DEF SubmitReject, Delete, TypeOK, BusyHasJob, workerVars, recoverVars
<1>4. ASSUME NEW j \in Jobs, NEW r \in Requests, SubmitReplay(j, r) PROVE TypeInv'
  BY <1>4 DEF SubmitReplay, TypeOK, BusyHasJob, submitVars, workerVars, recoverVars
<1>5. ASSUME NEW w \in Workers, Dequeue(w) PROVE TypeInv'
  <2>1. Head(queue) \in Jobs /\ Tail(queue) \in Seq(Jobs) /\ Len(Tail(queue)) <= QueueSize
    BY <1>5 DEF Dequeue, TypeOK
  <2> QED
    BY <1>5, <2>1, FreshRecords, BecomeType DEF Dequeue, Become, TypeOK, BusyHasJob, submitVars, recoverVars
<1>6. ASSUME NEW w \in Workers, WorkerExit(w) PROVE TypeInv'
  BY <1>6 DEF WorkerExit, TypeOK, BusyHasJob, submitVars, recoverVars
<1>7. ASSUME NEW w \in Workers, Load(w) PROVE TypeInv'
  <2>1. job[w] \in Jobs /\ disk[job[w]] \in JobRecord
    BY <1>7 DEF Load, TypeOK, BusyHasJob
  <2> QED
    BY <1>7, <2>1, BecomeType DEF Load, Become, TypeOK, BusyHasJob, submitVars, recoverVars
<1>8. ASSUME NEW w \in Workers, LoadFails(w) PROVE TypeInv'
  <2>1. disk' \in [Jobs -> JobRecord] /\ faults' \in 0 .. MaxFaults
    BY <1>8 DEF LoadFails, StoreFails, TypeOK
  <2>2. GoIdle(w)
    BY <1>8 DEF LoadFails
  <2> QED
    BY <1>8, <2>1, <2>2, FreshRecords, BecomeType
       DEF LoadFails, GoIdle, Become, TypeOK, BusyHasJob, submitVars, recoverVars
<1>9. ASSUME NEW w \in Workers, MarkProcessing(w) PROVE TypeInv'
  <2> DEFINE rec == [mem[w] EXCEPT !.state = "processing"]
  <2>1. job[w] \in Jobs /\ rec \in JobRecord
    BY <1>9, RecordUpdates DEF MarkProcessing, TypeOK, BusyHasJob
  <2>2. Become(w, "reset", job[w], rec, AllWaiting, NoResult) \/ GoIdle(w)
    BY <1>9 DEF MarkProcessing
  <2>3. Save(job[w], rec) \/ StoreFails
    BY <1>9 DEF MarkProcessing
  <2> HIDE DEF rec
  <2> QED
    BY <1>9, <2>1, <2>2, <2>3, FreshRecords, BecomeType, SaveType
       DEF MarkProcessing, GoIdle, Become, TypeOK, BusyHasJob, submitVars, recoverVars
<1>10. ASSUME NEW w \in Workers, ResetProgress(w) PROVE TypeInv'
  <2> DEFINE rec == [mem[w] EXCEPT !.prog = [i \in Items |-> "pending"]]
  <2>1. job[w] \in Jobs /\ rec \in JobRecord
    BY <1>10, RecordUpdates DEF ResetProgress, TypeOK, BusyHasJob
  <2>2. Become(w, "items", job[w], rec, AllWaiting, NoResult) \/ GoIdle(w)
    BY <1>10 DEF ResetProgress
  <2>3. Save(job[w], rec) \/ StoreFails
    BY <1>10 DEF ResetProgress
  <2> HIDE DEF rec
  <2> QED
    BY <1>10, <2>1, <2>2, <2>3, FreshRecords, BecomeType, SaveType
       DEF ResetProgress, GoIdle, Become, TypeOK, BusyHasJob, submitVars, recoverVars
<1>11. ASSUME NEW w \in Workers, NEW i \in Items,
              ItemStart(w, i) \/ ItemPlan(w, i) \/ ItemCommit(w, i) \/ ItemFromCache(w, i) \/ ItemFail(w, i)
       PROVE  TypeInv'
  <2>1. job[w] \in Jobs
    BY <1>11 DEF ItemStart, ItemPlan, ItemCommit, ItemFromCache, ItemFail, ItemStep, BusyHasJob
  <2>2. PICK p \in ProgressStates :
           /\ mem' = [mem EXCEPT ![w] = [mem[w] EXCEPT !.prog[i] = p]]
           /\ Save(job[w], [mem[w] EXCEPT !.prog[i] = p]) \/ StoreFails
    BY <1>11 DEF ItemStart, ItemPlan, ItemCommit, ItemFromCache, ItemFail, Track, ProgressStates
  <2>3. [mem[w] EXCEPT !.prog[i] = p] \in JobRecord
    BY RecordUpdates DEF TypeOK
  <2>4. mem' \in [Workers -> JobRecord] /\ disk' \in [Jobs -> JobRecord] /\ faults' \in 0 .. MaxFaults
    BY <2>1, <2>2, <2>3, SaveType DEF TypeOK
  <2>5. /\ item' = item \/ \E s \in {"run", "done"} : item' = [item EXCEPT ![w][i] = s]
        /\ res' = res \/ \E s \in Statuses : res' = [res EXCEPT ![w][i] = s]
    BY <1>11 DEF ItemStart, ItemPlan, ItemCommit, ItemFromCache, ItemFail, Statuses
  <2>6. item' \in [Workers -> [Items -> {"wait", "run", "done"}]] /\ res' \in [Workers -> [Items -> Statuses]]
    <3>1. ASSUME NEW s \in {"run", "done"}
          PROVE  [item EXCEPT ![w][i] = s] \in [Workers -> [Items -> {"wait", "run", "done"}]]
      <4>1. s \in {"wait", "run", "done"} /\ item \in [Workers -> [Items -> {"wait", "run", "done"}]]
        BY DEF TypeOK
      <4> QED
        BY <4>1, NestedUpdate, Zenon
    <3>2. ASSUME NEW s \in Statuses
          PROVE  [res EXCEPT ![w][i] = s] \in [Workers -> [Items -> Statuses]]
      BY NestedUpdate, Zenon DEF TypeOK
    <3>3. /\ item \in [Workers -> [Items -> {"wait", "run", "done"}]]
          /\ res \in [Workers -> [Items -> Statuses]]
      BY DEF TypeOK
    <3>4. item' \in [Workers -> [Items -> {"wait", "run", "done"}]]
      <4>1. CASE item' # item
        <5>1. PICK s \in {"run", "done"} : item' = [item EXCEPT ![w][i] = s]
          BY <2>5, <4>1
        <5> QED
          BY <3>1, <5>1, Zenon
      <4> QED
        BY <3>3, <4>1
    <3>5. res' \in [Workers -> [Items -> Statuses]]
      <4>1. CASE res' # res
        <5>1. PICK s \in Statuses : res' = [res EXCEPT ![w][i] = s]
          BY <2>5, <4>1
        <5> QED
          BY <3>2, <5>1, Zenon
      <4> QED
        BY <3>3, <4>1
    <3> QED
      BY <3>4, <3>5
  <2>7. ItemStep(w, i)
    BY <1>11 DEF ItemStart, ItemPlan, ItemCommit, ItemFromCache, ItemFail
  <2> QED
    BY <2>4, <2>6, <2>7 DEF ItemStep, TypeOK, BusyHasJob, submitVars, recoverVars
<1>12. ASSUME NEW w \in Workers, Complete(w) PROVE TypeInv'
  <2>1. job[w] \in Jobs /\ [mem[w] EXCEPT !.state = "completed", !.result = res[w]] \in JobRecord
    BY <1>12, RecordUpdates DEF Complete, TypeOK, BusyHasJob
  <2>2. disk' \in [Jobs -> JobRecord] /\ faults' \in 0 .. MaxFaults
    BY <1>12, <2>1, SaveType DEF Complete
  <2> QED
    BY <1>12, <2>2, FreshRecords, BecomeType
       DEF Complete, GoIdle, Become, TypeOK, BusyHasJob, submitVars, recoverVars
<1>13. CASE RecoverBegin
  BY <1>13, FreshRecords DEF RecoverBegin, List, MayRecover, Unfinished, TypeOK, BusyHasJob, submitVars, workerVars
<1>14. ASSUME NEW j \in Jobs, RecoverReconcile(j) PROVE TypeInv'
  <2>1. PICK r \in [Items -> Statuses] : Save(j, [snap[j] EXCEPT !.state = "completed", !.result = r])
    BY <1>14 DEF RecoverReconcile
  <2>2. [snap[j] EXCEPT !.state = "completed", !.result = r] \in JobRecord
    BY RecordUpdates DEF TypeOK
  <2>3. disk' \in [Jobs -> JobRecord] /\ faults' \in 0 .. MaxFaults
    BY <2>1, <2>2, SaveType
  <2> QED
    BY <1>14, <2>3, FreshRecords DEF RecoverReconcile, TypeOK, BusyHasJob, submitVars, workerVars
<1>15. ASSUME NEW j \in Jobs, RecoverEnqueue(j) PROVE TypeInv'
  BY <1>15, FreshRecords DEF RecoverEnqueue, TypeOK, BusyHasJob, submitVars, workerVars
<1>16. CASE RecoverDone
  BY <1>16, FreshRecords DEF RecoverDone, EndAttempt, TypeOK, BusyHasJob, submitVars, workerVars
<1>17. CASE RecoverFails
  <2>1. disk' \in [Jobs -> JobRecord] /\ faults' \in 0 .. MaxFaults
    BY <1>17 DEF RecoverFails, StoreFails, TypeOK
  <2>2. phase' \in {"boot", "serving", "stopping"}
    BY <1>17 DEF RecoverFails, EndAttempt, TypeOK
  <2> QED
    BY <1>17, <2>1, <2>2, FreshRecords DEF RecoverFails, EndAttempt, TypeOK, BusyHasJob, submitVars, workerVars
<1>18. CASE DeferRecovery
  BY <1>18 DEF DeferRecovery, TypeOK, BusyHasJob, submitVars, workerVars, recoverVars
<1>19. CASE MountReturns
  BY <1>19 DEF MountReturns, TypeOK, BusyHasJob, submitVars, workerVars, recoverVars
<1>20. CASE Crash \/ Exit
  <2>1. crashes' \in 0 .. MaxCrashes
    BY <1>20 DEF Crash, Exit, TypeOK
  <2> QED
    BY <1>20, <2>1, RestartType DEF Crash, Exit
<1>21. CASE Shutdown
  BY <1>21 DEF Shutdown, TypeOK, BusyHasJob, submitVars, workerVars, recoverVars
<1>22. CASE UNCHANGED vars
  BY <1>22 DEF vars, TypeOK, BusyHasJob, submitVars, workerVars, recoverVars
<1> QED
  BY <1>1, <1>2, <1>3, <1>4, <1>5, <1>6, <1>7, <1>8, <1>9, <1>10, <1>11, <1>12, <1>13, <1>14,
     <1>15, <1>16, <1>17, <1>18, <1>19, <1>20, <1>21, <1>22
     DEF Next, SubmitStep, WorkerStep, RecoverStep

\* The process starts with an empty store and nothing in memory.
LEMMA TypeInit == Init => TypeInv
<1> SUFFICES ASSUME Init PROVE TypeInv
  OBVIOUS
<1>1. /\ pc \in [Workers -> {"idle", "load", "mark", "reset", "items", "stopped"}]
      /\ job \in [Workers -> Jobs \cup {NoJob}]
      /\ mem \in [Workers -> JobRecord]
      /\ item \in [Workers -> [Items -> {"wait", "run", "done"}]]
      /\ res \in [Workers -> [Items -> Statuses]]
  BY FreshRecords DEF Init
<1>2. crashes \in 0 .. MaxCrashes /\ faults \in 0 .. MaxFaults
  BY ConstantsAssumption DEF Init
<1>3. queue \in Seq(Jobs) /\ Len(queue) <= QueueSize
  BY ConstantsAssumption DEF Init
<1> QED
  BY <1>1, <1>2, <1>3, FreshRecords DEF Init, TypeInv, TypeOK, BusyHasJob

\* Every reachable state is well typed; in particular the queue respects
\* QueueSize and every record on disk is complete.
THEOREM TypeCorrect == Spec => []TypeOK
<1>1. Spec => []TypeInv
  BY TypeInit, TypeStep, PTL DEF Spec
<1> QED
  BY <1>1, PTL DEF TypeInv

-------------------------------------------------------------------------------
\* Ownership.  The argument needs HTTP to be served only after Recover.

\* At the start nobody holds anything.
LEMMA OwnershipInit == Init /\ ~LateRecovery => Ownership
BY DEF Init, Ownership, QueueOwns, WorkerOwns, OwnsItsJob, SubmitOwns, RecoverOwns, BootFirst, AckedOnDisk,
       NothingListed, Absent

\* A worker that writes the record of the job it holds, for the same request,
\* disturbs nobody else.
LEMMA WorkerFrame ==
    ASSUME TypeInv, Ownership, NEW w \in Workers, job[w] \in Jobs,
           NEW rec \in JobRecord, rec.state # "absent", rec.req = disk[job[w]].req,
           disk' = disk \/ disk' = [disk EXCEPT ![job[w]] = rec],
           job' = job \/ job' = [job EXCEPT ![w] = NoJob],
           \A v \in Workers \ {w} : pc'[v] = pc[v] /\ mem'[v] = mem[v],
           UNCHANGED <<queue, sub, subReq, phase, ready, recovered, recovering, snap, acked>>
    PROVE  /\ QueueOwns' /\ SubmitOwns' /\ RecoverOwns' /\ BootFirst' /\ AckedOnDisk'
           /\ \A v \in Workers \ {w} : OwnsItsJob(v)'
<1> USE ConstantsAssumption DEF TypeInv
<1>1. QueueOwns'
  BY DEF Ownership, QueueOwns, TypeOK
<1>2. SubmitOwns'
  BY DEF Ownership, SubmitOwns, WorkerOwns, OwnsItsJob, TypeOK
<1>3. RecoverOwns'
  BY DEF Ownership, RecoverOwns, WorkerOwns, OwnsItsJob, TypeOK
<1>4. BootFirst'
  BY DEF Ownership, BootFirst, TypeOK
<1>5. AckedOnDisk'
  BY DEF Ownership, AckedOnDisk, TypeOK
<1>6. ASSUME NEW v \in Workers \ {w} PROVE OwnsItsJob(v)'
  BY DEF Ownership, WorkerOwns, OwnsItsJob, TypeOK, BusyHasJob
<1> QED
  BY <1>1, <1>2, <1>3, <1>4, <1>5, <1>6

\* Every step hands a job from one holder to the next, or is a holder's own write.
LEMMA OwnershipStep ==
    ASSUME ~LateRecovery, TypeInv, TypeInv', Ownership, [Next]_vars
    PROVE  Ownership'
<1> USE ConstantsAssumption DEF TypeInv
<1>1. ASSUME NEW j \in Jobs, NEW r \in Requests, SubmitPut(j, r) PROVE Ownership'
  <2> USE <1>1 DEF SubmitPut, Save, QueuedRecord, workerVars, recoverVars
  <2>1. QueueOwns'
    BY DEF Ownership, QueueOwns, RecoverOwns, BootFirst, TypeOK
  <2>2. WorkerOwns'
    <3>1. snap[j].state = "absent" /\ \A v \in Workers : job[v] # j
      BY DEF Ownership, WorkerOwns, OwnsItsJob, RecoverOwns, BootFirst, TypeOK
    <3> SUFFICES ASSUME NEW w \in Workers PROVE OwnsItsJob(w)'
      BY DEF WorkerOwns
    <3>2. OwnsItsJob(w) /\ job[w] # j /\ (job[w] # NoJob => job[w] \in Jobs)
      BY <3>1 DEF Ownership, WorkerOwns, TypeOK
    <3>3. job[w] # NoJob => disk'[job[w]] = disk[job[w]]
      BY <3>2 DEF TypeOK
    <3> QED
      BY <3>2, <3>3 DEF OwnsItsJob
  <2>3. SubmitOwns'
    <3>1. sub' = j /\ subReq' = r /\ disk'[j].state = "queued" /\ disk'[j].req = r
      BY DEF TypeOK
    <3>2. acked'[j] = NoReq
      BY DEF Ownership, AckedOnDisk
    <3> QED
      BY <3>1, <3>2 DEF SubmitOwns
  <2>4. RecoverOwns'
    BY DEF Ownership, RecoverOwns, BootFirst, TypeOK
  <2>5. BootFirst'
    BY DEF Ownership, BootFirst, TypeOK
  <2>6. AckedOnDisk'
    BY DEF Ownership, AckedOnDisk, TypeOK
  <2> QED
    BY <2>1, <2>2, <2>3, <2>4, <2>5, <2>6 DEF Ownership
<1>2. CASE SubmitSend
  <2> USE <1>2 DEF SubmitSend, workerVars, recoverVars
  <2>1. QueueOwns'
    BY DEF Ownership, QueueOwns, WorkerOwns, OwnsItsJob, SubmitOwns, RecoverOwns, BootFirst, TypeOK
  <2>2. WorkerOwns'
    BY DEF Ownership, WorkerOwns, OwnsItsJob, TypeOK
  <2>3. SubmitOwns'
    BY DEF Ownership, SubmitOwns
  <2>4. RecoverOwns'
    BY DEF Ownership, RecoverOwns
  <2>5. BootFirst'
    BY DEF Ownership, BootFirst
  <2>6. AckedOnDisk'
    BY DEF Ownership, AckedOnDisk, SubmitOwns, TypeOK
  <2> QED
    BY <2>1, <2>2, <2>3, <2>4, <2>5, <2>6 DEF Ownership
<1>3. CASE SubmitReject
  <2> USE <1>3 DEF SubmitReject, Delete, Save, StoreFails, Absent, workerVars, recoverVars
  <2>1. QueueOwns'
    BY DEF Ownership, QueueOwns, TypeOK
  <2>2. WorkerOwns'
    BY DEF Ownership, WorkerOwns, OwnsItsJob, TypeOK, BusyHasJob
  <2>3. SubmitOwns'
    BY DEF Ownership, SubmitOwns
  <2>4. RecoverOwns'
    BY DEF Ownership, RecoverOwns, BootFirst, TypeOK
  <2>5. BootFirst'
    BY DEF Ownership, BootFirst
  <2>6. AckedOnDisk'
    BY DEF Ownership, AckedOnDisk, SubmitOwns, TypeOK
  <2> QED
    BY <2>1, <2>2, <2>3, <2>4, <2>5, <2>6 DEF Ownership
<1>4. ASSUME NEW j \in Jobs, NEW r \in Requests, SubmitReplay(j, r) PROVE Ownership'
  <2> USE <1>4 DEF SubmitReplay, submitVars, workerVars, recoverVars
  <2>1. QueueOwns'
    BY DEF Ownership, QueueOwns
  <2>2. WorkerOwns'
    BY DEF Ownership, WorkerOwns, OwnsItsJob
  <2>3. SubmitOwns'
    BY DEF Ownership, SubmitOwns
  <2>4. RecoverOwns'
    BY DEF Ownership, RecoverOwns
  <2>5. BootFirst'
    BY DEF Ownership, BootFirst
  <2>6. AckedOnDisk'
    BY DEF Ownership, AckedOnDisk, TypeOK
  <2> QED
    BY <2>1, <2>2, <2>3, <2>4, <2>5, <2>6 DEF Ownership
<1>5. ASSUME NEW w \in Workers, Dequeue(w) PROVE Ownership'
  <2> DEFINE d == Head(queue)
  <2> USE <1>5 DEF Dequeue, Become, submitVars, recoverVars
  <2>1. d \in Jobs /\ Len(queue) > 0 /\ d = queue[1] /\ Tail(queue) \in Seq(Jobs) /\ Len(Tail(queue)) = Len(queue) - 1
        /\ \A n \in 1 .. Len(Tail(queue)) : Tail(queue)[n] = queue[n + 1]
    BY DEF TypeOK
  <2>2. disk[d].state = "queued" /\ sub # d /\ snap[d].state = "absent" /\ \A v \in Workers : job[v] # d
    <3>1. 1 \in 1 .. Len(queue)
      BY <2>1 DEF TypeOK
    <3>2. /\ disk[queue[1]].state = "queued" /\ sub # queue[1] /\ snap[queue[1]].state = "absent"
          /\ \A v \in Workers : job[v] # queue[1]
      BY <3>1 DEF Ownership, QueueOwns
    <3> QED
      BY <2>1, <3>2
  <2>3. QueueOwns'
    BY <2>1, <2>2 DEF Ownership, QueueOwns, TypeOK
  <2>4. WorkerOwns'
    BY <2>1, <2>2 DEF Ownership, WorkerOwns, OwnsItsJob, TypeOK
  <2>5. SubmitOwns'
    BY DEF Ownership, SubmitOwns
  <2>6. RecoverOwns'
    BY DEF Ownership, RecoverOwns
  <2>7. BootFirst'
    BY DEF Ownership, BootFirst
  <2>8. AckedOnDisk'
    BY DEF Ownership, AckedOnDisk
  <2> QED
    BY <2>3, <2>4, <2>5, <2>6, <2>7, <2>8 DEF Ownership
<1>6. ASSUME NEW w \in Workers, WorkerExit(w) PROVE Ownership'
  <2> USE <1>6 DEF WorkerExit, submitVars, recoverVars
  <2>1. QueueOwns' /\ SubmitOwns' /\ RecoverOwns' /\ BootFirst' /\ AckedOnDisk'
    BY DEF Ownership, QueueOwns, SubmitOwns, RecoverOwns, BootFirst, AckedOnDisk
  <2>2. WorkerOwns'
    BY DEF Ownership, WorkerOwns, OwnsItsJob, TypeOK
  <2> QED
    BY <2>1, <2>2 DEF Ownership
<1>7. ASSUME NEW w \in Workers, Load(w) \/ LoadFails(w) \/ MarkProcessing(w) \/ ResetProgress(w) \/ Complete(w)
      PROVE  Ownership'
  <2>1. job[w] \in Jobs /\ OwnsItsJob(w)
    BY <1>7 DEF Load, LoadFails, MarkProcessing, ResetProgress, Complete, Ownership, WorkerOwns, BusyHasJob
  <2>2. PICK rec \in JobRecord :
           /\ rec.state # "absent" /\ rec.req = disk[job[w]].req
           /\ disk' = disk \/ disk' = [disk EXCEPT ![job[w]] = rec]
    <3>1. CASE disk' = disk
      <4>1. disk[job[w]] \in JobRecord /\ disk[job[w]].state # "absent"
        BY <2>1, <1>7 DEF OwnsItsJob, Load, LoadFails, MarkProcessing, ResetProgress, Complete, TypeOK
      <4> QED
        BY <3>1, <4>1
    <3>2. CASE MarkProcessing(w) /\ Save(job[w], [mem[w] EXCEPT !.state = "processing"])
      <4> DEFINE new == [mem[w] EXCEPT !.state = "processing"]
      <4>1. new \in JobRecord /\ new.req = mem[w].req /\ new.state \in {"processing", "completed"}
        <5>1. mem[w] \in JobRecord
          BY DEF TypeOK
        <5>2. new \in JobRecord
          BY <5>1, RecordUpdates
        <5>3. new.req = mem[w].req /\ new.state = "processing"
          BY <5>1 DEF JobRecord
        <5> QED
          BY <5>2, <5>3
      <4>2. mem[w].req = disk[job[w]].req
        BY <2>1, <3>2 DEF OwnsItsJob, MarkProcessing
      <4>3. disk' = [disk EXCEPT ![job[w]] = new]
        BY <3>2 DEF Save
      <4> HIDE DEF new
      <4> QED
        BY <4>1, <4>2, <4>3
    <3>3. CASE ResetProgress(w) /\ Save(job[w], [mem[w] EXCEPT !.prog = [i \in Items |-> "pending"]])
      <4> DEFINE new == [mem[w] EXCEPT !.prog = [i \in Items |-> "pending"]]
      <4>1. new \in JobRecord /\ new.req = mem[w].req /\ new.state \in {"processing", "completed"}
        <5>1. mem[w] \in JobRecord /\ res[w] \in [Items -> Statuses]
          BY DEF TypeOK
        <5>2. mem[w].state = "processing"
          BY <2>1, <3>3 DEF OwnsItsJob, ResetProgress
        <5>3. new \in JobRecord
          BY <5>1, RecordUpdates
        <5>4. new.req = mem[w].req /\ new.state \in {"processing", "completed"}
          BY <5>1, <5>2 DEF JobRecord
        <5> QED
          BY <5>3, <5>4
      <4>2. mem[w].req = disk[job[w]].req
        BY <2>1, <3>3 DEF OwnsItsJob, ResetProgress
      <4>3. disk' = [disk EXCEPT ![job[w]] = new]
        BY <3>3 DEF Save
      <4> HIDE DEF new
      <4> QED
        BY <4>1, <4>2, <4>3
    <3>4. CASE Complete(w) /\ Save(job[w], [mem[w] EXCEPT !.state = "completed", !.result = res[w]])
      <4> DEFINE new == [mem[w] EXCEPT !.state = "completed", !.result = res[w]]
      <4>1. new \in JobRecord /\ new.req = mem[w].req /\ new.state \in {"processing", "completed"}
        <5>1. mem[w] \in JobRecord /\ res[w] \in [Items -> Statuses]
          BY DEF TypeOK
        <5>2. mem[w].state = "processing"
          BY <2>1, <3>4 DEF OwnsItsJob, Complete
        <5>3. new \in JobRecord
          BY <5>1, RecordUpdates
        <5>4. new.req = mem[w].req /\ new.state \in {"processing", "completed"}
          BY <5>1, <5>2 DEF JobRecord
        <5> QED
          BY <5>3, <5>4
      <4>2. mem[w].req = disk[job[w]].req
        BY <2>1, <3>4 DEF OwnsItsJob, Complete
      <4>3. disk' = [disk EXCEPT ![job[w]] = new]
        BY <3>4 DEF Save
      <4> HIDE DEF new
      <4> QED
        BY <4>1, <4>2, <4>3
    <3> QED
      BY <1>7, <3>1, <3>2, <3>3, <3>4
         DEF Load, LoadFails, MarkProcessing, ResetProgress, Complete, StoreFails
  <2>3. /\ job' = job \/ job' = [job EXCEPT ![w] = NoJob]
        /\ \A v \in Workers \ {w} : pc'[v] = pc[v] /\ mem'[v] = mem[v]
        /\ UNCHANGED <<queue, sub, subReq, phase, ready, recovered, recovering, snap, acked>>
    BY <1>7 DEF Load, LoadFails, MarkProcessing, ResetProgress, Complete, GoIdle, Become,
                submitVars, recoverVars, TypeOK
  <2>4. /\ QueueOwns' /\ SubmitOwns' /\ RecoverOwns' /\ BootFirst' /\ AckedOnDisk'
        /\ \A v \in Workers \ {w} : OwnsItsJob(v)'
    BY <2>1, <2>2, <2>3, WorkerFrame
  <2>5. OwnsItsJob(w)'
    <3>1. ASSUME GoIdle(w) PROVE OwnsItsJob(w)'
      BY <3>1 DEF GoIdle, Become, OwnsItsJob, TypeOK
    <3>2. job' = job => /\ \A v \in Workers : job'[v] = job'[w] => v = w
                        /\ sub' # job'[w] /\ snap'[job'[w]].state = "absent"
      BY <2>1, <2>3 DEF OwnsItsJob
    <3>3. CASE Load(w)
      BY <2>1, <3>2, <3>3 DEF Load, Become, OwnsItsJob, submitVars, recoverVars, TypeOK
    <3>4. CASE MarkProcessing(w) /\ ~GoIdle(w)
      <4> DEFINE new == [mem[w] EXCEPT !.state = "processing"]
      <4>1. Save(job[w], new) /\ Become(w, "reset", job[w], new, AllWaiting, NoResult)
        BY <3>4 DEF MarkProcessing
      <4>2. new.state = "processing"
        BY DEF TypeOK, JobRecord
      <4> HIDE DEF new
      <4>3. /\ job' = job /\ pc'[w] = "reset" /\ mem'[w] = disk'[job[w]]
            /\ mem'[w].state = "processing"
        BY <2>1, <4>1, <4>2 DEF Save, Become, TypeOK
      <4> QED
        BY <2>1, <3>2, <4>3 DEF OwnsItsJob
    <3>5. CASE ResetProgress(w) /\ ~GoIdle(w)
      <4> DEFINE new == [mem[w] EXCEPT !.prog = [i \in Items |-> "pending"]]
      <4>1. Save(job[w], new) /\ Become(w, "items", job[w], new, AllWaiting, NoResult)
        BY <3>5 DEF ResetProgress
      <4>2. mem[w] \in JobRecord /\ mem[w].state = "processing"
        BY <2>1, <3>5 DEF OwnsItsJob, ResetProgress, TypeOK
      <4>3. new.state = "processing"
        BY <4>2 DEF JobRecord
      <4> HIDE DEF new
      <4>4. /\ job' = job /\ pc'[w] = "items" /\ mem'[w] = disk'[job[w]]
            /\ mem'[w].state = "processing"
        BY <2>1, <4>1, <4>3 DEF Save, Become, TypeOK
      <4> QED
        BY <2>1, <3>2, <4>4 DEF OwnsItsJob
    <3> QED
      BY <1>7, <3>1, <3>3, <3>4, <3>5 DEF LoadFails, Complete
  <2> QED
    BY <2>4, <2>5 DEF Ownership, WorkerOwns
<1>8. ASSUME NEW w \in Workers, NEW i \in Items,
             ItemStart(w, i) \/ ItemPlan(w, i) \/ ItemCommit(w, i) \/ ItemFromCache(w, i) \/ ItemFail(w, i)
      PROVE  Ownership'
  <2>1. job[w] \in Jobs /\ OwnsItsJob(w) /\ pc[w] = "items" /\ ItemStep(w, i)
    BY <1>8 DEF ItemStart, ItemPlan, ItemCommit, ItemFromCache, ItemFail, ItemStep,
                Ownership, WorkerOwns, BusyHasJob
  <2>2. PICK p \in ProgressStates :
           /\ mem' = [mem EXCEPT ![w] = [mem[w] EXCEPT !.prog[i] = p]]
           /\ Save(job[w], [mem[w] EXCEPT !.prog[i] = p]) \/ StoreFails
    BY <1>8 DEF ItemStart, ItemPlan, ItemCommit, ItemFromCache, ItemFail, Track, ProgressStates
  <2> DEFINE rec == [mem[w] EXCEPT !.prog[i] = p]
  <2>3. /\ rec \in JobRecord /\ rec.state = "processing" /\ rec.req = disk[job[w]].req
        /\ rec.result = disk[job[w]].result
    <3>1. mem[w] \in JobRecord
      BY DEF TypeOK
    <3>2. /\ mem[w].state = "processing" /\ mem[w].req = disk[job[w]].req
          /\ mem[w].result = disk[job[w]].result
      BY <2>1 DEF OwnsItsJob
    <3>3. rec \in JobRecord
      BY <3>1, RecordUpdates
    <3>4. rec.state = mem[w].state /\ rec.req = mem[w].req /\ rec.result = mem[w].result
      BY <3>1 DEF JobRecord
    <3> QED
      BY <3>2, <3>3, <3>4
  <2>4. /\ mem'[w] = rec /\ \A v \in Workers \ {w} : mem'[v] = mem[v]
        /\ disk' = disk \/ disk' = [disk EXCEPT ![job[w]] = rec]
    BY <2>2 DEF Save, StoreFails, TypeOK
  <2> HIDE DEF rec
  <2>5. UNCHANGED <<pc, job, queue, sub, subReq, phase, ready, recovered, recovering, snap, acked>>
    BY <2>1 DEF ItemStep, submitVars, recoverVars
  <2>6. /\ QueueOwns' /\ SubmitOwns' /\ RecoverOwns' /\ BootFirst' /\ AckedOnDisk'
        /\ \A v \in Workers \ {w} : OwnsItsJob(v)'
    BY <2>1, <2>3, <2>4, <2>5, WorkerFrame
  <2>7. disk'[job[w]].state = "processing" /\ disk'[job[w]].req = rec.req /\ disk'[job[w]].result = rec.result
    BY <2>1, <2>3, <2>4 DEF OwnsItsJob, TypeOK
  <2>8. OwnsItsJob(w)'
    BY <2>1, <2>3, <2>4, <2>5, <2>7 DEF OwnsItsJob
  <2> QED
    BY <2>6, <2>8 DEF Ownership, WorkerOwns
<1>9. CASE RecoverBegin
  <2> USE <1>9 DEF RecoverBegin, List, MayRecover, Unfinished, submitVars, workerVars
  <2>1. QueueOwns'
    BY DEF Ownership, QueueOwns, BootFirst
  <2>2. WorkerOwns'
    BY DEF Ownership, WorkerOwns, OwnsItsJob, BootFirst
  <2>3. SubmitOwns'
    BY DEF Ownership, SubmitOwns
  <2>4. RecoverOwns'
    BY DEF Ownership, RecoverOwns, Absent, TypeOK
  <2>5. BootFirst'
    BY DEF Ownership, BootFirst
  <2>6. AckedOnDisk'
    BY DEF Ownership, AckedOnDisk
  <2> QED
    BY <2>1, <2>2, <2>3, <2>4, <2>5, <2>6 DEF Ownership
<1>10. ASSUME NEW j \in Jobs, RecoverReconcile(j) PROVE Ownership'
  <2> USE <1>10 DEF RecoverReconcile, submitVars, workerVars
  <2>1. PICK r \in [Items -> Statuses] : disk' = [disk EXCEPT ![j] = [snap[j] EXCEPT !.state = "completed", !.result = r]]
    BY DEF Save
  <2>2. /\ snap[j] = disk[j] /\ sub = NoJob /\ disk[j].state = "processing"
        /\ disk'[j].state = "completed" /\ disk'[j].req = disk[j].req
    BY <2>1 DEF Ownership, RecoverOwns, BootFirst, TypeOK, JobRecord
  <2>3. QueueOwns'
    BY <2>1, <2>2 DEF Ownership, QueueOwns, Absent, TypeOK
  <2>4. WorkerOwns'
    BY <2>1, <2>2 DEF Ownership, WorkerOwns, OwnsItsJob, Absent, TypeOK
  <2>5. SubmitOwns'
    BY <2>2 DEF SubmitOwns
  <2>6. RecoverOwns'
    BY <2>1, <2>2 DEF Ownership, RecoverOwns, Absent, TypeOK
  <2>7. BootFirst'
    BY DEF Ownership, BootFirst
  <2>8. AckedOnDisk'
    BY <2>1, <2>2 DEF Ownership, AckedOnDisk, TypeOK
  <2> QED
    BY <2>3, <2>4, <2>5, <2>6, <2>7, <2>8 DEF Ownership
<1>11. ASSUME NEW j \in Jobs, RecoverEnqueue(j) PROVE Ownership'
  <2> USE <1>11 DEF RecoverEnqueue, submitVars, workerVars
  <2>1. /\ snap[j] = disk[j] /\ disk[j].state = "queued" /\ sub = NoJob
        /\ \A w \in Workers : job[w] # j
        /\ \A n \in 1 .. Len(queue) : queue[n] # j
    BY DEF Ownership, QueueOwns, WorkerOwns, OwnsItsJob, RecoverOwns, BootFirst, TypeOK
  <2>2. QueueOwns'
    BY <2>1 DEF Ownership, QueueOwns, Absent, TypeOK
  <2>3. WorkerOwns'
    BY <2>1 DEF Ownership, WorkerOwns, OwnsItsJob, Absent, TypeOK
  <2>4. SubmitOwns'
    BY <2>1 DEF SubmitOwns
  <2>5. RecoverOwns'
    BY DEF Ownership, RecoverOwns, Absent, TypeOK
  <2>6. BootFirst'
    BY DEF Ownership, BootFirst
  <2>7. AckedOnDisk'
    BY DEF Ownership, AckedOnDisk
  <2> QED
    BY <2>2, <2>3, <2>4, <2>5, <2>6, <2>7 DEF Ownership
<1>12. CASE RecoverDone
  <2> USE <1>12 DEF RecoverDone, EndAttempt, NothingListed, submitVars, workerVars
  <2>1. QueueOwns' /\ WorkerOwns' /\ SubmitOwns' /\ RecoverOwns' /\ AckedOnDisk'
    BY DEF Ownership, QueueOwns, WorkerOwns, OwnsItsJob, SubmitOwns, RecoverOwns, AckedOnDisk, Absent
  <2>2. BootFirst'
    BY DEF Ownership, BootFirst
  <2> QED
    BY <2>1, <2>2 DEF Ownership
<1>13. CASE RecoverFails \/ DeferRecovery \/ MountReturns
  BY <1>13 DEF RecoverFails, DeferRecovery, MountReturns, Ownership, BootFirst
<1>14. CASE Crash \/ Exit
  <2> USE <1>14 DEF Crash, Exit, Restart
  <2>1. QueueOwns' /\ SubmitOwns' /\ RecoverOwns'
    <3>1. queue' = <<>> /\ sub' = NoJob /\ \A j \in Jobs : snap'[j] = Absent
      BY DEF NothingListed
    <3> QED
      BY <3>1 DEF QueueOwns, SubmitOwns, RecoverOwns, Absent
  <2>2. WorkerOwns'
    BY DEF WorkerOwns, OwnsItsJob
  <2>3. BootFirst' /\ AckedOnDisk'
    BY DEF Ownership, BootFirst, AckedOnDisk
  <2> QED
    BY <2>1, <2>2, <2>3 DEF Ownership
<1>15. CASE Shutdown \/ UNCHANGED vars
  <2> USE <1>15 DEF Shutdown, vars, submitVars, workerVars, recoverVars
  <2>1. QueueOwns' /\ SubmitOwns' /\ RecoverOwns' /\ AckedOnDisk'
    BY DEF Ownership, QueueOwns, SubmitOwns, RecoverOwns, AckedOnDisk
  <2>2. WorkerOwns'
    BY DEF Ownership, WorkerOwns, OwnsItsJob
  <2>3. BootFirst'
    BY DEF Ownership, BootFirst, TypeOK
  <2> QED
    BY <2>1, <2>2, <2>3 DEF Ownership
<1> QED
  BY <1>1, <1>2, <1>3, <1>4, <1>5, <1>6, <1>7, <1>8, <1>9, <1>10, <1>11, <1>12, <1>13, <1>14, <1>15
     DEF Next, SubmitStep, WorkerStep, RecoverStep

\* Whoever holds a job is its only holder and sees its own record on disk, for
\* every number of crashes and failing writes, when recovery precedes serving.
THEOREM OwnershipCorrect == ASSUME ~LateRecovery PROVE Spec => []Ownership
<1>1. Init => TypeInv /\ Ownership
  BY TypeInit, OwnershipInit
<1>2. TypeInv /\ Ownership /\ [Next]_vars => (TypeInv /\ Ownership)'
  BY TypeStep, OwnershipStep
<1> QED
  BY <1>1, <1>2, PTL DEF Spec

\* An accepted request stays on disk: no crash, rejected submission or later
\* write of the record loses it or replaces it.
THEOREM AckedIsKeptCorrect == ASSUME ~LateRecovery PROVE Spec => []AckedIsKept
<1>1. Ownership => AckedIsKept
  BY DEF Ownership, AckedOnDisk, AckedIsKept
<1> QED
  BY <1>1, OwnershipCorrect, PTL

\* Exclusion: the queue, the workers, Submit and Recover never hold the same
\* job at the same time.
LEMMA OwnershipExcludes == TypeInv /\ Ownership => OneOwner
<1> SUFFICES ASSUME TypeInv, Ownership, NEW j \in Jobs, NEW g \in Holders(j), NEW h \in Holders(j)
             PROVE  g = h
  BY DEF OneOwner
<1>1. ASSUME NEW n \in 1 .. Len(queue), queue[n] = j, NEW k \in Holders(j)
      PROVE  k = <<"queue", n>>
  <2>1. /\ \A m \in 1 .. Len(queue) : queue[m] = j => m = n
        /\ \A w \in Workers : job[w] # j
        /\ sub # j /\ snap[j].state = "absent"
    BY <1>1 DEF Ownership, QueueOwns
  <2> QED
    BY <1>1, <2>1 DEF Holders
<1>2. ASSUME NEW w \in Workers, job[w] = j, NEW k \in Holders(j), \A n \in 1 .. Len(queue) : queue[n] # j
      PROVE  k = <<"worker", w>>
  <2>1. /\ \A v \in Workers : job[v] = j => v = w
        /\ sub # j /\ snap[j].state = "absent"
    BY <1>2, ConstantsAssumption DEF Ownership, WorkerOwns, OwnsItsJob
  <2> QED
    BY <1>2, <2>1 DEF Holders
<1>3. ~(sub = j /\ snap[j].state # "absent")
  BY ConstantsAssumption DEF Ownership, RecoverOwns, BootFirst
<1> QED
  BY <1>1, <1>2, <1>3 DEF Holders

\* No job is ever queued twice, run by two workers, or reconciled by Recover
\* while a worker runs it.
THEOREM OneOwnerCorrect == ASSUME ~LateRecovery PROVE Spec => []OneOwner
<1>1. Spec => []TypeInv
  BY TypeInit, TypeStep, PTL DEF Spec
<1> QED
  BY <1>1, OwnershipCorrect, OwnershipExcludes, PTL

-------------------------------------------------------------------------------
\* What one step can do to the store, read off the whole of Next: reserve an
\* unused identity, withdraw a request nobody was told is accepted, begin a
\* queued job, record progress of one that is processing, or complete it.
StoreChange(j, rec) ==
    \/ disk[j].state = "absent" /\ \E r \in Requests : rec = QueuedRecord(r)
    \/ disk[j].state = "queued" /\ acked[j] = NoReq /\ rec = Absent
    \/ /\ rec.req = disk[j].req
       /\ \/ disk[j].state = "queued" /\ rec.state = "processing" /\ rec.result = disk[j].result
          \/ disk[j].state = "processing" /\ rec.state = "processing" /\ rec.result = disk[j].result
          \/ disk[j].state = "processing" /\ rec.state = "completed"

\* A step of processJob or Recover that writes is one of these changes because
\* its writer owns the record (Ownership).
LEMMA StoreStep ==
    ASSUME TypeInv, Ownership, [Next]_vars, disk' # disk
    PROVE  acked' = acked /\ \E j \in Jobs : \E rec \in JobRecord :
              disk' = [disk EXCEPT ![j] = rec] /\ StoreChange(j, rec)
<1> USE DEF TypeInv
<1>1. ASSUME NEW j \in Jobs, NEW rec \in JobRecord, Save(j, rec), StoreChange(j, rec), acked' = acked
      PROVE  acked' = acked /\ \E k \in Jobs : \E new \in JobRecord :
                disk' = [disk EXCEPT ![k] = new] /\ StoreChange(k, new)
  BY <1>1 DEF Save
<1>2. ASSUME NEW j \in Jobs, NEW r \in Requests, SubmitPut(j, r)
      PROVE  acked' = acked /\ \E k \in Jobs : \E new \in JobRecord :
                disk' = [disk EXCEPT ![k] = new] /\ StoreChange(k, new)
  BY <1>1, <1>2, FreshRecords DEF SubmitPut, StoreChange
<1>3. ASSUME SubmitReject
      PROVE  acked' = acked /\ \E k \in Jobs : \E new \in JobRecord :
                disk' = [disk EXCEPT ![k] = new] /\ StoreChange(k, new)
  <2>1. sub \in Jobs /\ Save(sub, Absent) /\ acked' = acked
    BY <1>3 DEF SubmitReject, Delete, StoreFails, TypeOK
  <2>2. disk[sub].state = "queued" /\ acked[sub] = NoReq
    BY <2>1, ConstantsAssumption DEF Ownership, SubmitOwns
  <2> QED
    BY <1>1, <2>1, <2>2, FreshRecords DEF StoreChange
<1>4. ASSUME NEW w \in Workers, MarkProcessing(w) \/ ResetProgress(w) \/ Complete(w)
      PROVE  acked' = acked /\ \E k \in Jobs : \E new \in JobRecord :
                disk' = [disk EXCEPT ![k] = new] /\ StoreChange(k, new)
  <2>1. job[w] \in Jobs /\ OwnsItsJob(w) /\ mem[w] \in JobRecord /\ res[w] \in [Items -> Statuses]
    BY <1>4 DEF MarkProcessing, ResetProgress, Complete, Ownership, WorkerOwns, BusyHasJob, TypeOK
  <2>2. acked' = acked
    BY <1>4 DEF MarkProcessing, ResetProgress, Complete
  <2>3. CASE MarkProcessing(w)
    <3> DEFINE new == [mem[w] EXCEPT !.state = "processing"]
    <3>1. Save(job[w], new)
      BY <2>3 DEF MarkProcessing, StoreFails
    <3>2. new \in JobRecord
      BY <2>1, RecordUpdates
    <3>3. new.state = "processing" /\ new.req = mem[w].req /\ new.result = mem[w].result
      BY <2>1 DEF JobRecord
    <3>4. disk[job[w]].state = "queued" /\ mem[w] = disk[job[w]]
      BY <2>1, <2>3 DEF OwnsItsJob, MarkProcessing
    <3> HIDE DEF new
    <3> QED
      BY <1>1, <2>1, <2>2, <3>1, <3>2, <3>3, <3>4 DEF StoreChange
  <2>4. CASE ResetProgress(w)
    <3> DEFINE new == [mem[w] EXCEPT !.prog = [i \in Items |-> "pending"]]
    <3>1. Save(job[w], new)
      BY <2>4 DEF ResetProgress, StoreFails
    <3>2. new \in JobRecord
      BY <2>1, RecordUpdates
    <3>3. new.state = mem[w].state /\ new.req = mem[w].req /\ new.result = mem[w].result
      BY <2>1 DEF JobRecord
    <3>4. /\ disk[job[w]].state = "processing" /\ mem[w].state = "processing"
          /\ mem[w].req = disk[job[w]].req /\ mem[w].result = disk[job[w]].result
      BY <2>1, <2>4 DEF OwnsItsJob, ResetProgress
    <3> HIDE DEF new
    <3> QED
      BY <1>1, <2>1, <2>2, <3>1, <3>2, <3>3, <3>4 DEF StoreChange
  <2>5. CASE Complete(w)
    <3> DEFINE new == [mem[w] EXCEPT !.state = "completed", !.result = res[w]]
    <3>1. Save(job[w], new)
      BY <2>5 DEF Complete, StoreFails
    <3>2. new \in JobRecord
      BY <2>1, RecordUpdates
    <3>3. new.state = "completed" /\ new.req = mem[w].req
      BY <2>1 DEF JobRecord
    <3>4. disk[job[w]].state = "processing" /\ mem[w].req = disk[job[w]].req
      BY <2>1, <2>5 DEF OwnsItsJob, Complete
    <3> HIDE DEF new
    <3> QED
      BY <1>1, <2>1, <2>2, <3>1, <3>2, <3>3, <3>4 DEF StoreChange
  <2> QED
    BY <1>4, <2>3, <2>4, <2>5
<1>5. ASSUME NEW w \in Workers, NEW i \in Items,
             ItemStart(w, i) \/ ItemPlan(w, i) \/ ItemCommit(w, i) \/ ItemFromCache(w, i) \/ ItemFail(w, i)
      PROVE  acked' = acked /\ \E k \in Jobs : \E new \in JobRecord :
                disk' = [disk EXCEPT ![k] = new] /\ StoreChange(k, new)
  <2>1. /\ job[w] \in Jobs /\ OwnsItsJob(w) /\ mem[w] \in JobRecord
        /\ pc[w] = "items" /\ acked' = acked
    BY <1>5 DEF ItemStart, ItemPlan, ItemCommit, ItemFromCache, ItemFail, ItemStep,
                Ownership, WorkerOwns, BusyHasJob, TypeOK
  <2>2. PICK p \in ProgressStates : Save(job[w], [mem[w] EXCEPT !.prog[i] = p]) \/ StoreFails
    BY <1>5 DEF ItemStart, ItemPlan, ItemCommit, ItemFromCache, ItemFail, Track, ProgressStates
  <2> DEFINE new == [mem[w] EXCEPT !.prog[i] = p]
  <2>3. Save(job[w], new)
    BY <2>2 DEF StoreFails
  <2>4. new \in JobRecord
    BY <2>1, RecordUpdates
  <2>5. new.state = mem[w].state /\ new.req = mem[w].req /\ new.result = mem[w].result
    BY <2>1 DEF JobRecord
  <2>6. /\ disk[job[w]].state = "processing" /\ mem[w].state = "processing"
        /\ mem[w].req = disk[job[w]].req /\ mem[w].result = disk[job[w]].result
    BY <2>1 DEF OwnsItsJob
  <2> HIDE DEF new
  <2> QED
    BY <1>1, <2>1, <2>3, <2>4, <2>5, <2>6 DEF StoreChange
<1>6. ASSUME NEW j \in Jobs, RecoverReconcile(j)
      PROVE  acked' = acked /\ \E k \in Jobs : \E new \in JobRecord :
                disk' = [disk EXCEPT ![k] = new] /\ StoreChange(k, new)
  <2>1. PICK r \in [Items -> Statuses] : Save(j, [snap[j] EXCEPT !.state = "completed", !.result = r])
    BY <1>6 DEF RecoverReconcile
  <2> DEFINE new == [snap[j] EXCEPT !.state = "completed", !.result = r]
  <2>2. snap[j] \in JobRecord /\ snap[j] = disk[j] /\ disk[j].state = "processing" /\ acked' = acked
    BY <1>6 DEF RecoverReconcile, Ownership, RecoverOwns, TypeOK
  <2>3. new \in JobRecord
    BY <2>2, RecordUpdates
  <2>4. new.state = "completed" /\ new.req = disk[j].req
    BY <2>2 DEF JobRecord
  <2>5. Save(j, new)
    BY <2>1
  <2> HIDE DEF new
  <2> QED
    BY <1>1, <2>2, <2>3, <2>4, <2>5 DEF StoreChange
<1>7. ASSUME \/ SubmitSend \/ \E j \in Jobs, r \in Requests : SubmitReplay(j, r)
             \/ \E w \in Workers : Dequeue(w) \/ WorkerExit(w) \/ Load(w) \/ LoadFails(w)
             \/ \E j \in Jobs : RecoverEnqueue(j)
             \/ RecoverBegin \/ RecoverDone \/ RecoverFails \/ DeferRecovery \/ MountReturns
             \/ Crash \/ Shutdown \/ Exit \/ UNCHANGED vars
      PROVE  FALSE
  BY <1>7 DEF SubmitSend, SubmitReplay, Dequeue, WorkerExit, Load, LoadFails, RecoverEnqueue, RecoverBegin,
              RecoverDone, RecoverFails, DeferRecovery, MountReturns, Crash, Shutdown, Exit, Restart,
              StoreFails, vars
<1> QED
  BY <1>2, <1>3, <1>4, <1>5, <1>6, <1>7 DEF Next, SubmitStep, WorkerStep, RecoverStep

\* Completed results are final: a record that is completed is never written
\* again, by a worker, by Recover or by a client that repeats its request.
THEOREM CompletedIsFinalCorrect == ASSUME ~LateRecovery PROVE Spec => CompletedIsFinal
<1>1. TypeInv /\ Ownership /\ [Next]_vars =>
        [\A j \in Jobs : disk[j].state = "completed" => disk'[j] = disk[j]]_disk
  <2> SUFFICES ASSUME TypeInv, Ownership, [Next]_vars, disk' # disk,
                      NEW j \in Jobs, disk[j].state = "completed"
               PROVE  disk'[j] = disk[j]
    OBVIOUS
  <2>1. PICK k \in Jobs, rec \in JobRecord : disk' = [disk EXCEPT ![k] = rec] /\ StoreChange(k, rec)
    BY StoreStep
  <2>2. k # j
    BY <2>1 DEF StoreChange
  <2> QED
    BY <2>1, <2>2 DEF TypeInv, TypeOK
<1>2. Spec => []TypeInv
  BY TypeInit, TypeStep, PTL DEF Spec
<1> QED
  BY <1>1, <1>2, OwnershipCorrect, PTL DEF Spec, CompletedIsFinal

\* A client is told that a job is accepted only by Submit, by the answer to the
\* Submit that put it in the queue or to an identical one, and the answer names
\* the request on disk.
LEMMA AckStep ==
    ASSUME TypeInv, Ownership, [Next]_vars, acked' # acked
    PROVE  disk' = disk /\ \E j \in Jobs :
              disk[j].state # "absent" /\ acked' = [acked EXCEPT ![j] = disk[j].req]
<1>1. SubmitSend \/ \E j \in Jobs, r \in Requests : SubmitReplay(j, r)
  BY DEF Next, SubmitStep, SubmitPut, SubmitReject, WorkerStep, Dequeue, WorkerExit, Load, LoadFails,
         MarkProcessing, ResetProgress, ItemStart, ItemPlan, ItemCommit, ItemFromCache, ItemFail, ItemStep,
         Complete, RecoverStep, RecoverBegin, RecoverReconcile, RecoverEnqueue, RecoverDone, RecoverFails,
         DeferRecovery, MountReturns, Crash, Shutdown, Exit, Restart, vars
<1>2. CASE SubmitSend
  <2>1. sub \in Jobs /\ disk[sub].state = "queued" /\ disk[sub].req = subReq
    BY <1>2 DEF SubmitSend, TypeInv, TypeOK, Ownership, SubmitOwns
  <2> QED
    BY <1>2, <2>1 DEF SubmitSend
<1>3. CASE \E j \in Jobs, r \in Requests : SubmitReplay(j, r)
  BY <1>3 DEF SubmitReplay
<1> QED
  BY <1>1, <1>2, <1>3

\* The store shows a client the abstract job service: every step of Submit, the
\* workers, Recover, a crash or a restart is a step of JobSpec or changes
\* nothing a client can see.
THEOREM PromiseImplemented == ASSUME ~LateRecovery PROVE Spec => ImplementsPromise
<1> DEFINE entry == [j \in Jobs |-> [state |-> disk[j].state, req |-> disk[j].req, result |-> disk[j].result]]
<1>1. Init => Promise!SpecInit
  BY DEF Init, Promise!SpecInit, Promise!Unused, Absent
<1>2. TypeInv /\ TypeInv' /\ Ownership /\ [Next]_vars => [Promise!SpecNext]_(Promise!specVars)
  <2> SUFFICES ASSUME TypeInv, TypeInv', Ownership, [Next]_vars
               PROVE  [Promise!SpecNext]_(Promise!specVars)
    OBVIOUS
  <2>1. CASE disk' # disk
    <3>1. acked' = acked
      BY <2>1, StoreStep
    <3>2. PICK j \in Jobs, rec \in JobRecord : disk' = [disk EXCEPT ![j] = rec] /\ StoreChange(j, rec)
      BY <2>1, StoreStep
    <3>3. entry' = [entry EXCEPT ![j] = [state |-> rec.state, req |-> rec.req, result |-> rec.result]]
      BY <3>2 DEF TypeInv, TypeOK
    <3>4. entry[j] = [state |-> disk[j].state, req |-> disk[j].req, result |-> disk[j].result]
      OBVIOUS
    <3>5. CASE disk[j].state = "absent" /\ \E r \in Requests : rec = QueuedRecord(r)
      <4>1. PICK r \in Requests : rec = QueuedRecord(r)
        BY <3>5
      <4>2. entry' = [entry EXCEPT ![j] = [state |-> "queued", req |-> r, result |-> NoResult]]
        BY <3>3, <4>1 DEF QueuedRecord
      <4>3. Promise!Reserve(j, r)
        BY <3>1, <3>4, <3>5, <4>2 DEF Promise!Reserve
      <4> QED
        BY <4>3 DEF Promise!SpecNext
    <3>6. CASE disk[j].state = "queued" /\ acked[j] = NoReq /\ rec = Absent
      <4>1. Promise!Withdraw(j)
        BY <3>1, <3>3, <3>4, <3>6 DEF Promise!Withdraw, Promise!Unused, Absent
      <4> QED
        BY <4>1 DEF Promise!SpecNext
    <3>7. CASE rec.req = disk[j].req /\ disk[j].state = "queued" /\ rec.state = "processing" /\ rec.result = disk[j].result
      <4>1. [entry EXCEPT ![j].state = "processing"] = [entry EXCEPT ![j] = [entry[j] EXCEPT !.state = "processing"]]
        OBVIOUS
      <4>2. [entry[j] EXCEPT !.state = "processing"] = [state |-> rec.state, req |-> rec.req, result |-> rec.result]
        BY <3>4, <3>7
      <4>3. Promise!Begin(j)
        BY <3>1, <3>3, <3>4, <3>7, <4>1, <4>2 DEF Promise!Begin
      <4> QED
        BY <4>3 DEF Promise!SpecNext
    <3>8. CASE rec.req = disk[j].req /\ disk[j].state = "processing" /\ rec.state = "processing" /\ rec.result = disk[j].result
      <4>1. entry' = entry
        BY <3>3, <3>4, <3>8
      <4> QED
        BY <3>1, <4>1 DEF Promise!specVars
    <3>9. CASE rec.req = disk[j].req /\ disk[j].state = "processing" /\ rec.state = "completed"
      <4>1. rec.result \in [Items -> Statuses]
        BY DEF JobRecord
      <4>2. Promise!Finish(j, rec.result)
        BY <3>1, <3>3, <3>4, <3>9 DEF Promise!Finish
      <4> QED
        BY <4>1, <4>2 DEF Promise!SpecNext
    <3> QED
      BY <3>2, <3>5, <3>6, <3>7, <3>8, <3>9 DEF StoreChange
  <2>2. CASE acked' # acked
    <3>1. PICK j \in Jobs : disk' = disk /\ disk[j].state # "absent" /\ acked' = [acked EXCEPT ![j] = disk[j].req]
      BY <2>2, AckStep
    <3>2. Promise!Acknowledge(j)
      BY <3>1 DEF Promise!Acknowledge
    <3> QED
      BY <3>2 DEF Promise!SpecNext
  <2>3. CASE UNCHANGED <<disk, acked>>
    BY <2>3 DEF Promise!specVars
  <2> QED
    BY <2>1, <2>2, <2>3
<1>3. Spec => []TypeInv
  BY TypeInit, TypeStep, PTL DEF Spec
<1> QED
  BY <1>1, <1>2, <1>3, OwnershipCorrect, PTL DEF Spec, ImplementsPromise, Promise!Spec

-------------------------------------------------------------------------------
\* Somebody holds job j: Holders(j) spelled out.
Held(j) ==
    \/ \E n \in 1 .. Len(queue) : queue[n] = j
    \/ \E w \in Workers : job[w] = j
    \/ sub = j
    \/ snap[j].state # "absent"

\* The times at which every unfinished job must have a holder: from the moment
\* Recover has its list, also before HTTP is served, until the process stops, which
\* may leave jobs to the next one.
MustHold == (recovering \/ recovered) /\ phase # "stopping" /\ faults = 0

\* Every unfinished job has a holder.
AllHeld == \A j \in Jobs : disk[j].state \in Unfinished => Held(j)

\* The inductive form of NoStrandedJob.  A worker that is idle holds nothing, so
\* it can take a job without letting go of another.
Placed ==
    /\ \A w \in Workers : pc[w] = "idle" => job[w] = NoJob
    /\ MustHold => AllHeld

\* Nothing is on disk at first.
LEMMA PlacedInit == Init => Placed
BY DEF Init, Placed, AllHeld, Unfinished, Absent

\* A step keeps every unfinished job in somebody's hands if it writes at most one
\* record, of a job that is held afterwards or needs nobody, and lets go of no other.
LEMMA KeepsHeld ==
    ASSUME TypeInv, AllHeld, NEW j \in Jobs,
           disk' = disk \/ \E rec : disk' = [disk EXCEPT ![j] = rec],
           \A k \in Jobs : k # j /\ Held(k) => Held(k)',
           disk'[j].state \in Unfinished => Held(j)'
    PROVE  AllHeld'
<1> SUFFICES ASSUME NEW k \in Jobs, disk'[k].state \in Unfinished PROVE Held(k)'
  BY DEF AllHeld, Unfinished
<1>1. CASE k = j
  BY <1>1
<1>2. CASE k # j
  <2>1. disk'[k] = disk[k]
    BY <1>2 DEF TypeInv, TypeOK
  <2>2. Held(k)
    BY <2>1 DEF AllHeld
  <2> QED
    BY <1>2, <2>2
<1> QED
  BY <1>1, <1>2

\* A worker that becomes idle lets go of its job.
LEMMA IdleStep ==
    ASSUME TypeInv, Placed, [Next]_vars, NEW w \in Workers, pc'[w] = "idle"
    PROVE  job'[w] = NoJob
<1> USE DEF TypeInv, TypeOK, Placed
<1>1. ASSUME NEW v \in Workers, WorkerStep(v) PROVE job'[w] = NoJob
  BY <1>1 DEF WorkerStep, Dequeue, WorkerExit, Load, LoadFails, MarkProcessing, ResetProgress, ItemStart, ItemPlan,
              ItemCommit, ItemFromCache, ItemFail, ItemStep, Complete, GoIdle, Become
<1>2. CASE \/ SubmitStep \/ RecoverStep \/ MountReturns \/ Shutdown \/ UNCHANGED vars
  BY <1>2 DEF SubmitStep, SubmitSend, SubmitReject, SubmitPut, SubmitReplay, RecoverStep, RecoverBegin, RecoverDone,
              RecoverFails, DeferRecovery, RecoverReconcile, RecoverEnqueue, MountReturns, Shutdown, vars, workerVars
<1>3. CASE Crash \/ Exit
  BY <1>3 DEF Crash, Exit, Restart
<1> QED
  BY <1>1, <1>2, <1>3 DEF Next

\* The time begins when Recover has its list, and not before.
LEMMA MustHoldBegins ==
    ASSUME TypeInv, [Next]_vars, MustHold', ~RecoverBegin
    PROVE  MustHold
<1> USE DEF MustHold, TypeInv, TypeOK
<1>1. faults' \in {faults, faults + 1} => faults = 0
  BY ConstantsAssumption
<1>2. CASE SubmitStep
  BY <1>1, <1>2 DEF SubmitStep, SubmitSend, SubmitReject, SubmitPut, SubmitReplay, Delete, Save, StoreFails, recoverVars
<1>3. ASSUME NEW w \in Workers, WorkerStep(w) PROVE MustHold
  <2>1. UNCHANGED <<phase, recoverVars>>
    BY <1>3 DEF WorkerStep, Dequeue, WorkerExit, Load, LoadFails, MarkProcessing, ResetProgress, ItemStart, ItemPlan,
                ItemCommit, ItemFromCache, ItemFail, ItemStep, Complete
  <2>2. faults' \in {faults, faults + 1}
    BY <1>3 DEF WorkerStep, Dequeue, WorkerExit, Load, LoadFails, MarkProcessing, ResetProgress, ItemStart, ItemPlan,
                ItemCommit, ItemFromCache, ItemFail, Track, Complete, Save, StoreFails
  <2> QED
    BY <1>1, <2>1, <2>2 DEF recoverVars
<1>4. CASE RecoverStep
  BY <1>1, <1>4 DEF RecoverStep, RecoverDone, RecoverFails, DeferRecovery, RecoverReconcile, RecoverEnqueue,
                    EndAttempt, Save, StoreFails, recoverVars
<1>5. CASE MountReturns \/ UNCHANGED vars
  BY <1>5 DEF MountReturns, vars, recoverVars
<1>6. CASE Crash \/ Exit \/ Shutdown
  BY <1>6 DEF Crash, Exit, Shutdown, Restart
<1> QED
  BY <1>2, <1>3, <1>4, <1>5, <1>6 DEF Next

\* Every step hands a job on, finishes it, or withdraws it, whether Recover comes
\* before the service of HTTP or beside it.
LEMMA PlacedStep ==
    ASSUME TypeInv, Placed, [Next]_vars
    PROVE  Placed'
<1> USE DEF TypeInv
<1> SUFFICES ASSUME MustHold' PROVE AllHeld'
  BY IdleStep DEF Placed
<1>1. CASE RecoverBegin
  BY <1>1 DEF RecoverBegin, List, AllHeld, Held, Unfinished, TypeOK
<1> SUFFICES ASSUME ~RecoverBegin PROVE AllHeld'
  BY <1>1
<1> AllHeld /\ faults = 0 /\ faults' = 0 /\ ~StoreFails /\ phase # "stopping" /\ NoJob \notin Jobs
  BY MustHoldBegins, ConstantsAssumption DEF MustHold, StoreFails, Placed
<1>2. ASSUME NEW j \in Jobs, NEW r \in Requests, SubmitPut(j, r) PROVE AllHeld'
  <2>1. disk' = [disk EXCEPT ![j] = QueuedRecord(r)] /\ sub' = j
        /\ UNCHANGED <<queue, job, snap>> /\ sub = NoJob
    BY <1>2 DEF SubmitPut, Save, workerVars, recoverVars
  <2>2. \A k \in Jobs : k # j /\ Held(k) => Held(k)'
    BY <2>1 DEF Held
  <2>3. Held(j)'
    BY <2>1 DEF Held
  <2> QED
    BY <2>1, <2>2, <2>3, KeepsHeld
<1>3. ASSUME SubmitSend PROVE AllHeld'
  <2>1. /\ sub \in Jobs /\ sub # NoJob /\ queue' = Append(queue, sub)
        /\ UNCHANGED <<disk, job, snap>>
    BY <1>3 DEF SubmitSend, workerVars, recoverVars, TypeOK
  <2>2. queue \in Seq(Jobs)
    BY DEF TypeOK
  <2>3. /\ Len(queue') = Len(queue) + 1 /\ queue'[Len(queue) + 1] = sub /\ Len(queue) \in Nat
        /\ \A n \in 1 .. Len(queue) : queue'[n] = queue[n]
    BY <2>1, <2>2
  <2>4. ASSUME NEW k \in Jobs, Held(k) PROVE Held(k)'
    <3>1. CASE \E n \in 1 .. Len(queue) : queue[n] = k
      BY <2>3, <3>1 DEF Held
    <3>2. CASE sub = k
      <4>1. Len(queue) + 1 \in 1 .. Len(queue')
        BY <2>3
      <4> QED
        BY <2>3, <3>2, <4>1 DEF Held
    <3>3. CASE (\E w \in Workers : job[w] = k) \/ snap[k].state # "absent"
      BY <2>1, <3>3 DEF Held
    <3> QED
      BY <2>4, <3>1, <3>2, <3>3 DEF Held
  <2> QED
    BY <2>1, <2>4 DEF AllHeld
<1>4. ASSUME SubmitReject PROVE AllHeld'
  <2>1. /\ sub \in Jobs /\ disk' = [disk EXCEPT ![sub] = Absent] /\ sub' = NoJob
        /\ UNCHANGED <<queue, job, snap>>
    BY <1>4 DEF SubmitReject, Delete, Save, workerVars, recoverVars, TypeOK
  <2>2. \A k \in Jobs : k # sub /\ Held(k) => Held(k)'
    BY <2>1 DEF Held
  <2>3. disk'[sub].state \notin Unfinished
    BY <2>1 DEF Absent, Unfinished, TypeOK
  <2> QED
    BY <2>1, <2>2, <2>3, KeepsHeld
<1>5. ASSUME NEW w \in Workers, Dequeue(w) PROVE AllHeld'
  <2>1. /\ pc[w] = "idle" /\ queue # <<>> /\ queue' = Tail(queue) /\ job' = [job EXCEPT ![w] = Head(queue)]
        /\ UNCHANGED <<disk, sub, snap>>
    BY <1>5 DEF Dequeue, Become, submitVars, recoverVars
  <2>2. job[w] = NoJob /\ job'[w] = Head(queue) /\ \A v \in Workers \ {w} : job'[v] = job[v]
    BY <2>1 DEF Placed, TypeOK
  <2>3. queue \in Seq(Jobs)
    BY DEF TypeOK
  <2>4. /\ Head(queue) = queue[1] /\ Len(queue) \in Nat /\ Len(queue') = Len(queue) - 1
        /\ \A n \in 1 .. Len(queue') : queue'[n] = queue[n + 1]
    BY <2>1, <2>3
  <2>5. ASSUME NEW k \in Jobs, Held(k) PROVE Held(k)'
    <3>1. CASE \E n \in 1 .. Len(queue) : queue[n] = k
      <4>1. PICK n \in 1 .. Len(queue) : queue[n] = k
        BY <3>1
      <4>2. CASE n = 1
        BY <2>2, <2>4, <4>1, <4>2 DEF Held
      <4>3. CASE n # 1
        <5>1. n - 1 \in 1 .. Len(queue') /\ queue'[n - 1] = queue[(n - 1) + 1] /\ (n - 1) + 1 = n
          BY <2>4, <4>1, <4>3
        <5> QED
          BY <4>1, <5>1 DEF Held
      <4> QED
        BY <4>2, <4>3
    <3>2. CASE \E v \in Workers : job[v] = k
      BY <2>2, <3>2 DEF Held
    <3>3. CASE sub = k \/ snap[k].state # "absent"
      BY <2>1, <3>3 DEF Held
    <3> QED
      BY <2>5, <3>1, <3>2, <3>3 DEF Held
  <2> QED
    BY <2>1, <2>5 DEF AllHeld
<1>6. ASSUME NEW w \in Workers, LoadFails(w) PROVE AllHeld'
  <2>1. /\ job[w] \in Jobs /\ disk[job[w]].state = "absent" /\ UNCHANGED <<disk, queue, sub, snap>>
        /\ \A v \in Workers \ {w} : job'[v] = job[v]
    BY <1>6 DEF LoadFails, GoIdle, Become, BusyHasJob, TypeOK, submitVars, recoverVars
  <2>2. \A k \in Jobs : k # job[w] /\ Held(k) => Held(k)'
    BY <2>1 DEF Held
  <2> QED
    BY <2>1, <2>2, KeepsHeld DEF Unfinished
<1>7. ASSUME NEW w \in Workers, MarkProcessing(w) \/ ResetProgress(w) PROVE AllHeld'
  <2>1. /\ job[w] \in Jobs /\ (\E rec : disk' = [disk EXCEPT ![job[w]] = rec]) /\ job' = job
        /\ UNCHANGED <<queue, sub, snap>>
    <3>1. job[w] \in Jobs
      BY <1>7 DEF MarkProcessing, ResetProgress, BusyHasJob
    <3>2. CASE MarkProcessing(w)
      <4>1. Save(job[w], [mem[w] EXCEPT !.state = "processing"])
        BY <3>2, Zenon DEF MarkProcessing
      <4> QED
        BY <3>1, <3>2, <4>1 DEF MarkProcessing, Save, Become, TypeOK, submitVars, recoverVars
    <3>3. CASE ResetProgress(w)
      <4>1. Save(job[w], [mem[w] EXCEPT !.prog = [i \in Items |-> "pending"]])
        BY <3>3, Zenon DEF ResetProgress
      <4> QED
        BY <3>1, <3>3, <4>1 DEF ResetProgress, Save, Become, TypeOK, submitVars, recoverVars
    <3> QED
      BY <1>7, <3>2, <3>3
  <2>2. (\A k \in Jobs : Held(k) => Held(k)') /\ Held(job[w])'
    BY <2>1 DEF Held
  <2> QED
    BY <2>1, <2>2, KeepsHeld
<1>8. ASSUME NEW w \in Workers, NEW i \in Items,
             ItemStart(w, i) \/ ItemPlan(w, i) \/ ItemCommit(w, i) \/ ItemFromCache(w, i) \/ ItemFail(w, i)
      PROVE  AllHeld'
  <2>1. /\ job[w] \in Jobs
        /\ UNCHANGED <<queue, sub, snap, job>>
    BY <1>8 DEF ItemStart, ItemPlan, ItemCommit, ItemFromCache, ItemFail, ItemStep, BusyHasJob, TypeOK,
                submitVars, recoverVars
  <2>2. (\E rec : disk' = [disk EXCEPT ![job[w]] = rec])
    <3>1. \E rec : Save(job[w], rec)
      BY <1>8, Zenon DEF ItemStart, ItemPlan, ItemCommit, ItemFromCache, ItemFail, Track
    <3> QED
      BY <3>1, Zenon DEF Save
  <2>3. (\A k \in Jobs : Held(k) => Held(k)') /\ Held(job[w])'
    BY <2>1 DEF Held
  <2> QED
    BY <2>1, <2>2, <2>3, KeepsHeld
<1>9. ASSUME NEW w \in Workers, Complete(w) PROVE AllHeld'
  <2> DEFINE new == [mem[w] EXCEPT !.state = "completed", !.result = res[w]]
  <2>1. /\ job[w] \in Jobs /\ job' = [job EXCEPT ![w] = NoJob] /\ disk' = [disk EXCEPT ![job[w]] = new]
        /\ UNCHANGED <<queue, sub, snap>>
    BY <1>9 DEF Complete, Save, GoIdle, Become, BusyHasJob, TypeOK, submitVars, recoverVars
  <2>2. new.state = "completed"
    BY DEF TypeOK, JobRecord
  <2> HIDE DEF new
  <2>3. disk'[job[w]].state \notin Unfinished
    BY <2>1, <2>2 DEF Unfinished, TypeOK
  <2>4. \A v \in Workers \ {w} : job'[v] = job[v]
    BY <2>1 DEF TypeOK
  <2>5. \A k \in Jobs : k # job[w] /\ Held(k) => Held(k)'
    BY <2>1, <2>4 DEF Held
  <2> QED
    BY <2>1, <2>3, <2>5, KeepsHeld
<1>10. ASSUME NEW j \in Jobs, RecoverReconcile(j) PROVE AllHeld'
  <2>1. PICK r \in [Items -> Statuses] : Save(j, [snap[j] EXCEPT !.state = "completed", !.result = r])
    BY <1>10, Zenon DEF RecoverReconcile
  <2> DEFINE new == [snap[j] EXCEPT !.state = "completed", !.result = r]
  <2>2. new.state = "completed"
    BY DEF TypeOK, JobRecord
  <2>3. disk' = [disk EXCEPT ![j] = new]
    BY <2>1 DEF Save
  <2> HIDE DEF new
  <2>4. disk'[j].state \notin Unfinished
    BY <2>2, <2>3 DEF Unfinished, TypeOK
  <2>5. UNCHANGED <<queue, sub, job>> /\ snap' = [snap EXCEPT ![j] = Absent]
    BY <1>10 DEF RecoverReconcile, submitVars, workerVars
  <2>6. \A k \in Jobs : k # j => snap'[k] = snap[k]
    BY <2>5 DEF TypeOK
  <2>7. \A k \in Jobs : k # j /\ Held(k) => Held(k)'
    BY <2>5, <2>6 DEF Held
  <2> QED
    BY <2>3, <2>4, <2>5, <2>7, KeepsHeld
<1>11. ASSUME NEW j \in Jobs, RecoverEnqueue(j) PROVE AllHeld'
  <2>1. /\ queue' = Append(queue, j) /\ snap' = [snap EXCEPT ![j] = Absent]
        /\ UNCHANGED <<disk, sub, job>>
    BY <1>11 DEF RecoverEnqueue, submitVars, workerVars
  <2>2. queue \in Seq(Jobs)
    BY DEF TypeOK
  <2>3. /\ Len(queue') = Len(queue) + 1 /\ queue'[Len(queue) + 1] = j /\ Len(queue) \in Nat
        /\ \A n \in 1 .. Len(queue) : queue'[n] = queue[n]
    BY <2>1, <2>2
  <2>4. Len(queue) + 1 \in 1 .. Len(queue')
    BY <2>3
  <2>5. Held(j)'
    BY <2>3, <2>4 DEF Held
  <2>6. \A k \in Jobs : k # j => snap'[k] = snap[k]
    BY <2>1 DEF TypeOK
  <2>7. ASSUME NEW k \in Jobs, k # j, Held(k) PROVE Held(k)'
    <3>1. CASE \E n \in 1 .. Len(queue) : queue[n] = k
      BY <2>3, <3>1 DEF Held
    <3>2. CASE sub = k \/ (\E w \in Workers : job[w] = k) \/ snap[k].state # "absent"
      BY <2>1, <2>6, <2>7, <3>2 DEF Held
    <3> QED
      BY <2>7, <3>1, <3>2 DEF Held
  <2> QED
    BY <2>1, <2>5, <2>7, KeepsHeld
<1>12. CASE RecoverDone
  <2>1. /\ snap = NothingListed /\ snap' = NothingListed
        /\ UNCHANGED <<disk, queue, sub, job>>
    BY <1>12 DEF RecoverDone, EndAttempt, submitVars, workerVars
  <2> QED
    BY <2>1 DEF AllHeld, Held
<1>13. ASSUME NEW w \in Workers, Load(w) PROVE AllHeld'
  <2>1. job' = job /\ UNCHANGED <<disk, queue, sub, snap>>
    BY <1>13 DEF Load, Become, TypeOK, submitVars, recoverVars
  <2> QED
    BY <2>1 DEF AllHeld, Held
<1>14. CASE \/ \E w \in Workers : WorkerExit(w)
            \/ \E j \in Jobs, r \in Requests : SubmitReplay(j, r)
            \/ MountReturns \/ UNCHANGED vars
  <2>1. UNCHANGED <<disk, queue, sub, job, snap>>
    BY <1>14 DEF WorkerExit, SubmitReplay, MountReturns, vars, submitVars, workerVars, recoverVars
  <2> QED
    BY <2>1 DEF AllHeld, Held
<1>15. CASE Crash \/ Exit \/ Shutdown
  BY <1>15 DEF Crash, Exit, Shutdown, Restart, MustHold
<1>16. CASE DeferRecovery
  BY <1>16 DEF DeferRecovery, AllHeld, Held, submitVars, workerVars, recoverVars
<1>17. CASE RecoverFails
  BY <1>17 DEF RecoverFails
<1> QED
  BY <1>2, <1>3, <1>4, <1>5, <1>6, <1>7, <1>8, <1>9, <1>10, <1>11, <1>12, <1>13, <1>14, <1>15, <1>16, <1>17
     DEF Next, SubmitStep, WorkerStep, RecoverStep

\* No path through Submit, the workers and Recover drops a job: while the service
\* is up and no write has failed, every unfinished record is in somebody's hands,
\* also when Recover only succeeds while jobs are accepted and run.
THEOREM NoStrandedJobCorrect == Spec => []NoStrandedJob
<1>1. Init => TypeInv /\ Placed
  BY TypeInit, PlacedInit
<1>2. TypeInv /\ Placed /\ [Next]_vars => (TypeInv /\ Placed)'
  BY TypeStep, PlacedStep
<1>3. Placed => NoStrandedJob
  <2> SUFFICES ASSUME Placed, phase = "serving", recovered, faults = 0,
                      NEW j \in Jobs, disk[j].state \in Unfinished
               PROVE  Holders(j) # {}
    BY DEF NoStrandedJob, Unfinished
  <2>1. Held(j)
    BY DEF Placed, AllHeld, MustHold
  <2> QED
    BY <2>1, Zenon DEF Held, Holders
<1> QED
  BY <1>1, <1>2, <1>3, PTL DEF Spec

-------------------------------------------------------------------------------
\* What the progress on disk, the progress in the tracker, the item goroutine
\* and its result have to do with each other while a worker runs its items: the
\* disk may lag behind, but not lose a verdict, and every verdict in the tracker
\* is that of the result.
InStep(w, i) ==
    /\ item[w][i] = "wait" => mem[w].prog[i] = "pending"
    /\ item[w][i] = "run" => mem[w].prog[i] \in {"processing", "planned", "committed"}
    /\ item[w][i] = "done" =>
          \/ mem[w].prog[i] = "committed" /\ res[w][i] = "success"
          \/ mem[w].prog[i] \in {"rejected", "failed"} /\ res[w][i] = mem[w].prog[i]
    /\ disk[job[w]].prog[i] = "committed" => mem[w].prog[i] \in {"committed", "failed"}
    /\ disk[job[w]].prog[i] = "rejected" => mem[w].prog[i] = "rejected"

\* A record has no verdicts before its job is begun and no result before it is
\* completed; from then on it is in step with its worker.
Progress ==
    /\ \A j \in Jobs : disk[j].state = "queued" => disk[j].prog = NoProgress
    /\ \A j \in Jobs : disk[j].state \in {"queued", "processing"} => disk[j].result = NoResult
    /\ \A w \in Workers : pc[w] = "reset" => disk[job[w]].prog = NoProgress
    /\ \A w \in Workers : pc[w] = "items" => \A i \in Items : InStep(w, i)

\* There are no records at first.
LEMMA ProgressInit == Init => Progress
BY DEF Init, Progress, Absent

\* A worker that writes at most its own record leaves the items of the other
\* workers in step.
LEMMA ProgressFrame ==
    ASSUME TypeInv, Progress, NEW j \in Jobs, NEW rec \in JobRecord,
           disk' = disk \/ disk' = [disk EXCEPT ![j] = rec],
           rec.state = "queued" => rec.prog = NoProgress,
           rec.state \in {"queued", "processing"} => rec.result = NoResult,
           NEW w \in Workers,
           \A v \in Workers : v # w /\ pc'[v] \in {"reset", "items"} =>
              /\ job[v] # j /\ pc'[v] = pc[v] /\ job'[v] = job[v]
              /\ mem'[v] = mem[v] /\ item'[v] = item[v] /\ res'[v] = res[v],
           pc'[w] = "reset" => (disk[job[w]].prog)' = NoProgress,
           pc'[w] = "items" => \A i \in Items : InStep(w, i)'
    PROVE  Progress'
<1>1. ASSUME NEW k \in Jobs
      PROVE  /\ disk'[k].state = "queued" => disk'[k].prog = NoProgress
             /\ disk'[k].state \in {"queued", "processing"} => disk'[k].result = NoResult
  BY DEF Progress, TypeInv, TypeOK
<1>2. ASSUME NEW v \in Workers, v # w, pc'[v] \in {"reset", "items"}
      PROVE  /\ pc'[v] = pc[v] /\ job'[v] = job[v] /\ mem'[v] = mem[v] /\ item'[v] = item[v] /\ res'[v] = res[v]
             /\ disk'[job[v]] = disk[job[v]]
  <2>1. job[v] \in Jobs /\ job[v] # j
    BY <1>2 DEF TypeInv, BusyHasJob
  <2> QED
    BY <1>2, <2>1 DEF TypeInv, TypeOK
<1>3. ASSUME NEW v \in Workers, pc'[v] = "reset" PROVE (disk[job[v]].prog)' = NoProgress
  <2>1. CASE v # w
    BY <1>2, <1>3, <2>1 DEF Progress
  <2>2. CASE v = w
    BY <1>3, <2>2
  <2> QED
    BY <2>1, <2>2
<1>4. ASSUME NEW v \in Workers, pc'[v] = "items", NEW i \in Items PROVE InStep(v, i)'
  <2>1. CASE v # w
    <3>1. InStep(v, i)
      BY <1>2, <1>4, <2>1 DEF Progress
    <3> QED
      BY <1>2, <1>4, <2>1, <3>1 DEF InStep
  <2>2. CASE v = w
    BY <1>4, <2>2
  <2> QED
    BY <2>1, <2>2
<1> QED
  BY <1>1, <1>3, <1>4 DEF Progress

\* An item step changes the progress of its own item in the tracker, may write
\* the tracker's record, keeps every item in step, and a verdict on disk.
LEMMA ItemEffect ==
    ASSUME TypeInv, Ownership, Progress, NEW w \in Workers, NEW i \in Items,
           ItemStart(w, i) \/ ItemPlan(w, i) \/ ItemCommit(w, i) \/ ItemFromCache(w, i) \/ ItemFail(w, i)
    PROVE  /\ job[w] \in Jobs /\ UNCHANGED <<pc, job>> /\ pc[w] = "items"
           /\ mem'[w] \in JobRecord /\ mem'[w].state = "processing" /\ mem'[w].result = NoResult
           /\ disk' = disk \/ disk' = [disk EXCEPT ![job[w]] = mem'[w]]
           /\ \A v \in Workers \ {w} : mem'[v] = mem[v] /\ item'[v] = item[v] /\ res'[v] = res[v]
           /\ \A k \in Items :
                 /\ InStep(w, k)'
                 /\ disk[job[w]].prog[k] = "committed" => mem'[w].prog[k] \in {"committed", "failed"}
                 /\ disk[job[w]].prog[k] = "rejected" => mem'[w].prog[k] = "rejected"
<1> USE DEF TypeInv
<1>1. /\ pc[w] = "items" /\ UNCHANGED <<pc, job>> /\ item[w][i] \in {"wait", "run"}
  BY DEF ItemStart, ItemPlan, ItemCommit, ItemFromCache, ItemFail, ItemStep
<1>2. /\ job[w] \in Jobs /\ mem[w] \in JobRecord /\ disk[job[w]] \in JobRecord
      /\ mem[w].state = "processing" /\ mem[w].result = NoResult /\ \A k \in Items : InStep(w, k)
  BY <1>1 DEF TypeOK, BusyHasJob, Ownership, WorkerOwns, OwnsItsJob, Progress
<1>3. PICK p \in ProgressStates :
         /\ mem' = [mem EXCEPT ![w] = [mem[w] EXCEPT !.prog[i] = p]]
         /\ Save(job[w], [mem[w] EXCEPT !.prog[i] = p]) \/ StoreFails
         /\ \/ item' = item /\ res' = res /\ item[w][i] = "run" /\ mem[w].prog[i] = "processing" /\ p = "planned"
            \/ item' = [item EXCEPT ![w][i] = "run"] /\ res' = res /\ item[w][i] = "wait" /\ p = "processing"
            \/ /\ item' = item /\ \E s \in Statuses : res' = [res EXCEPT ![w][i] = s]
               /\ item[w][i] = "run" /\ mem[w].prog[i] = "planned" /\ p = "committed"
            \/ /\ item' = [item EXCEPT ![w][i] = "done"] /\ res' = [res EXCEPT ![w][i] = "success"]
               /\ mem[w].prog[i] \in {"processing", "planned"} /\ p = "committed"
            \/ /\ item' = [item EXCEPT ![w][i] = "done"] /\ res' = [res EXCEPT ![w][i] = p]
               /\ item[w][i] = "run" /\ p \in {"rejected", "failed"}
               /\ p = "rejected" => mem[w].prog[i] = "processing"
  <2>1. CASE ItemStart(w, i)
    BY <2>1, Zenon DEF ItemStart, Track, ProgressStates
  <2>2. CASE ItemPlan(w, i)
    BY <2>2, Zenon DEF ItemPlan, Track, ProgressStates
  <2>3. CASE ItemCommit(w, i)
    BY <2>3, Zenon DEF ItemCommit, ProgressStates, Statuses
  <2>4. CASE ItemFromCache(w, i)
    BY <2>4, Zenon DEF ItemFromCache, Track, ProgressStates
  <2>5. CASE ItemFail(w, i)
    BY <2>5, Zenon DEF ItemFail, Track, ProgressStates
  <2> QED
    BY <2>1, <2>2, <2>3, <2>4, <2>5
<1> DEFINE new == [mem[w] EXCEPT !.prog[i] = p]
<1>4. /\ new \in JobRecord /\ new.state = "processing" /\ new.result = NoResult /\ new.prog[i] = p
      /\ \A k \in Items : k # i => new.prog[k] = mem[w].prog[k]
  <2>1. new \in JobRecord
    BY <1>2, RecordUpdates
  <2>2. new.state = mem[w].state /\ new.result = mem[w].result
    BY <1>2 DEF JobRecord
  <2>3. new.prog = [mem[w].prog EXCEPT ![i] = p] /\ mem[w].prog \in [Items -> ProgressStates]
    BY <1>2 DEF JobRecord
  <2> HIDE DEF new
  <2>4. new.prog[i] = p /\ \A k \in Items : k # i => new.prog[k] = mem[w].prog[k]
    BY <2>3
  <2> QED
    BY <1>2, <2>1, <2>2, <2>4
<1>5. mem'[w] = new /\ \A v \in Workers \ {w} : mem'[v] = mem[v]
  BY <1>3 DEF TypeOK
<1>6. disk' = disk \/ disk' = [disk EXCEPT ![job[w]] = new]
  BY <1>3 DEF Save, StoreFails
<1> HIDE DEF new
<1>7. /\ \A v \in Workers \ {w} : item'[v] = item[v] /\ res'[v] = res[v]
      /\ \A k \in Items : k # i => item'[w][k] = item[w][k] /\ res'[w][k] = res[w][k]
  BY <1>3 DEF TypeOK
<1>8. \/ item'[w][i] = "run" /\ item[w][i] = "run" /\ mem[w].prog[i] = "processing" /\ p = "planned"
      \/ item'[w][i] = "run" /\ item[w][i] = "wait" /\ p = "processing"
      \/ item'[w][i] = "run" /\ mem[w].prog[i] = "planned" /\ p = "committed"
      \/ /\ item'[w][i] = "done" /\ res'[w][i] = "success"
         /\ mem[w].prog[i] \in {"processing", "planned"} /\ p = "committed"
      \/ /\ item'[w][i] = "done" /\ res'[w][i] = p /\ item[w][i] = "run" /\ p \in {"rejected", "failed"}
         /\ p = "rejected" => mem[w].prog[i] = "processing"
  BY <1>3 DEF TypeOK
<1>9. ASSUME NEW k \in Items
      PROVE  /\ disk[job[w]].prog[k] = "committed" => new.prog[k] \in {"committed", "failed"}
             /\ disk[job[w]].prog[k] = "rejected" => new.prog[k] = "rejected"
             /\ item'[w][k] = "wait" => new.prog[k] = "pending"
             /\ item'[w][k] = "run" => new.prog[k] \in {"processing", "planned", "committed"}
             /\ item'[w][k] = "done" =>
                   \/ new.prog[k] = "committed" /\ res'[w][k] = "success"
                   \/ new.prog[k] \in {"rejected", "failed"} /\ res'[w][k] = new.prog[k]
  <2>1. CASE k = i
    BY <1>2, <1>4, <1>8, <2>1 DEF InStep
  <2>2. CASE k # i
    BY <1>2, <1>4, <1>7, <2>2 DEF InStep
  <2> QED
    BY <2>1, <2>2
<1>10. disk'[job[w]] = disk[job[w]] \/ disk'[job[w]] = new
  BY <1>2, <1>6 DEF TypeOK
<1>11. ASSUME NEW k \in Items PROVE InStep(w, k)'
  BY <1>1, <1>5, <1>9, <1>10 DEF InStep
<1> QED
  BY <1>1, <1>2, <1>4, <1>5, <1>6, <1>7, <1>9, <1>11

\* Every step of Submit, the workers and Recover keeps the records in step.
LEMMA ProgressStep ==
    ASSUME ~LateRecovery, TypeInv, TypeInv', Ownership, Progress, [Next]_vars
    PROVE  Progress'
<1> USE DEF TypeInv
<1>0. /\ Absent \in JobRecord /\ Absent.state = "absent"
      /\ NoJob \notin Jobs
  BY FreshRecords, ConstantsAssumption DEF Absent
<1>1. ASSUME NEW j \in Jobs, NEW r \in Requests, SubmitPut(j, r) PROVE Progress'
  <2>1. /\ disk' = [disk EXCEPT ![j] = QueuedRecord(r)] /\ disk[j].state = "absent"
        /\ UNCHANGED <<pc, job, mem, item, res>>
    BY <1>1 DEF SubmitPut, Save, workerVars
  <2>2. /\ QueuedRecord(r) \in JobRecord /\ QueuedRecord(r).prog = NoProgress
        /\ QueuedRecord(r).result = NoResult
    BY FreshRecords DEF QueuedRecord
  <2>3. \A v \in Workers : pc[v] \in {"reset", "items"} => job[v] # j
    BY <2>1 DEF Ownership, WorkerOwns, OwnsItsJob, BusyHasJob
  <2>4. \A k \in Jobs : disk'[k] = disk[k] \/ disk'[k] = QueuedRecord(r)
    BY <2>1 DEF TypeOK
  <2>5. \A v \in Workers : pc[v] \in {"reset", "items"} => disk'[job[v]] = disk[job[v]]
    BY <2>1, <2>3 DEF BusyHasJob, TypeOK
  <2> QED
    BY <2>1, <2>2, <2>4, <2>5 DEF Progress, InStep
<1>2. ASSUME SubmitReject PROVE Progress'
  <2>1. /\ disk' = disk \/ disk' = [disk EXCEPT ![sub] = Absent]
        /\ UNCHANGED <<pc, job, mem, item, res>>
    BY <1>2 DEF SubmitReject, Delete, Save, StoreFails, workerVars, TypeOK
  <2>2. sub \in Jobs /\ \A v \in Workers : pc[v] \in {"reset", "items"} => job[v] # sub
    BY <1>2, <1>0 DEF SubmitReject, Ownership, WorkerOwns, OwnsItsJob, BusyHasJob, TypeOK
  <2>3. \A k \in Jobs : disk'[k] = disk[k] \/ disk'[k] = Absent
    BY <2>1 DEF TypeOK
  <2>4. \A v \in Workers : pc[v] \in {"reset", "items"} => disk'[job[v]] = disk[job[v]]
    BY <2>1, <2>2 DEF BusyHasJob, TypeOK
  <2> QED
    BY <1>0, <2>1, <2>3, <2>4 DEF Progress, InStep
<1>3. ASSUME NEW w \in Workers, Dequeue(w) \/ WorkerExit(w) \/ Load(w) \/ LoadFails(w)
      PROVE  Progress'
  <2>1. /\ disk' = disk /\ pc'[w] \notin {"reset", "items"}
        /\ \A v \in Workers \ {w} : /\ pc'[v] = pc[v] /\ job'[v] = job[v] /\ mem'[v] = mem[v]
                                    /\ item'[v] = item[v] /\ res'[v] = res[v]
    BY <1>3 DEF Dequeue, WorkerExit, Load, LoadFails, StoreFails, GoIdle, Become, TypeOK
  <2> QED
    BY <2>1 DEF Progress, InStep
<1>4. ASSUME NEW w \in Workers, MarkProcessing(w) PROVE Progress'
  <2> DEFINE new == [mem[w] EXCEPT !.state = "processing"]
  <2>1. /\ job[w] \in Jobs /\ OwnsItsJob(w) /\ mem[w] = disk[job[w]] /\ disk[job[w]].state = "queued"
        /\ mem[w] \in JobRecord
    BY <1>4 DEF MarkProcessing, Ownership, WorkerOwns, OwnsItsJob, BusyHasJob, TypeOK
  <2>2. mem[w].prog = NoProgress /\ mem[w].result = NoResult
    BY <2>1 DEF Progress
  <2>3. new \in JobRecord
    BY <2>1, RecordUpdates
  <2>4. new.state = "processing" /\ new.prog = NoProgress /\ new.result = NoResult
    BY <2>1, <2>2 DEF JobRecord
  <2>5. \/ Save(job[w], new) /\ Become(w, "reset", job[w], new, AllWaiting, NoResult)
        \/ StoreFails /\ GoIdle(w)
    BY <1>4, Zenon DEF MarkProcessing
  <2> HIDE DEF new
  <2>6. /\ disk' = disk \/ disk' = [disk EXCEPT ![job[w]] = new]
        /\ pc'[w] \in {"idle", "reset"}
        /\ pc'[w] = "reset" => disk' = [disk EXCEPT ![job[w]] = new] /\ job'[w] = job[w]
        /\ \A v \in Workers \ {w} : /\ pc'[v] = pc[v] /\ job'[v] = job[v] /\ mem'[v] = mem[v]
                                    /\ item'[v] = item[v] /\ res'[v] = res[v]
    BY <2>5 DEF Save, StoreFails, GoIdle, Become, TypeOK
  <2>7. pc'[w] = "reset" => (disk[job[w]].prog)' = NoProgress
    BY <2>1, <2>4, <2>6 DEF TypeOK
  <2>8. \A v \in Workers : v # w => job[v] # job[w]
    BY <2>1, <1>0 DEF OwnsItsJob
  <2> QED
    BY <2>1, <2>3, <2>4, <2>6, <2>7, <2>8, ProgressFrame
<1>5. ASSUME NEW w \in Workers, ResetProgress(w) PROVE Progress'
  <2> DEFINE new == [mem[w] EXCEPT !.prog = [i \in Items |-> "pending"]]
  <2>1. /\ job[w] \in Jobs /\ OwnsItsJob(w) /\ mem[w].state = "processing" /\ mem[w] \in JobRecord
        /\ mem[w].result = disk[job[w]].result /\ disk[job[w]].state = "processing"
    BY <1>5 DEF ResetProgress, Ownership, WorkerOwns, OwnsItsJob, BusyHasJob, TypeOK
  <2>2. mem[w].result = NoResult
    BY <2>1 DEF Progress
  <2>3. new \in JobRecord
    BY <2>1, RecordUpdates
  <2>4. new.state = "processing" /\ new.result = NoResult /\ new.prog = [i \in Items |-> "pending"]
    BY <2>1, <2>2 DEF JobRecord
  <2>5. \/ Save(job[w], new) /\ Become(w, "items", job[w], new, AllWaiting, NoResult)
        \/ StoreFails /\ GoIdle(w)
    BY <1>5, Zenon DEF ResetProgress
  <2> HIDE DEF new
  <2>6. /\ disk' = disk \/ disk' = [disk EXCEPT ![job[w]] = new]
        /\ pc'[w] \in {"idle", "items"}
        /\ pc'[w] = "items" => /\ disk' = [disk EXCEPT ![job[w]] = new] /\ job'[w] = job[w]
                               /\ mem'[w] = new /\ item'[w] = AllWaiting
        /\ \A v \in Workers \ {w} : /\ pc'[v] = pc[v] /\ job'[v] = job[v] /\ mem'[v] = mem[v]
                                    /\ item'[v] = item[v] /\ res'[v] = res[v]
    BY <2>5 DEF Save, StoreFails, GoIdle, Become, TypeOK
  <2>7. ASSUME pc'[w] = "items", NEW i \in Items PROVE InStep(w, i)'
    <3>1. disk'[job[w]] = new
      BY <2>1, <2>6, <2>7 DEF TypeOK
    <3>2. new.prog[i] = "pending" /\ AllWaiting[i] = "wait"
      BY <2>4 DEF AllWaiting
    <3> QED
      BY <2>6, <2>7, <3>1, <3>2 DEF InStep
  <2>8. \A v \in Workers : v # w => job[v] # job[w]
    BY <2>1, <1>0 DEF OwnsItsJob
  <2> QED
    BY <2>1, <2>3, <2>4, <2>6, <2>7, <2>8, ProgressFrame
<1>6. ASSUME NEW w \in Workers, NEW i \in Items,
             ItemStart(w, i) \/ ItemPlan(w, i) \/ ItemCommit(w, i) \/ ItemFromCache(w, i) \/ ItemFail(w, i)
      PROVE  Progress'
  <2>1. /\ job[w] \in Jobs /\ UNCHANGED <<pc, job>> /\ pc[w] = "items"
        /\ mem'[w] \in JobRecord /\ mem'[w].state = "processing" /\ mem'[w].result = NoResult
        /\ disk' = disk \/ disk' = [disk EXCEPT ![job[w]] = mem'[w]]
        /\ \A v \in Workers \ {w} : mem'[v] = mem[v] /\ item'[v] = item[v] /\ res'[v] = res[v]
        /\ \A k \in Items : InStep(w, k)'
    BY <1>6, ItemEffect
  <2>2. PICK new \in JobRecord : new = mem'[w]
    BY <2>1
  <2>3. \A v \in Workers : v # w => job[v] # job[w]
    BY <2>1, <1>0 DEF Ownership, WorkerOwns, OwnsItsJob
  <2> QED
    BY <2>1, <2>2, <2>3, ProgressFrame
<1>7. ASSUME NEW w \in Workers, Complete(w) PROVE Progress'
  <2> DEFINE new == [mem[w] EXCEPT !.state = "completed", !.result = res[w]]
  <2>1. job[w] \in Jobs /\ OwnsItsJob(w) /\ mem[w] \in JobRecord /\ res[w] \in [Items -> Statuses]
    BY <1>7 DEF Complete, Ownership, WorkerOwns, BusyHasJob, TypeOK
  <2>2. new \in JobRecord
    BY <2>1, RecordUpdates
  <2>3. new.state = "completed"
    BY <2>1 DEF JobRecord
  <2>4. Save(job[w], new) \/ StoreFails
    BY <1>7, Zenon DEF Complete
  <2> HIDE DEF new
  <2>5. /\ disk' = disk \/ disk' = [disk EXCEPT ![job[w]] = new]
        /\ pc'[w] = "idle"
        /\ \A v \in Workers \ {w} : /\ pc'[v] = pc[v] /\ job'[v] = job[v] /\ mem'[v] = mem[v]
                                    /\ item'[v] = item[v] /\ res'[v] = res[v]
    BY <1>7, <2>4 DEF Complete, Save, StoreFails, GoIdle, Become, TypeOK
  <2>6. \A v \in Workers : v # w => job[v] # job[w]
    BY <2>1, <1>0 DEF OwnsItsJob
  <2> QED
    BY <2>1, <2>2, <2>3, <2>5, <2>6, ProgressFrame
<1>8. ASSUME NEW j \in Jobs, RecoverReconcile(j) PROVE Progress'
  <2>1. PICK r \in [Items -> Statuses] : Save(j, [snap[j] EXCEPT !.state = "completed", !.result = r])
    BY <1>8, Zenon DEF RecoverReconcile
  <2> DEFINE new == [snap[j] EXCEPT !.state = "completed", !.result = r]
  <2>2. new \in JobRecord
    BY RecordUpdates DEF TypeOK
  <2>3. new.state = "completed"
    BY DEF TypeOK, JobRecord
  <2>4. disk' = [disk EXCEPT ![j] = new]
    BY <2>1 DEF Save
  <2> HIDE DEF new
  <2>5. UNCHANGED <<pc, job, mem, item, res>> /\ snap[j].state = "processing"
    BY <1>8 DEF RecoverReconcile, workerVars
  <2>6. \A v \in Workers : job[v] # j
    BY <2>5, <1>0 DEF Ownership, WorkerOwns, OwnsItsJob
  <2>7. \A k \in Jobs : disk'[k] = disk[k] \/ disk'[k] = new
    BY <2>4 DEF TypeOK
  <2>8. \A v \in Workers : pc[v] \in {"reset", "items"} => disk'[job[v]] = disk[job[v]]
    BY <2>4, <2>6 DEF BusyHasJob, TypeOK
  <2> QED
    BY <2>3, <2>5, <2>7, <2>8 DEF Progress, InStep
<1>9. CASE Crash \/ Exit
  <2>1. disk' = disk /\ \A w \in Workers : pc'[w] = "idle"
    BY <1>9 DEF Crash, Exit, Restart
  <2> QED
    BY <2>1 DEF Progress
<1>10. CASE \/ SubmitSend \/ \E j \in Jobs, r \in Requests : SubmitReplay(j, r)
            \/ \E j \in Jobs : RecoverEnqueue(j)
            \/ RecoverBegin \/ RecoverDone \/ DeferRecovery \/ MountReturns \/ Shutdown \/ UNCHANGED vars
  <2>1. UNCHANGED <<disk, pc, job, mem, item, res>>
    BY <1>10 DEF SubmitSend, SubmitReplay, RecoverEnqueue, RecoverBegin, RecoverDone, DeferRecovery,
                 MountReturns, Shutdown, vars, workerVars
  <2> QED
    BY <2>1 DEF Progress, InStep
<1>11. CASE RecoverFails
  BY <1>11 DEF RecoverFails
<1> QED
  BY <1>1, <1>2, <1>3, <1>4, <1>5, <1>6, <1>7, <1>8, <1>9, <1>10, <1>11
     DEF Next, SubmitStep, WorkerStep, RecoverStep

\* Progress holds with Ownership in every reachable state.
LEMMA ProgressCorrect == ASSUME ~LateRecovery PROVE Spec => [](TypeInv /\ Ownership /\ Progress)
<1>1. Init => TypeInv /\ Ownership /\ Progress
  BY TypeInit, OwnershipInit, ProgressInit
<1>2. TypeInv /\ Ownership /\ Progress /\ [Next]_vars => (TypeInv /\ Ownership /\ Progress)'
  BY TypeStep, OwnershipStep, ProgressStep
<1> QED
  BY <1>1, <1>2, PTL DEF Spec

\* What DurableItemSurvives asks of a record that replaces that of job j.
KeepsVerdicts(j, i, rec) ==
    /\ disk[j].prog[i] = "committed" =>
          rec.prog[i] \in {"committed", "failed"} /\ rec.result[i] \in {"none", "success", "failed"}
    /\ disk[j].prog[i] = "rejected" =>
          rec.prog[i] = "rejected" /\ rec.result[i] \in {"none", "rejected"}

\* Every write of a record that is processing keeps the verdicts in it: those
\* of its worker by the tracker, that of Recover by reconcileProgress.
LEMMA VerdictStep ==
    ASSUME TypeInv, Ownership, Progress, [Next]_vars,
           NEW j \in Jobs, disk[j].state = "processing", disk'[j] # disk[j], NEW i \in Items
    PROVE  KeepsVerdicts(j, i, disk'[j])
<1> USE DEF TypeInv
<1>0. disk[j] \in JobRecord /\ disk[j].result = NoResult /\ NoResult[i] = "none" /\ disk[j].prog[i] \in ProgressStates
  BY DEF Progress, NoResult, TypeOK, JobRecord
<1>1. ASSUME NEW w \in Workers, ResetProgress(w) PROVE KeepsVerdicts(j, i, disk'[j])
  <2>1. \A k \in Jobs : k # job[w] => disk'[k] = disk[k]
    BY <1>1 DEF ResetProgress, Save, StoreFails, TypeOK
  <2>2. job[w] = j
    BY <2>1
  <2>3. disk[j].prog[i] = "none"
    BY <1>1, <2>2 DEF ResetProgress, Progress, NoProgress
  <2> QED
    BY <2>3 DEF KeepsVerdicts
<1>2. ASSUME NEW w \in Workers, NEW k \in Items,
             ItemStart(w, k) \/ ItemPlan(w, k) \/ ItemCommit(w, k) \/ ItemFromCache(w, k) \/ ItemFail(w, k)
      PROVE  KeepsVerdicts(j, i, disk'[j])
  <2>1. /\ disk' = disk \/ disk' = [disk EXCEPT ![job[w]] = mem'[w]]
        /\ mem'[w].result = NoResult
        /\ disk[job[w]].prog[i] = "committed" => mem'[w].prog[i] \in {"committed", "failed"}
        /\ disk[job[w]].prog[i] = "rejected" => mem'[w].prog[i] = "rejected"
    BY <1>2, ItemEffect
  <2>2. job[w] = j /\ disk'[j] = mem'[w]
    BY <2>1 DEF TypeOK
  <2> QED
    BY <1>0, <2>1, <2>2 DEF KeepsVerdicts
<1>3. ASSUME NEW w \in Workers, Complete(w) PROVE KeepsVerdicts(j, i, disk'[j])
  <2> DEFINE new == [mem[w] EXCEPT !.state = "completed", !.result = res[w]]
  <2>1. mem[w] \in JobRecord /\ pc[w] = "items" /\ item[w][i] = "done"
    BY <1>3 DEF Complete, TypeOK
  <2>2. new.prog = mem[w].prog /\ new.result = res[w]
    BY <2>1 DEF JobRecord
  <2>3. disk' = [disk EXCEPT ![job[w]] = new]
    BY <1>3 DEF Complete, Save, StoreFails
  <2> HIDE DEF new
  <2>4. job[w] = j /\ disk'[j] = new
    BY <2>3 DEF TypeOK
  <2>5. InStep(w, i)
    BY <2>1 DEF Progress
  <2> QED
    BY <2>1, <2>2, <2>4, <2>5 DEF InStep, KeepsVerdicts
<1>4. ASSUME NEW k \in Jobs, RecoverReconcile(k) PROVE KeepsVerdicts(j, i, disk'[j])
  <2>1. PICK r \in [Items -> Statuses] :
           /\ \A n \in Items : r[n] \in Reconciled(snap[k].prog[n])
           /\ Save(k, [snap[k] EXCEPT !.state = "completed", !.result = r])
    BY <1>4, Zenon DEF RecoverReconcile
  <2> DEFINE new == [snap[k] EXCEPT !.state = "completed", !.result = r]
  <2>2. snap[k] \in JobRecord
    BY DEF TypeOK
  <2>3. new.prog = snap[k].prog /\ new.result = r
    BY <2>2 DEF JobRecord
  <2>4. disk' = [disk EXCEPT ![k] = new]
    BY <2>1 DEF Save
  <2> HIDE DEF new
  <2>5. k = j /\ disk'[j] = new
    BY <2>4 DEF TypeOK
  <2>6. snap[j] = disk[j]
    BY <1>4, <2>5 DEF RecoverReconcile, Ownership, RecoverOwns
  <2>7. r[i] \in Reconciled(disk[j].prog[i]) /\ new.prog[i] = disk[j].prog[i]
    BY <2>1, <2>3, <2>5, <2>6
  <2> QED
    BY <2>3, <2>5, <2>7 DEF Reconciled, KeepsVerdicts
<1>5. ASSUME \/ \E k \in Jobs, r \in Requests : SubmitPut(k, r)
             \/ SubmitReject \/ \E w \in Workers : MarkProcessing(w)
      PROVE  FALSE
  <2>1. CASE \E k \in Jobs, r \in Requests : SubmitPut(k, r)
    BY <2>1 DEF SubmitPut, Save, TypeOK
  <2>2. CASE SubmitReject
    BY <2>2 DEF SubmitReject, Delete, Save, StoreFails, Ownership, SubmitOwns, TypeOK
  <2>3. ASSUME NEW w \in Workers, MarkProcessing(w) PROVE FALSE
    <3>1. \A k \in Jobs : k # job[w] => disk'[k] = disk[k]
      BY <2>3 DEF MarkProcessing, Save, StoreFails, TypeOK
    <3>2. job[w] = j /\ pc[w] = "mark"
      BY <2>3, <3>1 DEF MarkProcessing
    <3> QED
      BY <3>2, ConstantsAssumption DEF Ownership, WorkerOwns, OwnsItsJob
  <2> QED
    BY <1>5, <2>1, <2>2, <2>3
<1>6. ASSUME \/ SubmitSend \/ \E k \in Jobs, r \in Requests : SubmitReplay(k, r)
             \/ \E w \in Workers : Dequeue(w) \/ WorkerExit(w) \/ Load(w) \/ LoadFails(w)
             \/ \E k \in Jobs : RecoverEnqueue(k)
             \/ RecoverBegin \/ RecoverDone \/ RecoverFails \/ DeferRecovery \/ MountReturns
             \/ Crash \/ Shutdown \/ Exit \/ UNCHANGED vars
      PROVE  FALSE
  BY <1>6 DEF SubmitSend, SubmitReplay, Dequeue, WorkerExit, Load, LoadFails, RecoverEnqueue, RecoverBegin,
              RecoverDone, RecoverFails, DeferRecovery, MountReturns, Crash, Shutdown, Exit, Restart,
              StoreFails, vars
<1> QED
  BY <1>1, <1>2, <1>3, <1>4, <1>5, <1>6 DEF Next, SubmitStep, WorkerStep, RecoverStep

\* A verdict that was durable before a crash is the verdict that recovery
\* reports, and no later write of the job's own worker takes it back.
THEOREM DurableItemSurvivesCorrect == ASSUME ~LateRecovery PROVE Spec => DurableItemSurvives
<1> DEFINE Survives == \A j \in Jobs : \A i \in Items :
        disk[j].state = "processing" =>
            /\ disk[j].prog[i] = "committed" =>
                  /\ disk'[j].prog[i] \in {"committed", "failed"}
                  /\ disk'[j].result[i] \in {"none", "success", "failed"}
            /\ disk[j].prog[i] = "rejected" =>
                  /\ disk'[j].prog[i] = "rejected"
                  /\ disk'[j].result[i] \in {"none", "rejected"}
<1>1. TypeInv /\ Ownership /\ Progress /\ [Next]_vars => [Survives]_disk
  <2> SUFFICES ASSUME TypeInv, Ownership, Progress, [Next]_vars, NEW j \in Jobs, NEW i \in Items,
                      disk[j].state = "processing"
               PROVE  KeepsVerdicts(j, i, disk'[j])
    BY DEF KeepsVerdicts
  <2>1. CASE disk'[j] # disk[j]
    BY <2>1, VerdictStep
  <2>2. CASE disk'[j] = disk[j]
    <3>1. disk[j].result = NoResult
      BY DEF Progress
    <3> QED
      BY <2>2, <3>1 DEF KeepsVerdicts, NoResult
  <2> QED
    BY <2>1, <2>2
<1> QED
  BY <1>1, ProgressCorrect, PTL DEF Spec, DurableItemSurvives
==============================================================================
