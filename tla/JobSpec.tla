------------------------------- MODULE JobSpec -------------------------------
(***************************************************************************)
(* What the job API promises its clients, with no queue, worker, crash or  *)
(* recovery in sight: a job identity is reserved for one request, goes     *)
(* through queued, processing and completed in that order, and keeps its   *)
(* result once it has one.  JobLifecycle is shown to implement this.       *)
(*                                                                         *)
(* The states are those of domain.JobState (src/internal/domain/domain.go) *)
(* and the rules are what Submit, processJob and Recover leave behind in   *)
(* the state store, seen through GET /v1/jobs/{job_id}.                    *)
(***************************************************************************)
CONSTANTS
    Jobs,      \* job identities chosen by clients
    Requests,  \* normalized request bodies, told apart by RequestHash
    NoReq,     \* the request of an identity that is not in use
    Results,   \* the possible results of a whole job
    NoResult   \* the result of a job that has none yet

VARIABLES
    entry,     \* what GET /v1/jobs/{job_id} shows
    acked      \* the request a client was told is accepted (200 or 202)

specVars == <<entry, acked>>

Unused == [state |-> "absent", req |-> NoReq, result |-> NoResult]

SpecInit ==
    /\ entry = [j \in Jobs |-> Unused]
    /\ acked = [j \in Jobs |-> NoReq]

\* Submit stores the request: the identity now belongs to it.
Reserve(j, r) ==
    /\ entry[j].state = "absent"
    /\ entry' = [entry EXCEPT ![j] = [state |-> "queued", req |-> r, result |-> NoResult]]
    /\ UNCHANGED acked

\* The client learns that the stored request is accepted: on the first answer
\* (202) or on an identical repetition of the request (200).
Acknowledge(j) ==
    /\ entry[j].state # "absent"
    /\ acked' = [acked EXCEPT ![j] = entry[j].req]
    /\ UNCHANGED entry

\* A request that did not fit in the queue is withdrawn before anyone was told
\* that it is accepted (429).
Withdraw(j) ==
    /\ entry[j].state = "queued"
    /\ acked[j] = NoReq
    /\ entry' = [entry EXCEPT ![j] = Unused]
    /\ UNCHANGED acked

Begin(j) ==
    /\ entry[j].state = "queued"
    /\ entry' = [entry EXCEPT ![j].state = "processing"]
    /\ UNCHANGED acked

Finish(j, res) ==
    /\ entry[j].state = "processing"
    /\ entry' = [entry EXCEPT ![j] = [state |-> "completed", req |-> entry[j].req, result |-> res]]
    /\ UNCHANGED acked

SpecNext ==
    \E j \in Jobs :
        \/ \E r \in Requests : Reserve(j, r)
        \/ Acknowledge(j)
        \/ Withdraw(j)
        \/ Begin(j)
        \/ \E res \in Results : Finish(j, res)

Spec == SpecInit /\ [][SpecNext]_specVars
==============================================================================
