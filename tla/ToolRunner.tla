------------------------------ MODULE ToolRunner ------------------------------
(***************************************************************************)
(* ToolRunner.run (internal/processor/tools.go): one call at a time of a   *)
(* converter or a probe in a process group of its own.  The calling        *)
(* goroutine waits for the result of cmd.Wait or for the cancellation of   *)
(* its context; a second goroutine looks at the size of the output file    *)
(* ten times a second and kills the group when it is over the limit.       *)
(*                                                                         *)
(* MediaItem extends this module: the calls are those of one item.         *)
(***************************************************************************)
EXTENDS Naturals

CONSTANTS
    Limit,  \* MaxOutputBytes
    MaxSize \* bound: the largest output a tool writes

ASSUME ToolRunnerAssumption == Limit \in Nat /\ MaxSize \in Nat

VARIABLES
    call,      \* where run is
    limited,   \* RunWithOutputLimit, not Run
    leader,    \* the tool itself
    helper,    \* a child of the tool, in its group, that holds its pipes
    doomed,    \* the group has been sent SIGKILL
    size,      \* size of the output file
    monitor,   \* where the monitor goroutine is
    flagged,   \* there is an element in limitExceeded
    cancelled, \* the context is done
    answer     \* what run has returned, until the caller has read it

toolVars == <<call, limited, leader, helper, doomed, size, monitor, flagged, cancelled, answer>>
toolVarsButSize == <<call, limited, leader, helper, doomed, monitor, flagged, cancelled, answer>>

Calls    == {"idle", "select", "reap", "stopCancelled", "stop", "judge"}
Answers  == {"ok", "limit", "failed", "cancelled"}
Monitors == {"off", "ticking", "over", "kill"}

ToolTypeOK ==
    /\ call \in Calls
    /\ limited \in BOOLEAN /\ helper \in BOOLEAN /\ doomed \in BOOLEAN
    /\ flagged \in BOOLEAN /\ cancelled \in BOOLEAN
    /\ leader \in {"none", "running", "ok", "bad"}
    /\ size \in 0 .. MaxSize
    /\ monitor \in Monitors
    /\ answer \in Answers \cup {"none"}

ToolInit ==
    /\ call = "idle" /\ limited = FALSE
    /\ leader = "none" /\ helper = FALSE /\ doomed = FALSE
    /\ size = 0
    /\ monitor = "off" /\ flagged = FALSE
    /\ cancelled = FALSE
    /\ answer = "none"

-------------------------------------------------------------------------------
\* The caller.

\* cmd.Start, and the monitor if there is a limit.  The output may be left over
\* from an earlier call.
StartTool(l) ==
    /\ call = "idle" /\ answer = "none"
    /\ \/ /\ call' = "select"
          /\ limited' = l
          /\ leader' = "running"
          /\ monitor' = IF l THEN "ticking" ELSE "off"
          /\ flagged' = FALSE
          /\ UNCHANGED answer
       \/ answer' = "failed" /\ UNCHANGED <<call, limited, leader, monitor, flagged>>
    /\ UNCHANGED <<helper, doomed, size, cancelled>>

\* The caller of run has its answer.
TakeAnswer ==
    /\ answer # "none"
    /\ answer' = "none"
    /\ UNCHANGED <<call, limited, leader, helper, doomed, size, monitor, flagged, cancelled>>

Alive == leader = "running" \/ helper

\* Mutant of Kill: the signal goes to the tool and not to its group.
KillLeader ==
    IF helper THEN leader' = (IF leader = "running" THEN "bad" ELSE leader) /\ UNCHANGED doomed
    ELSE doomed' = Alive /\ UNCHANGED leader

\* syscall.Kill(-pid, SIGKILL); its error, no such group, is ignored.
Kill == doomed' = Alive /\ UNCHANGED leader

\* cmd.Wait returns when the tool has exited and nobody holds its pipes.
Waited == call # "idle" /\ ~Alive

SelectCancelled ==
    /\ call = "select" /\ cancelled
    /\ Kill
    /\ call' = "reap"
    /\ UNCHANGED <<limited, helper, size, monitor, flagged, cancelled, answer>>

\* Mutant of Reap: the result is not waited for.
ReapAtOnce ==
    /\ call = "reap"
    /\ call' = "stopCancelled"
    /\ UNCHANGED <<limited, leader, helper, doomed, size, monitor, flagged, cancelled, answer>>

\* <-result
Reap ==
    /\ call = "reap" /\ Waited
    /\ call' = "stopCancelled"
    /\ UNCHANGED <<limited, leader, helper, doomed, size, monitor, flagged, cancelled, answer>>

\* The other case of the select; both may be ready.
SelectResult ==
    /\ call = "select" /\ Waited
    /\ call' = "stop"
    /\ UNCHANGED <<limited, leader, helper, doomed, size, monitor, flagged, cancelled, answer>>

Returns(r) ==
    /\ call' = "idle"
    /\ leader' = "none" /\ doomed' = FALSE
    /\ answer' = r
    /\ UNCHANGED <<limited, helper, size, monitor, flagged, cancelled>>

\* stopMonitor has returned.
ReturnCancelled ==
    /\ call = "stopCancelled" /\ monitor = "off"
    /\ Returns("cancelled")

Stopped ==
    /\ call = "stop" /\ monitor = "off"
    /\ call' = "judge"
    /\ UNCHANGED <<limited, leader, helper, doomed, size, monitor, flagged, cancelled, answer>>

Exited == IF leader = "ok" THEN "ok" ELSE "failed"

\* Mutant of Judge: the size of the finished output is not looked at.
JudgeByMonitor ==
    /\ call = "judge"
    /\ Returns(IF flagged THEN "limit" ELSE Exited)

\* The monitor's word, then a last look at the output, then the exit status.
Judge ==
    /\ call = "judge"
    /\ Returns(IF flagged \/ (limited /\ size > Limit) THEN "limit" ELSE Exited)

-------------------------------------------------------------------------------
\* The monitor.  Between two ticks it may be told to stop; if it is told and a
\* tick is due it may do either.

MonitorLooks ==
    /\ monitor = "ticking" /\ size > Limit
    /\ monitor' = "over"
    /\ UNCHANGED <<call, limited, leader, helper, doomed, size, flagged, cancelled, answer>>

MonitorStops ==
    /\ monitor = "ticking" /\ call \in {"stopCancelled", "stop"}
    /\ monitor' = "off"
    /\ UNCHANGED <<call, limited, leader, helper, doomed, size, flagged, cancelled, answer>>

MonitorFlags ==
    /\ monitor = "over"
    /\ flagged' = TRUE
    /\ monitor' = "kill"
    /\ UNCHANGED <<call, limited, leader, helper, doomed, size, cancelled, answer>>

\* Mutant of MonitorKills: the tool is left to end by itself.
MonitorSpares ==
    /\ monitor = "kill"
    /\ monitor' = "off"
    /\ UNCHANGED <<call, limited, leader, helper, doomed, size, flagged, cancelled, answer>>

MonitorKills ==
    /\ monitor = "kill"
    /\ Kill
    /\ monitor' = "off"
    /\ UNCHANGED <<call, limited, helper, size, flagged, cancelled, answer>>

-------------------------------------------------------------------------------
\* The process group and the outside world.

\* The tool, or its child, writes to its output, or opens it anew.
ToolWrites ==
    /\ limited /\ Alive
    /\ size' \in {0, size + 1} \cap (0 .. MaxSize)
    /\ UNCHANGED <<call, limited, leader, helper, doomed, monitor, flagged, cancelled, answer>>

ToolForks ==
    /\ leader = "running" /\ ~doomed /\ ~helper
    /\ helper' = TRUE
    /\ UNCHANGED <<call, limited, leader, doomed, size, monitor, flagged, cancelled, answer>>

HelperEnds ==
    /\ helper
    /\ helper' = FALSE
    /\ UNCHANGED <<call, limited, leader, doomed, size, monitor, flagged, cancelled, answer>>

ToolExits ==
    /\ leader = "running"
    /\ leader' \in {"ok", "bad"}
    /\ UNCHANGED <<call, limited, helper, doomed, size, monitor, flagged, cancelled, answer>>

\* SIGKILL takes effect on every process that is left of the group.
Dies ==
    /\ doomed
    /\ doomed' = FALSE
    /\ leader' = IF leader = "running" THEN "bad" ELSE leader
    /\ helper' = FALSE
    /\ UNCHANGED <<call, limited, size, monitor, flagged, cancelled, answer>>

\* JOB_TIMEOUT has passed, or the service stops.
Cancel ==
    /\ ~cancelled
    /\ cancelled' = TRUE
    /\ UNCHANGED <<call, limited, leader, helper, doomed, size, monitor, flagged, answer>>

RunStep == SelectCancelled \/ Reap \/ SelectResult \/ ReturnCancelled \/ Stopped \/ Judge
MonitorStep == MonitorLooks \/ MonitorStops \/ MonitorFlags \/ MonitorKills
GroupStep == ToolWrites \/ ToolForks \/ HelperEnds \/ ToolExits

ToolNext == RunStep \/ MonitorStep \/ GroupStep \/ Dies \/ Cancel

\* Goroutines are scheduled and SIGKILL is delivered; a tool need not end.
ToolFairness == WF_toolVars(RunStep) /\ WF_toolVars(MonitorStep) /\ WF_toolVars(Dies)
===============================================================================
