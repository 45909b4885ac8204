------------------------------- MODULE Readiness -------------------------------
(***************************************************************************)
(* The readiness of the HTTP server in WebDAV mode: the bounded probes of  *)
(* the output mount started by refreshReadiness (the recovery tick) and    *)
(* scheduleReadinessProbe (a request), their time-outs and late answers,   *)
(* and SetReady(false) of the shutdown (internal/httpapi/server.go).       *)
(*                                                                         *)
(* A probe is two goroutines: one asks the mount, which may hang, and one  *)
(* waits for the answer or a timer.  Which of the two publishes the result *)
(* depends on who started the probe.                                       *)
(***************************************************************************)
EXTENDS Naturals

CONSTANTS
    Probes,   \* bound: probes whose goroutines exist at a time
    MaxHangs, \* bound: probes that answer after their timer in a behaviour
    MaxFlips  \* bound: changes of the mount in a behaviour

ASSUME ReadinessAssumption == MaxHangs \in Nat /\ MaxFlips \in Nat

VARIABLES
    ready, static, \* Server.ready, Server.staticReady
    inFlight,      \* Server.readinessInFlight
    recent,        \* lastReadinessStart is less than an interval ago
    kind,          \* who started a probe: "refresh" or "schedule"
    ask,           \* the goroutine that asks: "asking" until it has the answer
    wait,          \* the goroutine with the timer
    publish,       \* finishReadinessProbe of a probe, step by step
    value,         \* its argument, then what it is going to store
    phase,         \* "serving", "marking" (half of SetReady(false)), "stopped"
    mount,         \* the output mount is there
    hangs, flips

probeVars == <<kind, ask, wait, publish, value>>
vars == <<ready, static, inFlight, recent, probeVars, phase, mount, hangs, flips>>

TypeOK ==
    /\ {ready, static, inFlight, recent, mount} \subseteq BOOLEAN
    /\ kind \in [Probes -> {"refresh", "schedule"}]
    /\ ask \in [Probes -> {"idle", "asking"}]
    /\ wait \in [Probes -> {"idle", "waiting", "late"}]
    /\ \A p \in Probes : wait[p] = "late" => kind[p] = "refresh"
    /\ publish \in [Probes -> {"idle", "load", "store", "clear"}]
    /\ value \in [Probes -> BOOLEAN]
    /\ phase \in {"serving", "marking", "stopped"}
    /\ hangs \in 0 .. MaxHangs /\ flips \in 0 .. MaxFlips

\* SetReadiness at the start.
Init ==
    /\ static \in BOOLEAN /\ mount \in BOOLEAN
    /\ ready = (static /\ mount)
    /\ inFlight = FALSE /\ recent = FALSE
    /\ kind = [p \in Probes |-> "schedule"]
    /\ ask = [p \in Probes |-> "idle"]
    /\ wait = [p \in Probes |-> "idle"]
    /\ publish = [p \in Probes |-> "idle"]
    /\ value = [p \in Probes |-> FALSE]
    /\ phase = "serving"
    /\ hangs = 0 /\ flips = 0

-------------------------------------------------------------------------------
\* The check under readinessMu that starts a probe unless one is in flight or
\* was started a moment ago.
Unused(p) == ask[p] = "idle" /\ wait[p] = "idle" /\ publish[p] = "idle"

\* Mutant of MayStart: a probe in flight does not hold back another.
MayStartOverlapping == ~recent

MayStart == ~inFlight /\ ~recent

StartProbe(p, k) ==
    /\ MayStart
    /\ Unused(p)
    /\ inFlight' = TRUE /\ recent' = TRUE
    /\ kind' = [kind EXCEPT ![p] = k]
    /\ ask' = [ask EXCEPT ![p] = "asking"]
    /\ wait' = [wait EXCEPT ![p] = "waiting"]
    /\ UNCHANGED <<ready, static, publish, value, phase, mount, hangs, flips>>

\* A request of a client; a tick of app.Run, one caller at a time (recoveryMu).
Schedule(p) == StartProbe(p, "schedule")

Refresh(p) ==
    /\ \A q \in Probes : wait[q] # "idle" => kind[q] # "refresh"
    /\ StartProbe(p, "refresh")

\* Both intervals are longer than the time-out of a probe.
IntervalPasses ==
    /\ recent
    /\ \A p \in Probes : wait[p] # "waiting"
    /\ recent' = FALSE
    /\ UNCHANGED <<ready, static, inFlight, probeVars, phase, mount, hangs, flips>>

-------------------------------------------------------------------------------
Publish(p, v) ==
    /\ publish' = [publish EXCEPT ![p] = "load"]
    /\ value' = [value EXCEPT ![p] = v]

\* The probe returns.  Started by refreshReadiness, its goroutine publishes the
\* answer, in time or late; a scheduled one hands it to the goroutine that
\* waits, if it still does.
Answer(p) ==
    /\ ask[p] = "asking"
    /\ ask' = [ask EXCEPT ![p] = "idle"]
    /\ IF kind[p] = "refresh"
       THEN Publish(p, mount) /\ UNCHANGED wait
       ELSE IF wait[p] = "waiting"
       THEN Publish(p, mount) /\ wait' = [wait EXCEPT ![p] = "idle"]
       ELSE UNCHANGED <<publish, value, wait>>
    /\ UNCHANGED <<ready, static, inFlight, recent, kind, phase, mount, hangs, flips>>

\* refreshReadiness gets the published answer and returns.
RefreshReturns(p) ==
    /\ kind[p] = "refresh" /\ wait[p] = "waiting"
    /\ ask[p] = "idle" /\ publish[p] = "idle"
    /\ wait' = [wait EXCEPT ![p] = "idle"]
    /\ UNCHANGED <<ready, static, inFlight, recent, kind, ask, publish, value, phase, mount, hangs, flips>>

\* Mutant of TimesOut: a scheduled probe that timed out stays in flight.
TimesOutInFlight(p) ==
    /\ wait[p] = "waiting" /\ (ask[p] = "asking" \/ publish[p] # "idle")
    /\ hangs < MaxHangs
    /\ hangs' = hangs + 1
    /\ wait' = [wait EXCEPT ![p] = "late"]
    /\ UNCHANGED <<ready, static, inFlight, recent, kind, ask, publish, value, phase, mount, flips>>

\* The timer fires first.  A scheduled probe publishes "not ready"; the caller
\* of a refresh stores it itself, and leaves the probe in flight.
TimesOut(p) ==
    /\ wait[p] = "waiting" /\ (ask[p] = "asking" \/ publish[p] # "idle")
    /\ hangs < MaxHangs
    /\ hangs' = hangs + 1
    /\ IF kind[p] = "schedule"
       THEN Publish(p, FALSE) /\ wait' = [wait EXCEPT ![p] = "idle"]
       ELSE wait' = [wait EXCEPT ![p] = "late"] /\ UNCHANGED <<publish, value>>
    /\ UNCHANGED <<ready, static, inFlight, recent, kind, ask, phase, mount, flips>>

\* setArtifactReadiness(false) by the caller whose refresh timed out.
GivesUp(p) ==
    /\ wait[p] = "late"
    /\ ready' = FALSE
    /\ wait' = [wait EXCEPT ![p] = "idle"]
    /\ UNCHANGED <<static, inFlight, recent, kind, ask, publish, value, phase, mount, hangs, flips>>

-------------------------------------------------------------------------------
\* finishReadinessProbe: staticReady is read, ready is stored, the flag cleared.
LoadStatic(p) ==
    /\ publish[p] = "load"
    /\ value' = [value EXCEPT ![p] = static /\ @]
    /\ publish' = [publish EXCEPT ![p] = "store"]
    /\ UNCHANGED <<ready, static, inFlight, recent, kind, ask, wait, phase, mount, hangs, flips>>

\* Mutant of StoreReady: a probe only ever re-arms.
StoreReadyRearms(p) ==
    /\ publish[p] = "store"
    /\ ready' = (ready \/ value[p])
    /\ publish' = [publish EXCEPT ![p] = "clear"]
    /\ UNCHANGED <<static, inFlight, recent, kind, ask, wait, value, phase, mount, hangs, flips>>

StoreReady(p) ==
    /\ publish[p] = "store"
    /\ ready' = value[p]
    /\ publish' = [publish EXCEPT ![p] = "clear"]
    /\ UNCHANGED <<static, inFlight, recent, kind, ask, wait, value, phase, mount, hangs, flips>>

ClearInFlight(p) ==
    /\ publish[p] = "clear"
    /\ inFlight' = FALSE
    /\ publish' = [publish EXCEPT ![p] = "idle"]
    /\ UNCHANGED <<ready, static, recent, kind, ask, wait, value, phase, mount, hangs, flips>>

\* SetReady(false), on SIGTERM.
MarkStatic ==
    /\ phase = "serving"
    /\ static' = FALSE
    /\ phase' = "marking"
    /\ UNCHANGED <<ready, inFlight, recent, probeVars, mount, hangs, flips>>

MarkReady ==
    /\ phase = "marking"
    /\ ready' = FALSE
    /\ phase' = "stopped"
    /\ UNCHANGED <<static, inFlight, recent, probeVars, mount, hangs, flips>>

MountChanges ==
    /\ flips < MaxFlips
    /\ flips' = flips + 1
    /\ mount' = ~mount
    /\ UNCHANGED <<ready, static, inFlight, recent, probeVars, phase, hangs>>

Publishing(p) == LoadStatic(p) \/ StoreReady(p) \/ ClearInFlight(p)

Next ==
    \/ \E p \in Probes :
        \/ Schedule(p) \/ Refresh(p) \/ Answer(p) \/ RefreshReturns(p) \/ TimesOut(p) \/ GivesUp(p)
        \/ Publishing(p)
    \/ IntervalPasses \/ MountChanges
    \/ MarkStatic \/ MarkReady

\* Timers and goroutines run; clients keep polling until the service stops; a
\* probe that hangs may do so for ever, but its timer fires.
Fairness ==
    /\ WF_vars(phase # "stopped" /\ \E p \in Probes : Schedule(p))
    /\ WF_vars(IntervalPasses)
    /\ \A p \in Probes :
        /\ WF_vars(wait[p] = "waiting" /\ (Answer(p) \/ TimesOut(p)))
        /\ WF_vars(RefreshReturns(p) \/ GivesUp(p))
        /\ WF_vars(Publishing(p))

Spec == Init /\ [][Next]_vars
FairSpec == Spec /\ Fairness

-------------------------------------------------------------------------------
\* Properties.

\* Who has to clear the flag: the goroutine that publishes the probe's result.
InFlight(p) ==
    \/ publish[p] # "idle"
    \/ kind[p] = "refresh" /\ ask[p] = "asking"
    \/ kind[p] = "schedule" /\ wait[p] = "waiting"

\* readinessInFlight is set exactly while one probe still has its result to
\* publish, through time-outs and late answers: two results are never published
\* at once, and no time-out loses the flag or leaves it set for good.
OneProbeInFlight ==
    /\ inFlight <=> \E p \in Probes : InFlight(p)
    /\ \A p, q \in Probes : InFlight(p) /\ InFlight(q) => p = q

\* "If the mount disappears, readiness becomes 503" (README.md:732) and stays
\* so, whatever probes hang, time out or answer late, as long as the service runs
\* and clients poll.
FailsClosed == (<>[]~mount /\ []<>(phase # "stopped")) => <>[]~ready

\* When the mount is back for good and no probe hangs for ever, the service
\* becomes ready again without a restart (RefreshReadiness): a time-out never
\* blocks later probes, and a late answer has no lasting effect.
Rearms ==
    (<>[](mount /\ static) /\ \A p \in Probes : []<>(ask[p] = "idle")) => <>[]ready

\* After "Marks readiness false" of the shutdown (README.md:861) the service
\* does not report ready again.
StoppedIsUnready == phase = "stopped" => ~ready
===============================================================================
