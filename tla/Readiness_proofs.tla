----------------------------- MODULE Readiness_proofs -----------------------------
(***************************************************************************)
(* Proofs about Readiness, for any number of probes, of hangs and of       *)
(* changes of the mount: the types, and that readinessInFlight is set      *)
(* exactly while one probe has its result to publish.                      *)
(***************************************************************************)
EXTENDS Readiness, TLAPS

\* What the two goroutines of a probe can be doing at the same time.  While
\* the timer of a scheduled probe is pending its question is too and nothing is
\* published; while a refresh is asking it has nothing to publish.
GoroutinesAgree ==
    \A p \in Probes :
        /\ kind[p] = "schedule" /\ wait[p] = "waiting" => ask[p] = "asking" /\ publish[p] = "idle"
        /\ kind[p] = "refresh" /\ ask[p] = "asking" => publish[p] = "idle"

IInv == TypeOK /\ GoroutinesAgree /\ OneProbeInFlight

-------------------------------------------------------------------------------
\* The actions of a probe.
ProbeStep(p) ==
    \/ Schedule(p) \/ Refresh(p) \/ Answer(p) \/ RefreshReturns(p) \/ TimesOut(p) \/ GivesUp(p)
    \/ Publishing(p)

\* Every variable has its type in the initial states, and keeps it.
LEMMA TypeInit == Init => TypeOK
  <1> SUFFICES ASSUME Init PROVE TypeOK
    OBVIOUS
  <1>1. {ready, static, inFlight, recent, mount} \subseteq BOOLEAN
    <2>1. ready \in BOOLEAN
      BY Zenon DEF Init
    <2>2. QED
      BY <2>1 DEF Init
  <1>2. QED
    BY <1>1, ReadinessAssumption DEF Init, TypeOK

LEMMA TypeStep == TypeOK /\ [Next]_vars => TypeOK'
  <1> SUFFICES ASSUME TypeOK, [Next]_vars PROVE TypeOK'
    OBVIOUS
  <1> USE ReadinessAssumption DEF TypeOK
  <1>1. ASSUME NEW p \in Probes, Schedule(p) \/ Refresh(p) PROVE TypeOK'
    BY <1>1 DEF Schedule, Refresh, StartProbe, Unused
  <1>2. ASSUME NEW p \in Probes, Answer(p) PROVE TypeOK'
    <2>1. publish' \in [Probes -> {"idle", "load", "store", "clear"}]
      BY <1>2 DEF Answer, Publish
    <2>2. value' \in [Probes -> BOOLEAN]
      <3>1. mount \in BOOLEAN
        BY Zenon
      <3>2. QED
        BY <1>2, <3>1, Zenon DEF Answer, Publish
    <2>3. wait' \in [Probes -> {"idle", "waiting", "late"}] /\ \A q \in Probes : wait'[q] = "late" => kind[q] = "refresh"
      BY <1>2 DEF Answer, Publish
    <2>4. ask' \in [Probes -> {"idle", "asking"}]
      BY <1>2 DEF Answer
    <2>5. UNCHANGED <<ready, static, inFlight, recent, kind, phase, mount, hangs, flips>>
      BY <1>2 DEF Answer
    <2>6. {ready, static, inFlight, recent, mount}' \subseteq BOOLEAN
      BY <2>5
    <2>7. QED
      BY <2>1, <2>2, <2>3, <2>4, <2>5, <2>6
  <1>3. ASSUME NEW p \in Probes, RefreshReturns(p) \/ GivesUp(p) PROVE TypeOK'
    BY <1>3 DEF RefreshReturns, GivesUp
  <1>4. ASSUME NEW p \in Probes, TimesOut(p) PROVE TypeOK'
    <2>1. hangs' \in 0 .. MaxHangs
      BY <1>4 DEF TimesOut
    <2>2. CASE kind[p] = "schedule"
      BY <1>4, <2>1, <2>2 DEF TimesOut, Publish
    <2>3. CASE kind[p] = "refresh"
      BY <1>4, <2>1, <2>3 DEF TimesOut
    <2>4. QED
      BY <2>2, <2>3
  <1>5. ASSUME NEW p \in Probes, Publishing(p) PROVE TypeOK'
    <2>1. CASE LoadStatic(p)
      <3>1. (static /\ value[p]) \in BOOLEAN
        OBVIOUS
      <3>2. value' = [value EXCEPT ![p] = (static /\ value[p])]
        BY <2>1, Zenon DEF LoadStatic
      <3>3. value' \in [Probes -> BOOLEAN]
        BY <3>1, <3>2, Zenon
      <3>4. QED
        BY <2>1, <3>3 DEF LoadStatic
    <2>2. CASE StoreReady(p)
      <3>1. value[p] \in BOOLEAN
        OBVIOUS
      <3>2. QED
        BY <2>2, <3>1 DEF StoreReady
    <2>3. CASE ClearInFlight(p)
      BY <2>3 DEF ClearInFlight
    <2>4. QED
      BY <1>5, <2>1, <2>2, <2>3 DEF Publishing
  <1>6. CASE IntervalPasses \/ MountChanges \/ MarkStatic \/ MarkReady
    <2>1. CASE MountChanges
      <3>1. mount' \in BOOLEAN
        BY <2>1, Zenon DEF MountChanges
      <3>2. QED
        BY <2>1, <3>1 DEF MountChanges, probeVars
    <2>2. QED
      BY <1>6, <2>1 DEF IntervalPasses, MarkStatic, MarkReady, probeVars
  <1>7. CASE UNCHANGED vars
    BY <1>7 DEF vars, probeVars
  <1>8. QED
    BY <1>1, <1>2, <1>3, <1>4, <1>5, <1>6, <1>7 DEF Next

\* The goroutines of all probes agree and none is in flight when the server
\* starts.
LEMMA ProbesInit == Init => GoroutinesAgree /\ OneProbeInFlight
  BY DEF Init, GoroutinesAgree, OneProbeInFlight, InFlight

\* A step of the goroutines of p leaves other probes as they are.
LEMMA ProbeFrame ==
    ASSUME TypeOK, NEW p \in Probes, ProbeStep(p)
    PROVE  \A q \in Probes \ {p} :
               /\ kind'[q] = kind[q] /\ ask'[q] = ask[q] /\ wait'[q] = wait[q]
               /\ publish'[q] = publish[q]
  BY DEF TypeOK, ProbeStep, Schedule, Refresh, StartProbe, Answer, RefreshReturns, TimesOut, GivesUp,
         Publishing, LoadStatic, StoreReady, ClearInFlight, Publish

\* A step of p keeps its goroutines in agreement, and sets or clears the flag
\* just when p comes to have, or no longer has, a result to publish.
LEMMA ProbeStepKeeps ==
    ASSUME IInv, NEW p \in Probes, ProbeStep(p)
    PROVE  /\ GoroutinesAgree'
           /\ \/ /\ ~inFlight /\ inFlight' /\ InFlight(p)'
              \/ /\ InFlight(p) /\ ~InFlight(p)' /\ ~inFlight'
              \/ /\ InFlight(p)' <=> InFlight(p)
                 /\ inFlight' = inFlight
  <1> USE DEF IInv, TypeOK, GoroutinesAgree, InFlight
  <1>1. CASE Schedule(p) \/ Refresh(p)
    BY <1>1, ProbeFrame DEF ProbeStep, Schedule, Refresh, StartProbe, MayStart, Unused
  <1>2. CASE Answer(p)
    BY <1>2, ProbeFrame DEF ProbeStep, Answer, Publish
  <1>3. CASE RefreshReturns(p) \/ GivesUp(p)
    BY <1>3, ProbeFrame DEF ProbeStep, RefreshReturns, GivesUp
  <1>4. CASE TimesOut(p)
    BY <1>4, ProbeFrame DEF ProbeStep, TimesOut, Publish
  <1>5. CASE Publishing(p)
    BY <1>5, ProbeFrame DEF ProbeStep, Publishing, LoadStatic, StoreReady, ClearInFlight
  <1>6. QED
    BY <1>1, <1>2, <1>3, <1>4, <1>5 DEF ProbeStep

LEMMA InvStep == IInv /\ [Next]_vars => IInv'
  <1> SUFFICES ASSUME IInv, [Next]_vars PROVE IInv'
    OBVIOUS
  <1>1. TypeOK'
    BY TypeStep DEF IInv
  <1>2. ASSUME NEW p \in Probes, ProbeStep(p)
        PROVE  GoroutinesAgree' /\ OneProbeInFlight'
    <2>1. \A q \in Probes \ {p} : InFlight(q)' <=> InFlight(q)
      BY <1>2, ProbeFrame DEF IInv, InFlight
    <2>2. OneProbeInFlight'
      BY <1>2, <2>1, ProbeStepKeeps DEF IInv, OneProbeInFlight
    <2>3. QED
      BY <1>2, <2>2, ProbeStepKeeps
  <1>3. CASE IntervalPasses \/ MountChanges \/ MarkStatic \/ MarkReady \/ UNCHANGED vars
    <2>1. UNCHANGED <<inFlight, kind, ask, wait, publish>>
      BY <1>3 DEF IntervalPasses, MountChanges, MarkStatic, MarkReady, vars, probeVars
    <2>2. QED
      BY <1>1, <2>1 DEF IInv, GoroutinesAgree, OneProbeInFlight, InFlight
  <1>4. QED
    BY <1>1, <1>2, <1>3 DEF IInv, Next, ProbeStep

-------------------------------------------------------------------------------
\* Every variable has its type, whatever probes hang and however the mount
\* comes and goes.
THEOREM TypeCorrect == Spec => []TypeOK
  <1>1. QED
    BY TypeInit, TypeStep, PTL DEF Spec

\* At most one probe has a result to publish, and the flag says so, through
\* time-outs and late answers, for any number of probes: GoroutinesAgree is what
\* makes it inductive, since it says that a probe whose result is published has
\* no other goroutine that will publish.
THEOREM OneProbeInFlightCorrect == Spec => []OneProbeInFlight
  <1>1. Init => IInv
    BY TypeInit, ProbesInit DEF IInv
  <1>2. IInv => OneProbeInFlight
    BY DEF IInv
  <1>3. QED
    BY <1>1, <1>2, InvStep, PTL DEF Spec
===============================================================================
