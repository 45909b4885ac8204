--------------------------- MODULE MediaItem_proofs ---------------------------
(***************************************************************************)
(* Theorems about MediaItem, for every limit, every set of inputs, policies *)
(* and outputs, and any number of places: an output that is committed is   *)
(* within the limit, and nothing of a call or an item is left behind; the  *)
(* policy is the one that was sent; what is reported as a success is what  *)
(* the contract promises; and the scan for the index is right about every  *)
(* input (ScanIsRight of Faststart_proofs).                                *)
(***************************************************************************)
EXTENDS MediaItem, Faststart_proofs

\* What the next two rest on: sizes are numbers that can be compared.
SizeOK == size \in 0 .. MaxSize

\* Where the caller is after cmd.Wait has returned.
Over == {"stopCancelled", "stop", "judge"}

\* No process is left once cmd.Wait has returned, and no monitor once stopMonitor
\* has: a monitor that is told to stop may still have a kill to send.
CallClean ==
    /\ call \in Over \cup {"idle"} => leader # "running" /\ ~helper
    /\ call \in {"idle", "judge"} => monitor = "off"

\* Calls are made by the steps that wait for an answer, with the limit of the step.
CallFits ==
    /\ answer # "none" => call = "idle"
    /\ call # "idle" \/ answer # "none" => step \in PlainSteps \cup LimitedSteps
    /\ call # "idle" => (limited <=> step \in LimitedSteps)

\* The size of an output is known when its tool has been called a success, and
\* nothing writes to it afterwards.
SizeKnown == answer = "ok" /\ step \in LimitedSteps => size <= Limit

\* The place is given back with the end.
PlaceGiven == step = "end" => ~holds

IInv == SizeOK /\ CallClean /\ CallFits /\ SizeKnown /\ PlaceGiven /\ OutputWithinLimit

-------------------------------------------------------------------------------
\* An output that is not there yet has a size.
LEMMA ZeroIsSize == 0 \in 0 .. MaxSize
  BY ToolRunnerAssumption

\* Nothing runs and nothing is written at the start.
LEMMA InitIInv == Init => IInv
<1> SUFFICES ASSUME Init PROVE IInv
  OBVIOUS
<1> USE DEF Init, ToolInit
<1>1. SizeOK
  BY ZeroIsSize DEF SizeOK
<1>2. CallClean
  BY DEF CallClean
<1>3. CallFits
  BY DEF CallFits
<1>4. SizeKnown /\ PlaceGiven /\ OutputWithinLimit
  BY DEF SizeKnown, PlaceGiven, OutputWithinLimit
<1> QED
  BY <1>1, <1>2, <1>3, <1>4 DEF IInv

\* A step of the call, of its monitor or of its processes leaves the item alone.
LEMMA ToolStep == IInv /\ ToolNext /\ UNCHANGED itemVars => IInv'
<1> SUFFICES ASSUME IInv, ToolNext, UNCHANGED itemVars PROVE IInv'
  OBVIOUS
<1> USE ToolRunnerAssumption DEF itemVars, IInv, SizeOK, CallClean, CallFits, SizeKnown, PlaceGiven,
     OutputWithinLimit, Over, PlainSteps, LimitedSteps
<1>1. CASE SelectCancelled
  BY <1>1 DEF SelectCancelled, Kill
<1>2. CASE Reap
  BY <1>2 DEF Reap, Waited, Alive
<1>3. CASE SelectResult
  BY <1>3 DEF SelectResult, Waited, Alive
<1>4. CASE ReturnCancelled
  BY <1>4 DEF ReturnCancelled, Returns
<1>5. CASE Stopped
  BY <1>5 DEF Stopped
<1>6. CASE Judge
  BY <1>6 DEF Judge, Returns, Exited
<1>7. CASE MonitorLooks \/ MonitorStops \/ MonitorFlags \/ MonitorKills
  BY <1>7 DEF MonitorLooks, MonitorStops, MonitorFlags, MonitorKills, Kill
<1>8. CASE ToolWrites
  BY <1>8 DEF ToolWrites, Alive
<1>9. CASE ToolForks \/ HelperEnds \/ ToolExits \/ Dies \/ Cancel
  BY <1>9 DEF ToolForks, HelperEnds, ToolExits, Dies, Cancel
<1> QED
  BY <1>1, <1>2, <1>3, <1>4, <1>5, <1>6, <1>7, <1>8, <1>9 DEF ToolNext, RunStep, MonitorStep, GroupStep

\* A step of the item: it makes a call, reads an answer, or has no call to wait for.
LEMMA ItemStepKeeps == IInv /\ ItemStep => IInv'
<1> SUFFICES ASSUME IInv, ItemStep PROVE IInv'
  OBVIOUS
<1> USE ToolRunnerAssumption DEF IInv, SizeOK, CallClean, CallFits, SizeKnown, PlaceGiven,
     OutputWithinLimit, Over, PlainSteps, LimitedSteps, Goto, End, Continue, toolVars, toolVarsButSize
<1>1. CASE CallTool
  BY <1>1 DEF CallTool, StartTool, itemVars
<1>2. CASE Open \/ Detect \/ Gate \/ Acquire
  BY <1>2 DEF Open, Detect, Gate, Acquire
<1>3. CASE IdentifyInput
  BY <1>3 DEF IdentifyInput, Answered, TakeAnswer
<1>4. CASE ProbeInput
  BY <1>4 DEF ProbeInput, Answered, TakeAnswer
<1>5. CASE Identify
  BY <1>5 DEF Identify, Answered, TakeAnswer
<1>6. CASE ChooseOperation
  BY <1>6 DEF ChooseOperation
<1>7. CASE Convert
  BY <1>7 DEF Convert, Answered, TakeAnswer, Ok
<1>8. CASE Validate
  BY <1>8 DEF Validate, Answered, TakeAnswer
<1>9. CASE Commit
  <2>1. /\ step = "commit" /\ step' \in {"end", "thumb"}
        /\ size' \in {size, 0}
        /\ UNCHANGED toolVarsButSize
        /\ step' = "end" => ~holds'
    BY <1>9 DEF Commit
  <2> QED
    BY <2>1, ZeroIsSize
<1>10. CASE Thumbnail
  <2>1. /\ TakeAnswer
        /\ step' \in {"thumbDims", "thumbAgain", "thumbIdentify", "end"}
        /\ step' = "end" => ~holds'
    BY <1>10 DEF Thumbnail, Answered
  <2> QED
    BY <2>1 DEF TakeAnswer
<1> QED
  BY <1>1, <1>2, <1>3, <1>4, <1>5, <1>6, <1>7, <1>8, <1>9, <1>10 DEF ItemStep

\* Every step keeps the invariant.
LEMMA StepIInv == IInv /\ [Next]_vars => IInv'
<1> SUFFICES ASSUME IInv, [Next]_vars PROVE IInv'
  OBVIOUS
<1>1. CASE ItemStep
  BY <1>1, ItemStepKeeps
<1>2. CASE ToolNext /\ UNCHANGED itemVars
  BY <1>2, ToolStep
<1>3. CASE OthersMove \/ UNCHANGED vars
  BY <1>3 DEF OthersMove, vars, itemVars, toolVars, IInv, SizeOK, CallClean, CallFits, SizeKnown, PlaceGiven,
     OutputWithinLimit
<1> QED
  BY <1>1, <1>2, <1>3 DEF Next

\* So it always holds.
LEMMA IInvHolds == Spec => []IInv
  BY InitIInv, StepIInv, PTL DEF Spec

-------------------------------------------------------------------------------
\* An output that goes on to be committed is within MaxOutputBytes, whoever wins
\* the race between the monitor, the exit of the tool and the cancellation
\* (ToolRunner.run, the pipelines' Process).
THEOREM OutputWithinLimitCorrect == Spec => []OutputWithinLimit
<1>1. IInv => OutputWithinLimit
  BY DEF IInv
<1> QED
  BY <1>1, IInvHolds, PTL

\* No process of a tool and no monitor outlives its call, and an item ends without
\* a call and without its place of the semaphore (ToolRunner.run, the deferred
\* releases of processImage, processVideo and processAudio).
THEOREM NothingLeftBehindCorrect == Spec => []NothingLeftBehind
<1>1. IInv => NothingLeftBehind
  BY DEF IInv, NothingLeftBehind, CallClean, CallFits, PlaceGiven, Alive, Over, PlainSteps, LimitedSteps
<1> QED
  BY <1>1, IInvHolds, PTL

-------------------------------------------------------------------------------
\* The types of the tool, and the policy on its way.

\* A step of the call, of its monitor or of its processes keeps the types.
LEMMA ToolTypeStep == ToolTypeOK /\ ToolNext => ToolTypeOK'
  <1> SUFFICES ASSUME ToolTypeOK, ToolNext PROVE ToolTypeOK'
    OBVIOUS
  <1> USE DEF ToolTypeOK, Calls, Answers, Monitors
  <1>1. CASE SelectCancelled
    BY <1>1 DEF SelectCancelled, Kill, Alive
  <1>2. CASE Reap \/ SelectResult \/ Stopped
    BY <1>2 DEF Reap, SelectResult, Stopped
  <1>3. CASE ReturnCancelled
    BY <1>3 DEF ReturnCancelled, Returns
  <1>4. CASE Judge
    BY <1>4 DEF Judge, Returns, Exited
  <1>5. CASE MonitorLooks \/ MonitorStops
    BY <1>5 DEF MonitorLooks, MonitorStops
  <1>6. CASE MonitorFlags
    BY <1>6 DEF MonitorFlags
  <1>7. CASE MonitorKills
    BY <1>7 DEF MonitorKills, Kill, Alive
  <1>8. CASE ToolWrites
    BY <1>8, ToolRunnerAssumption DEF ToolWrites
  <1>9. CASE ToolForks \/ HelperEnds \/ ToolExits \/ Dies \/ Cancel
    BY <1>9 DEF ToolForks, HelperEnds, ToolExits, Dies, Cancel
  <1> QED
    BY <1>1, <1>2, <1>3, <1>4, <1>5, <1>6, <1>7, <1>8, <1>9 DEF ToolNext, RunStep, MonitorStep, GroupStep

\* A pipeline's call and its reading of the answer keep them.
LEMMA ToolUseStep ==
    ASSUME ToolTypeOK
    PROVE  (CallTool \/ TakeAnswer \/ UNCHANGED toolVars) => ToolTypeOK'
  <1> USE DEF ToolTypeOK, Calls, Answers, Monitors
  <1>1. ASSUME NEW l \in BOOLEAN, StartTool(l) PROVE ToolTypeOK'
    BY <1>1 DEF StartTool
  <1>2. CASE CallTool
    BY <1>1, <1>2 DEF CallTool
  <1>3. CASE TakeAnswer
    BY <1>3 DEF TakeAnswer
  <1>4. CASE UNCHANGED toolVars
    BY <1>4 DEF toolVars
  <1> QED
    BY <1>2, <1>3, <1>4

-------------------------------------------------------------------------------
\* The policy.

Policies == [image : {"zalo_jpeg"}, audio : AudioTargets, alpha : Colors, strip : BOOLEAN,
             thumbnail : BOOLEAN, strict : BOOLEAN, urls : BOOLEAN]

\* Such a policy, field by field.
LEMMA PolicyForm ==
    \A i \in {"zalo_jpeg"} : \A a \in AudioTargets : \A h \in Colors : \A s, t, m, u \in BOOLEAN :
        [image |-> i, audio |-> a, alpha |-> h, strip |-> s, thumbnail |-> t, strict |-> m, urls |-> u] \in Policies
  BY Zenon DEF Policies

\* A Boolean field of a policy is Boolean, and survives being written and read,
\* also where a FALSE is left out and is the default.
LEMMA FlagForm ==
    /\ \A S : \A d \in BOOLEAN : Flag(S, d) \in BOOLEAN
    /\ \A b \in BOOLEAN : (TRUE \in {b}) = b
    /\ \A b, d \in BOOLEAN : Flag({b}, d) = b /\ Flag({b} \cap {TRUE}, FALSE) = b
  <1>1. ASSUME NEW S, NEW d \in BOOLEAN PROVE Flag(S, d) \in BOOLEAN
    <2>1. (TRUE \in S) \in BOOLEAN
      BY SMT
    <2>2. CASE S = {}
      BY <2>2, Zenon DEF Flag
    <2>3. CASE S # {}
      BY <2>1, <2>3, Zenon DEF Flag
    <2>4. QED
      BY <2>2, <2>3
  <1>2. ASSUME NEW b \in BOOLEAN PROVE (TRUE \in {b}) = b
    <2>1. (TRUE \in {TRUE}) = TRUE /\ (TRUE \in {FALSE}) = FALSE
      BY SMT
    <2>2. b = TRUE \/ b = FALSE
      BY Zenon
    <2>3. QED
      BY <2>1, <2>2, Zenon
  <1>3. ASSUME NEW b \in BOOLEAN, NEW d \in BOOLEAN PROVE Flag({b}, d) = b
    <2>1. {b} # {}
      BY Zenon
    <2>2. QED
      BY <1>2, <2>1, Zenon DEF Flag
  <1>4. ASSUME NEW b \in BOOLEAN PROVE Flag({b} \cap {TRUE}, FALSE) = b
    <2>1. {TRUE} \cap {TRUE} = {TRUE} /\ {FALSE} \cap {TRUE} = {} /\ TRUE \in BOOLEAN /\ FALSE \in BOOLEAN
      BY Zenon
    <2>2. Flag({TRUE} \cap {TRUE}, FALSE) = TRUE
      BY <1>3, <2>1, Zenon
    <2>3. Flag({FALSE} \cap {TRUE}, FALSE) = FALSE
      BY <2>1, Zenon DEF Flag
    <2>4. b = TRUE \/ b = FALSE
      BY Zenon
    <2>5. QED
      BY <2>2, <2>3, <2>4, Zenon
  <1>5. QED
    BY <1>1, <1>2, <1>3, <1>4

\* The defaults are a policy.
LEMMA DefaultForm == DefaultPolicy \in Policies
  <1>1. "zalo_jpeg" \in {"zalo_jpeg"} /\ "voice_ogg_opus" \in AudioTargets /\ "#FFFFFF" \in Colors
    BY DEF AudioTargets, Colors
  <1>2. TRUE \in BOOLEAN /\ FALSE \in BOOLEAN
    OBVIOUS
  <1>3. QED
    BY <1>1, <1>2, PolicyForm, Zenon DEF DefaultPolicy

\* What Submit accepts of a policy that was sent is what was decoded.
LEMMA SubmittedForm ==
    ASSUME NEW w \in WirePolicy, ValidatePolicy(Submitted(w))
    PROVE  /\ Submitted(w) \in Policies
           /\ ~w.sent => Submitted(w) = DefaultPolicy
           /\ w.sent =>
                 Submitted(w) = [image |-> OrDefault(w, "image"), audio |-> OrDefault(w, "audio"),
                                 alpha |-> OrDefault(w, "alpha"), strip |-> Flag(w.strip, TRUE),
                                 thumbnail |-> Flag(w.thumbnail, TRUE), strict |-> Flag(w.strict, FALSE),
                                 urls |-> Flag(w.urls, FALSE)]
  <1>1. ASSUME ~w.sent PROVE Submitted(w) = DefaultPolicy
    BY <1>1 DEF Submitted, Decode, Normalized
  <1>2. ASSUME w.sent
        PROVE  Submitted(w) = Decode(w)
    <2>1. /\ Decode(w).image = OrDefault(w, "image") /\ Decode(w).audio = OrDefault(w, "audio")
          /\ Decode(w).alpha = OrDefault(w, "alpha")
      BY <1>2 DEF Decode
    <2>2. OrDefault(w, "image") # "" /\ OrDefault(w, "audio") # "" /\ OrDefault(w, "alpha") # ""
      BY DEF OrDefault, DefaultPolicy
    <2>3. Decode(w) # ZeroPolicy
      <3>1. ZeroPolicy.image = ""
        BY Zenon DEF ZeroPolicy
      <3>2. QED
        BY <2>1, <2>2, <3>1
    <2>4. /\ OrDefault(Decode(w), "image") = Decode(w).image /\ OrDefault(Decode(w), "audio") = Decode(w).audio
          /\ OrDefault(Decode(w), "alpha") = Decode(w).alpha
      BY <2>1, <2>2 DEF OrDefault
    <2>5. [Decode(w) EXCEPT !.image = Decode(w).image, !.audio = Decode(w).audio, !.alpha = Decode(w).alpha] = Decode(w)
      BY <1>2 DEF Decode
    <2>6. QED
      BY <2>3, <2>4, <2>5, Zenon DEF Submitted, Normalized
  <1>3. ASSUME w.sent
        PROVE  Decode(w) = [image |-> OrDefault(w, "image"), audio |-> OrDefault(w, "audio"),
                            alpha |-> OrDefault(w, "alpha"), strip |-> Flag(w.strip, TRUE),
                            thumbnail |-> Flag(w.thumbnail, TRUE), strict |-> Flag(w.strict, FALSE),
                            urls |-> Flag(w.urls, FALSE)]
    <2>1. DefaultPolicy.strip = TRUE /\ DefaultPolicy.thumbnail = TRUE
      BY Zenon DEF DefaultPolicy
    <2>2. QED
      BY <1>3, <2>1, Zenon DEF Decode
  <1>4. ASSUME w.sent PROVE Submitted(w) \in Policies
    <2>1. OrDefault(w, "image") \in {"zalo_jpeg"} /\ OrDefault(w, "audio") \in AudioTargets
          /\ OrDefault(w, "alpha") \in Colors
      BY <1>2, <1>3, <1>4 DEF ValidatePolicy
    <2>2. TRUE \in BOOLEAN /\ FALSE \in BOOLEAN
      OBVIOUS
    <2>3. /\ Flag(w.strip, TRUE) \in BOOLEAN /\ Flag(w.thumbnail, TRUE) \in BOOLEAN
          /\ Flag(w.strict, FALSE) \in BOOLEAN /\ Flag(w.urls, FALSE) \in BOOLEAN
      <3>1. \A S : \A d \in BOOLEAN : Flag(S, d) \in BOOLEAN
        BY FlagForm
      <3>2. \A S : Flag(S, TRUE) \in BOOLEAN /\ Flag(S, FALSE) \in BOOLEAN
        BY <2>2, <3>1, Zenon
      <3>3. QED
        BY <3>2
    <2>4. PICK s \in BOOLEAN, t \in BOOLEAN, m \in BOOLEAN, u \in BOOLEAN :
             /\ s = Flag(w.strip, TRUE) /\ t = Flag(w.thumbnail, TRUE)
             /\ m = Flag(w.strict, FALSE) /\ u = Flag(w.urls, FALSE)
      BY <2>3
    <2>5. Decode(w) = [image |-> OrDefault(w, "image"), audio |-> OrDefault(w, "audio"),
                       alpha |-> OrDefault(w, "alpha"), strip |-> s, thumbnail |-> t, strict |-> m, urls |-> u]
      BY <1>3, <1>4, <2>4, Zenon
    <2>6. QED
      BY <1>2, <1>4, <2>1, <2>5, PolicyForm
  <1>5. QED
    BY <1>1, <1>2, <1>3, <1>4, DefaultForm, Zenon

\* What the worker loads is what was submitted, a FALSE included.
LEMMA RoundTrip ==
    ASSUME NEW w \in WirePolicy, ValidatePolicy(Submitted(w))
    PROVE  Loaded(w) = Submitted(w)
  <1>1. PICK p \in Policies : p = Submitted(w)
    BY SubmittedForm
  <1>2. /\ p.image # "" /\ p.audio # "" /\ p.alpha # ""
    BY DEF Policies, AudioTargets, Colors
  <1>3. p.strip \in BOOLEAN /\ p.thumbnail \in BOOLEAN /\ p.strict \in BOOLEAN /\ p.urls \in BOOLEAN
        /\ TRUE \in BOOLEAN /\ FALSE \in BOOLEAN
    BY Zenon DEF Policies
  <1>4. p = [image |-> p.image, audio |-> p.audio, alpha |-> p.alpha, strip |-> p.strip,
             thumbnail |-> p.thumbnail, strict |-> p.strict, urls |-> p.urls]
    BY DEF Policies
  <1>5. /\ OrDefault(Encode(p), "image") = p.image /\ OrDefault(Encode(p), "audio") = p.audio
        /\ OrDefault(Encode(p), "alpha") = p.alpha
    BY <1>2 DEF OrDefault, Encode
  <1>6. /\ Encode(p).sent = TRUE /\ Encode(p).strip = {p.strip} /\ Encode(p).thumbnail = {p.thumbnail}
        /\ Encode(p).strict = {p.strict} /\ Encode(p).urls = {p.urls} \cap {TRUE}
    BY Zenon DEF Encode
  <1>7. DefaultPolicy.strip = TRUE /\ DefaultPolicy.thumbnail = TRUE
    BY Zenon DEF DefaultPolicy
  <1>8. /\ Flag(Encode(p).strip, DefaultPolicy.strip) = p.strip
        /\ Flag(Encode(p).thumbnail, DefaultPolicy.thumbnail) = p.thumbnail
        /\ Flag(Encode(p).strict, FALSE) = p.strict
        /\ Flag(Encode(p).urls, FALSE) = p.urls
    BY <1>3, <1>6, <1>7, FlagForm, Zenon
  <1>9. Decode(Encode(p)) = p
    BY <1>4, <1>5, <1>6, <1>8, Zenon DEF Decode
  <1>10. QED
    BY <1>1, <1>9 DEF Loaded

-------------------------------------------------------------------------------
\* The item.

Statuses == {"none", "success", "rejected", "failed"}
Kinds    == {"image", "video", "audio"}
After    == {"commit", "thumb", "thumbAgain", "thumbDims", "thumbIdentify"}
Before   == {"open", "detect", "identifyInput", "probeInput"}

Places(h, n) == n \in Nat /\ (h => n < Slots) /\ (~h => n <= Slots)

ItemTypes == step \in Steps /\ status \in Statuses /\ holds \in BOOLEAN /\ Places(holds, others)

\* The policy is the one of the request, which is a valid one.
PolicyLoaded == wire \in WirePolicy /\ ValidatePolicy(Submitted(wire)) /\ policy = Loaded(wire)

\* The kind of the input is known once it has been detected.
KindKnown == step \notin Before \cup {"end"} => detected.kind \in Kinds

\* An output that is committed, or has been reported, has been validated.
Validated ==
    /\ status = "success" => step \in After \cup {"end"}
    /\ step \in After \/ status = "success" => Valid(out) /\ detected.kind \in Kinds

Genuine == out \in Outputs \cup {q.file : q \in Requests} \cup {NoFile} /\ file \in {q.file : q \in Requests}

ItemInv == ItemTypes /\ PolicyLoaded /\ KindKnown /\ Validated /\ Genuine

\* What every step of the item leaves alone.
ItemFrame ==
    /\ UNCHANGED <<file, wire, policy, others>>
    /\ step \in Steps /\ step' \in Steps /\ status' \in Statuses
    /\ holds' = holds \/ holds' = FALSE \/ (holds' = TRUE /\ others < Slots)

\* The semaphore has places.
LEMMA SlotsNat == Slots \in Nat /\ Slots # 0
  BY MediaItemAssumption

\* Every step of the item leaves that alone.
LEMMA ItemStepFrame ==
    ASSUME ItemTypes, ItemStep
    PROVE  ItemFrame
  <1> USE DEF ItemFrame, ItemTypes, Steps, PlainSteps, LimitedSteps, Statuses, Goto, End, Continue
  <1>1. CASE CallTool
    BY <1>1 DEF CallTool, itemVars
  <1>2. CASE Open \/ Detect \/ Gate
    BY <1>2 DEF Open, Detect, Gate
  <1>3. CASE IdentifyInput
    BY <1>3 DEF IdentifyInput, Answered
  <1>4. CASE ProbeInput
    BY <1>4 DEF ProbeInput, Answered
  <1>5. CASE Acquire
    BY <1>5 DEF Acquire
  <1>6. CASE Identify
    BY <1>6 DEF Identify, Answered
  <1>7. CASE ChooseOperation
    BY <1>7 DEF ChooseOperation
  <1>8. CASE Convert
    BY <1>8 DEF Convert, Answered
  <1>9. CASE Validate
    BY <1>9 DEF Validate, Answered
  <1>10. CASE Commit
    BY <1>10 DEF Commit
  <1>11. CASE Thumbnail
    BY <1>11 DEF Thumbnail, Answered
  <1> QED
    BY <1>1, <1>2, <1>3, <1>4, <1>5, <1>6, <1>7, <1>8, <1>9, <1>10, <1>11 DEF ItemStep

\* An output is judged by what it is, the kind of the input and the policy.
LEMMA ValidSame == UNCHANGED <<policy, detected, out>> => (Valid(out)' <=> Valid(out))
  BY DEF Valid, ValidImage, ValidVideo, ValidAudio, Profile, Probe, Streams

\* A step of the item keeps the kind and what has been validated.
LEMMA ItemStepJudges ==
    ASSUME ItemInv, ItemStep
    PROVE  KindKnown' /\ Validated'
  <1> USE DEF Goto, End, Continue
  <1>1. /\ KindKnown /\ Validated
        /\ status = "success" => step \in After \cup {"end"}
        /\ step \in After \/ status = "success" => Valid(out) /\ detected.kind \in Kinds
        /\ step \notin Before \cup {"end"} => detected.kind \in Kinds
    BY DEF ItemInv, Validated, KindKnown
  <1>2. ASSUME UNCHANGED <<policy, detected, out>>, step \notin Before \cup {"end"},
               status' \in {status, "success", "rejected", "failed"},
               step' \in After => step \in After,
               step' \notin Before,
               status' = "success" => step \in After /\ step' \in After \cup {"end"}
        PROVE  KindKnown' /\ Validated'
    BY <1>1, <1>2, ValidSame DEF KindKnown, Validated
  <1>3. ASSUME UNCHANGED detected, step \notin Before \cup {"end"} \cup After,
               status' = status \/ status' \in {"rejected", "failed"},
               step' \notin After \cup Before
        PROVE  KindKnown' /\ Validated'
    <2>1. status' # "success"
      BY <1>1, <1>3 DEF After
    <2>2. QED
      BY <1>1, <1>3, <2>1 DEF KindKnown, Validated
  <1>4. ASSUME step \in Before, step' \in Before \cup {"end", "gate"},
               status' = status \/ status' \in {"rejected", "failed"},
               step' = "gate" => detected'.kind \in Kinds
        PROVE  KindKnown' /\ Validated'
    <2>1. status' # "success"
      BY <1>1, <1>4 DEF After, Before
    <2>2. QED
      BY <1>4, <2>1 DEF KindKnown, Validated, Before, After
  <1>5. CASE CallTool
    <2>1. UNCHANGED <<policy, detected, out, step, status>>
      BY <1>5 DEF CallTool, itemVars
    <2>2. QED
      BY <1>1, <2>1, ValidSame DEF KindKnown, Validated
  <1>6. CASE Open \/ Detect
    BY <1>4, <1>6 DEF Open, Detect, Before
  <1>7. CASE IdentifyInput
    BY <1>4, <1>7 DEF IdentifyInput, Answered, Before, Kinds
  <1>8. CASE ProbeInput
    <2>1. Overridden(file).kind \in Kinds
      BY DEF Overridden, Probe, Kinds
    <2>2. step = "probeInput" /\ step' \in {"end", "gate"}
          /\ (status' = status \/ status' \in {"rejected", "failed"})
          /\ (step' = "gate" => detected' = Overridden(file))
      BY <1>8 DEF ProbeInput, Answered
    <2>3. QED
      BY <1>4, <2>1, <2>2 DEF Before
  <1>9. CASE Gate \/ Acquire
    BY <1>3, <1>9 DEF Gate, Acquire, Before, After
  <1>10. CASE Identify
    BY <1>3, <1>10 DEF Identify, Answered, Before, After
  <1>11. CASE ChooseOperation
    BY <1>3, <1>11 DEF ChooseOperation, Before, After
  <1>12. CASE Convert
    BY <1>3, <1>12 DEF Convert, Answered, Before, After
  <1>13. CASE Validate
    <2>1. CASE Valid(out) /\ step' = "commit"
      <3>1. UNCHANGED <<policy, detected, out, status>> /\ step = "validate"
        BY <1>13, <2>1 DEF Validate, Answered
      <3>2. status' # "success" /\ detected.kind \in Kinds
        BY <1>1, <3>1 DEF After, Before
      <3>3. QED
        BY <2>1, <3>1, <3>2, ValidSame DEF KindKnown, Validated
    <2>2. CASE ~(Valid(out) /\ step' = "commit")
      BY <1>3, <1>13, <2>2 DEF Validate, Answered, Before, After
    <2>3. QED
      BY <2>1, <2>2
  <1>14. CASE Commit
    BY <1>2, <1>14 DEF Commit, Before, After
  <1>15. CASE Thumbnail
    BY <1>2, <1>15 DEF Thumbnail, Answered, Before, After
  <1> QED
    BY <1>5, <1>6, <1>7, <1>8, <1>9, <1>10, <1>11, <1>12, <1>13, <1>14, <1>15 DEF ItemStep

\* The output is the input, something a converter wrote, or nothing.
LEMMA ItemStepGenuine ==
    ASSUME ItemInv, ItemStep
    PROVE  Genuine'
  <1>1. file' = file /\ file \in {q.file : q \in Requests}
    BY ItemStepFrame DEF ItemInv, ItemFrame, Genuine
  <1>2. out' = out \/ out' = file \/ out' \in Outputs
    <2> USE DEF Goto, End, Continue
    <2>1. CASE ChooseOperation
      BY <2>1 DEF ChooseOperation
    <2>2. CASE Convert
      BY <2>2 DEF Convert
    <2>3. CASE CallTool \/ Open \/ Detect \/ IdentifyInput \/ Gate \/ Acquire
      BY <2>3 DEF CallTool, itemVars, Open, Detect, IdentifyInput, Gate, Acquire
    <2>4. CASE ProbeInput
      BY <2>4 DEF ProbeInput
    <2>5. CASE Identify
      BY <2>5 DEF Identify
    <2>6. CASE Validate \/ Commit \/ Thumbnail
      BY <2>6 DEF Validate, Commit, Thumbnail
    <2> QED
      BY <2>1, <2>2, <2>3, <2>4, <2>5, <2>6 DEF ItemStep
  <1>3. QED
    BY <1>1, <1>2 DEF ItemInv, Genuine

\* At the start nothing is known of the input.
LEMMA ItemInvInit == Init => ToolTypeOK /\ ItemInv
  <1> SUFFICES ASSUME Init PROVE ToolTypeOK /\ ItemInv
    OBVIOUS
  <1>1. ToolTypeOK
    <2>1. 0 \in 0 .. MaxSize
      BY ToolRunnerAssumption
    <2>2. limited \in BOOLEAN /\ helper \in BOOLEAN /\ doomed \in BOOLEAN /\ flagged \in BOOLEAN
          /\ cancelled \in BOOLEAN
      BY Zenon DEF Init, ToolInit
    <2>3. QED
      BY <2>1, <2>2 DEF Init, ToolInit, ToolTypeOK, Calls, Answers, Monitors
  <1>2. ItemTypes
    <2>1. holds \in BOOLEAN /\ ~holds /\ others = 0
      BY DEF Init
    <2>2. step \in Steps /\ status \in Statuses
      BY DEF Init, Steps, Statuses
    <2>3. Places(holds, others)
      BY <2>1, SlotsNat DEF Places
    <2>4. QED
      BY <2>1, <2>2, <2>3 DEF ItemTypes
  <1>3. PICK q \in Requests : file = q.file /\ wire = q.wire
    BY DEF Init
  <1>4. PolicyLoaded
    BY <1>3, MediaItemAssumption DEF Init, PolicyLoaded
  <1>5. Genuine
    BY <1>3 DEF Init, Genuine
  <1>6. KindKnown /\ Validated
    BY DEF Init, KindKnown, Validated, Before, After
  <1>7. QED
    BY <1>1, <1>2, <1>4, <1>5, <1>6 DEF ItemInv

\* Every step keeps the types, the policy, and what is known of input and output.
LEMMA ItemInvStep == ToolTypeOK /\ ItemInv /\ [Next]_vars => ToolTypeOK' /\ ItemInv'
  <1> SUFFICES ASSUME ToolTypeOK, ItemInv, [Next]_vars PROVE ToolTypeOK' /\ ItemInv'
    OBVIOUS
  <1>1. CASE ItemStep
    <2>1. ItemFrame /\ ItemTypes /\ PolicyLoaded
      BY <1>1, ItemStepFrame DEF ItemInv
    <2>2. ToolTypeOK'
      <3>1. CASE CallTool
        BY <3>1, ToolUseStep
      <3>2. CASE IdentifyInput \/ ProbeInput \/ Identify \/ Convert \/ Validate \/ Thumbnail
        <4>1. TakeAnswer
          BY <3>2 DEF IdentifyInput, ProbeInput, Identify, Convert, Validate, Thumbnail, Answered
        <4>2. QED
          BY <4>1, ToolUseStep
      <3>3. CASE Open \/ Detect \/ Gate \/ Acquire
        <4>1. UNCHANGED toolVars
          BY <3>3 DEF Open, Detect, Gate, Acquire
        <4>2. QED
          BY <4>1, ToolUseStep
      <3>4. CASE ChooseOperation \/ Commit
        <4>1. UNCHANGED toolVarsButSize
          BY <3>4 DEF ChooseOperation, Commit
        <4>2. size' = size \/ size' \in 0 .. MaxSize \/ size' = 0
          BY <3>4 DEF ChooseOperation, Commit
        <4>3. size' \in 0 .. MaxSize
          BY <4>2, ToolRunnerAssumption DEF ToolTypeOK
        <4>4. QED
          BY <4>1, <4>3 DEF ToolTypeOK, toolVarsButSize
      <3> QED
        BY <1>1, <3>1, <3>2, <3>3, <3>4 DEF ItemStep
    <2>3. ItemTypes'
      <3>1. others' = others /\ others \in Nat /\ step' \in Steps /\ status' \in Statuses /\ holds \in BOOLEAN
            /\ (holds' = holds \/ holds' = FALSE \/ (holds' = TRUE /\ others < Slots))
        BY <2>1 DEF ItemFrame, ItemTypes, Places
      <3>2. holds' \in BOOLEAN
        BY <3>1, Zenon
      <3>3. (holds' => others' < Slots) /\ (~holds' => others' <= Slots)
        BY <2>1, <3>1, SlotsNat DEF ItemTypes, Places
      <3>4. QED
        BY <3>1, <3>2, <3>3 DEF ItemTypes, Places
    <2>4. PolicyLoaded'
      BY <2>1 DEF ItemFrame, PolicyLoaded
    <2>5. KindKnown' /\ Validated' /\ Genuine'
      BY <1>1, ItemStepJudges, ItemStepGenuine
    <2>6. QED
      BY <2>2, <2>3, <2>4, <2>5 DEF ItemInv
  <1>2. CASE OthersMove
    <2>1. UNCHANGED <<file, wire, policy, step, detected, out, holds, status, toolVars>>
      BY <1>2 DEF OthersMove
    <2>2. others' \in 0 .. Slots - (IF holds THEN 1 ELSE 0)
      BY <1>2 DEF OthersMove
    <2>3. Places(holds, others')
      <3>1. CASE holds
        BY <2>2, <3>1, SlotsNat DEF Places
      <3>2. CASE ~holds
        BY <2>2, <3>2, SlotsNat DEF Places
      <3>3. QED
        BY <3>1, <3>2
    <2>4. ItemTypes'
      BY <2>1, <2>3, Zenon DEF ItemInv, ItemTypes
    <2>5. PolicyLoaded' /\ KindKnown' /\ Validated' /\ Genuine'
      BY <2>1, ValidSame DEF ItemInv, PolicyLoaded, KindKnown, Validated, Genuine
    <2>6. ToolTypeOK'
      BY <2>1, ToolUseStep
    <2>7. QED
      BY <2>4, <2>5, <2>6 DEF ItemInv
  <1>3. CASE UNCHANGED itemVars /\ (ToolNext \/ UNCHANGED toolVars)
    <2>1. ToolTypeOK'
      BY <1>3, ToolTypeStep, ToolUseStep
    <2>2. ItemTypes' /\ PolicyLoaded' /\ KindKnown' /\ Genuine'
      BY <1>3 DEF itemVars, ItemInv, ItemTypes, Places, PolicyLoaded, KindKnown, Genuine
    <2>3. Validated'
      BY <1>3, ValidSame DEF itemVars, ItemInv, Validated
    <2>4. QED
      BY <2>1, <2>2, <2>3 DEF ItemInv
  <1>4. QED
    BY <1>1, <1>2, <1>3 DEF Next, vars

\* The types of the item and its tool.
THEOREM TypeCorrect == Spec => []TypeOK
  <1>1. ToolTypeOK /\ ItemInv => TypeOK
    <2> SUFFICES ASSUME ToolTypeOK, ItemInv PROVE TypeOK
      OBVIOUS
    <2>1. policy \in Policies
      BY SubmittedForm, RoundTrip DEF ItemInv, PolicyLoaded
    <2>2. others + (IF holds THEN 1 ELSE 0) \in 0 .. Slots
      <3>1. CASE holds
        BY <3>1, SlotsNat DEF ItemInv, ItemTypes, Places
      <3>2. CASE ~holds
        BY <3>2, SlotsNat DEF ItemInv, ItemTypes, Places
      <3>3. QED
        BY <3>1, <3>2
    <2>3. step \in Steps /\ status \in Statuses /\ holds \in BOOLEAN
      BY DEF ItemInv, ItemTypes
    <2>4. QED
      BY <2>1, <2>2, <2>3, Zenon DEF TypeOK, Policies, Statuses
  <1>2. QED
    BY <1>1, ItemInvInit, ItemInvStep, PTL DEF Spec

\* The worker processes under the policy that the client sent.
THEOREM PolicyKeptCorrect == Spec => []PolicyKept
  <1>1. ItemInv => PolicyKept
    <2> SUFFICES ASSUME PolicyLoaded PROVE PolicyKept
      BY DEF ItemInv
    <2>1. policy = Submitted(wire) /\ wire \in WirePolicy
      BY RoundTrip DEF PolicyLoaded
    <2>2. CASE ~wire.sent
      <3>1. policy = DefaultPolicy
        BY <2>1, <2>2, SubmittedForm DEF PolicyLoaded
      <3>2. QED
        BY <2>1, <2>2, <3>1, Zenon DEF PolicyKept
    <2>3. CASE wire.sent
      <3>1. policy = [image |-> OrDefault(wire, "image"), audio |-> OrDefault(wire, "audio"),
                      alpha |-> OrDefault(wire, "alpha"), strip |-> Flag(wire.strip, TRUE),
                      thumbnail |-> Flag(wire.thumbnail, TRUE), strict |-> Flag(wire.strict, FALSE),
                      urls |-> Flag(wire.urls, FALSE)]
        BY <2>1, <2>3, SubmittedForm DEF PolicyLoaded
      <3>2. /\ policy["image"] = OrDefault(wire, "image") /\ policy["audio"] = OrDefault(wire, "audio")
            /\ policy["alpha"] = OrDefault(wire, "alpha")
            /\ policy["strip"] = Flag(wire["strip"], TRUE) /\ policy["thumbnail"] = Flag(wire["thumbnail"], TRUE)
            /\ policy["strict"] = Flag(wire["strict"], FALSE) /\ policy["urls"] = Flag(wire["urls"], FALSE)
        BY <3>1, Zenon
      <3>3. /\ DefaultPolicy["strip"] = TRUE /\ DefaultPolicy["thumbnail"] = TRUE
            /\ DefaultPolicy["strict"] = FALSE /\ DefaultPolicy["urls"] = FALSE
        BY Zenon DEF DefaultPolicy
      <3>4. \A f \in {"image", "audio", "alpha"} :
               policy[f] = IF wire.sent /\ wire[f] # "" THEN wire[f] ELSE DefaultPolicy[f]
        BY <2>3, <3>2 DEF OrDefault
      <3>5. \A f \in {"strip", "thumbnail", "strict", "urls"} :
               policy[f] = IF wire.sent /\ wire[f] # {} THEN TRUE \in wire[f] ELSE DefaultPolicy[f]
        BY <2>3, <3>2, <3>3, Zenon DEF Flag
      <3>6. QED
        BY <2>1, <3>4, <3>5 DEF PolicyKept
    <2>4. QED
      BY <2>2, <2>3
  <1>2. QED
    BY <1>1, ItemInvInit, ItemInvStep, PTL DEF Spec

\* What validation accepts is canonical.
LEMMA ValidIsCanonical ==
    ASSUME Valid(out), Layout(out.boxes), out.audios \in Nat, out.extra \in Nat, detected.kind \in Kinds, PolicyLoaded
    PROVE  Canonical(out)
  <1>1. CASE detected.kind = "image"
    BY <1>1 DEF Valid, ValidImage, Canonical
  <1>2. CASE detected.kind = "video"
    <2>1. ValidVideo(out)
      BY <1>2 DEF Valid
    <2>2. /\ out.video = "h264" /\ out.pix = "yuv420p" /\ out.rotation = 0
          /\ Probe(out).container = "mp4" /\ Streams(out) <= 2
          /\ CanonicalSound(out) /\ HasFaststart(Whole(out.boxes))
      BY <2>1 DEF ValidVideo
    <2>3. Probe(out).container = ContainerFromProbe(out)
      BY <2>2 DEF Probe
    <2>4. out.brand # "qt"
      BY <2>2, <2>3 DEF ContainerFromProbe
    <2>5. Streams(out) = out.audios + out.extra + 1
      BY <2>2 DEF Streams
    <2>6. out.audios <= 1
      BY <2>2, <2>5
    <2>7. out.audios = 1 => out.audio = "aac"
      BY <2>2 DEF CanonicalSound
    <2>8. IndexFirst(out.boxes, Whole(out.boxes).length)
      BY <2>2, WholeIsRight
    <2>9. QED
      BY <1>2, <2>2, <2>4, <2>6, <2>7, <2>8 DEF Canonical
  <1>3. CASE detected.kind = "audio"
    <2>1. ValidAudio(out)
      BY <1>3 DEF Valid
    <2>2. PICK asked : asked = IF wire.sent /\ wire.audio # "" THEN wire.audio ELSE "voice_ogg_opus"
      OBVIOUS
    <2>3. policy.audio = asked /\ asked \in AudioTargets
      <3>1. policy = Submitted(wire) /\ wire \in WirePolicy /\ policy \in Policies
        BY SubmittedForm, RoundTrip DEF PolicyLoaded
      <3>2. CASE ~wire.sent
        <4>1. policy = DefaultPolicy
          BY <3>1, <3>2, SubmittedForm DEF PolicyLoaded
        <4>2. DefaultPolicy.audio = "voice_ogg_opus"
          BY Zenon DEF DefaultPolicy
        <4>3. QED
          BY <2>2, <3>2, <4>1, <4>2 DEF AudioTargets
      <3>3. CASE wire.sent
        <4>1. policy.audio = OrDefault(wire, "audio")
          <5>1. policy = [image |-> OrDefault(wire, "image"), audio |-> OrDefault(wire, "audio"),
                          alpha |-> OrDefault(wire, "alpha"), strip |-> Flag(wire.strip, TRUE),
                          thumbnail |-> Flag(wire.thumbnail, TRUE), strict |-> Flag(wire.strict, FALSE),
                          urls |-> Flag(wire.urls, FALSE)]
            BY <3>1, <3>3, SubmittedForm DEF PolicyLoaded
          <5>2. QED
            BY <5>1, Zenon
        <4>2. DefaultPolicy["audio"] = "voice_ogg_opus"
          BY Zenon DEF DefaultPolicy
        <4>3. policy.audio = asked
          <5>1. OrDefault(wire, "audio") = (IF wire.audio = "" THEN "voice_ogg_opus" ELSE wire.audio)
            BY <4>2 DEF OrDefault
          <5>2. QED
            BY <2>2, <3>3, <4>1, <5>1
        <4>4. policy.audio \in AudioTargets
          BY <3>1, Zenon DEF Policies
        <4>5. QED
          BY <4>3, <4>4
      <3>4. QED
        BY <3>2, <3>3
    <2>4. /\ out.video = "none" /\ out.audios = 1 /\ out.channels = 1
          /\ Probe(out).container = Profile(asked).container /\ out.audio = Profile(asked).codec
          /\ out.rate = Profile(asked).rate
          /\ asked = "m4a_aac_lc" => out.profile \in {"", "LC"}
      <3>1. [container |-> Probe(out).container, codec |-> out.audio, rate |-> out.rate] = Profile(asked)
        BY <2>1, <2>3 DEF ValidAudio
      <3>2. /\ Probe(out).container = Profile(asked).container /\ out.audio = Profile(asked).codec
            /\ out.rate = Profile(asked).rate
        <4>1. PICK c, d, r : c = Probe(out).container /\ d = out.audio /\ r = out.rate
          OBVIOUS
        <4>2. [container |-> c, codec |-> d, rate |-> r] = Profile(asked)
          BY <3>1, <4>1, Zenon
        <4>3. c = Profile(asked).container /\ d = Profile(asked).codec /\ r = Profile(asked).rate
          BY <4>2
        <4>4. QED
          BY <4>1, <4>3
      <3>3. QED
        BY <2>1, <2>3, <3>2 DEF ValidAudio
    <2>5. Probe(out).container = AudioContainerFromProbe(out)
      BY <2>4 DEF Probe
    <2>6. /\ AudioContainerFromProbe(out) = "ogg" => out.fmt \in {"ogg", "oga"}
          /\ AudioContainerFromProbe(out) = "wav" => out.fmt \in {"wav", "wavpack"}
          /\ AudioContainerFromProbe(out) = "m4a" => out.fmt \in {"mov", "mp4", "m4a"}
      BY DEF AudioContainerFromProbe
    <2>7. CASE asked = "voice_ogg_opus"
      <3>1. out.fmt \in {"ogg", "oga"} /\ out.audio = "opus" /\ out.rate = 48
        BY <2>4, <2>5, <2>6, <2>7 DEF Profile
      <3>2. QED
        BY <1>3, <2>2, <2>4, <2>7, <3>1 DEF Canonical
    <2>8. CASE asked = "wav_pcm_s16le"
      <3>1. out.fmt \in {"wav", "wavpack"} /\ out.audio = "pcm_s16le" /\ out.rate = 16
        BY <2>4, <2>5, <2>6, <2>8 DEF Profile
      <3>2. QED
        BY <1>3, <2>2, <2>4, <2>8, <3>1 DEF Canonical
    <2>9. CASE asked = "m4a_aac_lc"
      <3>1. out.fmt \in {"mov", "mp4", "m4a"} /\ out.audio = "aac" /\ out.rate = 48 /\ out.profile # "HE-AAC"
        BY <2>4, <2>5, <2>6, <2>9 DEF Profile
      <3>2. QED
        BY <1>3, <2>2, <2>4, <2>9, <3>1 DEF Canonical
    <2>10. QED
      BY <2>3, <2>7, <2>8, <2>9 DEF AudioTargets
  <1>4. QED
    BY <1>1, <1>2, <1>3 DEF Kinds

\* What is reported as a success satisfies the contract.
THEOREM SuccessIsCanonicalCorrect == Spec => []SuccessIsCanonical
  <1>1. ItemInv => SuccessIsCanonical
    <2> SUFFICES ASSUME ItemInv, status = "success" PROVE Canonical(out)
      BY DEF SuccessIsCanonical
    <2>1. Valid(out) /\ detected.kind \in Kinds /\ PolicyLoaded /\ Genuine
      BY DEF ItemInv, Validated
    <2>2. Layout(out.boxes) /\ out.audios \in Nat /\ out.extra \in Nat
      <3>1. NoFile.audios = 0 /\ NoFile.video = "none" /\ NoFile.sig = "none"
        BY DEF NoFile, Image
      <3>2. ~Valid(NoFile)
        <4>1. ~ValidImage(NoFile) /\ ~ValidVideo(NoFile) /\ ~ValidAudio(NoFile)
          BY <3>1 DEF ValidImage, ValidVideo, ValidAudio
        <4>2. QED
          BY <2>1, <4>1 DEF Valid, Kinds
      <3>3. QED
        BY <2>1, <3>2, MediaItemAssumption DEF Genuine
    <2>3. QED
      BY <2>1, <2>2, ValidIsCanonical
  <1>2. QED
    BY <1>1, ItemInvInit, ItemInvStep, PTL DEF Spec

\* The scan tells of every input whether its index comes first, with a box more or
\* less behind it and wherever it is cut off (hasFaststart).
THEOREM FaststartAgreesCorrect == Spec => []FaststartAgrees
  <1>1. ItemInv => FaststartAgrees
    <2> SUFFICES ASSUME ItemInv, NEW tail \in Layouts(1) \cup {<<>>}, NEW boxes, boxes = file.boxes \o tail,
                        NEW length \in 0 .. Whole(boxes).length
                 PROVE  HasFaststart(FileOf(boxes, length)) <=> IndexFirst(boxes, length)
      BY DEF FaststartAgrees
    <2>1. Layout(file.boxes)
      BY MediaItemAssumption DEF ItemInv, Genuine
    <2>2. Layout(tail)
      BY SmallLayouts
    <2>3. Layout(file.boxes \o tail)
      BY <2>1, <2>2, LayoutsJoin
    <2>4. Layout(boxes)
      BY <2>3
    <2>5. QED
      BY <2>4, ScanIsRight
  <1>2. QED
    BY <1>1, ItemInvInit, ItemInvStep, PTL DEF Spec
===============================================================================
