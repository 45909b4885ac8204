------------------------------- MODULE MediaItem -------------------------------
(***************************************************************************)
(* From an uploaded file to a validated output: detectMedia, processItem   *)
(* and processImage, processVideo, processAudio (internal/job/manager.go)  *)
(* with the pipelines they call (internal/detection, mediaimage,           *)
(* mediavideo, mediaaudio).  Every converter and every probe is a call of  *)
(* ToolRunner, which may fail, be cancelled or exceed the output limit.    *)
(*                                                                         *)
(* One item is followed; the others of the service are seen as holders of  *)
(* the converter semaphore.  ItemCommit has what happens to an output that *)
(* has been validated, JobBudget the limits of a job.                      *)
(***************************************************************************)
EXTENDS ToolRunner, Faststart, JobPolicy

CONSTANTS
    Requests, \* the uploads and policies to look at: [file, wire], of a media file and a WirePolicy
    Outputs,  \* what a converter that reports success may have written
    Slots     \* IMAGE_WORKERS, or VIDEO_WORKERS

\* A media file, by what the parsers tell of it: the signature of its first
\* bytes; what ImageMagick identifies; what ffprobe prints, with the first name of
\* its format and the last of its sound streams; the boxes of an MP4.
Image(sig, frames, dims, mode) ==
    [sig |-> sig, frames |-> frames, dims |-> dims, mode |-> mode,
     fmt |-> "image", brand |-> "", video |-> "none", pix |-> "", rotation |-> 0,
     audio |-> "none", profile |-> "", audios |-> 0, extra |-> 0, rate |-> 0, channels |-> 0, boxes |-> <<>>]

Video(sig, brand, codec, pix, rotation, audio, boxes) ==
    [Image(sig, 0, "good", "") EXCEPT
        !.fmt = "mov", !.brand = brand, !.video = codec, !.pix = pix, !.rotation = rotation,
        !.audio = audio, !.audios = IF audio = "none" THEN 0 ELSE 1, !.boxes = boxes]

Audio(sig, fmt, brand, codec, rate, channels) ==
    [Image(sig, 0, "zero", "") EXCEPT
        !.fmt = fmt, !.brand = brand, !.audio = codec, !.profile = IF codec = "aac" THEN "LC" ELSE "",
        !.audios = 1, !.rate = rate, !.channels = channels]

ImageFormats == {"jpeg", "png", "webp", "heic"}

ASSUME MediaItemAssumption ==
    /\ \A f \in Outputs \cup {q.file : q \in Requests} :
          Layout(f.boxes) /\ f.audios \in Nat /\ f.extra \in Nat
    /\ \A q \in Requests : q.wire \in WirePolicy /\ ValidatePolicy(Submitted(q.wire))
    /\ Slots \in Nat \ {0}

VARIABLES
    file, wire, policy, \* the input, the policy as sent and as the worker has it
    step,     \* where the item is
    detected, \* domain.MediaDetected
    out,      \* the output in the workspace, or NoFile
    holds,    \* the item holds a place of the converter semaphore
    others,   \* places that other items hold
    status, code \* ItemResult.Status and Error.Code

itemVars == <<file, wire, policy, step, detected, out, holds, others, status, code>>
vars     == <<itemVars, toolVars>>

NoFile  == Image("none", 0, "zero", "")
Nothing == [kind |-> "none"]

PlainSteps   == {"identifyInput", "probeInput", "identify", "validate", "thumbDims", "thumbIdentify"}
LimitedSteps == {"convert", "thumb", "thumbAgain"}
Steps        == PlainSteps \cup LimitedSteps \cup {"open", "detect", "gate", "acquire", "operation", "commit", "end"}

\* ToolRunner's part, the steps, and a semaphore that is never overfull.
TypeOK ==
    /\ ToolTypeOK
    /\ step \in Steps
    /\ status \in {"none", "success", "rejected", "failed"}
    /\ policy \in [image : {"zalo_jpeg"}, audio : AudioTargets, alpha : Colors, strip : BOOLEAN,
                   thumbnail : BOOLEAN, strict : BOOLEAN, urls : BOOLEAN]
    /\ holds \in BOOLEAN
    /\ others + (IF holds THEN 1 ELSE 0) \in 0 .. Slots

Init ==
    /\ \E q \in Requests : file = q.file /\ wire = q.wire
    /\ policy = Loaded(wire)
    /\ step = "open"
    /\ detected = Nothing
    /\ out = NoFile
    /\ holds = FALSE /\ others = 0
    /\ status = "none" /\ code = ""
    /\ ToolInit

-------------------------------------------------------------------------------
Goto(s) == step' = s

\* The item returns with a status; what it held is released.
End(s, c) ==
    /\ Goto("end")
    /\ status' = s /\ code' = c
    /\ holds' = FALSE
    /\ UNCHANGED <<file, wire, policy, detected, out, others>>

Continue(s) == Goto(s) /\ UNCHANGED <<file, wire, policy, detected, out, holds, others, status, code>>

\* A pipeline calls its tool, and reads the answer.
CallTool ==
    /\ \/ step \in PlainSteps /\ StartTool(FALSE)
       \/ step \in LimitedSteps /\ StartTool(TRUE)
    /\ UNCHANGED itemVars

Answered(s) == step = s /\ TakeAnswer

Ok == answer = "ok"

-------------------------------------------------------------------------------
\* Detection.

\* processItem up to detectMedia: the workspace, the uploaded file, its share of
\* the job's budget, the copy, and the expected hash.
Open ==
    /\ step = "open"
    /\ \/ Continue("detect")
       \/ \E c \in {"input_missing", "input_size_exceeded", "input_hash_mismatch"} : End("rejected", c)
       \/ \E c \in {"internal_error", "storage_read_failed"} : End("failed", c)
    /\ UNCHANGED toolVars

\* ffprobe's streams, and the container that Probe makes of its answer.
Streams(f) == f.audios + f.extra + IF f.video = "none" THEN 0 ELSE 1

ContainerFromProbe(f) ==
    IF f.brand = "qt" \/ (f.brand = "" /\ f.fmt = "quicktime") THEN "mov" ELSE "mp4"

AudioContainerFromProbe(f) ==
    CASE f.fmt \in {"ogg", "oga"}        -> "ogg"
      [] f.fmt \in {"wav", "wavpack"}    -> "wav"
      [] f.fmt \in {"mov", "mp4", "m4a"} -> "m4a"
      [] OTHER                           -> f.fmt

Probe(f) ==
    [kind      |-> IF f.video = "none" THEN "audio" ELSE "video",
     container |-> IF f.video = "none" THEN AudioContainerFromProbe(f) ELSE ContainerFromProbe(f),
     faststart |-> HasFaststart(Whole(f.boxes))]

\* The first bytes name an image format, or an ISO file whose brand is not that of
\* an image, or nothing that is known.
Detect ==
    /\ step = "detect"
    /\ \/ Continue(IF file.sig \in ImageFormats THEN "identifyInput" ELSE "probeInput")
       \/ End("failed", "storage_read_failed")
    /\ UNCHANGED toolVars

\* The path of ImageMagick is never empty: Config gives it a default.
IdentifyInput ==
    /\ Answered("identifyInput")
    /\ \/ ~Ok /\ End("rejected", "image_decode_failed")
       \/ Ok /\ End("rejected", "image_dimensions_unreadable")
       \/ /\ Ok
          /\ detected' = [kind |-> "image"]
          /\ Goto("gate")
          /\ UNCHANGED <<file, wire, policy, out, holds, others, status, code>>

\* What the signature said of the container replaces what ffprobe said.
Overridden(f) ==
    CASE f.sig = "mp4" -> [Probe(f) EXCEPT !.container = "mp4"]
      [] f.sig = "qt"  -> [Probe(f) EXCEPT !.container = "mov"]
      [] OTHER         -> Probe(f)

SupportedAudioInput(d) == d.container \in {"ogg", "wav", "m4a"}

ProbeInput ==
    LET empty == file.video = "none" /\ file.audios = 0
        d     == Overridden(file)
    IN  /\ Answered("probeInput")
        /\ \/ ~Ok /\ End("failed", "video_probe_failed")
           \/ Ok /\ empty /\ End("rejected", "corrupt_media")
           \/ Ok /\ ~empty /\ d.kind = "audio" /\ ~SupportedAudioInput(d) /\ End("rejected", "unsupported_format")
           \/ /\ Ok /\ ~empty /\ (d.kind = "audio" => SupportedAudioInput(d))
              /\ detected' = d
              /\ Goto("gate")
              /\ UNCHANGED <<file, wire, policy, out, holds, others, status, code>>

\* The budgets of the job; a declared kind or an extension that does not match
\* is an error only if the policy is strict.  No cached result is found.
Gate ==
    /\ step = "gate"
    /\ \/ Continue("acquire")
       \/ End("rejected", "output_size_exceeded")
       \/ policy.strict /\ End("rejected", "format_mismatch")
    /\ UNCHANGED toolVars

-------------------------------------------------------------------------------
\* The converters.

\* Mutant of Acquire: one item more than there are places.
AcquireBeyond ==
    /\ step = "acquire"
    /\ others <= Slots
    /\ holds' = TRUE
    /\ Goto(IF detected.kind = "image" THEN "identify" ELSE "operation")
    /\ UNCHANGED <<file, wire, policy, detected, out, others, status, code>>
    /\ UNCHANGED toolVars

\* A place of the semaphore, or the cancellation; both may be ready.
Acquire ==
    /\ step = "acquire"
    /\ \/ /\ others < Slots
          /\ holds' = TRUE
          /\ Goto(IF detected.kind = "image" THEN "identify" ELSE "operation")
          /\ UNCHANGED <<file, wire, policy, detected, out, others, status, code>>
       \/ cancelled /\ End("failed", "timeout")
    /\ UNCHANGED toolVars

\* mediaimage.Process up to the conversion.
Identify ==
    /\ Answered("identify")
    /\ \/ ~Ok /\ End("rejected", "image_decode_failed")
       \/ Ok /\ file.frames > 1 /\ End("rejected", "unsupported_animation")
       \/ Ok /\ file.frames <= 1 /\ file.dims = "zero" /\ End("rejected", "image_dimensions_unreadable")
       \/ Ok /\ file.frames <= 1 /\ file.dims = "huge" /\ End("failed", "output_size_exceeded")
       \/ Ok /\ file.frames <= 1 /\ file.dims = "good" /\ Continue("convert")

\* There is no sound, or it is AAC.
CanonicalSound(f) == f.audios > 0 => f.audio = "aac"

CanonicalStreams == file.video \in {"h264", "avc1"} /\ file.pix = "yuv420p" /\ CanonicalSound(file)

\* classify, and the rotation that processVideo adds.
Operation ==
    CASE CanonicalStreams /\ file.rotation = 0 /\ detected.container = "mp4" /\ detected.faststart -> "passthrough"
      [] ~CanonicalStreams \/ file.rotation # 0 -> "transcoded"
      [] OTHER -> "remuxed"

Copied == detected.kind = "video" /\ Operation = "passthrough"

\* mediavideo.Process and mediaaudio.Process up to the conversion: the limits,
\* and the copy of a file that is canonical already.
ChooseOperation ==
    /\ step = "operation"
    /\ \/ file.dims = "huge" /\ End("failed", "output_size_exceeded") /\ UNCHANGED size
       \/ file.dims # "huge" /\ ~Copied /\ Continue("convert") /\ UNCHANGED size
       \/ /\ file.dims # "huge" /\ Copied
          /\ size' \in 0 .. MaxSize
          /\ \/ /\ size' <= Limit
                /\ out' = file
                /\ Goto("validate")
                /\ UNCHANGED <<file, wire, policy, detected, holds, others, status, code>>
             \/ size' > Limit /\ End("failed", "output_size_exceeded")
             \/ End("failed", "converter_failed")
    /\ UNCHANGED toolVarsButSize

\* The audio pipeline does not tell the limit from other failures.
Convert ==
    /\ Answered("convert")
    /\ \/ /\ Ok
          /\ out' \in Outputs
          /\ Goto("validate")
          /\ UNCHANGED <<file, wire, policy, detected, holds, others, status, code>>
       \/ /\ ~Ok
          /\ End("failed", IF answer = "limit" /\ detected.kind # "audio"
                           THEN "output_size_exceeded" ELSE "converter_failed")

-------------------------------------------------------------------------------
\* Validation, commit and thumbnail.

ValidImage(f) == f.sig = "jpeg" /\ f.dims # "zero" /\ f.mode = "sRGB"

\* Mutant of ValidVideo: where the index of the file is is not looked at.
ValidVideoAnyIndex(f) ==
    /\ Probe(f).container = "mp4" /\ Streams(f) <= 2
    /\ f.video = "h264" /\ f.pix = "yuv420p" /\ f.rotation = 0
    /\ CanonicalSound(f)
    /\ f.dims # "zero"

ValidVideo(f) ==
    /\ Probe(f).container = "mp4" /\ Streams(f) <= 2
    /\ f.video = "h264" /\ f.pix = "yuv420p" /\ f.rotation = 0
    /\ CanonicalSound(f)
    /\ f.dims # "zero"
    /\ HasFaststart(Whole(f.boxes))

Profile(target) ==
    CASE target = "wav_pcm_s16le" -> [container |-> "wav", codec |-> "pcm_s16le", rate |-> 16]
      [] target = "m4a_aac_lc"    -> [container |-> "m4a", codec |-> "aac", rate |-> 48]
      [] OTHER                    -> [container |-> "ogg", codec |-> "opus", rate |-> 48]

ValidAudio(f) ==
    /\ Streams(f) = 1 /\ f.video = "none" /\ f.audios = 1
    /\ f.channels = 1
    /\ [container |-> Probe(f).container, codec |-> f.audio, rate |-> f.rate] = Profile(policy.audio)
    /\ policy.audio = "m4a_aac_lc" => f.profile \in {"", "LC"}

Valid(f) ==
    CASE detected.kind = "image" -> ValidImage(f)
      [] detected.kind = "video" -> ValidVideo(f)
      [] detected.kind = "audio" -> ValidAudio(f)

Validate ==
    /\ Answered("validate")
    /\ IF Ok /\ Valid(out) THEN Continue("commit") ELSE End("failed", "output_validation_failed")

\* commitResult, and whether a thumbnail is wanted, which is a file of its own.
Commit ==
    /\ step = "commit"
    /\ \/ End("failed", IF size > Limit THEN "output_size_exceeded" ELSE "storage_write_failed") /\ UNCHANGED size
       \/ /\ size <= Limit
          /\ ~(detected.kind = "video" /\ policy.thumbnail)
          /\ End("success", "") /\ UNCHANGED size
       \/ /\ size <= Limit
          /\ detected.kind = "video" /\ policy.thumbnail
          /\ status' = "success"
          /\ Goto("thumb")
          /\ size' = 0
          /\ UNCHANGED <<file, wire, policy, detected, out, holds, others, code>>
    /\ UNCHANGED toolVarsButSize

\* Pipeline.Thumbnail: one second into the film, else its first frame; then its
\* dimensions and its format.  A failure is a warning.
Thumbnail ==
    \/ /\ Answered("thumb")
       /\ Continue(IF Ok THEN "thumbDims" ELSE "thumbAgain")
    \/ /\ Answered("thumbAgain")
       /\ IF Ok THEN Continue("thumbDims") ELSE End("success", "")
    \/ /\ Answered("thumbDims")
       /\ End("success", "") \/ (Ok /\ Continue("thumbIdentify"))
    \/ /\ Answered("thumbIdentify")
       /\ End("success", "")

\* Other items take and return places.
OthersMove ==
    /\ others' \in {others - 1, others + 1} \cap (0 .. Slots - (IF holds THEN 1 ELSE 0))
    /\ UNCHANGED <<file, wire, policy, step, detected, out, holds, status, code, toolVars>>

ItemStep ==
    \/ CallTool \/ Open \/ Detect \/ IdentifyInput \/ ProbeInput \/ Gate \/ Acquire \/ Identify
    \/ ChooseOperation \/ Convert \/ Validate \/ Commit \/ Thumbnail

Next == ItemStep \/ OthersMove \/ (ToolNext /\ UNCHANGED itemVars)

Spec == Init /\ [][Next]_vars

\* The goroutines are scheduled; a place that others hold need not come free.
FairSpec == Spec /\ WF_vars(ItemStep) /\ ToolFairness

-------------------------------------------------------------------------------
\* Properties.

\* The contract of README.md ("Processing contract"), in its own words: a JPEG;
\* an MP4 with one H.264 picture, yuv420p and upright, at most one sound track,
\* AAC, and its index in front; or the audio profile that the policy as sent
\* selects.  By its boxes an MP4 is a film that is not QuickTime's: one that
\* names no brand, having no ftyp box, counts as MP4 (ISO/IEC 14496-12).
Canonical(f) ==
    CASE detected.kind = "image" -> f.sig = "jpeg"
      [] detected.kind = "video" ->
            /\ f.brand # "qt" /\ IndexFirst(f.boxes, Whole(f.boxes).length)
            /\ f.video = "h264" /\ f.pix = "yuv420p" /\ f.rotation = 0
            /\ f.audios <= 1 /\ (f.audios = 1 => f.audio = "aac")
      [] detected.kind = "audio" ->
            LET asked == IF wire.sent /\ wire.audio # "" THEN wire.audio ELSE "voice_ogg_opus"
            IN  /\ f.video = "none" /\ f.audios = 1 /\ f.channels = 1
                /\ \/ asked = "voice_ogg_opus" /\ f.fmt \in {"ogg", "oga"} /\ f.audio = "opus" /\ f.rate = 48
                   \/ asked = "wav_pcm_s16le" /\ f.fmt \in {"wav", "wavpack"} /\ f.audio = "pcm_s16le" /\ f.rate = 16
                   \/ /\ asked = "m4a_aac_lc" /\ f.fmt \in {"mov", "mp4", "m4a"}
                      /\ f.audio = "aac" /\ f.rate = 48 /\ f.profile # "HE-AAC"

\* What is reported as a success satisfies the contract, whatever the tools wrote,
\* copied, remuxed or transcoded, and whichever of them was killed on the way.
SuccessIsCanonical == status = "success" => Canonical(out)

\* An output that goes on to be committed is within the limit, although the
\* monitor only looks now and then and the tool may have ended meanwhile.
OutputWithinLimit == step \in {"validate", "commit"} => size <= Limit

\* Nothing of a call outlives it, and nothing of an item: no process of the tool's
\* group, no monitor, no place of the semaphore, so that a workspace is removed
\* and a place is given on only when nobody works in it.
NothingLeftBehind ==
    /\ call = "idle" => ~Alive /\ monitor = "off"
    /\ step = "end" => call = "idle" /\ ~holds

\* A cancelled item ends, wherever it is: waiting for a place, for a tool that
\* hangs, for a child of a tool that keeps its pipes, or for the monitor.
CancelEnds == cancelled ~> step = "end"

\* A tool whose output stays over the limit is ended although it would run on.
OverLimitEnds == (call = "select" /\ limited /\ size > Limit) ~> (call = "idle" \/ size <= Limit)

\* The worker processes under the policy that the client sent: what it said is
\* kept, a FALSE included, and the rest has the documented default; and a request
\* loaded from disk is the request that was accepted.
PolicyKept ==
    /\ policy = Submitted(wire)
    /\ \A f \in {"image", "audio", "alpha"} :
          policy[f] = IF wire.sent /\ wire[f] # "" THEN wire[f] ELSE DefaultPolicy[f]
    /\ \A f \in {"strip", "thumbnail", "strict", "urls"} :
          policy[f] = IF wire.sent /\ wire[f] # {} THEN TRUE \in wire[f] ELSE DefaultPolicy[f]

\* Whatever boxes precede or follow those of the input, and wherever the file is
\* cut off, the scan tells whether the index comes first: sizes of 32 and 64 bits,
\* a size of zero, a size beyond the end, and no word of a payload read as a box.
FaststartAgrees ==
    step = "detect" =>
        \A tail \in Layouts(1) \cup {<<>>} :
            LET boxes == file.boxes \o tail
            IN  \A length \in 0 .. Whole(boxes).length :
                    HasFaststart(FileOf(boxes, length)) <=> IndexFirst(boxes, length)

\* README.md and the discovery document list "m4a" among the audio inputs, as
\* OGG and WAV: a file of a listed kind is not called unsupported.
ListedInput ==
    \/ file.sig \in ImageFormats
    \/ file.video # "none" /\ file.sig \in {"mp4", "qt"}
    \/ file.video = "none" /\ file.audios > 0 /\ file.fmt \in {"ogg", "wav", "mov"}

SupportedAccepted == code = "unsupported_format" => ~ListedInput
===============================================================================
