------------------------------- MODULE JobPolicy -------------------------------
(***************************************************************************)
(* The policy of a job on its way from the request to the worker           *)
(* (internal/domain/domain.go): decoded with defaults, normalized,         *)
(* validated, written to the state store as JSON and decoded again by the  *)
(* worker that runs the job, perhaps after a restart.                      *)
(***************************************************************************)
\* DefaultPolicy, of which target_video behaves as target_image.
DefaultPolicy ==
    [image |-> "zalo_jpeg", audio |-> "voice_ogg_opus", alpha |-> "#FFFFFF",
     strip |-> TRUE, thumbnail |-> TRUE, strict |-> FALSE, urls |-> FALSE]

\* Policy{}
ZeroPolicy ==
    [image |-> "", audio |-> "", alpha |-> "", strip |-> FALSE, thumbnail |-> FALSE,
     strict |-> FALSE, urls |-> FALSE]

AudioTargets == {"voice_ogg_opus", "wav_pcm_s16le", "m4a_aac_lc"}

\* Backgrounds that are valid: the default, and another.
Colors == {"#FFFFFF", "#000000"}

\* A policy in JSON: a string that is missing is empty, a missing boolean is {},
\* and the policy itself may be missing.
WirePolicy ==
    LET Flags == {{}, {TRUE}, {FALSE}}
    IN  [sent : BOOLEAN, image : {"", "zalo_jpeg", "other"}, audio : AudioTargets \cup {"", "other"},
         alpha : Colors \cup {"", "other"}, strip : Flags, thumbnail : Flags, strict : Flags, urls : Flags]

OrDefault(p, f) == IF p[f] = "" THEN DefaultPolicy[f] ELSE p[f]

Flag(field, default) == IF field = {} THEN default ELSE TRUE \in field

\* Policy.UnmarshalJSON, which is not called for a policy that is missing.
Decode(w) ==
    IF ~w.sent THEN ZeroPolicy
    ELSE [image     |-> OrDefault(w, "image"),
          audio     |-> OrDefault(w, "audio"),
          alpha     |-> OrDefault(w, "alpha"),
          strip     |-> Flag(w.strip, DefaultPolicy.strip),
          thumbnail |-> Flag(w.thumbnail, DefaultPolicy.thumbnail),
          strict    |-> Flag(w.strict, FALSE),
          urls      |-> Flag(w.urls, FALSE)]

\* JobRequest.Normalized
Normalized(p) ==
    IF p = ZeroPolicy THEN DefaultPolicy
    ELSE [p EXCEPT !.image = OrDefault(p, "image"), !.audio = OrDefault(p, "audio"), !.alpha = OrDefault(p, "alpha")]

\* JobRequest.ValidatePolicy
ValidatePolicy(p) == p.image = "zalo_jpeg" /\ p.audio \in AudioTargets /\ p.alpha \in Colors

\* Mutant of Encode: a boolean that is FALSE is left out.
EncodeOmitsFalse(p) ==
    [sent |-> TRUE, image |-> p.image, audio |-> p.audio, alpha |-> p.alpha,
     strip |-> {p.strip} \cap {TRUE}, thumbnail |-> {p.thumbnail} \cap {TRUE},
     strict |-> {p.strict} \cap {TRUE}, urls |-> {p.urls} \cap {TRUE}]

\* The tags of Policy: include_download_urls alone is left out when FALSE.
Encode(p) ==
    [sent |-> TRUE, image |-> p.image, audio |-> p.audio, alpha |-> p.alpha,
     strip |-> {p.strip}, thumbnail |-> {p.thumbnail}, strict |-> {p.strict},
     urls |-> {p.urls} \cap {TRUE}]

\* The request is normalized by Submit, saved, and loaded by the worker.
Submitted(w) == Normalized(Decode(w))
Loaded(w)    == Decode(Encode(Submitted(w)))
===============================================================================
