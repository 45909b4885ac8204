------------------------------ MODULE MCMediaItem ------------------------------
(* Small instances of MediaItem for TLC. *)
EXTENDS MediaItem

Free(form) == Box("free", 1, form)
Moov(form) == Box("moov", 1, form)
Mdat(form) == Box("mdat", 1, form)

Fast == <<Free("short"), Moov("large"), Mdat("rest")>>
Slow == <<Free("large"), Mdat("short"), Moov("rest")>>

MP4  == Video("mp4", "mp4", "h264", "yuv420p", 0, "aac", Fast)
M4A  == Audio("mp4", "mov", "mp4", "aac", 48, 1)
FLAC == Audio("none", "flac", "", "flac", 48, 2)
Opus == Audio("none", "ogg", "", "opus", 48, 1)
Wave == Audio("none", "wav", "", "pcm_s16le", 16, 1)
Bare == Video("none", "", "h264", "yuv420p", 0, "aac", <<Moov("short"), Mdat("rest")>>)
JPEG == Image("jpeg", 1, "good", "sRGB")

Images == {JPEG, Image("heic", 1, "good", "sRGB"), Image("webp", 2, "good", "sRGB"), Image("png", 1, "huge", "sRGB")}

\* Canonical, with two sound tracks, with subtitles, its index at the end, from a phone held
\* upright, too large, QuickTime files, and files without a known signature: a Matroska file,
\* an MP4 without an ftyp box, the same with its index at the end or with sound of no known
\* codec, and a QuickTime file whose ftyp box is not the first.
Films ==
    {MP4, [MP4 EXCEPT !.audios = 2], [MP4 EXCEPT !.extra = 1], [MP4 EXCEPT !.boxes = Slow],
     [MP4 EXCEPT !.rotation = 90], [MP4 EXCEPT !.dims = "huge", !.boxes = <<Free("short"), Mdat("huge")>>],
     Video("qt", "qt", "hevc", "yuv420p10", 90, "aac", Slow),
     Video("qt", "qt", "h264", "yuv420p", 0, "none", Fast),
     [Video("none", "", "h264", "yuv420p", 0, "opus", <<>>) EXCEPT !.fmt = "matroska"],
     Bare, [Bare EXCEPT !.boxes = Slow], [Bare EXCEPT !.audio = ""], [Bare EXCEPT !.brand = "qt"]}

\* Remains of an MP4 with no stream that can be read, one of each box.
Scraps == {Video("mp4", "mp4", "none", "", 0, "none", boxes) : boxes \in Layouts(1)}

\* A policy that says nothing, ones that choose the sound and the background, and others.
Silent ==
    [sent |-> TRUE, image |-> "", audio |-> "", alpha |-> "",
     strip |-> {}, thumbnail |-> {}, strict |-> {}, urls |-> {}]
Missing == [Silent EXCEPT !.sent = FALSE]
Flags == {{}, {TRUE}, {FALSE}}
Choices ==
    {[Silent EXCEPT !.audio = a, !.alpha = b, !.strip = s, !.thumbnail = t, !.strict = m, !.urls = u] :
        a \in {"", "m4a_aac_lc"}, b \in {"", "#000000"}, s \in Flags, t \in Flags, m \in Flags, u \in Flags}

\* Every kind of file with a plain policy, sound with every target, and a file
\* that is refused early with every choice of the flags.
MCRequests ==
    [file : Images \cup Films \cup Scraps \cup {NoFile}, wire : {Missing}]
        \cup [file : {MP4}, wire : {[Silent EXCEPT !.thumbnail = {FALSE}, !.strict = {TRUE}]}]
        \cup [file : {Opus, Wave, M4A}, wire : {[Silent EXCEPT !.audio = a] : a \in AudioTargets}]
        \cup [file : {FLAC}, wire : Choices]

\* Good outputs of each kind, and outputs that miss the contract in one point.
MCOutputs ==
    {MP4, Bare, [MP4 EXCEPT !.boxes = Slow], [MP4 EXCEPT !.video = "hevc"], [MP4 EXCEPT !.audio = ""],
     Video("qt", "qt", "h264", "yuv420p", 0, "aac", Fast), JPEG, [JPEG EXCEPT !.mode = "Gray"],
     Opus, [Opus EXCEPT !.channels = 2], Wave, M4A, [M4A EXCEPT !.profile = "HE-AAC"]}
================================================================================
