------------------------------- MODULE Faststart -------------------------------
(***************************************************************************)
(* hasFaststart (internal/mediavideo/faststart.go): whether the index of   *)
(* an MP4, its moov box, comes before the media, its mdat box.  The scan   *)
(* follows the size field of each box to the next; here a header is two    *)
(* units long instead of eight bytes, and the 64-bit size has four bits.   *)
(***************************************************************************)
EXTENDS Integers, Sequences

HeaderSize   == 2
LargeHeader  == 2 * HeaderSize
LargeMod     == 16 \* 2^64 in these units

\* int64(uint64)
AsInt64(n) == IF n < LargeMod \div 2 THEN n ELSE n - LargeMod

\* Mutant of BoxSize: a box that reaches to the end of the file is not known.
BoxSizeNoRest(f, o) == IF f.at[o].size = 1 THEN AsInt64(f.at[o].large) ELSE f.at[o].size

\* A file is its length and the header that is read at each offset.
BoxSize(f, o) ==
    LET h == f.at[o]
        n == IF h.size = 1 THEN AsInt64(h.large) ELSE h.size
    IN  IF n = 0 THEN f.length - o ELSE n

\* The header is there, and the box ends within the file.
Readable(f, o) ==
    LET header == IF f.at[o].size = 1 THEN LargeHeader ELSE HeaderSize
    IN  o + header <= f.length /\ BoxSize(f, o) \in header .. f.length - o

\* hasFaststart
HasFaststart(f) ==
    LET scan[o \in 0 .. f.length] ==
            /\ o + HeaderSize <= f.length
            /\ Readable(f, o)
            /\ f.at[o].typ # "mdat"
            /\ f.at[o].typ = "moov" \/ scan[o + BoxSize(f, o)]
    IN  scan[0]

-------------------------------------------------------------------------------
\* Files as a muxer lays them out: boxes one after the other, each with a
\* payload and a way to write its size, possibly cut off.

\* The size in the 32-bit field, in the 64-bit field, as zero ("to the end of the
\* file"), or damaged: a 64-bit size of 2^63 or more.
SizeForms == {"short", "large", "rest", "huge"}

Box(typ, payload, form) == [typ |-> typ, payload |-> payload, form |-> form]

Extent(b) == b.payload + IF b.form \in {"large", "huge"} THEN LargeHeader ELSE HeaderSize

\* A layout: no box is 2^63 bytes long or longer.
Layout(boxes) ==
    /\ boxes \in Seq([typ : {"free", "moov", "mdat"}, payload : Nat, form : SizeForms])
    /\ \A k \in DOMAIN boxes : Extent(boxes[k]) < LargeMod \div 2

\* Where box k of a layout starts.
Start(boxes, k) ==
    LET end[n \in 0 .. Len(boxes)] == IF n = 0 THEN 0 ELSE end[n - 1] + Extent(boxes[n]) IN end[k - 1]

HeaderOf(b) ==
    [typ   |-> b.typ,
     size  |-> CASE b.form = "short" -> Extent(b) [] b.form = "rest" -> 0 [] OTHER -> 1,
     large |-> IF b.form = "huge" THEN LargeMod - 1 ELSE Extent(b)]

\* What is read in the middle of a box.
Payload == [typ |-> "moov", size |-> HeaderSize, large |-> 0]

FileOf(boxes, length) ==
    [length |-> length,
     at |-> [o \in 0 .. length |->
                IF \E k \in DOMAIN boxes : Start(boxes, k) = o
                THEN HeaderOf(boxes[CHOOSE k \in DOMAIN boxes : Start(boxes, k) = o])
                ELSE Payload]]

\* The file is not cut off.
Whole(boxes) == FileOf(boxes, Start(boxes, Len(boxes) + 1))

\* What the scan is meant to find: the first box of the two that matter is a
\* moov, it and all before it are in the file as they were written, and none
\* before it takes up the rest of the file.
IndexFirst(boxes, length) ==
    \E k \in DOMAIN boxes :
        /\ boxes[k].typ = "moov"
        /\ \A i \in 1 .. k - 1 : boxes[i].typ = "free" /\ boxes[i].form \in {"short", "large"}
        /\ CASE boxes[k].form = "rest" -> Start(boxes, k) + HeaderSize <= length
             [] boxes[k].form = "huge" -> FALSE
             [] OTHER                  -> Start(boxes, k) + Extent(boxes[k]) <= length

Layouts(n) ==
    UNION {[1 .. k -> {Box(t, p, s) : t \in {"free", "moov", "mdat"}, p \in {0, 1}, s \in SizeForms}] : k \in 1 .. n}
===============================================================================
