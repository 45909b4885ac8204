--------------------------- MODULE Faststart_proofs ---------------------------
(***************************************************************************)
(* The scan of hasFaststart finds an index that comes first, and no other, *)
(* for every layout of boxes and wherever the file is cut off.  Both the   *)
(* scan and the places where boxes start are recursive functions; the      *)
(* proofs are inductions over sets of numbers (NatSets), up along the      *)
(* layout and down from the end of the file.                               *)
(***************************************************************************)
EXTENDS Faststart, NatSets

-------------------------------------------------------------------------------
\* Where boxes start.

\* A box is as long as its header, and shorter than what a signed number holds.
LEMMA ExtentForm ==
    ASSUME NEW boxes, Layout(boxes), NEW k \in 1 .. Len(boxes)
    PROVE  /\ boxes[k].typ \in {"free", "moov", "mdat"} /\ boxes[k].form \in SizeForms
           /\ Extent(boxes[k]) \in Nat /\ Extent(boxes[k]) < 8 /\ Extent(boxes[k]) >= 2
           /\ boxes[k].form \in {"large", "huge"} => Extent(boxes[k]) >= 4
  <1>1. k \in DOMAIN boxes /\ boxes[k] \in [typ : {"free", "moov", "mdat"}, payload : Nat, form : SizeForms]
    <2>1. PICK T : T = [typ : {"free", "moov", "mdat"}, payload : Nat, form : SizeForms]
      OBVIOUS
    <2>2. boxes \in Seq(T)
      BY <2>1, Zenon DEF Layout
    <2>3. k \in DOMAIN boxes /\ boxes[k] \in T
      BY <2>2
    <2>4. QED
      BY <2>1, <2>3, Zenon
  <1>2. PICK b : b = boxes[k]
    OBVIOUS
  <1>3. b.typ \in {"free", "moov", "mdat"} /\ b.payload \in Nat /\ b.form \in SizeForms
    BY <1>1, <1>2
  <1>4. Extent(b) = b.payload + IF b.form \in {"large", "huge"} THEN 4 ELSE 2
    BY DEF Extent, HeaderSize, LargeHeader
  <1>5. Extent(b) < 8
    <2>1. LargeMod \div 2 = 8
      BY DEF LargeMod
    <2>2. Extent(boxes[k]) < LargeMod \div 2
      BY <1>1 DEF Layout
    <2>3. QED
      BY <1>2, <2>1, <2>2
  <1>6. QED
    BY <1>2, <1>3, <1>4, <1>5

\* u has the end of box n at n.
EndsAt(u, boxes) ==
    /\ u \in [0 .. Len(boxes) -> Nat]
    /\ u[0] = 0 /\ \A n \in 1 .. Len(boxes) : u[n] = u[n - 1] + Extent(boxes[n])

\* There is such a function.
LEMMA EndsExist ==
    ASSUME NEW boxes, Layout(boxes)
    PROVE  \E u : EndsAt(u, boxes)
  <1> DEFINE Partial(u, n) == /\ u \in [0 .. n -> Nat]
                              /\ u[0] = 0 /\ \A k \in 1 .. n : u[k] = u[k - 1] + Extent(boxes[k])
             S == {n \in Nat : n <= Len(boxes) => \E u : Partial(u, n)}
  <1>0. Len(boxes) \in Nat
    BY DEF Layout
  <1>1. 0 \in S
    <2>1. Partial([k \in 0 .. 0 |-> 0], 0)
      OBVIOUS
    <2>2. QED
      BY <2>1
  <1>2. ASSUME NEW n \in Nat, n \in S PROVE n + 1 \in S
    <2> SUFFICES ASSUME n + 1 <= Len(boxes) PROVE \E u : Partial(u, n + 1)
      <3> HIDE DEF Partial
      <3>1. QED
        OBVIOUS
    <2>1. n <= Len(boxes) /\ n + 1 \in 1 .. Len(boxes)
      BY <1>0
    <2>2. PICK u : Partial(u, n)
      BY <1>2, <2>1
    <2>3. PICK x \in Nat : x = Extent(boxes[n + 1])
      BY <2>1, ExtentForm
    <2> DEFINE w == [k \in 0 .. n + 1 |-> IF k = n + 1 THEN u[n] + x ELSE u[k]]
    <2>4. w \in [0 .. n + 1 -> Nat]
      BY <2>2, <2>3
    <2>5. w[0] = 0 /\ w[n + 1] = u[n] + x /\ \A k \in 0 .. n : w[k] = u[k]
      BY <2>2
    <2> HIDE DEF w
    <2>6. \A k \in 1 .. n + 1 : w[k] = w[k - 1] + Extent(boxes[k])
      BY <2>2, <2>3, <2>5
    <2>7. QED
      BY <2>4, <2>5, <2>6
  <1>3. Len(boxes) \in S
    <2> HIDE DEF S
    <2>1. QED
      BY <1>0, <1>1, <1>2, InductionInSet
  <1>4. QED
    BY <1>0, <1>3 DEF EndsAt

\* A box starts where the one before it ends.
LEMMA StartIsEnd ==
    ASSUME NEW boxes, Layout(boxes)
    PROVE  \E u : EndsAt(u, boxes) /\ \A k \in 1 .. Len(boxes) + 1 : Start(boxes, k) = u[k - 1]
  <1> DEFINE Rule(u) == u = [n \in 0 .. Len(boxes) |-> IF n = 0 THEN 0 ELSE u[n - 1] + Extent(boxes[n])]
             end == CHOOSE u : Rule(u)
  <1>0. Len(boxes) \in Nat
    BY DEF Layout
  <1>1. \E u : Rule(u)
    <2>1. PICK u : EndsAt(u, boxes)
      BY EndsExist
    <2>2. Rule(u)
      BY <1>0, <2>1 DEF EndsAt
    <2>3. QED
      BY <2>2
  <1>2. Rule(end)
    BY <1>1
  <1>3. \A k : Start(boxes, k) = end[k - 1]
    BY DEF Start
  <1> HIDE DEF end
  <1>4. end[0] = 0 /\ \A n \in 1 .. Len(boxes) : end[n] = end[n - 1] + Extent(boxes[n])
    BY <1>0, <1>2
  <1>5. \A n \in 0 .. Len(boxes) : end[n] \in Nat
    <2> DEFINE S == {n \in Nat : n <= Len(boxes) => end[n] \in Nat}
    <2>1. 0 \in S
      BY <1>4
    <2>2. ASSUME NEW n \in Nat, n \in S PROVE n + 1 \in S
      <3> SUFFICES ASSUME n + 1 <= Len(boxes) PROVE end[n + 1] \in Nat
        OBVIOUS
      <3>1. n + 1 \in 1 .. Len(boxes) /\ end[n] \in Nat
        BY <1>0, <2>2
      <3>2. Extent(boxes[n + 1]) \in Nat
        BY <3>1, ExtentForm
      <3>3. end[n + 1] = end[n] + Extent(boxes[n + 1])
        BY <1>4, <3>1
      <3>4. QED
        BY <3>1, <3>2, <3>3
    <2> HIDE DEF S
    <2>3. \A n \in Nat : n \in S
      BY <2>1, <2>2, InductionInSet
    <2>4. QED
      BY <1>0, <2>3 DEF S
  <1>6. end \in [0 .. Len(boxes) -> Nat]
    BY <1>2, <1>5
  <1>7. QED
    BY <1>3, <1>4, <1>6 DEF EndsAt

-------------------------------------------------------------------------------
\* The scan.

\* A box that can be read ends within the file, behind its offset.
LEMMA ReadableAhead ==
    ASSUME NEW f, f.length \in Nat, NEW o \in 0 .. f.length, Readable(f, o)
    PROVE  BoxSize(f, o) \in Int /\ BoxSize(f, o) >= 2 /\ o + BoxSize(f, o) <= f.length
  BY DEF Readable, HeaderSize, LargeHeader

\* The scan goes on at o, or finds the index there.
Goes(f, o) == o + HeaderSize <= f.length /\ Readable(f, o) /\ f.at[o].typ # "mdat"

\* The offsets from which the scan finds the index.
Finds(T, f, from) ==
    \A o \in from .. f.length : o \in T <=> Goes(f, o) /\ (f.at[o].typ = "moov" \/ o + BoxSize(f, o) \in T)

\* There are such offsets: a box leads only to offsets behind it.
LEMMA FindsExist ==
    ASSUME NEW f, f.length \in Nat
    PROVE  \E T : Finds(T, f, 0)
  <1> DEFINE S == {n \in Nat : n <= f.length => \E T : Finds(T, f, f.length - n)}
  <1>1. 0 \in S
    <2>1. \A o \in f.length - 0 .. f.length : ~Goes(f, o)
      BY DEF Goes, HeaderSize
    <2>2. Finds({}, f, f.length - 0)
      BY <2>1 DEF Finds
    <2>3. QED
      BY <2>2
  <1>2. ASSUME NEW n \in Nat, n \in S PROVE n + 1 \in S
    <2> SUFFICES ASSUME n + 1 <= f.length PROVE \E T : Finds(T, f, f.length - (n + 1))
      OBVIOUS
    <2>1. PICK T : Finds(T, f, f.length - n)
      BY <1>2
    <2>2. PICK p \in 0 .. f.length : p = f.length - (n + 1)
      OBVIOUS
    <2>3. PICK U : U = {o \in T : o # p} \cup {o \in {p} : Goes(f, p) /\ (f.at[p].typ = "moov" \/ p + BoxSize(f, p) \in T)}
      OBVIOUS
    <2>4. \A o : o # p => (o \in U <=> o \in T)
      BY <2>3
    <2>5. p \in U <=> Goes(f, p) /\ (f.at[p].typ = "moov" \/ p + BoxSize(f, p) \in T)
      BY <2>3
    <2>6. ASSUME NEW o \in p .. f.length
          PROVE  o \in U <=> Goes(f, o) /\ (f.at[o].typ = "moov" \/ o + BoxSize(f, o) \in U)
      <3>1. o \in 0 .. f.length
        BY <2>2
      <3>2. Goes(f, o) => o + BoxSize(f, o) # p
        BY <2>2, <3>1, ReadableAhead DEF Goes
      <3>3. CASE o = p
        BY <2>4, <2>5, <3>2, <3>3
      <3>4. CASE o # p
        <4>1. o \in f.length - n .. f.length
          BY <2>2, <3>4
        <4>2. o \in T <=> Goes(f, o) /\ (f.at[o].typ = "moov" \/ o + BoxSize(f, o) \in T)
          BY <2>1, <4>1 DEF Finds
        <4>3. QED
          BY <2>4, <3>2, <3>4, <4>2
      <3>5. QED
        BY <3>3, <3>4
    <2>7. QED
      BY <2>2, <2>6 DEF Finds
  <1>3. f.length \in S
    <2> HIDE DEF S
    <2>1. QED
      BY <1>1, <1>2, InductionInSet
  <1>4. f.length - f.length = 0
    OBVIOUS
  <1>5. QED
    BY <1>3, <1>4

\* The scan computes them.
LEMMA ScanFinds ==
    ASSUME NEW f, f.length \in Nat
    PROVE  \E T : Finds(T, f, 0) /\ (HasFaststart(f) <=> 0 \in T)
  <1> DEFINE Rule(u) == u = [o \in 0 .. f.length |->
                                /\ o + HeaderSize <= f.length
                                /\ Readable(f, o)
                                /\ f.at[o].typ # "mdat"
                                /\ f.at[o].typ = "moov" \/ u[o + BoxSize(f, o)]]
             scan == CHOOSE u : Rule(u)
  <1>1. \E u : Rule(u)
    <2>1. PICK T : Finds(T, f, 0)
      BY FindsExist
    <2> DEFINE w == [o \in 0 .. f.length |-> o \in T]
    <2>2. ASSUME NEW o \in 0 .. f.length
          PROVE  (o \in T) <=> (/\ o + HeaderSize <= f.length
                                /\ Readable(f, o)
                                /\ f.at[o].typ # "mdat"
                                /\ f.at[o].typ = "moov" \/ w[o + BoxSize(f, o)])
      <3>1. Goes(f, o) => o + BoxSize(f, o) \in 0 .. f.length
        BY ReadableAhead DEF Goes
      <3>2. Goes(f, o) => (w[o + BoxSize(f, o)] <=> o + BoxSize(f, o) \in T)
        BY <3>1
      <3>3. QED
        BY <2>1, <3>2 DEF Finds, Goes
    <2> DEFINE body(o) == /\ o + HeaderSize <= f.length
                          /\ Readable(f, o)
                          /\ f.at[o].typ # "mdat"
                          /\ f.at[o].typ = "moov" \/ w[o + BoxSize(f, o)]
    <2>3. \A o \in 0 .. f.length : (o \in T) = body(o)
      <3> TAKE o \in 0 .. f.length
      <3>1. (o \in T) <=> body(o)
        BY <2>2
      <3> HIDE DEF w
      <3>2. (o \in T) \in BOOLEAN /\ body(o) \in BOOLEAN
        OBVIOUS
      <3> HIDE DEF body
      <3>3. PICK a \in BOOLEAN, b \in BOOLEAN : a = (o \in T) /\ b = body(o)
        BY <3>2, Zenon
      <3>4. a <=> b
        BY <3>1, <3>3, Zenon
      <3>5. a = b
        BY <3>4
      <3>6. QED
        BY <3>3, <3>5, Zenon
    <2>4. w = [o \in 0 .. f.length |-> body(o)]
      <3> HIDE DEF body
      <3>1. QED
        BY <2>3, Zenon
    <2>5. QED
      BY <2>4, Zenon
  <1>2. Rule(scan)
    BY <1>1
  <1>3. HasFaststart(f) <=> scan[0]
    BY DEF HasFaststart
  <1> HIDE DEF scan
  <1> DEFINE T == {o \in 0 .. f.length : scan[o]}
  <1>4. ASSUME NEW o \in 0 .. f.length
        PROVE  o \in T <=> Goes(f, o) /\ (f.at[o].typ = "moov" \/ o + BoxSize(f, o) \in T)
    <2>1. Goes(f, o) => o + BoxSize(f, o) \in 0 .. f.length
      BY ReadableAhead DEF Goes
    <2>2. scan[o] <=> Goes(f, o) /\ (f.at[o].typ = "moov" \/ scan[o + BoxSize(f, o)])
      BY <1>2 DEF Goes
    <2>3. QED
      BY <2>1, <2>2
  <1>5. HasFaststart(f) <=> 0 \in T
    BY <1>3
  <1>6. Finds(T, f, 0)
    BY <1>4 DEF Finds
  <1>7. QED
    BY <1>5, <1>6

-------------------------------------------------------------------------------
\* What is read where a box starts.

\* A box starts behind the start of every box before it.
LEMMA EndsGrow ==
    ASSUME NEW boxes, Layout(boxes), NEW u, EndsAt(u, boxes),
           NEW m \in 0 .. Len(boxes), NEW n \in 0 .. Len(boxes), m < n
    PROVE  u[m] < u[n]
  <1> DEFINE S == {k \in Nat : m < k /\ k <= Len(boxes) => u[m] < u[k]}
  <1>0. Len(boxes) \in Nat
    BY DEF Layout
  <1>1. 0 \in S
    BY <1>0
  <1>2. ASSUME NEW k \in Nat, k \in S PROVE k + 1 \in S
    <2> SUFFICES ASSUME m < k + 1, k + 1 <= Len(boxes) PROVE u[m] < u[k + 1]
      OBVIOUS
    <2>1. k + 1 \in 1 .. Len(boxes) /\ k \in 0 .. Len(boxes) /\ (m = k \/ m < k)
      BY <1>0
    <2>2. u[k + 1] = u[k] + Extent(boxes[k + 1]) /\ u[k] \in Nat /\ u[m] \in Nat
      <3>1. u[k] \in Nat /\ u[m] \in Nat
        BY <2>1 DEF EndsAt
      <3>2. PICK j \in 1 .. Len(boxes) : j = k + 1
        BY <2>1
      <3>3. u[j] = u[j - 1] + Extent(boxes[j]) /\ j - 1 = k
        BY <1>2, <3>2 DEF EndsAt
      <3>4. QED
        BY <3>1, <3>2, <3>3
    <2>3. Extent(boxes[k + 1]) \in Nat /\ Extent(boxes[k + 1]) >= 2
      BY <2>1, ExtentForm
    <2>4. m = k \/ u[m] < u[k]
      BY <1>2, <2>1
    <2>5. QED
      BY <2>2, <2>3, <2>4
  <1>3. n \in S
    <2> HIDE DEF S
    <2>1. QED
      BY <1>0, <1>1, <1>2, InductionInSet
  <1>4. QED
    BY <1>0, <1>3

\* The ends, and the starts with them.
StartsAt(u, boxes) == EndsAt(u, boxes) /\ \A k \in 1 .. Len(boxes) + 1 : Start(boxes, k) = u[k - 1]

\* It is the header of that box.
LEMMA HeaderThere ==
    ASSUME NEW boxes, Layout(boxes), NEW u, StartsAt(u, boxes), NEW length \in Nat,
           NEW k \in 1 .. Len(boxes), u[k - 1] <= length
    PROVE  FileOf(boxes, length).at[u[k - 1]] = HeaderOf(boxes[k])
  <1>0. Len(boxes) \in Nat /\ DOMAIN boxes = 1 .. Len(boxes)
    <2>1. PICK T : T = [typ : {"free", "moov", "mdat"}, payload : Nat, form : SizeForms]
      OBVIOUS
    <2>2. boxes \in Seq(T)
      BY <2>1, Zenon DEF Layout
    <2>3. QED
      BY <2>2
  <1>1. PICK o \in 0 .. length : o = u[k - 1]
    BY <1>0 DEF StartsAt, EndsAt
  <1>2. \A j \in DOMAIN boxes : Start(boxes, j) = u[j - 1]
    BY <1>0 DEF StartsAt
  <1>3. ASSUME NEW j \in DOMAIN boxes, u[j - 1] = o PROVE j = k
    <2>1. j - 1 \in 0 .. Len(boxes) /\ k - 1 \in 0 .. Len(boxes)
      BY <1>0
    <2>2. u[j - 1] \in Nat /\ u[k - 1] \in Nat
      BY <2>1 DEF StartsAt, EndsAt
    <2>3. CASE j - 1 < k - 1
      <3>1. u[j - 1] < u[k - 1]
        BY <2>1, <2>3, EndsGrow DEF StartsAt
      <3>2. QED
        BY <1>1, <1>3, <2>2, <3>1
    <2>4. CASE k - 1 < j - 1
      <3>1. u[k - 1] < u[j - 1]
        BY <2>1, <2>4, EndsGrow DEF StartsAt
      <3>2. QED
        BY <1>1, <1>3, <2>2, <3>1
    <2>5. QED
      BY <1>0, <2>3, <2>4
  <1>4. (CHOOSE j \in DOMAIN boxes : Start(boxes, j) = o) = k
    <2>1. k \in DOMAIN boxes /\ Start(boxes, k) = o
      BY <1>0, <1>1, <1>2
    <2>2. \A j \in DOMAIN boxes : Start(boxes, j) = o => j = k
      BY <1>2, <1>3
    <2>3. QED
      BY <2>1, <2>2
  <1>5. \E j \in DOMAIN boxes : Start(boxes, j) = o
    BY <1>0, <1>1, <1>2
  <1>6. FileOf(boxes, length).at[o] = HeaderOf(boxes[CHOOSE j \in DOMAIN boxes : Start(boxes, j) = o])
    BY <1>5 DEF FileOf
  <1>7. QED
    BY <1>1, <1>4, <1>6

\* The size that is read is the one that was written, and the box can be read where
\* it has not been cut off and its size is not damaged.
LEMMA BoxRead ==
    ASSUME NEW boxes, Layout(boxes), NEW u, StartsAt(u, boxes), NEW length \in Nat,
           NEW k \in 1 .. Len(boxes), u[k - 1] <= length,
           NEW f, f = FileOf(boxes, length), NEW o, o = u[k - 1], NEW b, b = boxes[k]
    PROVE  /\ f.length = length /\ o \in Nat /\ f.at[o].typ = b.typ
           /\ b.form \in {"short", "large"} => BoxSize(f, o) = Extent(b) /\ (Readable(f, o) <=> o + Extent(b) <= length)
           /\ b.form = "rest" => BoxSize(f, o) = length - o /\ (Readable(f, o) <=> o + HeaderSize <= length)
           /\ b.form = "huge" => ~Readable(f, o)
  <1>1. f.length = length
    BY DEF FileOf
  <1>2. PICK h : h = HeaderOf(b)
    OBVIOUS
  <1>3. f.at[o] = h
    BY <1>2, HeaderThere, Zenon
  <1>4. o \in Nat /\ b.form \in SizeForms /\ Extent(b) \in Nat /\ Extent(b) < 8 /\ Extent(b) >= 2
        /\ (b.form \in {"large", "huge"} => Extent(b) >= 4)
    <2>1. Len(boxes) \in Nat
      BY DEF Layout
    <2>2. o \in Nat
      BY <2>1 DEF StartsAt, EndsAt
    <2>3. QED
      BY <2>2, ExtentForm
  <1>5. /\ h.typ = b.typ
        /\ b.form = "short" => h.size = Extent(b)
        /\ b.form = "rest" => h.size = 0
        /\ b.form \in {"large", "huge"} => h.size = 1
        /\ b.form = "large" => h.large = Extent(b)
        /\ b.form = "huge" => h.large = 15
    BY <1>2, <1>4 DEF HeaderOf, SizeForms, LargeMod
  <1>6. AsInt64(15) = -1 /\ (Extent(b) < 8 => AsInt64(Extent(b)) = Extent(b))
    BY <1>4 DEF AsInt64, LargeMod
  <1>7. CASE b.form = "short"
    <2>1. BoxSize(f, o) = Extent(b)
      BY <1>3, <1>4, <1>5, <1>7 DEF BoxSize
    <2>2. QED
      BY <1>1, <1>3, <1>4, <1>5, <1>7, <2>1 DEF Readable, HeaderSize
  <1>8. CASE b.form = "large"
    <2>1. BoxSize(f, o) = Extent(b)
      BY <1>3, <1>4, <1>5, <1>6, <1>8 DEF BoxSize
    <2>2. QED
      BY <1>1, <1>3, <1>4, <1>5, <1>8, <2>1 DEF Readable, HeaderSize, LargeHeader
  <1>9. CASE b.form = "rest"
    <2>1. BoxSize(f, o) = length - o
      BY <1>1, <1>3, <1>4, <1>5, <1>9 DEF BoxSize
    <2>2. QED
      BY <1>1, <1>3, <1>4, <1>5, <1>9, <2>1 DEF Readable, HeaderSize
  <1>10. CASE b.form = "huge"
    <2>1. BoxSize(f, o) = -1
      BY <1>3, <1>4, <1>5, <1>6, <1>10 DEF BoxSize
    <2>2. QED
      BY <1>1, <1>3, <1>4, <1>5, <1>10, <2>1 DEF Readable, HeaderSize, LargeHeader
  <1>11. QED
    BY <1>4, <1>7, <1>8, <1>9, <1>10 DEF SizeForms

-------------------------------------------------------------------------------
\* The scan finds the index that comes first.

\* The box is a moov, and in the file as it was written.
Index(boxes, length, j) ==
    /\ boxes[j].typ = "moov"
    /\ CASE boxes[j].form = "rest" -> Start(boxes, j) + HeaderSize <= length
         [] boxes[j].form = "huge" -> FALSE
         [] OTHER                  -> Start(boxes, j) + Extent(boxes[j]) <= length

\* From box k on the index comes first.
FirstFrom(boxes, length, k) ==
    \E j \in k .. Len(boxes) :
        /\ Index(boxes, length, j)
        /\ \A i \in k .. j - 1 : boxes[i].typ = "free" /\ boxes[i].form \in {"short", "large"}

\* An index that is in the file starts in it.
LEMMA IndexStarts ==
    ASSUME NEW boxes, Layout(boxes), NEW u, StartsAt(u, boxes), NEW length \in Nat,
           NEW j \in 1 .. Len(boxes), Index(boxes, length, j)
    PROVE  u[j - 1] <= length
  <1>0. Len(boxes) \in Nat
    BY DEF Layout
  <1>1. Start(boxes, j) = u[j - 1] /\ u[j - 1] \in Nat
    BY <1>0 DEF StartsAt, EndsAt
  <1>2. Extent(boxes[j]) \in Nat
    BY ExtentForm
  <1>3. QED
    BY <1>1, <1>2 DEF Index, HeaderSize

\* What the scan finds from the start of box k on.
LEMMA ScanFrom ==
    ASSUME NEW boxes, Layout(boxes), NEW u, StartsAt(u, boxes), NEW length \in Nat, length <= u[Len(boxes)],
           NEW T, Finds(T, FileOf(boxes, length), 0)
    PROVE  \A k \in 1 .. Len(boxes) + 1 : u[k - 1] <= length => (u[k - 1] \in T <=> FirstFrom(boxes, length, k))
  <1> DEFINE P(k) == u[k - 1] <= length => (u[k - 1] \in T <=> FirstFrom(boxes, length, k))
             S == {n \in Nat : n <= Len(boxes) => P(Len(boxes) + 1 - n)}
  <1>0. Len(boxes) \in Nat /\ \A n \in 0 .. Len(boxes) : u[n] \in Nat
    <2>1. Len(boxes) \in Nat
      BY DEF Layout
    <2>2. QED
      BY <2>1 DEF StartsAt, EndsAt
  <1>f. PICK f : f = FileOf(boxes, length)
    OBVIOUS
  <1>g. f.length = length
    BY <1>f DEF FileOf
  <1>t. \A o \in 0 .. length : o \in T <=> Goes(f, o) /\ (f.at[o].typ = "moov" \/ o + BoxSize(f, o) \in T)
    BY <1>f, <1>g DEF Finds
  <1>e. length \notin T
    BY <1>g, <1>t DEF Goes, HeaderSize
  <1>1. 0 \in S
    <2>1. ~FirstFrom(boxes, length, Len(boxes) + 1)
      BY <1>0 DEF FirstFrom
    <2>2. u[Len(boxes)] <= length => u[Len(boxes)] \notin T
      BY <1>0, <1>e
    <2>3. P(Len(boxes) + 1)
      BY <1>0, <2>1, <2>2
    <2>4. QED
      BY <1>0, <2>3
  <1>2. ASSUME NEW n \in Nat, n \in S PROVE n + 1 \in S
    <2> SUFFICES ASSUME n + 1 <= Len(boxes) PROVE P(Len(boxes) + 1 - (n + 1))
      <3> HIDE DEF P
      <3>1. QED
        OBVIOUS
    <2>1. PICK k \in 1 .. Len(boxes) : k = Len(boxes) + 1 - (n + 1)
      BY <1>0
    <2>2. PICK o, b, e : o = u[k - 1] /\ b = boxes[k] /\ e = Extent(b)
      OBVIOUS
    <2> SUFFICES ASSUME o <= length PROVE o \in T <=> FirstFrom(boxes, length, k)
      BY <2>1, <2>2
    <2>3. u[k] <= length => (u[k] \in T <=> FirstFrom(boxes, length, k + 1))
      <3>1. P(Len(boxes) + 1 - n) /\ Len(boxes) + 1 - n = k + 1
        BY <1>0, <1>2, <2>1
      <3>2. k + 1 - 1 = k
        BY <2>1
      <3>3. QED
        BY <3>1, <3>2
    <2>4. /\ u[k] = o + e /\ o \in Nat /\ e \in Nat /\ e >= 2 /\ Start(boxes, k) = o
          /\ b.typ \in {"free", "moov", "mdat"} /\ b.form \in SizeForms
      <3>1. u[k] = u[k - 1] + Extent(boxes[k]) /\ Start(boxes, k) = u[k - 1]
        BY <1>0 DEF StartsAt, EndsAt
      <3>2. u[k - 1] \in Nat
        BY <1>0
      <3>3. /\ boxes[k].typ \in {"free", "moov", "mdat"} /\ boxes[k].form \in SizeForms
            /\ Extent(boxes[k]) \in Nat /\ Extent(boxes[k]) >= 2
        BY ExtentForm
      <3>4. QED
        BY <2>2, <3>1, <3>2, <3>3
    <2>5. /\ f.at[o].typ = b.typ
          /\ b.form \in {"short", "large"} => BoxSize(f, o) = e /\ (Readable(f, o) <=> o + e <= length)
          /\ b.form = "rest" => BoxSize(f, o) = length - o /\ (Readable(f, o) <=> o + HeaderSize <= length)
          /\ b.form = "huge" => ~Readable(f, o)
      BY <1>f, <2>2, BoxRead
    <2>6. o \in T <=> Goes(f, o) /\ (b.typ = "moov" \/ o + BoxSize(f, o) \in T)
      BY <1>t, <2>4, <2>5
    <2>7. CASE b.typ = "mdat"
      <3>1. o \notin T
        BY <2>5, <2>6, <2>7 DEF Goes
      <3>2. ~FirstFrom(boxes, length, k)
        <4> SUFFICES ASSUME NEW j \in k .. Len(boxes), boxes[j].typ = "moov",
                            \A i \in k .. j - 1 : boxes[i].typ = "free"
                     PROVE  FALSE
          BY DEF FirstFrom, Index
        <4>1. j # k
          BY <2>2, <2>7
        <4>2. k \in k .. j - 1
          BY <1>0, <2>1, <4>1
        <4>3. QED
          BY <2>2, <2>7, <4>2
      <3>3. QED
        BY <3>1, <3>2
    <2>8. CASE b.typ = "moov"
      <3>1. o \in T <=> o + HeaderSize <= length /\ Readable(f, o)
        BY <1>g, <2>5, <2>6, <2>8 DEF Goes
      <3>2. Index(boxes, length, k) <=> o + HeaderSize <= length /\ Readable(f, o)
        BY <2>2, <2>4, <2>5, <2>8 DEF Index, SizeForms, HeaderSize
      <3>3. FirstFrom(boxes, length, k) <=> Index(boxes, length, k)
        BY <2>1, <2>2, <2>8 DEF FirstFrom
      <3>4. QED
        BY <3>1, <3>2, <3>3
    <2>9. CASE b.typ = "free"
      <3>1. o \in T <=> o + HeaderSize <= length /\ Readable(f, o) /\ o + BoxSize(f, o) \in T
        BY <1>g, <2>5, <2>6, <2>9 DEF Goes
      <3>2. CASE b.form \in {"short", "large"}
        <4>1. o \in T <=> u[k] <= length /\ u[k] \in T
          BY <2>4, <2>5, <3>1, <3>2 DEF HeaderSize
        <4>2. FirstFrom(boxes, length, k) <=> FirstFrom(boxes, length, k + 1)
          <5>1. ASSUME NEW j \in k .. Len(boxes), Index(boxes, length, j) PROVE j \in k + 1 .. Len(boxes)
            BY <2>1, <2>2, <2>9, <5>1 DEF Index
          <5>2. \A j \in k + 1 .. Len(boxes) :
                    (\A i \in k .. j - 1 : boxes[i].typ = "free" /\ boxes[i].form \in {"short", "large"})
                       <=> (\A i \in k + 1 .. j - 1 : boxes[i].typ = "free" /\ boxes[i].form \in {"short", "large"})
            BY <2>1, <2>2, <2>9, <3>2
          <5>3. k + 1 .. Len(boxes) \subseteq k .. Len(boxes)
            BY <2>1
          <5>4. QED
            BY <5>1, <5>2, <5>3 DEF FirstFrom
        <4>3. FirstFrom(boxes, length, k + 1) => u[k] <= length
          <5> SUFFICES ASSUME NEW j \in k + 1 .. Len(boxes), Index(boxes, length, j) PROVE u[k] <= length
            BY DEF FirstFrom
          <5>1. j \in 1 .. Len(boxes) /\ j - 1 \in 0 .. Len(boxes) /\ k \in 0 .. Len(boxes) /\ (k = j - 1 \/ k < j - 1)
            BY <1>0, <2>1
          <5>2. u[j - 1] <= length /\ u[j - 1] \in Nat /\ u[k] \in Nat
            BY <1>0, <5>1, IndexStarts
          <5>3. k < j - 1 => u[k] < u[j - 1]
            BY <5>1, EndsGrow DEF StartsAt
          <5>4. QED
            BY <5>1, <5>2, <5>3
        <4>4. QED
          BY <2>3, <4>1, <4>2, <4>3
      <3>3. CASE b.form \notin {"short", "large"}
        <4>1. o \notin T
          <5>1. CASE b.form = "rest"
            <6>1. o + BoxSize(f, o) = length
              BY <2>4, <2>5, <5>1
            <6>2. QED
              BY <1>e, <3>1, <6>1
          <5>2. CASE b.form = "huge"
            BY <2>5, <3>1, <5>2
          <5>3. QED
            BY <2>4, <3>3, <5>1, <5>2 DEF SizeForms
        <4>2. ~FirstFrom(boxes, length, k)
          <5> SUFFICES ASSUME NEW j \in k .. Len(boxes), boxes[j].typ = "moov",
                              \A i \in k .. j - 1 : boxes[i].form \in {"short", "large"}
                       PROVE  FALSE
            BY DEF FirstFrom, Index
          <5>1. j # k
            BY <2>2, <2>9
          <5>2. k \in k .. j - 1
            BY <1>0, <2>1, <5>1
          <5>3. QED
            BY <2>2, <3>3, <5>2
        <4>3. QED
          BY <4>1, <4>2
      <3>4. QED
        BY <3>2, <3>3
    <2>10. QED
      BY <2>4, <2>7, <2>8, <2>9
  <1>3. ASSUME NEW k \in 1 .. Len(boxes) + 1 PROVE P(k)
    <2>1. PICK n \in Nat : n = Len(boxes) + 1 - k
      BY <1>0
    <2>2. n <= Len(boxes) /\ Len(boxes) + 1 - n = k
      BY <1>0, <2>1
    <2>3. n \in S
      <3> HIDE DEF S
      <3>1. QED
        BY <1>1, <1>2, InductionInSet
    <2>4. QED
      BY <2>2, <2>3
  <1>4. QED
    BY <1>3

-------------------------------------------------------------------------------
\* The theorem, and the layouts it is about.

\* hasFaststart is right about every layout, wherever the file is cut off: it
\* finds an index that comes first and is complete, and nothing else.
THEOREM ScanIsRight ==
    ASSUME NEW boxes, Layout(boxes), NEW length \in 0 .. Whole(boxes).length
    PROVE  HasFaststart(FileOf(boxes, length)) <=> IndexFirst(boxes, length)
  <1>1. PICK u : StartsAt(u, boxes)
    BY StartIsEnd DEF StartsAt
  <1>2. Len(boxes) \in Nat /\ DOMAIN boxes = 1 .. Len(boxes)
    <2>1. PICK T : T = [typ : {"free", "moov", "mdat"}, payload : Nat, form : SizeForms]
      OBVIOUS
    <2>2. boxes \in Seq(T)
      BY <2>1, Zenon DEF Layout
    <2>3. QED
      BY <2>2
  <1>3. Whole(boxes).length = u[Len(boxes)] /\ u[0] = 0 /\ u[Len(boxes)] \in Nat
    <2>1. Whole(boxes).length = Start(boxes, Len(boxes) + 1)
      BY DEF Whole, FileOf
    <2>2. Start(boxes, Len(boxes) + 1) = u[Len(boxes)] /\ u[Len(boxes)] \in Nat
      BY <1>1, <1>2 DEF StartsAt, EndsAt
    <2>3. QED
      BY <1>1, <2>1, <2>2 DEF StartsAt, EndsAt
  <1>4. length \in Nat /\ length <= u[Len(boxes)]
    BY <1>3
  <1>5. PICK f : f = FileOf(boxes, length)
    OBVIOUS
  <1>6. f.length = length
    BY <1>5 DEF FileOf
  <1>7. PICK T : Finds(T, f, 0) /\ (HasFaststart(f) <=> 0 \in T)
    BY <1>4, <1>6, ScanFinds
  <1>8. u[1 - 1] <= length => (u[1 - 1] \in T <=> FirstFrom(boxes, length, 1))
    <2>1. 1 \in 1 .. Len(boxes) + 1
      BY <1>2
    <2>2. QED
      BY <1>1, <1>4, <1>5, <1>7, <2>1, ScanFrom
  <1>9. HasFaststart(f) <=> FirstFrom(boxes, length, 1)
    BY <1>3, <1>4, <1>7, <1>8
  <1>10. FirstFrom(boxes, length, 1) <=> IndexFirst(boxes, length)
    BY <1>2 DEF FirstFrom, IndexFirst, Index
  <1>11. QED
    BY <1>5, <1>9, <1>10

\* In particular where nothing is cut off.
LEMMA WholeIsRight ==
    ASSUME NEW boxes, Layout(boxes)
    PROVE  HasFaststart(Whole(boxes)) <=> IndexFirst(boxes, Whole(boxes).length)
  <1>1. PICK length : length = Start(boxes, Len(boxes) + 1)
    OBVIOUS
  <1>2. Whole(boxes) = FileOf(boxes, length) /\ Whole(boxes).length = length
    BY <1>1 DEF Whole, FileOf
  <1>3. length \in Nat
    <2>1. PICK u : StartsAt(u, boxes)
      BY StartIsEnd DEF StartsAt
    <2>2. Len(boxes) \in Nat
      BY DEF Layout
    <2>3. QED
      BY <1>1, <2>1, <2>2 DEF StartsAt, EndsAt
  <1>4. length \in 0 .. Whole(boxes).length
    BY <1>2, <1>3
  <1>5. HasFaststart(FileOf(boxes, length)) <=> IndexFirst(boxes, length)
    BY <1>4, ScanIsRight
  <1>6. QED
    BY <1>2, <1>5, Zenon

\* Layouts, one after the other.
LEMMA LayoutsJoin ==
    ASSUME NEW s, NEW t, Layout(s), Layout(t)
    PROVE  Layout(s \o t)
  <1>1. PICK T : T = [typ : {"free", "moov", "mdat"}, payload : Nat, form : SizeForms]
    OBVIOUS
  <1>2. s \in Seq(T) /\ t \in Seq(T)
    BY <1>1, Zenon DEF Layout
  <1>3. s \o t \in Seq(T)
    BY <1>2
  <1>4. ASSUME NEW k \in DOMAIN (s \o t) PROVE Extent((s \o t)[k]) < LargeMod \div 2
    <2>1. PICK b : b = (s \o t)[k] /\ ((\E i \in DOMAIN s : b = s[i]) \/ (\E i \in DOMAIN t : b = t[i]))
      <3>1. Len(s) \in Nat /\ Len(t) \in Nat /\ k \in 1 .. Len(s) + Len(t)
        BY <1>2
      <3>2. CASE k <= Len(s)
        BY <1>2, <3>1, <3>2
      <3>3. CASE k > Len(s)
        BY <1>2, <3>1, <3>3
      <3>4. QED
        BY <3>1, <3>2, <3>3
    <2>2. (\A i \in DOMAIN s : Extent(s[i]) < LargeMod \div 2) /\ (\A i \in DOMAIN t : Extent(t[i]) < LargeMod \div 2)
      BY DEF Layout
    <2>3. QED
      BY <2>1, <2>2
  <1>5. QED
    BY <1>1, <1>3, <1>4, Zenon DEF Layout

\* The layouts of small boxes are layouts.
LEMMA SmallLayouts == \A boxes \in Layouts(1) \cup {<<>>} : Layout(boxes)
  <1>1. PICK T : T = [typ : {"free", "moov", "mdat"}, payload : Nat, form : SizeForms]
    OBVIOUS
  <1>2. Layout(<<>>)
    <2>1. <<>> \in Seq(T) /\ DOMAIN <<>> = {}
      OBVIOUS
    <2>2. QED
      BY <1>1, <2>1, Zenon DEF Layout
  <1>3. ASSUME NEW boxes \in Layouts(1) PROVE Layout(boxes)
    <2> DEFINE B == {Box(t, p, s) : t \in {"free", "moov", "mdat"}, p \in {0, 1}, s \in SizeForms}
    <2>1. boxes \in [1 .. 1 -> B]
      <3> HIDE DEF B
      <3>1. Layouts(1) = UNION {[1 .. k -> B] : k \in 1 .. 1}
        BY DEF Layouts, B
      <3>2. QED
        BY <3>1
    <2>2. \A b \in B : b \in T /\ Extent(b) < LargeMod \div 2
      <3> SUFFICES ASSUME NEW t \in {"free", "moov", "mdat"}, NEW p \in {0, 1}, NEW s \in SizeForms, NEW b, b = Box(t, p, s)
                   PROVE  b \in T /\ Extent(b) < LargeMod \div 2
        OBVIOUS
      <3>1. b \in T
        BY <1>1 DEF Box
      <3>2. Extent(b) \in Nat /\ Extent(b) < 8
        BY DEF Box, Extent, HeaderSize, LargeHeader
      <3>3. LargeMod \div 2 = 8
        BY DEF LargeMod
      <3>4. QED
        BY <3>1, <3>2, <3>3
    <2> HIDE DEF B
    <2>3. boxes \in Seq(T) /\ DOMAIN boxes = 1 .. 1
      <3>1. boxes \in [1 .. 1 -> T]
        BY <2>1, <2>2
      <3>2. boxes = <<boxes[1]>> /\ boxes[1] \in T
        BY <3>1
      <3>3. <<boxes[1]>> \in Seq(T)
        BY <3>2
      <3>4. QED
        BY <3>1, <3>2, <3>3, Zenon
    <2>4. \A k \in DOMAIN boxes : Extent(boxes[k]) < LargeMod \div 2
      BY <2>1, <2>2
    <2>5. QED
      BY <1>1, <2>3, <2>4, Zenon DEF Layout
  <1>4. QED
    BY <1>2, <1>3
===============================================================================
