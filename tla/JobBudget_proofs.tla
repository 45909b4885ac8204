---------------------------- MODULE JobBudget_proofs ----------------------------
(***************************************************************************)
(* Proofs about the budgets of a job, for every number of items, every     *)
(* need and every limit.  The sums are the heart of it: Total is a         *)
(* recursive function, and the first part shows what it does to functions  *)
(* that differ in one item, by induction over sets of numbers (NatSets);   *)
(* the second part states the invariant with sums over sets of items, and  *)
(* every action moves one item from one set to another.                    *)
(***************************************************************************)
EXTENDS JobBudget, NatSets, FiniteSetTheorems

-------------------------------------------------------------------------------
\* Sums over the items.

\* u has the sum of the first k values of f at k.
SumsUp(u, f) ==
    /\ u \in [0 .. N -> Int]
    /\ u[0] = 0 /\ \A k \in 1 .. N : u[k] = u[k - 1] + f[k]

\* A job has items.
LEMMA NumberOfItems == N \in Nat /\ N # 0
  BY BudgetAssumption

\* There is such a function.
LEMMA SumsExist ==
    ASSUME NEW f \in [Items -> Int]
    PROVE  \E u : SumsUp(u, f)
  <1> DEFINE Partial(u, n) == /\ u \in [0 .. n -> Int]
                              /\ u[0] = 0 /\ \A k \in 1 .. n : u[k] = u[k - 1] + f[k]
             S == {n \in Nat : n <= N => \E u : Partial(u, n)}
  <1>1. 0 \in S
    <2>1. Partial([k \in 0 .. 0 |-> 0], 0)
      OBVIOUS
    <2>2. QED
      BY <2>1
  <1>2. ASSUME NEW n \in Nat, n \in S PROVE n + 1 \in S
    <2> SUFFICES ASSUME n + 1 <= N PROVE \E u : Partial(u, n + 1)
      OBVIOUS
    <2>1. n <= N
      BY NumberOfItems
    <2>2. PICK u : Partial(u, n)
      BY <1>2, <2>1
    <2>3. f[n + 1] \in Int /\ u[n] \in Int
      BY <2>2, NumberOfItems DEF Items
    <2> DEFINE w == [k \in 0 .. n + 1 |-> IF k = n + 1 THEN u[n] + f[n + 1] ELSE u[k]]
    <2>4. w \in [0 .. n + 1 -> Int]
      BY <2>2, <2>3
    <2>5. w[0] = 0 /\ w[n + 1] = u[n] + f[n + 1] /\ \A k \in 0 .. n : w[k] = u[k]
      BY <2>2
    <2>6. \A k \in 1 .. n + 1 : w[k] = w[k - 1] + f[k]
      BY <2>2, <2>5
    <2>7. QED
      BY <2>4, <2>5, <2>6
  <1>3. N \in S
    <2> HIDE DEF S
    <2>1. QED
      BY <1>1, <1>2, InductionInSet, NumberOfItems
  <1>4. QED
    BY <1>3, NumberOfItems DEF SumsUp

\* Total is the last of them.
LEMMA TotalIsSum ==
    ASSUME NEW f \in [Items -> Int]
    PROVE  \E u : SumsUp(u, f) /\ Total(f) = u[N]
  <1> DEFINE Rule(u) == u = [k \in 0 .. N |-> IF k = 0 THEN 0 ELSE u[k - 1] + f[k]]
             total == CHOOSE u : Rule(u)
  <1>1. \E u : Rule(u)
    <2>1. PICK u : SumsUp(u, f)
      BY SumsExist
    <2>2. Rule(u)
      BY <2>1, NumberOfItems DEF SumsUp
    <2>3. QED
      BY <2>2
  <1>2. Rule(total)
    BY <1>1
  <1>3. Total(f) = total[N]
    BY DEF Total
  <1> HIDE DEF total
  <1>4. total[0] = 0 /\ \A k \in 1 .. N : total[k] = total[k - 1] + f[k]
    BY <1>2, NumberOfItems
  <1>5. \A k \in 0 .. N : total[k] \in Int
    <2> DEFINE S == {k \in Nat : k <= N => total[k] \in Int}
    <2>1. 0 \in S
      BY <1>4
    <2>2. ASSUME NEW n \in Nat, n \in S PROVE n + 1 \in S
      <3> SUFFICES ASSUME n + 1 <= N PROVE total[n + 1] \in Int
        OBVIOUS
      <3>1. total[n] \in Int /\ f[n + 1] \in Int /\ n + 1 \in 1 .. N
        BY <2>2, NumberOfItems DEF Items
      <3>2. QED
        BY <1>4, <3>1
    <2> HIDE DEF S
    <2>3. \A n \in Nat : n \in S
      BY <2>1, <2>2, InductionInSet
    <2>4. QED
      BY <2>3, NumberOfItems DEF S
  <1>6. total \in [0 .. N -> Int]
    BY <1>2, <1>5
  <1>7. QED
    BY <1>3, <1>4, <1>6 DEF SumsUp

\* A larger summand, a larger sum.
LEMMA TotalMonotone ==
    ASSUME NEW f \in [Items -> Int], NEW g \in [Items -> Int], \A i \in Items : f[i] <= g[i]
    PROVE  Total(f) <= Total(g)
  <1>1. PICK u : SumsUp(u, f) /\ Total(f) = u[N]
    BY TotalIsSum
  <1>2. PICK w : SumsUp(w, g) /\ Total(g) = w[N]
    BY TotalIsSum
  <1> DEFINE S == {k \in Nat : k <= N => u[k] <= w[k]}
  <1>3. 0 \in S
    BY <1>1, <1>2 DEF SumsUp
  <1>4. ASSUME NEW n \in Nat, n \in S PROVE n + 1 \in S
    <2> SUFFICES ASSUME n + 1 <= N PROVE u[n + 1] <= w[n + 1]
      OBVIOUS
    <2>1. n + 1 \in 1 .. N /\ n + 1 \in Items /\ n \in 0 .. N /\ n <= N
      BY NumberOfItems DEF Items
    <2>2. u[n + 1] = u[n] + f[n + 1] /\ w[n + 1] = w[n] + g[n + 1] /\ u[n] \in Int /\ w[n] \in Int
      BY <1>1, <1>2, <2>1 DEF SumsUp
    <2>3. u[n] <= w[n] /\ f[n + 1] <= g[n + 1] /\ f[n + 1] \in Int /\ g[n + 1] \in Int
      BY <1>4, <2>1
    <2>4. QED
      BY <2>2, <2>3
  <1>5. N \in S
    <2> HIDE DEF S
    <2>1. QED
      BY <1>3, <1>4, InductionInSet, NumberOfItems
  <1>6. QED
    BY <1>1, <1>2, <1>5, NumberOfItems

\* A sum changes by what one of its summands changes.
LEMMA TotalChange ==
    ASSUME NEW f \in [Items -> Int], NEW g \in [Items -> Int], NEW i \in Items,
           \A k \in Items : k # i => g[k] = f[k]
    PROVE  Total(g) = Total(f) + (g[i] - f[i])
  <1>1. PICK u : SumsUp(u, f) /\ Total(f) = u[N]
    BY TotalIsSum
  <1>2. PICK w : SumsUp(w, g) /\ Total(g) = w[N]
    BY TotalIsSum
  <1> DEFINE S == {k \in Nat : k <= N => w[k] = u[k] + IF k < i THEN 0 ELSE g[i] - f[i]}
  <1>0. i \in 1 .. N /\ f[i] \in Int /\ g[i] \in Int
    BY DEF Items
  <1>3. 0 \in S
    BY <1>0, <1>1, <1>2, NumberOfItems DEF SumsUp
  <1>4. ASSUME NEW n \in Nat, n \in S PROVE n + 1 \in S
    <2> SUFFICES ASSUME n + 1 <= N PROVE w[n + 1] = u[n + 1] + IF n + 1 < i THEN 0 ELSE g[i] - f[i]
      OBVIOUS
    <2>1. n + 1 \in 1 .. N /\ n + 1 \in Items /\ n \in 0 .. N /\ n <= N
      BY NumberOfItems DEF Items
    <2>2. u[n + 1] = u[n] + f[n + 1] /\ w[n + 1] = w[n] + g[n + 1] /\ u[n] \in Int /\ w[n] \in Int
      BY <1>1, <1>2, <2>1 DEF SumsUp
    <2>3. w[n] = u[n] + IF n < i THEN 0 ELSE g[i] - f[i]
      BY <1>4, <2>1
    <2>4. f[n + 1] \in Int /\ g[n + 1] \in Int
      BY <2>1
    <2>5. CASE n + 1 = i
      BY <1>0, <2>2, <2>3, <2>4, <2>5
    <2>6. CASE n + 1 # i
      <3>1. g[n + 1] = f[n + 1] /\ (n < i <=> n + 1 < i)
        BY <1>0, <2>1, <2>6, NumberOfItems
      <3>2. QED
        BY <1>0, <2>2, <2>3, <2>4, <3>1
    <2>7. QED
      BY <2>5, <2>6
  <1>5. N \in S
    <2> HIDE DEF S
    <2>1. QED
      BY <1>3, <1>4, InductionInSet, NumberOfItems
  <1>6. w[N] = u[N] + (g[i] - f[i])
    BY <1>0, <1>5, NumberOfItems
  <1>7. QED
    BY <1>1, <1>2, <1>6

\* Nothing adds up to nothing.
LEMMA TotalZero == Total([i \in Items |-> 0]) = 0
  <1> DEFINE f == [i \in Items |-> 0]
  <1>1. f \in [Items -> Int]
    OBVIOUS
  <1>2. PICK u : SumsUp(u, f) /\ Total(f) = u[N]
    BY <1>1, TotalIsSum
  <1> DEFINE S == {k \in Nat : k <= N => u[k] = 0}
  <1>3. 0 \in S
    BY <1>2 DEF SumsUp
  <1>4. ASSUME NEW n \in Nat, n \in S PROVE n + 1 \in S
    <2> SUFFICES ASSUME n + 1 <= N PROVE u[n + 1] = 0
      OBVIOUS
    <2>1. n + 1 \in 1 .. N /\ n + 1 \in Items /\ n <= N
      BY NumberOfItems DEF Items
    <2>2. u[n + 1] = u[n] + f[n + 1] /\ u[n] = 0 /\ f[n + 1] = 0
      BY <1>2, <1>4, <2>1 DEF SumsUp
    <2>3. QED
      BY <2>2
  <1>5. N \in S
    <2> HIDE DEF S
    <2>1. QED
      BY <1>3, <1>4, InductionInSet, NumberOfItems
  <1>6. QED
    BY <1>2, <1>5, NumberOfItems

\* The sum of f over some of the items.
Over(S, f) == Total([i \in Items |-> IF i \in S THEN f[i] ELSE 0])

\* Its summands are numbers.
LEMMA SomeOf ==
    ASSUME NEW S, NEW f \in [Items -> Nat]
    PROVE  \E g \in [Items -> Int] : g = [i \in Items |-> IF i \in S THEN f[i] ELSE 0]
  <1>1. \A i \in Items : (IF i \in S THEN f[i] ELSE 0) \in Int
    OBVIOUS
  <1>2. [i \in Items |-> IF i \in S THEN f[i] ELSE 0] \in [Items -> Int]
    BY <1>1
  <1>3. QED
    BY <1>2, Zenon

\* A sum of numbers is a number.
LEMMA OverIsInt == ASSUME NEW S, NEW f \in [Items -> Nat] PROVE Over(S, f) \in Int
  <1>1. PICK g \in [Items -> Int] : g = [i \in Items |-> IF i \in S THEN f[i] ELSE 0]
    BY SomeOf
  <1>2. PICK u : SumsUp(u, g) /\ Total(g) = u[N]
    BY TotalIsSum
  <1>3. QED
    BY <1>1, <1>2, NumberOfItems DEF Over, SumsUp

\* It grows by an item that is added.
LEMMA OverPlus ==
    ASSUME NEW S, NEW f \in [Items -> Nat], NEW i \in Items, i \notin S
    PROVE  Over(S \cup {i}, f) = Over(S, f) + f[i]
  <1>1. PICK g \in [Items -> Int] : g = [k \in Items |-> IF k \in S THEN f[k] ELSE 0]
    BY SomeOf
  <1>0. PICK T : T = S \cup {i}
    OBVIOUS
  <1>2. PICK h \in [Items -> Int] : h = [k \in Items |-> IF k \in T THEN f[k] ELSE 0]
    BY SomeOf
  <1>3. Total(h) = Total(g) + (h[i] - g[i])
    <2>1. \A k \in Items : k # i => h[k] = g[k]
      BY <1>0, <1>1, <1>2
    <2>2. QED
      BY <2>1, TotalChange
  <1>4. h[i] = f[i] /\ g[i] = 0 /\ f[i] \in Nat
    BY <1>0, <1>1, <1>2
  <1>5. Total(h) = Over(S \cup {i}, f) /\ Total(g) = Over(S, f) /\ Over(S, f) \in Int
    BY <1>0, <1>1, <1>2, OverIsInt DEF Over
  <1>6. QED
    BY <1>3, <1>4, <1>5

\* It shrinks by an item that is taken out.
LEMMA OverMinus ==
    ASSUME NEW S, NEW f \in [Items -> Nat], NEW i \in Items, i \in S
    PROVE  Over(S \ {i}, f) = Over(S, f) - f[i]
  <1>1. (S \ {i}) \cup {i} = S /\ i \notin S \ {i} /\ f[i] \in Nat
    OBVIOUS
  <1>2. Over(S, f) = Over(S \ {i}, f) + f[i]
    BY <1>1, OverPlus, Zenon
  <1>3. Over(S \ {i}, f) \in Int
    BY OverIsInt
  <1>4. QED
    BY <1>1, <1>2, <1>3

\* More items, a larger sum.
LEMMA OverMonotone ==
    ASSUME NEW S, NEW T, NEW f \in [Items -> Nat], \A i \in Items : i \in S => i \in T
    PROVE  Over(S, f) <= Over(T, f)
  <1>1. PICK g \in [Items -> Int] : g = [k \in Items |-> IF k \in S THEN f[k] ELSE 0]
    BY SomeOf
  <1>2. PICK h \in [Items -> Int] : h = [k \in Items |-> IF k \in T THEN f[k] ELSE 0]
    BY SomeOf
  <1>3. \A i \in Items : g[i] <= h[i]
    BY <1>1, <1>2
  <1>4. Total(g) <= Total(h)
    BY <1>3, TotalMonotone
  <1>5. QED
    BY <1>1, <1>2, <1>4 DEF Over

\* The sum over all items is the total.
LEMMA OverAll == ASSUME NEW f \in [Items -> Nat] PROVE Over(Items, f) = Total(f)
  <1>1. [i \in Items |-> IF i \in Items THEN f[i] ELSE 0] = f
    OBVIOUS
  <1>2. QED
    BY <1>1 DEF Over

\* The sum over no item is zero.
LEMMA OverNone == ASSUME NEW f PROVE Over({}, f) = 0
  <1>1. [i \in Items |-> IF i \in {} THEN f[i] ELSE 0] = [i \in Items |-> 0]
    OBVIOUS
  <1>2. QED
    BY <1>1, TotalZero DEF Over

-------------------------------------------------------------------------------
\* The inductive invariant.

Steps == {"waiting", "input", "undoInput", "media", "duration", "undoPixels", "undoDuration", "convert"} \cup Ended

Needs == [bytes : Nat, pixels : Nat, ms : Nat]

Types ==
    /\ need \in [Items -> Needs]
    /\ pc \in [Items -> Steps]
    /\ pixelsOk \in [Items -> BOOLEAN]
    /\ status \in [Items -> {"none", "success", "rejected", "failed"}]

Bytes  == [i \in Items |-> need[i].bytes]
Pixels == [i \in Items |-> need[i].pixels]
Length == [i \in Items |-> need[i].ms]

\* The items that are at one of these steps.
At(p, steps) == {i \in Items : p[i] \in steps}

\* Accounted, as sums over sets of items.
Held ==
    /\ inputBytes = Over(At(pc, InputHeld), Bytes)
    /\ pixels     = Over(At(pc, PixelsHeld), Pixels)
    /\ durationMS = Over(At(pc, DurationHeld), Length)

\* The items whose pixels were found within the limit and have not been given back.
Granted(p, ok) == At(p, Accepted) \cup {i \in Items : p[i] = "duration" /\ ok[i]}

Within ==
    /\ Over(At(pc, InputAccepted), Bytes) <= InputLimit
    /\ Over(Granted(pc, pixelsOk), Pixels) <= PixelLimit
    /\ Over(At(pc, Accepted), Length) <= DurationLimit

Fits == Total(Bytes) <= InputLimit /\ Total(Pixels) <= PixelLimit /\ Total(Length) <= DurationLimit

Refused == {"undoInput", "overInput", "undoPixels", "undoDuration", "overMedia"}

Room == Fits => \A i \in Items : pc[i] \notin Refused /\ (pc[i] = "duration" => pixelsOk[i])

\* What an item ends with fits where it has ended.
Verdict(place, st) ==
    /\ place \notin Ended => st = "none"
    /\ place \in {"unopened", "failed"} => st \in {"rejected", "failed"}
    /\ place \in {"overInput", "overMedia"} => st = "rejected"
    /\ place = "done" => st \in {"success", "rejected", "failed"}

Verdicts == \A i \in Items : Verdict(pc[i], status[i])

\* The outcome is that of the items, which have all ended.
Told == outcome # "none" => (\A i \in Items : pc[i] \in Ended) /\ outcome = Aggregate

IInv == Types /\ Held /\ Within /\ Room /\ Verdicts /\ Told

-------------------------------------------------------------------------------
\* Items that move.

\* What the items need are numbers.
LEMMA NeedsAreNumbers ==
    ASSUME Types
    PROVE  Bytes \in [Items -> Nat] /\ Pixels \in [Items -> Nat] /\ Length \in [Items -> Nat]
  BY DEF Types, Bytes, Pixels, Length, Needs

\* What is held changes by what the item that moves holds before and after.
LEMMA MoveCounts ==
    ASSUME NEW p \in [Items -> Steps], NEW i \in Items, NEW s, NEW steps, NEW f \in [Items -> Nat],
           NEW q, q[i] = s, \A k \in Items : k # i => q[k] = p[k]
    PROVE  Over(At(q, steps), f)
              = Over(At(p, steps), f) + (IF s \in steps THEN f[i] ELSE 0) - (IF p[i] \in steps THEN f[i] ELSE 0)
  <1>0. Over(At(p, steps), f) \in Int /\ f[i] \in Nat
    BY OverIsInt
  <1>1. q[i] = s /\ \A k \in Items : k # i => q[k] = p[k]
    OBVIOUS
  <1>2. CASE s \in steps /\ p[i] \notin steps
    <2>1. At(q, steps) = At(p, steps) \cup {i} /\ i \notin At(p, steps)
      BY <1>1, <1>2 DEF At
    <2>2. PICK S : S = At(p, steps)
      OBVIOUS
    <2>3. Over(S \cup {i}, f) = Over(S, f) + f[i]
      BY <2>1, <2>2, OverPlus
    <2>4. Over(At(q, steps), f) = Over(At(p, steps), f) + f[i]
      BY <2>1, <2>2, <2>3, Zenon
    <2>5. QED
      BY <1>0, <1>2, <2>4
  <1>3. CASE s \notin steps /\ p[i] \in steps
    <2>1. At(q, steps) = At(p, steps) \ {i} /\ i \in At(p, steps)
      BY <1>1, <1>3 DEF At
    <2>2. PICK S : S = At(p, steps)
      OBVIOUS
    <2>3. Over(S \ {i}, f) = Over(S, f) - f[i]
      BY <2>1, <2>2, OverMinus
    <2>4. Over(At(q, steps), f) = Over(At(p, steps), f) - f[i]
      BY <2>1, <2>2, <2>3, Zenon
    <2>5. QED
      BY <1>0, <1>3, <2>4
  <1>4. CASE s \in steps <=> p[i] \in steps
    <2>1. At(q, steps) = At(p, steps)
      BY <1>1, <1>4 DEF At
    <2>2. QED
      BY <1>0, <1>4, <2>1
  <1>5. QED
    BY <1>2, <1>3, <1>4

\* Nobody holds more than all items need.
LEMMA RoomForAll ==
    ASSUME NEW S, NEW f \in [Items -> Nat], NEW limit \in Nat, Total(f) <= limit
    PROVE  Over(S, f) <= limit
  <1>1. Over(S, f) <= Over(Items, f)
    BY OverMonotone
  <1>2. Over(Items, f) = Total(f) /\ Over(S, f) \in Int /\ Over(Items, f) \in Int
    BY OverAll, OverIsInt
  <1>3. QED
    BY <1>1, <1>2

\* What a step of an item does to the counters and the items, whatever the step is.
Moves(i, s) ==
    /\ pc' = [pc EXCEPT ![i] = s]
    /\ need' = need

Change(i, s, steps, n) == (IF s \in steps THEN n ELSE 0) - (IF pc[i] \in steps THEN n ELSE 0)

Booked(i, s) ==
    /\ inputBytes' = inputBytes + Change(i, s, InputHeld, need[i].bytes)
    /\ pixels' = pixels + Change(i, s, PixelsHeld, need[i].pixels)
    /\ durationMS' = durationMS + Change(i, s, DurationHeld, need[i].ms)

\* The sums stay right.
LEMMA HeldStep ==
    ASSUME Types, Held, NEW i \in Items, NEW s, Moves(i, s), Booked(i, s)
    PROVE  Held'
  <1>1. /\ Bytes \in [Items -> Nat] /\ Pixels \in [Items -> Nat] /\ Length \in [Items -> Nat]
        /\ Bytes' = Bytes /\ Pixels' = Pixels /\ Length' = Length
        /\ Bytes[i] = need[i].bytes /\ Pixels[i] = need[i].pixels /\ Length[i] = need[i].ms
    BY NeedsAreNumbers DEF Moves, Bytes, Pixels, Length
  <1>2. pc \in [Items -> Steps] /\ pc' = [pc EXCEPT ![i] = s]
    BY DEF Types, Moves
  <1>3. ASSUME NEW steps, NEW f \in [Items -> Nat]
        PROVE  Over(At(pc', steps), f)
              = Over(At(pc, steps), f) + (IF s \in steps THEN f[i] ELSE 0) - (IF pc[i] \in steps THEN f[i] ELSE 0)
    <2>1. PICK p, q : p = pc /\ q = pc'
      OBVIOUS
    <2>2. p \in [Items -> Steps] /\ q[i] = s /\ \A k \in Items : k # i => q[k] = p[k]
      BY <1>2, <2>1
    <2>3. Over(At(q, steps), f)
              = Over(At(p, steps), f) + (IF s \in steps THEN f[i] ELSE 0) - (IF p[i] \in steps THEN f[i] ELSE 0)
      BY <2>2, MoveCounts
    <2>4. QED
      BY <2>1, <2>3
  <1>4. /\ Over(At(pc, InputHeld), Bytes) \in Int /\ Over(At(pc, PixelsHeld), Pixels) \in Int
        /\ Over(At(pc, DurationHeld), Length) \in Int
        /\ Bytes[i] \in Nat /\ Pixels[i] \in Nat /\ Length[i] \in Nat
    BY <1>1, OverIsInt
  <1>5. QED
    BY <1>1, <1>3, <1>4 DEF Held, Booked, Change

\* The limits are kept by an item that gets no further than the sum allows.
LEMMA WithinStep ==
    ASSUME Types, Within, Held', NEW i \in Items, NEW s, Moves(i, s),
           pixelsOk' = pixelsOk \/ pixelsOk' = [pixelsOk EXCEPT ![i] = pixels' <= PixelLimit],
           s \in InputAccepted => pc[i] \in InputAccepted \/ inputBytes' <= InputLimit,
           s = "duration" /\ pixelsOk'[i] => pixels' <= PixelLimit,
           s \in Accepted => pc[i] \in Accepted \/ (pc[i] = "duration" /\ pixelsOk[i] /\ durationMS' <= DurationLimit)
    PROVE  Within'
  <1>1. /\ Bytes \in [Items -> Nat] /\ Pixels \in [Items -> Nat] /\ Length \in [Items -> Nat]
        /\ Bytes' = Bytes /\ Pixels' = Pixels /\ Length' = Length
    BY NeedsAreNumbers DEF Moves, Bytes, Pixels, Length
  <1>2. /\ pc'[i] = s /\ \A k \in Items : k # i => pc'[k] = pc[k]
        /\ \A k \in Items : k # i => (pixelsOk'[k] <=> pixelsOk[k])
    BY DEF Types, Moves
  <1>3. InputLimit \in Nat /\ PixelLimit \in Nat /\ DurationLimit \in Nat
    BY BudgetAssumption
  <1>4. \A S, T : \A f \in [Items -> Nat] :
           (\A k \in Items : k \in S => k \in T) => Over(S, f) <= Over(T, f) /\ Over(S, f) \in Int /\ Over(T, f) \in Int
    BY OverMonotone, OverIsInt
  <1>5. Over(At(pc', InputAccepted), Bytes) <= InputLimit
    <2>1. CASE s \in InputAccepted => pc[i] \in InputAccepted
      <3>1. \A k \in Items : k \in At(pc', InputAccepted) => k \in At(pc, InputAccepted)
        BY <1>2, <2>1 DEF At
      <3>2. QED
        BY <1>1, <1>3, <1>4, <3>1 DEF Within
    <2>2. CASE inputBytes' <= InputLimit
      <3>1. \A k \in Items : k \in At(pc', InputAccepted) => k \in At(pc', InputHeld)
        BY DEF At, InputAccepted
      <3>2. Over(At(pc', InputHeld), Bytes) <= InputLimit
        BY <1>1, <2>2 DEF Held
      <3>3. QED
        BY <1>1, <1>3, <1>4, <3>1, <3>2
    <2>3. QED
      BY <2>1, <2>2
  <1>6. Over(Granted(pc', pixelsOk'), Pixels) <= PixelLimit
    <2>1. CASE ~(s = "duration" /\ pixelsOk'[i])
      <3>1. \A k \in Items : k \in Granted(pc', pixelsOk') => k \in Granted(pc, pixelsOk)
        BY <1>2, <2>1 DEF At, Granted
      <3>2. QED
        BY <1>1, <1>3, <1>4, <3>1 DEF Within
    <2>2. CASE s = "duration" /\ pixelsOk'[i]
      <3>1. \A k \in Items : k \in Granted(pc', pixelsOk') => k \in At(pc', PixelsHeld)
        BY DEF At, Granted, PixelsHeld, Accepted
      <3>2. Over(At(pc', PixelsHeld), Pixels) <= PixelLimit
        BY <1>1, <2>2 DEF Held
      <3>3. QED
        BY <1>1, <1>3, <1>4, <3>1, <3>2
    <2>3. QED
      BY <2>1, <2>2
  <1>7. Over(At(pc', Accepted), Length) <= DurationLimit
    <2>1. CASE s \in Accepted => pc[i] \in Accepted
      <3>1. \A k \in Items : k \in At(pc', Accepted) => k \in At(pc, Accepted)
        BY <1>2, <2>1 DEF At
      <3>2. QED
        BY <1>1, <1>3, <1>4, <3>1 DEF Within
    <2>2. CASE durationMS' <= DurationLimit
      <3>1. \A k \in Items : k \in At(pc', Accepted) => k \in At(pc', DurationHeld)
        BY DEF At, Accepted, DurationHeld
      <3>2. Over(At(pc', DurationHeld), Length) <= DurationLimit
        BY <1>1, <2>2 DEF Held
      <3>3. QED
        BY <1>1, <1>3, <1>4, <3>1, <3>2
    <2>3. QED
      BY <2>1, <2>2
  <1>8. QED
    BY <1>1, <1>5, <1>6, <1>7 DEF Within

\* No counter exceeds its limit where the whole job fits.
LEMMA NeverFull ==
    ASSUME Types, Held', need' = need, Fits
    PROVE  inputBytes' <= InputLimit /\ pixels' <= PixelLimit /\ durationMS' <= DurationLimit
  <1>1. /\ Bytes \in [Items -> Nat] /\ Pixels \in [Items -> Nat] /\ Length \in [Items -> Nat]
        /\ Bytes' = Bytes /\ Pixels' = Pixels /\ Length' = Length
    BY NeedsAreNumbers DEF Bytes, Pixels, Length
  <1>2. InputLimit \in Nat /\ PixelLimit \in Nat /\ DurationLimit \in Nat
    BY BudgetAssumption
  <1>3. PICK S, T, U : S = At(pc', InputHeld) /\ T = At(pc', PixelsHeld) /\ U = At(pc', DurationHeld)
    OBVIOUS
  <1>4. inputBytes' = Over(S, Bytes) /\ pixels' = Over(T, Pixels) /\ durationMS' = Over(U, Length)
    BY <1>1, <1>3 DEF Held
  <1>5. Over(S, Bytes) <= InputLimit
    BY <1>1, <1>2, RoomForAll DEF Fits
  <1>6. Over(T, Pixels) <= PixelLimit
    BY <1>1, <1>2, RoomForAll DEF Fits
  <1>7. Over(U, Length) <= DurationLimit
    BY <1>1, <1>2, RoomForAll DEF Fits
  <1>8. QED
    BY <1>4, <1>5, <1>6, <1>7

Results == {"none", "success", "rejected", "failed"}

\* The flag of an item is set with the sum that its own addition returned.
Flagged(i) == pixelsOk' = [pixelsOk EXCEPT ![i] = pixels' <= PixelLimit]

\* A step of an item that books what it holds where it goes, goes on only where the
\* sum it has seen allows, and back only where the sum forbids, keeps the invariant.
LEMMA ItemStep ==
    ASSUME IInv, NEW i \in Items, NEW s \in Steps, pc[i] \notin Ended,
           Moves(i, s), Booked(i, s), outcome' = outcome,
           status' \in [Items -> Results], \A k \in Items : k # i => status'[k] = status[k],
           Verdict(s, status'[i]),
           pixelsOk' = pixelsOk \/ Flagged(i), s = "duration" => Flagged(i),
           s \in InputAccepted => pc[i] \in InputAccepted \/ inputBytes' <= InputLimit,
           s \in Accepted => pc[i] \in Accepted \/ (pc[i] = "duration" /\ pixelsOk[i] /\ durationMS' <= DurationLimit),
           s \in Refused => \/ pc[i] \in Refused
                            \/ ~(inputBytes' <= InputLimit) \/ ~(durationMS' <= DurationLimit)
                            \/ pc[i] = "duration" /\ ~pixelsOk[i]
    PROVE  IInv'
  <1>1. pc'[i] = s /\ need' = need /\ \A k \in Items : k # i => pc'[k] = pc[k]
    BY DEF IInv, Types, Moves
  <1>2. /\ \A k \in Items : k # i => (pixelsOk'[k] <=> pixelsOk[k])
        /\ Flagged(i) => (pixelsOk'[i] <=> pixels' <= PixelLimit)
    BY DEF IInv, Types, Flagged
  <1>3. Types'
    <2>1. pc' \in [Items -> Steps]
      BY DEF IInv, Types, Moves
    <2>2. pixelsOk' \in [Items -> BOOLEAN]
      <3>1. pixelsOk \in [Items -> BOOLEAN] /\ (pixels' <= PixelLimit) \in BOOLEAN
        BY DEF IInv, Types
      <3>2. PICK b \in BOOLEAN : b = (pixels' <= PixelLimit)
        BY <3>1, Zenon
      <3>3. QED
        BY <3>1, <3>2 DEF Flagged
    <2>3. QED
      BY <1>1, <2>1, <2>2 DEF IInv, Types, Results
  <1>4. Held'
    BY HeldStep DEF IInv
  <1>5. Within'
    BY <1>2, <1>4, WithinStep DEF IInv, Flagged
  <1>6. Room'
    <2>1. Fits' => Fits
      BY <1>1 DEF Fits, Bytes, Pixels, Length
    <2>2. ASSUME Fits PROVE inputBytes' <= InputLimit /\ pixels' <= PixelLimit /\ durationMS' <= DurationLimit
      BY <1>1, <1>4, <2>2, NeverFull DEF IInv
    <2>3. ASSUME Fits, NEW k \in Items
          PROVE  pc'[k] \notin Refused /\ (pc'[k] = "duration" => pixelsOk'[k])
      <3>1. /\ pc[i] \notin Refused /\ (pc[i] = "duration" => pixelsOk[i])
            /\ pc[k] \notin Refused /\ (pc[k] = "duration" => pixelsOk[k])
        BY <2>3 DEF IInv, Room
      <3>2. CASE k = i
        BY <1>1, <1>2, <2>2, <2>3, <3>1, <3>2
      <3>3. CASE k # i
        BY <1>1, <1>2, <3>1, <3>3
      <3>4. QED
        BY <3>2, <3>3
    <2>4. QED
      BY <2>1, <2>3 DEF Room
  <1>7. Verdicts'
    BY <1>1 DEF IInv, Verdicts, Verdict
  <1>8. Told'
    BY DEF IInv, Told
  <1>9. QED
    BY <1>3, <1>4, <1>5, <1>6, <1>7, <1>8 DEF IInv

-------------------------------------------------------------------------------
\* The invariant holds initially and is kept by every action.

\* Nobody holds anything at the start.
LEMMA InvInit == Init => IInv
  <1> SUFFICES ASSUME Init PROVE IInv
    OBVIOUS
  <1>1. Types
    BY BudgetAssumption DEF Init, Types, Steps, Needs
  <1>2. \A steps : "waiting" \notin steps => At(pc, steps) = {}
    BY DEF Init, At
  <1>3. \A steps, f : "waiting" \notin steps => Over(At(pc, steps), f) = 0
    BY <1>2, OverNone, Zenon
  <1>4. Granted(pc, pixelsOk) = {}
    BY DEF Init, Granted, At, Accepted
  <1>5. Over(Granted(pc, pixelsOk), Pixels) = 0
    BY <1>4, OverNone, Zenon
  <1>6. "waiting" \notin InputHeld \cup PixelsHeld \cup DurationHeld
    BY DEF InputHeld, PixelsHeld, DurationHeld
  <1>7. Held
    BY <1>3, <1>6 DEF Init, Held
  <1>8. Within
    <2>1. "waiting" \notin InputAccepted /\ "waiting" \notin Accepted
      BY DEF InputAccepted, Accepted, InputHeld
    <2>2. Over(At(pc, InputAccepted), Bytes) = 0 /\ Over(At(pc, Accepted), Length) = 0
      BY <1>3, <2>1
    <2>3. QED
      BY <1>5, <2>2, BudgetAssumption DEF Within
  <1>9. Room /\ Verdicts /\ Told
    BY DEF Init, Room, Refused, Verdicts, Verdict, Told, Ended
  <1>10. QED
    BY <1>1, <1>7, <1>8, <1>9 DEF IInv

\* An item needs numbers, the counters are numbers, and what it ended with fits its place.
LEMMA Stands ==
    ASSUME IInv, NEW i \in Items
    PROVE  /\ need[i].bytes \in Nat /\ need[i].pixels \in Nat /\ need[i].ms \in Nat
           /\ inputBytes \in Int /\ pixels \in Int /\ durationMS \in Int
           /\ status \in [Items -> Results] /\ Verdict(pc[i], status[i])
           /\ need \in [Items -> Needs] /\ pc \in [Items -> Steps]
  <1>1. Types /\ Held /\ Verdicts
    BY DEF IInv
  <1>2. inputBytes \in Int /\ pixels \in Int /\ durationMS \in Int
    BY <1>1, NeedsAreNumbers, OverIsInt DEF Held
  <1>3. QED
    BY <1>1, <1>2 DEF Types, Needs, Verdicts, Results

\* A step that ends an item without another look at the sums.
LEMMA EndStep ==
    ASSUME IInv, NEW i \in Items, NEW s \in Ended, NEW st \in Results, Ends(i, s, st), pc[i] \notin Ended,
           Verdict(s, st), need' = need, pixelsOk' = pixelsOk, Booked(i, s),
           s \in InputAccepted => pc[i] \in InputAccepted, s \in Accepted => pc[i] \in Accepted,
           s \in Refused => pc[i] \in Refused
    PROVE  IInv'
  <1>1. s \in Steps /\ s # "duration"
    BY DEF Steps, Ended
  <1>2. /\ status' \in [Items -> Results] /\ status'[i] = st /\ outcome' = outcome
        /\ \A k \in Items : k # i => status'[k] = status[k]
    BY Stands DEF Ends
  <1>3. Moves(i, s)
    BY DEF Ends, Goto, Moves
  <1>4. QED
    BY <1>1, <1>2, <1>3, ItemStep

\* An item that starts holds nothing yet.
LEMMA TakeStep == ASSUME IInv, NEW i \in Items, Take(i) PROVE IInv'
  <1>1. PICK s \in Steps : s = "input"
    BY DEF Steps
  <1>2. Moves(i, s) /\ Booked(i, s) /\ pc[i] \notin Ended /\ Verdict(s, status[i])
    BY <1>1, Stands DEF Take, Goto, Moves, Booked, Change, InputHeld, PixelsHeld, DurationHeld, counters, ends,
       Ended, Verdict
  <1>3. QED
    BY <1>1, <1>2, Stands, ItemStep DEF Take, counters, ends, InputAccepted, InputHeld, Accepted, Refused

\* No workspace or no input: nothing was held.
LEMMA OpenFailsStep == ASSUME IInv, NEW i \in Items, OpenFails(i) PROVE IInv'
  <1>1. PICK s \in Ended : s = "unopened"
    BY DEF Ended
  <1>2. PICK st \in Results : st \in {"rejected", "failed"} /\ Ends(i, s, st)
    BY <1>1 DEF OpenFails, Results
  <1>3. Booked(i, s) /\ Verdict(s, st) /\ pc[i] \notin Ended /\ need' = need /\ pixelsOk' = pixelsOk
    BY <1>1, <1>2, Stands DEF OpenFails, Booked, Change, InputHeld, PixelsHeld, DurationHeld, counters, Ended,
       Verdict
  <1>4. QED
    BY <1>1, <1>2, <1>3, EndStep DEF OpenFails, InputAccepted, InputHeld, Accepted, Refused

\* The bytes are added, and the sum decides.
LEMMA ReserveInputStep == ASSUME IInv, NEW i \in Items, ReserveInput(i) PROVE IInv'
  <1>1. PICK s \in Steps : /\ s = (IF inputBytes' <= InputLimit THEN "media" ELSE "undoInput")
                           /\ s \in {"media", "undoInput"}
    BY DEF Steps
  <1>2. Moves(i, s) /\ Booked(i, s) /\ pc[i] \notin Ended /\ Verdict(s, status[i])
    BY <1>1, Stands DEF ReserveInput, Goto, Moves, Booked, Change, InputHeld, PixelsHeld, DurationHeld, ends,
       Ended, Verdict
  <1>3. QED
    BY <1>1, <1>2, Stands, ItemStep DEF ReserveInput, ends, InputAccepted, InputHeld, Accepted, Refused

\* The bytes that did not fit are taken back.
LEMMA UndoInputStep == ASSUME IInv, NEW i \in Items, UndoInput(i) PROVE IInv'
  <1>1. PICK s \in Ended : s = "overInput"
    BY DEF Ended
  <1>2. PICK st \in Results : st \in {"rejected"} /\ Ends(i, s, st)
    BY <1>1 DEF UndoInput, Results
  <1>3. Booked(i, s) /\ Verdict(s, st) /\ pc[i] \notin Ended /\ need' = need /\ pixelsOk' = pixelsOk
    BY <1>1, <1>2, Stands DEF UndoInput, Booked, Change, InputHeld, PixelsHeld, DurationHeld, counters, Ended,
       Verdict
  <1>4. QED
    BY <1>1, <1>2, <1>3, EndStep DEF UndoInput, InputAccepted, InputHeld, Accepted, Refused

\* A failure keeps the bytes it holds.
LEMMA FailsStep == ASSUME IInv, NEW i \in Items, Fails(i) PROVE IInv'
  <1>1. PICK s \in Ended : s = "failed"
    BY DEF Ended
  <1>2. PICK st \in Results : st \in {"rejected", "failed"} /\ Ends(i, s, st)
    BY <1>1 DEF Fails, Results
  <1>3. Booked(i, s) /\ Verdict(s, st) /\ pc[i] \notin Ended /\ need' = need /\ pixelsOk' = pixelsOk
    BY <1>1, <1>2, Stands DEF Fails, Booked, Change, InputHeld, PixelsHeld, DurationHeld, counters, Ended,
       Verdict
  <1>4. QED
    BY <1>1, <1>2, <1>3, EndStep DEF Fails, InputAccepted, InputHeld, Accepted, Refused

\* The end of an item that was accepted keeps all it holds.
LEMMA ConvertsStep == ASSUME IInv, NEW i \in Items, Converts(i) PROVE IInv'
  <1>1. PICK s \in Ended : s = "done"
    BY DEF Ended
  <1>2. PICK st \in Results : st \in {"success", "rejected", "failed"} /\ Ends(i, s, st)
    BY <1>1 DEF Converts, Results
  <1>3. Booked(i, s) /\ Verdict(s, st) /\ pc[i] \notin Ended /\ need' = need /\ pixelsOk' = pixelsOk
    BY <1>1, <1>2, Stands DEF Converts, Booked, Change, InputHeld, PixelsHeld, DurationHeld, counters, Ended,
       Verdict
  <1>4. QED
    BY <1>1, <1>2, <1>3, EndStep DEF Converts, InputAccepted, InputHeld, Accepted, Refused

\* The pixels are added, and the flag remembers whether they fit.
LEMMA AddPixelsStep == ASSUME IInv, NEW i \in Items, AddPixels(i) PROVE IInv'
  <1>1. PICK s \in Steps : s = "duration"
    BY DEF Steps
  <1>2. Moves(i, s) /\ Booked(i, s) /\ pc[i] \notin Ended /\ Verdict(s, status[i]) /\ Flagged(i)
    BY <1>1, Stands DEF AddPixels, Goto, Moves, Booked, Change, InputHeld, PixelsHeld, DurationHeld, ends,
       Ended, Verdict, Flagged
  <1>3. pc[i] = "media" /\ outcome' = outcome /\ status' = status
    BY DEF AddPixels, ends
  <1>4. QED
    BY <1>1, <1>2, <1>3, Stands, ItemStep DEF InputAccepted, InputHeld, Accepted, Refused

\* The duration is added, and both sums decide.
LEMMA AddDurationStep == ASSUME IInv, NEW i \in Items, AddDuration(i) PROVE IInv'
  <1>1. PICK s \in Steps : /\ s = (IF pixelsOk[i] /\ durationMS' <= DurationLimit THEN "convert" ELSE "undoPixels")
                           /\ s \in {"convert", "undoPixels"}
    BY DEF Steps
  <1>2. Moves(i, s) /\ Booked(i, s) /\ pc[i] \notin Ended /\ Verdict(s, status[i])
    BY <1>1, Stands DEF AddDuration, Goto, Moves, Booked, Change, InputHeld, PixelsHeld, DurationHeld, ends,
       Ended, Verdict
  <1>3. pc[i] = "duration" /\ outcome' = outcome /\ status' = status /\ pixelsOk' = pixelsOk
    BY DEF AddDuration, ends
  <1>4. QED
    BY <1>1, <1>2, <1>3, Stands, ItemStep DEF InputAccepted, InputHeld, Accepted, Refused

\* The pixels are taken back.
LEMMA UndoPixelsStep == ASSUME IInv, NEW i \in Items, UndoPixels(i) PROVE IInv'
  <1>1. PICK s \in Steps : s = "undoDuration"
    BY DEF Steps
  <1>2. Moves(i, s) /\ Booked(i, s) /\ pc[i] \notin Ended /\ Verdict(s, status[i])
    BY <1>1, Stands DEF UndoPixels, Goto, Moves, Booked, Change, InputHeld, PixelsHeld, DurationHeld, ends,
       Ended, Verdict
  <1>3. QED
    BY <1>1, <1>2, Stands, ItemStep DEF UndoPixels, ends, InputAccepted, InputHeld, Accepted, Refused

\* The duration is taken back as well; the bytes stay.
LEMMA UndoDurationStep == ASSUME IInv, NEW i \in Items, UndoDuration(i) PROVE IInv'
  <1>1. PICK s \in Ended : s = "overMedia"
    BY DEF Ended
  <1>2. PICK st \in Results : st \in {"rejected"} /\ Ends(i, s, st)
    BY <1>1 DEF UndoDuration, Results
  <1>3. Booked(i, s) /\ Verdict(s, st) /\ pc[i] \notin Ended /\ need' = need /\ pixelsOk' = pixelsOk
    BY <1>1, <1>2, Stands DEF UndoDuration, Booked, Change, InputHeld, PixelsHeld, DurationHeld, counters, Ended,
       Verdict
  <1>4. QED
    BY <1>1, <1>2, <1>3, EndStep DEF UndoDuration, InputAccepted, InputHeld, Accepted, Refused

\* A step that leaves the items and the counters as they are.
LEMMA Untouched ==
    ASSUME IInv, UNCHANGED <<need, pc, pixelsOk, inputBytes, pixels, durationMS, status>>, Told'
    PROVE  IInv'
  BY DEF IInv, Types, Held, Within, Granted, Bytes, Pixels, Length, Room, Fits, Verdicts

\* Every step keeps the invariant.
LEMMA InvStep == IInv /\ [Next]_vars => IInv'
  <1> SUFFICES ASSUME IInv, [Next]_vars PROVE IInv'
    OBVIOUS
  <1>1. CASE Finish
    <2>1. Told'
      BY <1>1 DEF Finish, Told, Aggregate, Count
    <2>2. QED
      BY <1>1, <2>1, Untouched DEF Finish, counters
  <1>2. CASE UNCHANGED vars
    <2>1. Told'
      BY <1>2 DEF IInv, Told, Aggregate, Count, vars, ends
    <2>2. QED
      BY <1>2, <2>1, Untouched DEF vars, counters, ends
  <1>3. ASSUME NEW i \in Items,
               \/ Take(i) \/ OpenFails(i) \/ ReserveInput(i) \/ UndoInput(i) \/ Fails(i)
               \/ Converts(i) \/ AddPixels(i) \/ AddDuration(i) \/ UndoPixels(i) \/ UndoDuration(i)
        PROVE  IInv'
    BY <1>3, TakeStep, OpenFailsStep, ReserveInputStep, UndoInputStep, FailsStep, ConvertsStep, AddPixelsStep,
       AddDurationStep, UndoPixelsStep, UndoDurationStep
  <1>4. QED
    BY <1>1, <1>2, <1>3 DEF Next

-------------------------------------------------------------------------------
\* The properties.

\* The properties' sums are sums over the items at those steps.
LEMMA SharesAreOver ==
    ASSUME NEW steps
    PROVE  /\ Total([i \in Items |-> Share(i, steps, need[i].bytes)]) = Over(At(pc, steps), Bytes)
           /\ Total([i \in Items |-> Share(i, steps, need[i].pixels)]) = Over(At(pc, steps), Pixels)
           /\ Total([i \in Items |-> Share(i, steps, need[i].ms)]) = Over(At(pc, steps), Length)
  <1>1. [i \in Items |-> Share(i, steps, need[i].bytes)]
           = [i \in Items |-> IF i \in At(pc, steps) THEN Bytes[i] ELSE 0]
    BY DEF Share, At, Bytes
  <1>2. [i \in Items |-> Share(i, steps, need[i].pixels)]
           = [i \in Items |-> IF i \in At(pc, steps) THEN Pixels[i] ELSE 0]
    BY DEF Share, At, Pixels
  <1>3. [i \in Items |-> Share(i, steps, need[i].ms)]
           = [i \in Items |-> IF i \in At(pc, steps) THEN Length[i] ELSE 0]
    BY DEF Share, At, Length
  <1>4. QED
    BY <1>1, <1>2, <1>3, Zenon DEF Over

\* Each counter of the budget is what the items hold at this moment.
THEOREM AccountedCorrect == Spec => []Accounted
  <1>1. IInv => Accounted
    BY SharesAreOver DEF IInv, Held, Accounted
  <1>2. QED
    BY InvInit, InvStep, <1>1, PTL DEF Spec

\* What was accepted together is within each limit.
THEOREM WithinLimitsCorrect == Spec => []WithinLimits
  <1>1. ASSUME IInv PROVE WithinLimits
    <2>1. Over(At(pc, Accepted), Pixels) <= PixelLimit
      <3>1. Pixels \in [Items -> Nat] /\ PixelLimit \in Nat
        BY <1>1, NeedsAreNumbers, BudgetAssumption DEF IInv
      <3>2. PICK S, T : S = At(pc, Accepted) /\ T = Granted(pc, pixelsOk)
        OBVIOUS
      <3>3. \A k \in Items : k \in S => k \in T
        BY <3>2 DEF Granted
      <3>4. Over(S, Pixels) <= Over(T, Pixels) /\ Over(S, Pixels) \in Int /\ Over(T, Pixels) \in Int
        BY <3>1, <3>3, OverMonotone, OverIsInt
      <3>5. Over(T, Pixels) <= PixelLimit
        BY <1>1, <3>2 DEF IInv, Within
      <3>6. QED
        BY <3>1, <3>2, <3>4, <3>5
    <2>2. QED
      BY <1>1, <2>1, SharesAreOver DEF IInv, Within, WithinLimits
  <1>2. QED
    BY InvInit, InvStep, <1>1, PTL DEF Spec

\* A job that fits its budgets as a whole loses no item to them.
THEOREM NoFalseRejectionCorrect == Spec => []NoFalseRejection
  <1>1. ASSUME IInv PROVE NoFalseRejection
    BY <1>1 DEF IInv, Room, Refused, Fits, Bytes, Pixels, Length, NoFalseRejection
  <1>2. QED
    BY InvInit, InvStep, <1>1, PTL DEF Spec

\* How many items a set of them has tells whether it has all or none.
LEMMA ItemsCount ==
    ASSUME NEW G \in SUBSET Items
    PROVE  /\ Cardinality(G) \in 0 .. N
           /\ Cardinality(G) = N <=> G = Items
           /\ Cardinality(G) = 0 <=> G = {}
  <1>1. IsFiniteSet(Items) /\ Cardinality(Items) = N
    BY NumberOfItems, FS_Interval DEF Items
  <1>2. IsFiniteSet(G) /\ Cardinality(G) \in Nat /\ Cardinality(G) <= N
    BY <1>1, FS_Subset, FS_CardinalityType
  <1>3. Cardinality(G) = N <=> G = Items
    BY <1>1, FS_Subset
  <1>4. Cardinality(G) = 0 <=> G = {}
    BY <1>2, FS_EmptySet
  <1>5. QED
    BY <1>2, <1>3, <1>4, NumberOfItems

\* A job of which every item was converted fits its budgets.
LEMMA AllAccepted ==
    ASSUME IInv, \A i \in Items : pc[i] = "done"
    PROVE  Fits
  <1>1. Bytes \in [Items -> Nat] /\ Pixels \in [Items -> Nat] /\ Length \in [Items -> Nat]
    BY NeedsAreNumbers DEF IInv
  <1>2. At(pc, InputAccepted) = Items /\ Granted(pc, pixelsOk) = Items /\ At(pc, Accepted) = Items
    BY DEF At, Granted, Accepted, InputAccepted, InputHeld
  <1>3. /\ Over(Items, Bytes) <= InputLimit /\ Over(Items, Pixels) <= PixelLimit
        /\ Over(Items, Length) <= DurationLimit
    BY <1>2, Zenon DEF IInv, Within
  <1>4. QED
    BY <1>1, <1>3, OverAll DEF Fits

\* The outcome that processJob aggregates tells what became of the items.
THEOREM OutcomeSummarisesCorrect == Spec => []OutcomeSummarises
  <1>1. ASSUME IInv PROVE OutcomeSummarises
    <2> DEFINE good == {i \in Items : pc[i] = "done" /\ status[i] = "success"}
               lost == {i \in Items : status[i] = "failed"}
    <2>1. CASE outcome = "none"
      BY <2>1 DEF OutcomeSummarises
    <2>2. CASE outcome # "none"
      <3>1. \A i \in Items : pc[i] \in Ended /\ status[i] \in {"success", "rejected", "failed"}
                                /\ (status[i] = "success" => pc[i] = "done")
        BY <1>1, <2>2 DEF IInv, Told, Verdicts, Verdict, Ended
      <3>2. good = {i \in Items : status[i] = "success"}
        BY <3>1
      <3>3. PICK g, l \in Int : g = Cardinality(good) /\ l = Cardinality(lost)
        <4>1. good \in SUBSET Items /\ lost \in SUBSET Items
          OBVIOUS
        <4> HIDE DEF good, lost
        <4>2. Cardinality(good) \in Int /\ Cardinality(lost) \in Int
          BY <4>1, ItemsCount, NumberOfItems
        <4>3. QED
          BY <4>2
      <3>4. Count("success") = g /\ Count("failed") = l
        BY <3>2, <3>3, Zenon DEF Count
      <3>5. g \in 0 .. N /\ (g = N <=> good = Items) /\ (g = 0 <=> good = {}) /\ l \in 0 .. N /\ (l = 0 <=> lost = {})
        <4>1. good \in SUBSET Items /\ lost \in SUBSET Items
          OBVIOUS
        <4> HIDE DEF good, lost
        <4>2. QED
          BY <3>3, <4>1, ItemsCount
      <3>6. outcome = CASE g = N -> "success"
                        [] g \in 1 .. N - 1 -> "partial_success"
                        [] g = 0 /\ l > 0 -> "failed"
                        [] OTHER -> "rejected"
        BY <1>1, <2>2, <3>4 DEF IInv, Told, Aggregate
      <3>7. /\ outcome = "success" <=> g = N
            /\ outcome = "partial_success" <=> g # N /\ g # 0
            /\ outcome = "failed" => g = 0 /\ l # 0
            /\ outcome = "rejected" => g = 0 /\ l = 0
        BY <3>5, <3>6, NumberOfItems
      <3>8. good = Items => Fits
        BY <1>1, AllAccepted
      <3>9. outcome = "rejected" => \A i \in Items : status[i] = "rejected"
        BY <3>1, <3>2, <3>5, <3>7
      <3>10. outcome = "failed" => good = {} /\ \E i \in Items : status[i] = "failed"
        BY <3>5, <3>7
      <3>11. QED
        BY <2>2, <3>5, <3>7, <3>8, <3>9, <3>10 DEF OutcomeSummarises, Fits, Bytes, Pixels, Length
    <2>3. QED
      BY <2>1, <2>2
  <1>2. QED
    BY InvInit, InvStep, <1>1, PTL DEF Spec
===============================================================================
