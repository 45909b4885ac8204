------------------------------- MODULE JobBudget -------------------------------
(***************************************************************************)
(* The item goroutines of one job: the aggregate budgets they share        *)
(* (jobBudget.reserveInput and reserveMedia, internal/job/manager.go), the *)
(* status each item ends with, and the outcome that processJob aggregates  *)
(* from them (domain.JobResult.Aggregate).  A reservation adds first,      *)
(* looks at the sum that the addition returned, and takes back what does   *)
(* not fit; every addition is atomic, a reservation is not.                *)
(***************************************************************************)
EXTENDS Integers, FiniteSets

CONSTANTS
    N,             \* items of the job
    MaxConcurrent, \* MAX_CONCURRENT_ITEMS_PER_JOB
    Shapes,        \* what an item can need: bytes, pixels and ms
    InputLimit, PixelLimit, DurationLimit

Items == 1 .. N

ASSUME BudgetAssumption ==
    /\ N \in Nat \ {0} \* validateRequest refuses a job without items
    /\ MaxConcurrent \in Nat \ {0}
    /\ Shapes \subseteq [bytes : Nat, pixels : Nat, ms : Nat]
    /\ InputLimit \in Nat /\ PixelLimit \in Nat /\ DurationLimit \in Nat

VARIABLES
    need,     \* what each item needs; never changes
    pc,       \* where each item is, and how it ended
    pixelsOk, \* reserveMedia: newPixels is within the limit
    inputBytes, pixels, durationMS, \* the counters of jobBudget
    status,   \* ItemResult.Status
    outcome   \* JobResult.Outcome

counters == <<inputBytes, pixels, durationMS>>
ends     == <<status, outcome>>
vars     == <<need, pc, pixelsOk, counters, ends>>

Init ==
    /\ need \in [Items -> Shapes]
    /\ pc = [i \in Items |-> "waiting"]
    /\ pixelsOk = [i \in Items |-> FALSE]
    /\ inputBytes = 0 /\ pixels = 0 /\ durationMS = 0
    /\ status = [i \in Items |-> "none"]
    /\ outcome = "none"

-------------------------------------------------------------------------------
Ended == {"unopened", "done", "failed", "overInput", "overMedia"}

Running(i) == pc[i] \notin Ended \cup {"waiting"}
Goto(i, s) == pc' = [pc EXCEPT ![i] = s]

\* processItem returns with a status.
Ends(i, s, st) ==
    /\ Goto(i, s)
    /\ status' = [status EXCEPT ![i] = st]
    /\ UNCHANGED outcome

\* A free item goroutine takes the next item of the channel.
Take(i) ==
    /\ pc[i] = "waiting"
    /\ \A k \in Items : k < i => pc[k] # "waiting"
    /\ Cardinality({k \in Items : Running(k)}) < MaxConcurrent
    /\ Goto(i, "input")
    /\ UNCHANGED <<need, pixelsOk, counters, ends>>

\* There is no workspace or no input: nothing is reserved.
OpenFails(i) ==
    /\ pc[i] = "input"
    /\ \E st \in {"rejected", "failed"} : Ends(i, "unopened", st)
    /\ UNCHANGED <<need, pixelsOk, counters>>

\* Mutant of ReserveInput: the sum before the addition is compared.
ReserveInputLate(i) ==
    /\ pc[i] = "input"
    /\ inputBytes' = inputBytes + need[i].bytes
    /\ Goto(i, IF inputBytes <= InputLimit THEN "media" ELSE "undoInput")
    /\ UNCHANGED <<need, pixelsOk, pixels, durationMS, ends>>

\* reserveInput: the addition, and what follows if the sum is too large.
ReserveInput(i) ==
    /\ pc[i] = "input"
    /\ inputBytes' = inputBytes + need[i].bytes
    /\ Goto(i, IF inputBytes' <= InputLimit THEN "media" ELSE "undoInput")
    /\ UNCHANGED <<need, pixelsOk, pixels, durationMS, ends>>

UndoInput(i) ==
    /\ pc[i] = "undoInput"
    /\ inputBytes' = inputBytes - need[i].bytes
    /\ Ends(i, "overInput", "rejected")
    /\ UNCHANGED <<need, pixelsOk, pixels, durationMS>>

\* The input cannot be copied, has another hash, or is not a known medium: its
\* bytes stay reserved.
Fails(i) ==
    /\ pc[i] = "media"
    /\ \E st \in {"rejected", "failed"} : Ends(i, "failed", st)
    /\ UNCHANGED <<need, pixelsOk, counters>>

\* The rest of the item, successful or not, keeps its reservations.
Converts(i) ==
    /\ pc[i] = "convert"
    /\ \E st \in {"success", "rejected", "failed"} : Ends(i, "done", st)
    /\ UNCHANGED <<need, pixelsOk, counters>>

\* reserveMedia: two additions, then the test, then two withdrawals.
AddPixels(i) ==
    /\ pc[i] = "media"
    /\ pixels' = pixels + need[i].pixels
    /\ pixelsOk' = [pixelsOk EXCEPT ![i] = pixels' <= PixelLimit]
    /\ Goto(i, "duration")
    /\ UNCHANGED <<need, inputBytes, durationMS, ends>>

\* Mutant of AddDuration: what fills the budget is rejected.
AddDurationStrict(i) ==
    /\ pc[i] = "duration"
    /\ durationMS' = durationMS + need[i].ms
    /\ Goto(i, IF pixelsOk[i] /\ durationMS' < DurationLimit THEN "convert" ELSE "undoPixels")
    /\ UNCHANGED <<need, pixelsOk, inputBytes, pixels, ends>>

AddDuration(i) ==
    /\ pc[i] = "duration"
    /\ durationMS' = durationMS + need[i].ms
    /\ Goto(i, IF pixelsOk[i] /\ durationMS' <= DurationLimit THEN "convert" ELSE "undoPixels")
    /\ UNCHANGED <<need, pixelsOk, inputBytes, pixels, ends>>

\* Mutant of UndoPixels: only what exceeded its limit is taken back.
UndoPixelsExceeded(i) ==
    /\ pc[i] = "undoPixels"
    /\ pixels' = IF pixelsOk[i] THEN pixels ELSE pixels - need[i].pixels
    /\ Goto(i, "undoDuration")
    /\ UNCHANGED <<need, pixelsOk, inputBytes, durationMS, ends>>

UndoPixels(i) ==
    /\ pc[i] = "undoPixels"
    /\ pixels' = pixels - need[i].pixels
    /\ Goto(i, "undoDuration")
    /\ UNCHANGED <<need, pixelsOk, inputBytes, durationMS, ends>>

UndoDuration(i) ==
    /\ pc[i] = "undoDuration"
    /\ durationMS' = durationMS - need[i].ms
    /\ Ends(i, "overMedia", "rejected")
    /\ UNCHANGED <<need, pixelsOk, inputBytes, pixels>>

Count(st) == Cardinality({i \in Items : status[i] = st})

\* Mutant of Aggregate: a failure outweighs the successes.
AggregateFailedFirst ==
    CASE Count("success") = N                        -> "success"
      [] Count("failed") > 0                         -> "failed"
      [] Count("failed") = 0 /\ Count("success") > 0 -> "partial_success"
      [] OTHER                                       -> "rejected"

\* JobResult.Aggregate.
Aggregate ==
    CASE Count("success") = N                        -> "success"
      [] Count("success") \in 1 .. N - 1             -> "partial_success"
      [] Count("success") = 0 /\ Count("failed") > 0 -> "failed"
      [] OTHER                                       -> "rejected"

\* processJob has the results of all its items.
Finish ==
    /\ outcome = "none"
    /\ \A i \in Items : pc[i] \in Ended
    /\ outcome' = Aggregate
    /\ UNCHANGED <<need, pc, pixelsOk, counters, status>>

Next ==
    \/ \E i \in Items :
        \/ Take(i) \/ OpenFails(i) \/ ReserveInput(i) \/ UndoInput(i) \/ Fails(i)
        \/ Converts(i) \/ AddPixels(i) \/ AddDuration(i) \/ UndoPixels(i) \/ UndoDuration(i)
    \/ Finish

Spec == Init /\ [][Next]_vars

-------------------------------------------------------------------------------
\* Properties.

\* The sum of f over the items.
Total(f) == LET upTo[k \in 0 .. N] == IF k = 0 THEN 0 ELSE upTo[k - 1] + f[k] IN upTo[N]

InputHeld    == {"undoInput", "media", "duration", "undoPixels", "undoDuration", "convert", "done",
                 "failed", "overMedia"}
PixelsHeld   == {"duration", "undoPixels", "convert", "done"}
DurationHeld == {"undoPixels", "undoDuration", "convert", "done"}

Share(i, steps, n) == IF pc[i] \in steps THEN n ELSE 0

\* Each counter is the sum of what items hold at this moment: no reservation is
\* lost or taken back twice, in any order of additions and withdrawals, and
\* after the last item the counters are those of the accepted ones.
Accounted ==
    /\ inputBytes = Total([i \in Items |-> Share(i, InputHeld, need[i].bytes)])
    /\ pixels     = Total([i \in Items |-> Share(i, PixelsHeld, need[i].pixels)])
    /\ durationMS = Total([i \in Items |-> Share(i, DurationHeld, need[i].ms)])

Accepted      == {"convert", "done"}
InputAccepted == InputHeld \ {"undoInput"}

\* What was accepted together is within each limit, whatever sums the others saw
\* meanwhile.
WithinLimits ==
    /\ Total([i \in Items |-> Share(i, InputAccepted, need[i].bytes)]) <= InputLimit
    /\ Total([i \in Items |-> Share(i, Accepted, need[i].pixels)]) <= PixelLimit
    /\ Total([i \in Items |-> Share(i, Accepted, need[i].ms)]) <= DurationLimit

\* If a job fits as a whole, none of its items is rejected for a budget: what
\* others have added and not yet taken back never exceeds what they need.
NoFalseRejection ==
    LET fits == /\ Total([i \in Items |-> need[i].bytes]) <= InputLimit
                /\ Total([i \in Items |-> need[i].pixels]) <= PixelLimit
                /\ Total([i \in Items |-> need[i].ms]) <= DurationLimit
    IN  fits => \A i \in Items : pc[i] \notin {"undoInput", "overInput", "undoPixels", "undoDuration", "overMedia"}

\* The outcome a client reads tells what became of its items: a success means
\* that every item was converted and that the job fits its budgets; a part of
\* the items always shows as partial_success, however the others ended; a job
\* without a converted item is failed if any item may be worth another try, and
\* rejected only if every item was refused.
OutcomeSummarises ==
    LET good == {i \in Items : pc[i] = "done" /\ status[i] = "success"}
    IN  /\ outcome = "success" =>
              /\ good = Items
              /\ Total([i \in Items |-> need[i].bytes]) <= InputLimit
              /\ Total([i \in Items |-> need[i].pixels]) <= PixelLimit
              /\ Total([i \in Items |-> need[i].ms]) <= DurationLimit
        /\ good = Items /\ outcome # "none" => outcome = "success"
        /\ outcome = "partial_success" <=> (outcome # "none" /\ good \notin {{}, Items})
        /\ outcome = "failed" => good = {} /\ \E i \in Items : status[i] = "failed"
        /\ outcome = "rejected" => \A i \in Items : status[i] = "rejected"
===============================================================================
