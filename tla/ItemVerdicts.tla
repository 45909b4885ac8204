----------------------------- MODULE ItemVerdicts -----------------------------
(***************************************************************************)
(* What the lifecycle of a job sees of an item: how far its recorded       *)
(* progress got, how it ended, and which ends recovery may give it.        *)
(* JobLifecycle is written with these; ItemCommit, which models artifacts  *)
(* and hashes, is checked to stay within them.                             *)
(***************************************************************************)

\* domain.ItemProgressState.  "none": the record has no progress list yet.
\* "planned" is "processing" with PlannedOutputID set: the artifact may be on
\* disk although the record does not say so.
ProgressStates == {"none", "pending", "processing", "planned", "committed", "rejected", "failed"}

\* domain.ItemStatus.  "interrupted" is ItemFailed with the error code
\* recovery_interrupted, kept apart because only Recover produces it.
Statuses == {"none", "success", "rejected", "failed", "interrupted"}

\* Mutant of Reconciled: a rejected item counts as interrupted.
ReconciledForgetsRejected(p) ==
    CASE p = "failed" -> {p}
      [] p = "committed" -> {"success", "failed"}
      [] p = "planned" -> {"success", "failed", "interrupted"}
      [] OTHER -> {"interrupted"}

\* reconcileItemWithPolicy, by what the progress says: a durable verdict is
\* kept; a committed artifact is validated; a planned one may be found on disk;
\* anything else was interrupted.
Reconciled(p) ==
    CASE p \in {"rejected", "failed"} -> {p}
      [] p = "committed" -> {"success", "failed"}
      [] p = "planned" -> {"success", "failed", "interrupted"}
      [] OTHER -> {"interrupted"}
===============================================================================
