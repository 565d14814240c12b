-------------------------- MODULE StatementLifecycle --------------------------
(***************************************************************************)
(* What the owner of an uploaded statement is promised: an abstract view   *)
(* of statement_files with neither web threads nor tasks nor jobs          *)
(* (core/models/statements/file.py: "Each status names the phase that has  *)
(* already completed", and is_processing says whether the next one runs).  *)
(***************************************************************************)
EXTENDS Naturals

VARIABLES
  stage,       \* "absent", a status, or "deleted"
  processing,  \* is_processing
  failure      \* failed_phase

lifecycle == <<stage, processing, failure>>

\* The phase that runs from a stage, and the stage it leads to.
PhaseFrom == [uploaded |-> "extraction", extracted |-> "normalization"]
StageAfter == [uploaded |-> "extracted", extracted |-> "normalized"]

Init == stage = "absent" /\ processing = FALSE /\ failure = "none"

Upload ==
  /\ stage = "absent"
  /\ stage' = "uploaded" /\ processing' = FALSE /\ failure' = "none"

\* A phase is started, never while one runs.
Begin ==
  /\ stage \in DOMAIN PhaseFrom /\ ~processing
  /\ processing' = TRUE
  /\ UNCHANGED <<stage, failure>>

\* It succeeds: the next stage, and no trace of earlier failures.
Succeed ==
  /\ processing /\ stage \in DOMAIN StageAfter
  /\ stage' = StageAfter[stage] /\ processing' = FALSE /\ failure' = "none"

\* Or it fails, and says so; the stage stays and can be retried.
Fail ==
  /\ processing /\ stage \in DOMAIN PhaseFrom
  /\ failure' = PhaseFrom[stage] /\ processing' = FALSE
  /\ UNCHANGED stage

\* The owner approves what was found.
Approve ==
  /\ stage \in {"normalized", "approved"} /\ ~processing
  /\ stage' = "approved" /\ failure' = "none"
  /\ UNCHANGED processing

Delete ==
  /\ stage \notin {"absent", "deleted"}
  /\ stage' = "deleted" /\ processing' = FALSE /\ failure' = "none"

Next == Upload \/ Begin \/ Succeed \/ Fail \/ Approve \/ Delete

\* A phase that runs ends.
Spec == Init /\ [][Next]_lifecycle /\ WF_lifecycle(Succeed \/ Fail)
=============================================================================
