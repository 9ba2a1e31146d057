---------------------------- MODULE StepResultMC ----------------------------
(***************************************************************************)
(* StepResult for TLC.                                                     *)
(***************************************************************************)
EXTENDS StepResult

=============================================================================
