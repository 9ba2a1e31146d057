----------------------------- MODULE TwoLocksMC -----------------------------
(* A small instance of TwoLocks for TLC. *)
EXTENDS TwoLocks

=============================================================================
