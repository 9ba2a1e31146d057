---------------------------- MODULE WriterLockMC ----------------------------
(* A small instance of WriterLock for TLC. *)
EXTENDS WriterLock

=============================================================================
