--------------------------- MODULE ProcessScopeMC ---------------------------
(* A small instance of ProcessScope for TLC. *)
EXTENDS ProcessScope
=============================================================================
