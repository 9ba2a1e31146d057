--------------------------- MODULE AttemptScopeMC ---------------------------
(* One attempt on either platform, with a small family. *)
EXTENDS AttemptScope

CONSTANTS p1, p2, p3, p4
=============================================================================
