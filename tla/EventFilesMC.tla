---------------------------- MODULE EventFilesMC ----------------------------
(***************************************************************************)
(* EventFiles for TLC.                                                     *)
(***************************************************************************)
EXTENDS EventFiles

=============================================================================
