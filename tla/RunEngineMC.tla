---------------------------- MODULE RunEngineMC -----------------------------
(* Small suites for TLC. *)
EXTENDS RunProperties

CONSTANTS fileA, fileB, fileC

\* Two tasks: one with one output, one with two.
ForkOutputs == <<<<fileA>>, <<fileB, fileC>>>>

ForkPaths == {fileA, fileB, fileC}

\* One task with one output, and a path no task declares.
SingleOutputs == <<<<fileA>>>>

SinglePaths == {fileA, fileB}

=============================================================================
