-------------------------- MODULE WorkspaceScanMC --------------------------
(* A small instance of WorkspaceScan for TLC.                              *)
EXTENDS WorkspaceScan

File(k, d) == [kind |-> "file", key |-> k, data |-> d]
Dir(k) == [kind |-> "dir", key |-> k, data |-> NoData]
Ones == [i \in Blocks |-> 1]

\* A directory with a file, a second name for that directory's key on Windows, and a file beside
\* them; the observation begins with the directory or with the second name.
TreePaths == {"d", "d/x", "D", "f"}
TreeParent == [p \in TreePaths |-> IF p = "d/x" THEN "d" ELSE "."]
TreeAbove == [p \in TreePaths |-> IF p = "d/x" THEN {"d"} ELSE {}]
TreeAlias == [p \in TreePaths |-> IF p = "D" THEN "d" ELSE p]
TreeTrees == {[p \in TreePaths |-> CASE p = "d" -> Dir(1) [] p = "d/x" -> File(2, Ones) [] OTHER -> Absent],
              [p \in TreePaths |-> IF p = "D" THEN File(1, Ones) ELSE Absent]}
=============================================================================
