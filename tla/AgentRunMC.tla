----------------------------- MODULE AgentRunMC -----------------------------
(* Small control planes for TLC. *)
EXTENDS AgentRunProperties, TLC

ManagerSymmetry == Permutations(Managers)

=============================================================================
