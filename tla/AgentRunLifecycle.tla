------------------------- MODULE AgentRunLifecycle --------------------------
(***************************************************************************)
(* What an AgentRun promises its users: the lifecycle drawn in             *)
(* docs/AGENTRUN_CONTROLLER.md, as the status and the approval field of    *)
(* the resource show it.                                                   *)
(*                                                                         *)
(*   start Job: completed            -> verify Job -> Succeeded            *)
(*   start Job: failed with decision -> AwaitingApproval                   *)
(*     exact approval -> resume Job  -> verify Job -> Succeeded            *)
(*                                                                         *)
(* A resource can be Blocked from every phase but Succeeded; Blocked and   *)
(* Succeeded are final.  Each action has one Job for ever.                 *)
(***************************************************************************)
EXTENDS Naturals

CONSTANTS
    Digests,  \* resume-decision digests
    Uids,     \* identities of Jobs
    None      \* an empty field

VARIABLES
    phase,     \* status.phase
    step,      \* the action of status.activeJobRef
    job,       \* the Job identity of status.activeJobRef
    decision,  \* status.resumeDecisionSHA256
    approval   \* spec.resumeDecisionSHA256

vars == <<phase, step, job, decision, approval>>

Init ==
    /\ phase = None /\ step = None /\ job = None /\ decision = None
    /\ approval \in Digests \cup {None}

\* A Job is bound for the next action.
Bind(action) == step' = action /\ job' \in Uids

Start ==
    /\ phase = None /\ step = None /\ approval = None
    /\ phase' = "Running" /\ Bind("start")
    /\ UNCHANGED <<decision, approval>>

Await ==
    /\ phase = "Running" /\ step = "start"
    /\ phase' = "AwaitingApproval" /\ decision' \in Digests
    /\ UNCHANGED <<step, job, approval>>

\* The only decision that can be approved is the one published.
Approve ==
    /\ phase = "AwaitingApproval" /\ approval = None
    /\ approval' = decision
    /\ UNCHANGED <<phase, step, job, decision>>

Resume ==
    /\ phase = "AwaitingApproval" /\ approval # None /\ approval = decision
    /\ phase' = "Running" /\ Bind("resume")
    /\ UNCHANGED <<decision, approval>>

Verify ==
    /\ phase = "Running" /\ step \in {"start", "resume"}
    /\ phase' = "Verifying" /\ Bind("verify")
    /\ UNCHANGED <<decision, approval>>

Succeed ==
    /\ phase = "Verifying"
    /\ phase' = "Succeeded"
    /\ UNCHANGED <<step, job, decision, approval>>

Block ==
    /\ phase \notin {"Succeeded", "Blocked"}
    /\ phase' = "Blocked"
    /\ UNCHANGED <<step, job, decision, approval>>

Next == Start \/ Await \/ Approve \/ Resume \/ Verify \/ Succeed \/ Block

Spec == Init /\ [][Next]_vars

=============================================================================
