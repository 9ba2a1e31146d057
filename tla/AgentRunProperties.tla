------------------------- MODULE AgentRunProperties -------------------------
(***************************************************************************)
(* What the AgentRun controller promises, over the variables of AgentRun.  *)
(***************************************************************************)
EXTENDS AgentRun

Statuses == [phase : Maybe(Phases), reason : Maybe(Reasons), ref : Maybe(References),
             decision : Maybe(Digests), bundle : Maybe(Digests)]

Jobs == [uid : Uids, action : Actions, ours : BOOLEAN, decision : Maybe(Digests), condition : Conditions]

Pods == [id : 0..MaxFaults, job : Uids, action : Actions, decision : Maybe(Digests),
         state : {"running", "failed", "succeeded"}, message : Maybe(Messages)]

Volumes == [state : {"absent", "partial", "failed", "completed"}, digest : Maybe(Digests), intact : BOOLEAN,
            resumed : Maybe(Digests), verified : BOOLEAN]

\* What a reconcile holds while it waits for an answer of the API server.
Reconciles == [pc : {"idle", "load", "audit", "read", "list", "create", "observe", "get", "bind", "persist"},
               run : Statuses, old : Statuses, approval : Maybe(Digests), action : Maybe(Actions),
               uid : Maybe(Uids), condition : Maybe(Conditions), fresh : BOOLEAN]

\* The type invariant.
TypeOK ==
    /\ valid \in BOOLEAN /\ approval \in Maybe(Digests)
    /\ status \in Statuses
    /\ jobs \subseteq Jobs /\ pods \subseteq Pods
    /\ volume \in Volumes
    /\ uids \in 0..MaxJobs /\ faults \in 0..MaxFaults
    /\ mgr \in [Managers -> Reconciles]

RefAction == IF status.ref = None THEN None ELSE status.ref.action

RefUid == IF status.ref = None THEN None ELSE status.ref.uid

Lifecycle == INSTANCE AgentRunLifecycle
                 WITH phase <- status.phase, step <- RefAction, job <- RefUid, decision <- status.decision

(***************************************************************************)
(* The resource goes through the documented lifecycle and no other:        *)
(* whatever managers, lost answers, conflicts, crashes and interference do *)
(* to Reconcile, actions are bound in order, each to one Job for ever,     *)
(* resume only after the exact approval, and Succeeded and Blocked are     *)
(* final.                                                                  *)
(***************************************************************************)
FollowsLifecycle == Lifecycle!Spec

(***************************************************************************)
(* The run directory is resumed only with the decision the status has      *)
(* published and the operator has approved: never by a preseeded approval, *)
(* never by a Job some stale reconcile left behind.                        *)
(***************************************************************************)
ResumedAsApproved == volume.resumed # None => approval = volume.resumed /\ status.decision = volume.resumed

(***************************************************************************)
(* Succeeded means that a verify Job has re-opened and accepted the sealed *)
(* run whose bundle digest the status shows.                               *)
(***************************************************************************)
SucceededIsVerified ==
    status.phase = "Succeeded" =>
        volume.state = "completed" /\ volume.verified /\ volume.digest = status.bundle

(***************************************************************************)
(* Nothing blocks a run that should not.  The checks of Reconcile and      *)
(* reconcileApproval on the consistency of the resource with itself never  *)
(* fire, whatever faults there are: status updates guarded by the resource *)
(* version and the CRD's transition rules keep spec and status together.   *)
(* And managers that act at the same time, or Pods and Jobs that are late, *)
(* do not block a run by themselves: without a fault the only reasons are  *)
(* an invalid resource and a runner that failed.                           *)
(***************************************************************************)
BlocksExplained ==
    /\ status.reason \notin {"MissingStartJob", "ApprovalMismatch", "ApprovalBindingChanged"}
    /\ faults = 0 /\ status.phase = "Blocked" =>
           status.reason \in {"InvalidExecutionSpec", "PreseededApproval", "JobFailed"}

(***************************************************************************)
(* Fairness.  The resource and its Jobs are watched and polled, so a       *)
(* manager reconciles again and again and its reconcile goes on; the Job   *)
(* controller and the runners do their work.  Nobody has to approve.       *)
(***************************************************************************)
Fairness ==
    /\ \A m \in Managers : WF_vars(Reconcile(m) \/ ManagerStep(m))
    /\ WF_vars(ClusterStep)

LiveSpec == Spec /\ Fairness

Settled == status.phase \in {"Succeeded", "Blocked"} \/ (status.phase = "AwaitingApproval" /\ approval = None)

(***************************************************************************)
(* Every run settles: it succeeds, is blocked or waits for its operator;   *)
(* conflicting updates of several managers do not keep each other from it. *)
(***************************************************************************)
RunSettles == <>[]Settled

=============================================================================
