------------------------------ MODULE AgentRun ------------------------------
(***************************************************************************)
(* The Kubernetes control plane around one run: AgentRunReconciler of      *)
(* src/controller/internal/controller, the runner bridge                   *)
(* src/src/benchhandoff/controller_step.py, and what the two need of the   *)
(* API server, the Job controller and the volume (external).               *)
(*                                                                         *)
(* Each call of Reconcile works on a copy of the resource and talks to the *)
(* API server in several requests; each request is a step.  The Lease is   *)
(* no fence, so the reconciles of several managers interleave.  A status   *)
(* update is accepted only while the resource is the one that was read.    *)
(*                                                                         *)
(* Deterministic names and the comparison with BuildJob's template are the *)
(* field "ours" of a Job.  The execution spec is immutable (CRD), so its   *)
(* digest is left out; so are observedGeneration and condition messages.   *)
(* A bridge invocation is one step on the volume: RunEngine and WriterLock *)
(* show what happens inside it.                                            *)
(***************************************************************************)
EXTENDS Naturals

CONSTANTS
    Managers,   \* manager processes
    Digests,    \* decision and bundle digests
    None,       \* an empty field
    MaxJobs,    \* bound: Jobs ever created
    MaxFaults   \* bound: lost answers, crashes and interference by others

Uids == 1..MaxJobs

Actions == {"start", "resume", "verify"}

Phases == {"Running", "AwaitingApproval", "Verifying", "Succeeded", "Blocked"}

Reasons == {"InvalidExecutionSpec", "PreseededApproval", "ApprovalBindingChanged", "MissingStartJob",
            "AmbiguousJobSet", "JobBindingMismatch", "AmbiguousPodSet", "ApprovalRequired", "ApprovalMismatch",
            "JobFailed", "VerifyRunning", "RunnerActive", "VerifyScheduled", "RunnerScheduled",
            "UnexpectedResult", "Verified"}

Conditions == {"active", "failed", "complete"}

Maybe(S) == S \cup {None}

References == [action : Actions, uid : Uids]

Messages == [outcome : {"awaiting_approval", "completed", "verified", "blocked"},
             decision : Maybe(Digests), bundle : Maybe(Digests)]

\* None is none of the values it stands in for.
ASSUME ControlAssumption ==
    /\ MaxJobs \in Nat /\ MaxFaults \in Nat
    /\ None \notin Digests /\ None \notin Uids /\ None \notin Actions
    /\ None \notin Phases /\ None \notin Reasons /\ None \notin Conditions
    /\ None \notin References /\ None \notin Messages

VARIABLES
    valid,     \* whether the execution spec is one ValidateAgentRunSpec accepts
    approval,  \* spec.resumeDecisionSHA256
    status,    \* the status subresource
    jobs,      \* Jobs with the labels of the run
    pods,      \* Pods with the labels of the run
    volume,    \* the run directory on the volume
    uids,      \* Job identities handed out so far
    mgr,       \* mgr[m]: the reconcile manager m is in
    faults

vars == <<valid, approval, status, jobs, pods, volume, uids, mgr, faults>>

NoStatus == [phase |-> None, reason |-> None, ref |-> None, decision |-> None, bundle |-> None]

NoRun == [state |-> "absent", digest |-> None, intact |-> TRUE, resumed |-> None, verified |-> FALSE]

Idle == [pc |-> "idle", run |-> NoStatus, old |-> NoStatus, approval |-> None,
         action |-> None, uid |-> None, condition |-> None, fresh |-> FALSE]

\* Nothing keeps a new resource from having an approval in it.
Init ==
    /\ valid \in BOOLEAN /\ approval \in Digests \cup {None}
    /\ status = NoStatus
    /\ jobs = {} /\ pods = {} /\ volume = NoRun /\ uids = 0
    /\ mgr = [m \in Managers |-> Idle]
    /\ faults = 0

Of(things, action) == {o \in things : o.action = action}

The(S) == CHOOSE o \in S : TRUE

Several(S) == \E x, y \in S : x # y

(***************************************************************************)
(* The local copy: setPhase and block prepare it, persistStatus sends it.  *)
(***************************************************************************)
SetPhase(run, phase, reason) == [run EXCEPT !.phase = phase, !.reason = reason]

Becomes(m, r) == mgr' = [mgr EXCEPT ![m] = r]

\* The candidate status goes to persistStatus.
Send(m, run) == Becomes(m, [mgr[m] EXCEPT !.pc = "persist", !.run = run])

Block(m, reason) == Send(m, SetPhase(mgr[m].run, "Blocked", reason))

Proceed(m, label) == Becomes(m, [mgr[m] EXCEPT !.pc = label])

Ensure(m, run, action) == Becomes(m, [mgr[m] EXCEPT !.pc = "list", !.run = run, !.action = action])

\* An update by anybody makes every other copy stale.
Stale(m, others) == [k \in Managers |-> IF k = m THEN Idle ELSE [others[k] EXCEPT !.fresh = FALSE]]

\* Mutant: the status is written whatever happened since it was read.
PersistBlindly(m) ==
    /\ mgr[m].pc = "persist"
    /\ IF mgr[m].run # mgr[m].old
       THEN status' = mgr[m].run /\ mgr' = Stale(m, mgr)
       ELSE Becomes(m, Idle) /\ UNCHANGED status
    /\ UNCHANGED <<valid, approval, jobs, pods, volume, uids, faults>>

\* Mutant: a conflicting update is tried again from the same copy.
PersistRetries(m) ==
    /\ mgr[m].pc = "persist"
    /\ mgr[m].run = mgr[m].old \/ mgr[m].fresh
    /\ IF mgr[m].run # mgr[m].old
       THEN status' = mgr[m].run /\ mgr' = Stale(m, mgr)
       ELSE Becomes(m, Idle) /\ UNCHANGED status
    /\ UNCHANGED <<valid, approval, jobs, pods, volume, uids, faults>>

\* An unchanged status is not sent; a conflict discards the copy.
PersistStatus(m) ==
    /\ mgr[m].pc = "persist"
    /\ IF mgr[m].run # mgr[m].old /\ mgr[m].fresh
       THEN status' = mgr[m].run /\ mgr' = Stale(m, mgr)
       ELSE Becomes(m, Idle) /\ UNCHANGED status
    /\ UNCHANGED <<valid, approval, jobs, pods, volume, uids, faults>>

(***************************************************************************)
(* Reconcile: read the resource and decide.  In the final phases nothing   *)
(* is left to do.                                                          *)
(***************************************************************************)
Preseeded(run, appr) == run.phase = None /\ run.ref = None /\ appr # None

\* Checks on the resource alone.
Refusal ==
    CASE ~valid -> "InvalidExecutionSpec"
      [] valid /\ Preseeded(status, approval) -> "PreseededApproval"
      [] valid /\ status.phase = "Succeeded" /\ approval # status.decision -> "ApprovalBindingChanged"
      [] valid /\ status.phase = "AwaitingApproval" /\ (status.ref = None \/ status.ref.action # "start") ->
            "MissingStartJob"
      [] OTHER -> None

Reconcile(m) ==
    /\ mgr[m].pc = "idle" /\ status.phase # "Blocked"
    /\ LET copy == [Idle EXCEPT !.run = status, !.old = status, !.approval = approval, !.fresh = TRUE]
       IN  \/ /\ Refusal # None
              /\ Becomes(m, [copy EXCEPT !.pc = "persist", !.run = SetPhase(status, "Blocked", Refusal)])
           \/ /\ Refusal = None /\ status.ref = None
              /\ Becomes(m, [copy EXCEPT !.pc = "list", !.action = "start"])
           \/ /\ Refusal = None /\ status.ref # None /\ status.phase # "Succeeded"
              /\ Becomes(m, [copy EXCEPT !.pc = "load", !.action = status.ref.action])
    /\ UNCHANGED <<valid, approval, status, jobs, pods, volume, uids, faults>>

(***************************************************************************)
(* reconcileApproval and reconcileActiveJob.                               *)
(***************************************************************************)
LoadBoundJob(m) ==
    /\ mgr[m].pc = "load"
    /\ LET found == Of(jobs, mgr[m].action)
           j == The(found)
       IN  IF Several(found) THEN Block(m, "AmbiguousJobSet")
           ELSE IF found = {} \/ ~j.ours \/ j.uid # mgr[m].run.ref.uid THEN Block(m, "JobBindingMismatch")
           ELSE Becomes(m, [mgr[m] EXCEPT !.pc = "audit", !.uid = j.uid, !.condition = j.condition])
    /\ UNCHANGED <<valid, approval, status, jobs, pods, volume, uids, faults>>

\* Mutant: a Job that has no Pod yet is taken to be ambiguous.
PodSetSingle(action, uid) == \E p \in pods : Of(pods, action) = {p} /\ p.job = uid

\* auditBoundPodSet: at most one Pod, and it belongs to the Job.
PodSetSound(action, uid) ==
    ~Several(Of(pods, action)) /\ \A p \in Of(pods, action) : p.job = uid

DecideApproval(m) ==
    LET run == mgr[m].run
    IN  IF mgr[m].approval = None THEN Send(m, SetPhase(run, "AwaitingApproval", "ApprovalRequired"))
        ELSE IF mgr[m].approval # run.decision THEN Block(m, "ApprovalMismatch")
        ELSE Ensure(m, run, "resume")

DecideActive(m) ==
    CASE mgr[m].condition = "failed" -> Block(m, "JobFailed")
      [] mgr[m].condition = "active" ->
            Send(m, IF mgr[m].action = "verify" THEN SetPhase(mgr[m].run, "Verifying", "VerifyRunning")
                    ELSE SetPhase(mgr[m].run, "Running", "RunnerActive"))
      [] mgr[m].condition = "complete" -> Proceed(m, "read")

AuditPods(m) ==
    /\ mgr[m].pc = "audit"
    /\ IF ~PodSetSound(mgr[m].action, mgr[m].uid) THEN Block(m, "AmbiguousPodSet")
       ELSE IF mgr[m].run.phase = "AwaitingApproval" THEN DecideApproval(m)
       ELSE DecideActive(m)
    /\ UNCHANGED <<valid, approval, status, jobs, pods, volume, uids, faults>>

\* Mutant: a completed resume needs no verification.
AcceptUnverified(m, result) ==
    LET run == mgr[m].run
    IN  IF result.outcome = "awaiting_approval"
        THEN Send(m, SetPhase([run EXCEPT !.decision = result.decision, !.bundle = None],
                              "AwaitingApproval", "ApprovalRequired"))
        ELSE Send(m, SetPhase([run EXCEPT !.bundle = result.bundle], "Succeeded", "Verified"))

\* acceptStepResult.
Accept(m, result) ==
    LET run == mgr[m].run
        done == result.outcome = "completed"
    IN  CASE mgr[m].action = "start" /\ result.outcome = "awaiting_approval" ->
                Send(m, SetPhase([run EXCEPT !.decision = result.decision, !.bundle = None],
                                 "AwaitingApproval", "ApprovalRequired"))
          [] mgr[m].action = "start" /\ done -> Ensure(m, [run EXCEPT !.bundle = result.bundle], "verify")
          [] mgr[m].action = "resume" /\ done /\ result.decision = mgr[m].approval ->
                Ensure(m, [run EXCEPT !.bundle = result.bundle], "verify")
          [] mgr[m].action = "verify" /\ result.outcome = "verified" /\ result.bundle = run.bundle ->
                Send(m, SetPhase(run, "Succeeded", "Verified"))
          [] OTHER -> Block(m, "UnexpectedResult")

\* readSingleStepResult: exactly one Pod, of this Job, with a message that parses.
ReadStepResult(m) ==
    /\ mgr[m].pc = "read"
    /\ LET found == Of(pods, mgr[m].action)
           p == The(found)
       IN  IF found = {} \/ Several(found) \/ p.job # mgr[m].uid \/ p.message = None
           THEN Block(m, "AmbiguousPodSet")
           ELSE Accept(m, p.message)
    /\ UNCHANGED <<valid, approval, status, jobs, pods, volume, uids, faults>>

(***************************************************************************)
(* ensureJob: list, create, list and get again, audit, bind.               *)
(***************************************************************************)
ListJobs(m) ==
    /\ mgr[m].pc = "list"
    /\ LET found == Of(jobs, mgr[m].action)
       IN  IF Several(found) THEN Block(m, "AmbiguousJobSet")
           ELSE Proceed(m, IF found = {} THEN "create" ELSE "observe")
    /\ UNCHANGED <<valid, approval, status, jobs, pods, volume, uids, faults>>

\* The name is taken: AlreadyExists counts as success.
NameTaken(action) == \E j \in Of(jobs, action) : j.ours

NewJob(action, ours, decision) ==
    /\ uids < MaxJobs
    /\ uids' = uids + 1
    /\ jobs' = jobs \cup {[uid |-> uids + 1, action |-> action, ours |-> ours,
                           decision |-> decision, condition |-> "active"]}

CreateJob(m) ==
    /\ mgr[m].pc = "create"
    /\ IF NameTaken(mgr[m].action) THEN UNCHANGED <<jobs, uids>>
       ELSE NewJob(mgr[m].action, TRUE, IF mgr[m].action = "resume" THEN mgr[m].approval ELSE None)
    /\ Proceed(m, "observe")
    /\ UNCHANGED <<valid, approval, status, pods, volume, faults>>

ObserveJob(m) ==
    /\ mgr[m].pc = "observe"
    /\ LET found == Of(jobs, mgr[m].action)
           j == The(found)
       IN  IF Several(found) THEN Block(m, "AmbiguousJobSet")
           ELSE IF found = {} \/ ~j.ours THEN Block(m, "JobBindingMismatch")
           ELSE Becomes(m, [mgr[m] EXCEPT !.pc = "get", !.uid = j.uid])
    /\ UNCHANGED <<valid, approval, status, jobs, pods, volume, uids, faults>>

\* The GET by name agrees with the list; a bound Job is never exchanged.
GetJob(m) ==
    /\ mgr[m].pc = "get"
    /\ LET ref == mgr[m].run.ref
           same == \E j \in Of(jobs, mgr[m].action) : j.ours /\ j.uid = mgr[m].uid
       IN  IF ~same \/ (ref # None /\ ref.action = mgr[m].action /\ ref.uid # mgr[m].uid)
           THEN Block(m, "JobBindingMismatch")
           ELSE Proceed(m, "bind")
    /\ UNCHANGED <<valid, approval, status, jobs, pods, volume, uids, faults>>

Bound(run, action, uid) ==
    LET bound == [run EXCEPT !.ref = [action |-> action, uid |-> uid]]
    IN  IF action = "verify" THEN SetPhase(bound, "Verifying", "VerifyScheduled")
        ELSE SetPhase(bound, "Running", "RunnerScheduled")

BindJob(m) ==
    /\ mgr[m].pc = "bind"
    /\ IF PodSetSound(mgr[m].action, mgr[m].uid) THEN Send(m, Bound(mgr[m].run, mgr[m].action, mgr[m].uid))
       ELSE Block(m, "AmbiguousPodSet")
    /\ UNCHANGED <<valid, approval, status, jobs, pods, volume, uids, faults>>

(***************************************************************************)
(* The operator approves; the CRD's transition rules admit only the        *)
(* published decision, once.                                               *)
(***************************************************************************)
Approve ==
    /\ approval = None /\ status.phase = "AwaitingApproval" /\ status.decision # None
    /\ approval' = status.decision
    /\ mgr' = [m \in Managers |-> [mgr[m] EXCEPT !.fresh = FALSE]]
    /\ UNCHANGED <<valid, status, jobs, pods, volume, uids, faults>>

(***************************************************************************)
(* controller_step: one action on the volume, and its termination message. *)
(***************************************************************************)
Message(outcome, decision, bundle) == [outcome |-> outcome, decision |-> decision, bundle |-> bundle]

Blocked == Message("blocked", None, None)

\* What _execute can do: the run directory afterwards, and the message.
Sealed(run, d, decision) ==
    [volume |-> [run EXCEPT !.state = "completed", !.digest = d], message |-> Message("completed", decision, d)]

Refused(run) == [volume |-> run, message |-> Blocked]

\* An exception on the way, reported as blocked, leaves a run that is neither failed nor sealed.
Unfinished(run) == [run EXCEPT !.state = "partial"]

StartOutcomes ==
    IF volume.state # "absent" THEN {Refused(volume)}
    ELSE {Refused(volume), Refused(Unfinished(volume))} \cup
         UNION {LET failed == [volume EXCEPT !.state = "failed", !.digest = d]
                IN  {Sealed(volume, d, None), Refused(failed),
                     [volume |-> failed, message |-> Message("awaiting_approval", d, None)]} : d \in Digests}

\* Mutant: the approved decision is not compared with the evidence of now.
ResumeOutcomesUnbound(decision) ==
    IF volume.state # "failed" THEN {Refused(volume)}
    ELSE LET resumed == [volume EXCEPT !.resumed = volume.digest]
         IN  {Refused(Unfinished(resumed))} \cup
             UNION {{Sealed(resumed, d, decision), Refused([resumed EXCEPT !.digest = d])} : d \in Digests}

ResumeOutcomes(decision) ==
    IF volume.state # "failed" \/ volume.digest # decision THEN {Refused(volume)}
    ELSE LET resumed == [volume EXCEPT !.resumed = volume.digest]
         IN  {Refused(Unfinished(resumed))} \cup
             UNION {{Sealed(resumed, d, decision), Refused([resumed EXCEPT !.digest = d])} : d \in Digests}

VerifyOutcomes ==
    IF volume.state = "completed" /\ volume.intact
    THEN {[volume |-> [volume EXCEPT !.verified = TRUE], message |-> Message("verified", None, volume.digest)]}
    ELSE {Refused(volume)}

Outcomes(p) ==
    CASE p.action = "start" -> StartOutcomes
      [] p.action = "resume" -> ResumeOutcomes(p.decision)
      [] p.action = "verify" -> VerifyOutcomes

\* A message that says blocked comes with a non-zero exit code.
RunnerEnds(p) ==
    /\ p.state = "running"
    /\ \E o \in Outcomes(p) :
          /\ volume' = o.volume
          /\ pods' = (pods \ {p}) \cup
                     {[p EXCEPT !.state = IF o.message = Blocked THEN "failed" ELSE "succeeded", !.message = o.message]}
    /\ UNCHANGED <<valid, approval, status, jobs, uids, mgr, faults>>

(***************************************************************************)
(* The Job controller.                                                     *)
(***************************************************************************)
NewPod(j, i) == [id |-> i, job |-> j.uid, action |-> j.action, decision |-> j.decision,
                 state |-> "running", message |-> None]

PodStarts(j) ==
    /\ j.ours /\ j.condition = "active" /\ \A p \in pods : p.job # j.uid
    /\ pods' = pods \cup {NewPod(j, 0)}
    /\ UNCHANGED <<valid, approval, status, jobs, volume, uids, mgr, faults>>

JobEnds(j) ==
    /\ j.condition = "active"
    /\ \E p \in pods :
          /\ p.job = j.uid /\ p.state # "running"
          /\ jobs' = (jobs \ {j}) \cup
                     {[j EXCEPT !.condition = IF p.state = "succeeded" THEN "complete" ELSE "failed"]}
    /\ UNCHANGED <<valid, approval, status, pods, volume, uids, mgr, faults>>

(***************************************************************************)
(* What goes wrong, MaxFaults times.                                       *)
(***************************************************************************)
Fault == faults < MaxFaults /\ faults' = faults + 1

\* A manager stops, or a request of its reconcile fails.
ReconcileAborts(m) ==
    /\ mgr[m].pc # "idle" /\ Fault
    /\ Becomes(m, Idle)
    /\ UNCHANGED <<valid, approval, status, jobs, pods, volume, uids>>

\* The Job is created but the answer is lost.
CreateAnswerLost(m) ==
    /\ mgr[m].pc = "create" /\ ~NameTaken(mgr[m].action) /\ Fault
    /\ NewJob(mgr[m].action, TRUE, IF mgr[m].action = "resume" THEN mgr[m].approval ELSE None)
    /\ Becomes(m, Idle)
    /\ UNCHANGED <<valid, approval, status, pods, volume>>

\* The runner is killed on the way, or its message is lost.
RunnerKilled(p) ==
    /\ p.state = "running" /\ Fault
    /\ volume' \in {volume} \cup {o.volume : o \in Outcomes(p)}
    /\ \E s \in {"failed", "succeeded"} : pods' = (pods \ {p}) \cup {[p EXCEPT !.state = s]}
    /\ UNCHANGED <<valid, approval, status, jobs, uids, mgr>>

\* The deadline passes; the Pod is given time to end.
DeadlineExceeded(j) ==
    /\ j.condition = "active" /\ Fault
    /\ jobs' = (jobs \ {j}) \cup {[j EXCEPT !.condition = "failed"]}
    /\ UNCHANGED <<valid, approval, status, pods, volume, uids, mgr>>

\* Others delete or add Jobs and Pods with the run's labels.
JobDeleted(j) ==
    /\ Fault /\ jobs' = jobs \ {j}
    /\ UNCHANGED <<valid, approval, status, pods, volume, uids, mgr>>

PodDeleted(p) ==
    /\ Fault /\ pods' = pods \ {p}
    /\ UNCHANGED <<valid, approval, status, jobs, volume, uids, mgr>>

ForeignJob(action) ==
    /\ Fault /\ NewJob(action, FALSE, None)
    /\ UNCHANGED <<valid, approval, status, pods, volume, mgr>>

SecondPod(j) ==
    /\ Fault /\ j.ours /\ j.condition = "active" /\ \E p \in pods : p.job = j.uid
    /\ \E i \in 1..MaxFaults :
          /\ \A p \in pods : p.job = j.uid => p.id # i
          /\ pods' = pods \cup {NewPod(j, i)}
    /\ UNCHANGED <<valid, approval, status, jobs, volume, uids, mgr>>

\* Somebody changes files the evidence binds.
EvidenceEdited ==
    /\ volume.state \in {"failed", "completed"} /\ Fault
    /\ IF volume.state = "failed" THEN \E d \in Digests \ {volume.digest} : volume' = [volume EXCEPT !.digest = d]
       ELSE volume' = [volume EXCEPT !.intact = FALSE]
    /\ UNCHANGED <<valid, approval, status, jobs, pods, uids, mgr>>

ManagerStep(m) ==
    \/ LoadBoundJob(m) \/ AuditPods(m) \/ ReadStepResult(m)
    \/ ListJobs(m) \/ CreateJob(m) \/ ObserveJob(m) \/ GetJob(m) \/ BindJob(m) \/ PersistStatus(m)

ClusterStep == (\E p \in pods : RunnerEnds(p)) \/ (\E j \in jobs : PodStarts(j) \/ JobEnds(j))

Disturbance ==
    \/ \E m \in Managers : ReconcileAborts(m) \/ CreateAnswerLost(m)
    \/ \E p \in pods : RunnerKilled(p) \/ PodDeleted(p)
    \/ \E j \in jobs : DeadlineExceeded(j) \/ JobDeleted(j) \/ SecondPod(j)
    \/ \E a \in Actions : ForeignJob(a)
    \/ EvidenceEdited

Next == (\E m \in Managers : Reconcile(m) \/ ManagerStep(m)) \/ Approve \/ ClusterStep \/ Disturbance

Spec == Init /\ [][Next]_vars

=============================================================================
