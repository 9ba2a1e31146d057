---------------------------- MODULE RecordProofs ----------------------------
(***************************************************************************)
(* Proofs about the records that outlive the program that writes them.     *)
(*                                                                         *)
(* The status of an AgentRun, for every number of managers, Jobs and       *)
(* faults.  The strengthening says what a copy of the resource is worth    *)
(* once it is stale: the decision it was approved with is still the        *)
(* approved one, the sealed run it has read of is still sealed, and what   *)
(* it would write is a step of the lifecycle from the status it has read.  *)
(*                                                                         *)
(* The result of a step, StepResult, and the files of a commit,            *)
(* EventFiles, for every number of files, events, failures and crashes.    *)
(***************************************************************************)
EXTENDS AgentRunProperties, StepResult, EventFiles, FiniteSetTheorems, TLAPS

USE ZenonT(60)

Unexpected == {"MissingStartJob", "ApprovalMismatch", "ApprovalBindingChanged"}

\* The phases of a run whose execution spec was accepted.
Admitted == {"Running", "AwaitingApproval", "Verifying", "Succeeded"}

\* A status s and the approval a as the reconciler and the CRD's rules keep them together.
Consistent(s, a) ==
    /\ s.phase = None => s.ref = None /\ s.decision = None
    /\ s.phase \in Admitted => s.ref # None
    /\ s.phase = "Running" =>
          s.ref.action \in {"start", "resume"} /\ a = s.decision /\ (s.ref.action = "start" <=> a = None)
    /\ s.phase = "AwaitingApproval" => s.ref.action = "start" /\ s.decision # None /\ a \in {None, s.decision}
    /\ s.phase \in {"Verifying", "Succeeded"} => s.ref.action = "verify" /\ a = s.decision
    /\ s.reason \notin Unexpected

\* d was published and approved; neither is ever taken back.
Granted(d) == d # None /\ approval = d /\ status.decision = d

\* The run directory is sealed with bundle digest b; it stays so.
SealedAs(b) == volume.state = "completed" /\ volume.digest = b

\* What the phase of s takes for granted of the rest of the world.
Backed(s) ==
    /\ s.phase \in Admitted => valid
    /\ s.phase \in {"Verifying", "Succeeded"} => SealedAs(s.bundle)
    /\ s.phase = "Succeeded" => volume.verified

ResourceInv == Consistent(status, approval) /\ Backed(status)

JobInv ==
    /\ \A j \in jobs : j.uid <= uids /\ (j.ours /\ j.action = "resume" => Granted(j.decision))
    /\ \A j, k \in jobs : j.uid = k.uid => j = k

\* What a termination message says is so, and stays so.
Truthful(told) ==
    /\ told.outcome = "awaiting_approval" => told.decision # None
    /\ told.outcome \in {"completed", "verified"} => SealedAs(told.bundle)
    /\ told.outcome = "verified" => volume.verified

RunnerInv ==
    /\ \A p \in pods : p.action = "resume" => Granted(p.decision)
    /\ \A p \in pods : p.message # None => Truthful(p.message)
    /\ volume.resumed # None => Granted(volume.resumed)

(***************************************************************************)
(* A reconcile r.  Ensuring: it makes sure that there is a Job.            *)
(***************************************************************************)
Bounding == {"load", "audit", "read"}

Ensuring == {"list", "create", "observe", "get", "bind"}

\* What persistStatus would do to the phase, the bound Job and the decision.
Follows(old, run, a) ==
    LET kept == run.ref = old.ref /\ run.decision = old.decision
        bind == run.ref # None /\ run.decision = old.decision
    IN  \/ run.phase = old.phase /\ kept
        \/ run.phase = "Blocked" /\ old.phase # "Succeeded" /\ kept
        \/ run.phase = "Running" /\ old.phase = None /\ a = None /\ bind /\ run.ref.action = "start"
        \/ /\ run.phase = "AwaitingApproval" /\ old.phase = "Running" /\ old.ref.action = "start"
           /\ run.ref = old.ref /\ run.decision # None
        \/ run.phase = "Running" /\ old.phase = "AwaitingApproval" /\ a # None /\ bind /\ run.ref.action = "resume"
        \/ run.phase = "Verifying" /\ old.phase = "Running" /\ bind /\ run.ref.action = "verify"
        \/ run.phase = "Succeeded" /\ old.phase = "Verifying" /\ kept

Copied(r) ==
    /\ Consistent(r.old, r.approval) /\ Backed(r.old) /\ r.old.phase # "Blocked"
    /\ r.fresh => r.old = status /\ r.approval = approval
    /\ r.approval # None /\ r.old.phase # None => Granted(r.approval)

Bounds(r) ==
    /\ r.run = r.old /\ r.old.ref # None /\ r.action = r.old.ref.action
    /\ r.old.phase \in {"Running", "AwaitingApproval", "Verifying"}
    /\ r.pc = "audit" => r.condition # None
    /\ r.pc = "read" => r.old.phase # "AwaitingApproval"

Ensures(r) ==
    /\ \/ r.action = "start" /\ r.run = r.old /\ r.old.phase = None /\ r.approval = None /\ valid
       \/ r.action = "resume" /\ r.run = r.old /\ r.old.phase = "AwaitingApproval" /\ r.approval # None
       \/ /\ r.action = "verify" /\ r.old.phase = "Running" /\ SealedAs(r.run.bundle)
          /\ r.run = [r.old EXCEPT !.bundle = r.run.bundle]
    /\ r.pc \in {"get", "bind"} => r.uid # None

Persists(r) == Follows(r.old, r.run, r.approval) /\ Consistent(r.run, r.approval) /\ Backed(r.run)

ReconcileInv(r) ==
    r.pc # "idle" =>
        /\ Copied(r)
        /\ r.pc \in Bounding => Bounds(r)
        /\ r.pc \in Ensuring => Ensures(r)
        /\ r.pc = "persist" => Persists(r)

(***************************************************************************)
(* Without a fault.                                                        *)
(***************************************************************************)
CalmReasons == {"InvalidExecutionSpec", "PreseededApproval", "JobFailed"}

CalmStatus(s) ==
    /\ s.ref # None => \E j \in jobs : j.action = s.ref.action /\ j.uid = s.ref.uid
    /\ s.phase = "Blocked" => s.reason \in CalmReasons

\* The message of a runner that has succeeded is the one its action is to end with.
Expected(p) ==
    /\ p.message # None
    /\ p.action = "start" => p.message.outcome \in {"awaiting_approval", "completed"}
    /\ p.action = "resume" => p.message.outcome = "completed" /\ p.message.decision = p.decision
    /\ p.action = "verify" => p.message.outcome = "verified"

CalmWork ==
    /\ \A j \in jobs : j.ours
    /\ \A j, k \in jobs : j.action = k.action => j = k
    /\ \A p \in pods : \E j \in jobs : j.uid = p.job /\ j.action = p.action
    /\ \A p, q \in pods : p.job = q.job => p = q
    /\ \A p \in pods : p.state = "succeeded" => Expected(p)
    /\ \A j \in jobs : j.condition = "complete" => \E p \in pods : p.job = j.uid /\ p.state = "succeeded"

CalmReconcile(r) ==
    r.pc # "idle" =>
        /\ CalmStatus(r.run)
        /\ r.pc \in {"audit", "read"} => r.uid = r.run.ref.uid
        /\ r.pc = "read" \/ (r.pc = "audit" /\ r.condition = "complete") =>
              \E j \in jobs : j.action = r.action /\ j.uid = r.uid /\ j.condition = "complete"
        /\ r.pc = "observe" => \E j \in jobs : j.action = r.action
        /\ r.pc \in {"get", "bind"} => \E j \in jobs : j.action = r.action /\ j.uid = r.uid

Calm == faults = 0 => CalmWork /\ CalmStatus(status) /\ \A m \in Managers : CalmReconcile(mgr[m])

ControlInv ==
    TypeOK /\ ResourceInv /\ JobInv /\ RunnerInv /\ (\A m \in Managers : ReconcileInv(mgr[m])) /\ Calm

(***************************************************************************)
(* What steps keep.                                                        *)
(***************************************************************************)
\* r and q are the same reconcile, but for the freshness of its copy.
SameCopy(r, q) ==
    /\ r.pc = q.pc /\ r.run = q.run /\ r.old = q.old /\ r.approval = q.approval
    /\ r.action = q.action /\ r.uid = q.uid /\ r.condition = q.condition

GrantKept ==
    approval # None /\ approval = status.decision => approval' = approval /\ status'.decision = status.decision

SealKept ==
    volume.state = "completed" =>
        volume'.state = "completed" /\ volume'.digest = volume.digest /\ (volume.verified => volume'.verified)

JobsKept ==
    \A j \in jobs : \E k \in jobs' :
        j.action = k.action /\ j.uid = k.uid /\ (j.condition = "complete" => k.condition = "complete")

\* A reconcile that does not move keeps its invariant while grants and seals are kept.
LEMMA ReconcileKept ==
    ASSUME NEW k \in Managers, ReconcileInv(mgr[k]), SameCopy(mgr'[k], mgr[k]),
           mgr'[k].fresh => mgr[k].fresh /\ status' = status /\ approval' = approval,
           valid' = valid, GrantKept, SealKept
    PROVE  ReconcileInv(mgr[k])'
<1>1. Copied(mgr[k]) => Copied(mgr[k])'
  BY DEF Copied, Backed, SealedAs, Granted, SameCopy, GrantKept, SealKept
<1>2. Bounds(mgr[k]) => Bounds(mgr[k])'
  BY DEF Bounds, SameCopy
<1>3. Ensures(mgr[k]) => Ensures(mgr[k])'
  BY DEF Ensures, SealedAs, SameCopy, SealKept
<1>4. Persists(mgr[k]) => Persists(mgr[k])'
  BY DEF Persists, Backed, SealedAs, SameCopy, SealKept
<1> QED BY <1>1, <1>2, <1>3, <1>4 DEF ReconcileInv, SameCopy

\* The same without a fault, while no Job is lost.
LEMMA CalmReconcileKept ==
    ASSUME NEW k \in Managers, CalmReconcile(mgr[k]), SameCopy(mgr'[k], mgr[k]), JobsKept
    PROVE  CalmReconcile(mgr[k])'
BY SMTT(60) DEF CalmReconcile, CalmStatus, SameCopy, JobsKept

LEMMA CalmStatusKept ==
    ASSUME CalmStatus(status), status' = status, JobsKept
    PROVE  CalmStatus(status)'
BY DEF CalmStatus, JobsKept

\* A reconcile makes a local step.
LEMMA LocalStep ==
    ASSUME ControlInv, NEW m \in Managers, NEW r \in Reconciles, Becomes(m, r),
           ReconcileInv(r), faults = 0 => CalmReconcile(r),
           UNCHANGED <<valid, approval, status, jobs, pods, volume, uids>>,
           faults' \in {faults, faults + 1}, faults' \in 0..MaxFaults
    PROVE  ControlInv'
<1>1. TypeOK'
  BY DEF ControlInv, TypeOK, Becomes
<1>2. ResourceInv' /\ JobInv' /\ RunnerInv'
  BY DEF ControlInv, ResourceInv, JobInv, RunnerInv, Backed, SealedAs, Granted, Truthful
<1>3. /\ mgr'[m] = r
      /\ \A k \in Managers \ {m} : mgr'[k] = mgr[k]
  BY DEF Becomes, ControlInv, TypeOK
<1>4. ASSUME NEW k \in Managers PROVE ReconcileInv(mgr[k])'
  <2>1. CASE k = m
    BY <1>3, <2>1 DEF ReconcileInv, Copied, Bounds, Ensures, Persists, Backed, SealedAs, Granted
  <2>2. CASE k # m
    BY <1>3, <2>2, ReconcileKept DEF ControlInv, SameCopy, GrantKept, SealKept
  <2> QED BY <2>1, <2>2
<1>5. Calm'
  <2>1. SUFFICES ASSUME faults' = 0
                 PROVE  CalmWork' /\ CalmStatus(status)' /\ \A k \in Managers : CalmReconcile(mgr[k])'
    BY DEF Calm
  <2>2. faults = 0
    BY SMTT(60), <2>1 DEF ControlInv, TypeOK
  <2>3. CalmWork' /\ CalmStatus(status)'
    BY <2>2 DEF ControlInv, Calm, CalmWork, CalmStatus, Expected
  <2>4. ASSUME NEW k \in Managers PROVE CalmReconcile(mgr[k])'
    <3>1. CASE k = m
      BY <1>3, <2>2, <3>1 DEF CalmReconcile, CalmStatus
    <3>2. CASE k # m
      BY <1>3, <2>2, <3>2, CalmReconcileKept DEF ControlInv, Calm, SameCopy, JobsKept
    <3> QED BY <3>1, <3>2
  <2> QED BY <2>3, <2>4
<1> QED BY <1>1, <1>2, <1>4, <1>5 DEF ControlInv

\* A status goes to persistStatus.
LEMMA SendStep ==
    ASSUME ControlInv, NEW m \in Managers, mgr[m].pc # "idle", NEW run \in Statuses, Send(m, run),
           Follows(mgr[m].old, run, mgr[m].approval), Consistent(run, mgr[m].approval), Backed(run),
           faults = 0 => CalmStatus(run),
           UNCHANGED <<valid, approval, status, jobs, pods, volume, uids, faults>>
    PROVE  ControlInv'
<1> DEFINE r == [mgr[m] EXCEPT !.pc = "persist", !.run = run]
<1>1. mgr[m] \in Reconciles /\ ReconcileInv(mgr[m])
  BY DEF ControlInv, TypeOK
<1>2. r \in Reconciles /\ r.pc = "persist" /\ r.run = run /\ r.old = mgr[m].old
      /\ r.approval = mgr[m].approval /\ r.fresh = mgr[m].fresh
  BY <1>1 DEF Reconciles
<1>3. Becomes(m, r)
  BY DEF Send
<1>. HIDE DEF r
<1>4. ReconcileInv(r)
  BY <1>1, <1>2 DEF ReconcileInv, Copied, Persists, Bounding, Ensuring
<1>5. faults = 0 => CalmReconcile(r)
  BY <1>2 DEF CalmReconcile
<1>6. faults' \in {faults, faults + 1} /\ faults' \in 0..MaxFaults
  BY DEF ControlInv, TypeOK
<1> QED BY <1>2, <1>3, <1>4, <1>5, <1>6, LocalStep

\* A reconcile moves on with some of its locals changed.
LEMMA MoveStep ==
    ASSUME ControlInv, NEW m \in Managers, NEW r \in Reconciles, Becomes(m, r), mgr[m].pc # "idle",
           r.pc # "idle", r.old = mgr[m].old, r.approval = mgr[m].approval, r.fresh = mgr[m].fresh,
           r.pc \in Bounding => Bounds(r), r.pc \in Ensuring => Ensures(r), r.pc # "persist",
           faults = 0 => CalmReconcile(r),
           UNCHANGED <<valid, approval, status, jobs, pods, volume, uids, faults>>
    PROVE  ControlInv'
<1>1. ReconcileInv(mgr[m])
  BY DEF ControlInv
<1>2. ReconcileInv(r)
  BY <1>1 DEF ReconcileInv, Copied
<1>3. faults' \in {faults, faults + 1} /\ faults' \in 0..MaxFaults
  BY DEF ControlInv, TypeOK
<1> QED BY <1>2, <1>3, LocalStep

\* A reconcile blocks the run, for a reason that there can be.
LEMMA BlockStep ==
    ASSUME ControlInv, NEW m \in Managers, mgr[m].pc \in Bounding \cup Ensuring,
           NEW reason \in Reasons \ Unexpected, Block(m, reason), faults = 0 => reason \in CalmReasons,
           UNCHANGED <<valid, approval, status, jobs, pods, volume, uids, faults>>
    PROVE  ControlInv'
<1> DEFINE run == SetPhase(mgr[m].run, "Blocked", reason)
<1>1. mgr[m] \in Reconciles /\ ReconcileInv(mgr[m]) /\ mgr[m].pc # "idle"
  BY DEF ControlInv, TypeOK, Bounding, Ensuring
<1>2. mgr[m].run \in Statuses
  BY <1>1 DEF Reconciles
<1>3. /\ run \in Statuses /\ run.phase = "Blocked" /\ run.reason = reason
      /\ run.ref = mgr[m].run.ref /\ run.decision = mgr[m].run.decision
  BY <1>2 DEF SetPhase, Statuses, Phases, Maybe
<1>4. Send(m, run)
  BY DEF Block
<1>. HIDE DEF run
<1>5. run.ref = mgr[m].old.ref /\ run.decision = mgr[m].old.decision /\ mgr[m].old.phase # "Succeeded"
  <2>1. mgr[m].old \in Statuses
    BY <1>1 DEF Reconciles
  <2> QED BY <1>1, <1>3, <2>1, ControlAssumption DEF ReconcileInv, Bounds, Ensures, Statuses, Phases
<1>6. Follows(mgr[m].old, run, mgr[m].approval)
  BY <1>3, <1>5 DEF Follows
<1>7. Consistent(run, mgr[m].approval) /\ Backed(run)
  BY <1>3, ControlAssumption DEF Consistent, Backed, Admitted, Phases, Unexpected
<1>8. faults = 0 => CalmStatus(run)
  BY SMTT(60), <1>1, <1>3 DEF ControlInv, Calm, CalmReconcile, CalmStatus
<1> QED BY <1>1, <1>3, <1>4, <1>6, <1>7, <1>8, SendStep

(***************************************************************************)
(* Reconcile.                                                              *)
(***************************************************************************)
LEMMA IdleType == Idle \in Reconciles /\ Idle.pc = "idle" /\ NoStatus \in Statuses
BY ControlAssumption DEF Idle, NoStatus, Reconciles, Statuses, Maybe

\* The checks on the consistency of the resource with itself never fire.
LEMMA RefusalFacts ==
    ASSUME ControlInv
    PROVE  /\ Refusal \in {None, "InvalidExecutionSpec", "PreseededApproval"}
           /\ Refusal = None => valid /\ ~Preseeded(status, approval)
           /\ Refusal # None => status.phase \notin Admitted
<1>1. status \in Statuses /\ Consistent(status, approval) /\ (status.phase \in Admitted => valid)
  BY DEF ControlInv, TypeOK, ResourceInv, Backed
<1>2. None \notin {"InvalidExecutionSpec", "PreseededApproval"}
  BY ControlAssumption DEF Reasons
<1>3. CASE ~valid
  BY <1>1, <1>2, <1>3 DEF Refusal
<1>4. CASE valid /\ Preseeded(status, approval)
  BY <1>1, <1>2, <1>4, ControlAssumption DEF Refusal, Preseeded, Admitted, Phases
<1>5. CASE valid /\ ~Preseeded(status, approval)
  BY <1>1, <1>2, <1>5 DEF Refusal, Consistent, Admitted
<1> QED BY <1>3, <1>4, <1>5

\* A reconcile begins with a copy of the resource, which it trusts.
LEMMA BeginStep ==
    ASSUME ControlInv, NEW m \in Managers, NEW r \in Reconciles, Becomes(m, r), status.phase # "Blocked",
           r.old = status, r.approval = approval,
           r.pc \in Bounding => Bounds(r), r.pc \in Ensuring => Ensures(r), r.pc = "persist" => Persists(r),
           faults = 0 => CalmReconcile(r),
           UNCHANGED <<valid, approval, status, jobs, pods, volume, uids, faults>>
    PROVE  ControlInv'
<1>1. approval # None /\ status.phase # None => Granted(approval)
  BY DEF ControlInv, TypeOK, ResourceInv, Consistent, Statuses, Maybe, Phases, Granted
<1>2. Copied(r)
  BY <1>1 DEF ControlInv, ResourceInv, Copied
<1>3. faults' \in {faults, faults + 1} /\ faults' \in 0..MaxFaults
  BY DEF ControlInv, TypeOK
<1> QED BY <1>2, <1>3, LocalStep DEF ReconcileInv

LEMMA ReconcileStep ==
    ASSUME ControlInv, NEW m \in Managers, Reconcile(m)
    PROVE  ControlInv'
<1> DEFINE copy == [Idle EXCEPT !.run = status, !.old = status, !.approval = approval, !.fresh = TRUE]
<1>1. status \in Statuses /\ approval \in Maybe(Digests) /\ Consistent(status, approval) /\ Backed(status)
      /\ status.phase # "Blocked" /\ (faults = 0 => CalmStatus(status))
  BY DEF ControlInv, TypeOK, ResourceInv, Reconcile, Calm
<1>2. copy \in Reconciles /\ copy.run = status /\ copy.old = status /\ copy.approval = approval
  BY <1>1, IdleType DEF Reconciles
<1>. HIDE DEF copy
<1>3. CASE Refusal # None /\ Becomes(m, [copy EXCEPT !.pc = "persist", !.run = SetPhase(status, "Blocked", Refusal)])
  <2> DEFINE run == SetPhase(status, "Blocked", Refusal)
             r == [copy EXCEPT !.pc = "persist", !.run = run]
  <2>1. /\ run \in Statuses /\ run.phase = "Blocked" /\ run.reason \in {"InvalidExecutionSpec", "PreseededApproval"}
        /\ run.ref = status.ref /\ run.decision = status.decision
    BY <1>1, <1>3, RefusalFacts DEF SetPhase, Statuses, Phases, Reasons, Maybe
  <2>. HIDE DEF run
  <2>2. r \in Reconciles /\ r.pc = "persist" /\ r.run = run /\ r.old = status /\ r.approval = approval
    BY <1>2, <2>1 DEF Reconciles
  <2>3. Becomes(m, r)
    BY <1>3 DEF run
  <2>. HIDE DEF r
  <2>4. Follows(status, run, approval) /\ Consistent(run, approval) /\ Backed(run)
    BY <1>3, <2>1, RefusalFacts, ControlAssumption
       DEF Follows, Consistent, Backed, Admitted, Phases, Unexpected
  <2>5. faults = 0 => CalmReconcile(r)
    BY <1>1, <2>1, <2>2 DEF CalmReconcile, CalmStatus, CalmReasons
  <2> QED BY <1>1, <2>2, <2>3, <2>4, <2>5, BeginStep DEF Persists, Bounding, Ensuring, Reconcile
<1>4. CASE Refusal = None /\ status.ref = None /\ Becomes(m, [copy EXCEPT !.pc = "list", !.action = "start"])
  <2> DEFINE r == [copy EXCEPT !.pc = "list", !.action = "start"]
  <2>1. r \in Reconciles /\ r.pc = "list" /\ r.action = "start" /\ r.run = status /\ r.old = status
        /\ r.approval = approval
    BY <1>2 DEF Reconciles, Maybe, Actions
  <2>2. Becomes(m, r)
    BY <1>4
  <2>. HIDE DEF r
  <2>3. status.phase = None /\ approval = None /\ valid
    BY <1>1, <1>4, RefusalFacts DEF Consistent, Preseeded, Admitted, Statuses, Maybe, Phases
  <2>4. faults = 0 => CalmReconcile(r)
    BY <1>1, <2>1 DEF CalmReconcile
  <2> QED BY <1>1, <2>1, <2>2, <2>3, <2>4, BeginStep DEF Ensures, Bounding, Ensuring, Reconcile
<1>5. CASE /\ Refusal = None /\ status.ref # None /\ status.phase # "Succeeded"
           /\ Becomes(m, [copy EXCEPT !.pc = "load", !.action = status.ref.action])
  <2> DEFINE r == [copy EXCEPT !.pc = "load", !.action = status.ref.action]
  <2>1. r \in Reconciles /\ r.pc = "load" /\ r.action = status.ref.action /\ r.run = status /\ r.old = status
        /\ r.approval = approval
    BY <1>1, <1>2, <1>5 DEF Reconciles, Maybe, Statuses, References
  <2>2. Becomes(m, r)
    BY <1>5
  <2>. HIDE DEF r
  <2>3. status.phase \in {"Running", "AwaitingApproval", "Verifying"}
    BY <1>1, <1>5 DEF Consistent, Statuses, Maybe, Phases
  <2>4. faults = 0 => CalmReconcile(r)
    BY <1>1, <2>1 DEF CalmReconcile
  <2> QED BY <1>1, <1>5, <2>1, <2>2, <2>3, <2>4, BeginStep DEF Bounds, Bounding, Ensuring, Reconcile
<1> QED BY <1>3, <1>4, <1>5 DEF Reconcile, copy

(***************************************************************************)
(* reconcileApproval and reconcileActiveJob.                               *)
(***************************************************************************)
\* Without a fault there is one Job of an action, and its Pods are its own.
LEMMA CalmOne ==
    ASSUME CalmWork, JobInv, NEW j \in jobs
    PROVE  /\ Of(jobs, j.action) = {j} /\ ~Several(Of(jobs, j.action)) /\ j.ours
           /\ \A p \in Of(pods, j.action) : p.job = j.uid
           /\ PodSetSound(j.action, j.uid)
<1>1. Of(jobs, j.action) = {j} /\ j.ours
  BY DEF CalmWork, Of
<1>2. \A p \in Of(pods, j.action) : p.job = j.uid
  BY SMTT(60) DEF CalmWork, Of
<1>3. \A p, q \in Of(pods, j.action) : p = q
  BY SMTT(60), <1>2 DEF CalmWork, Of
<1> QED BY <1>1, <1>2, <1>3 DEF PodSetSound, Several

LEMMA LoadStep ==
    ASSUME ControlInv, NEW m \in Managers, LoadBoundJob(m)
    PROVE  ControlInv'
<1> DEFINE found == Of(jobs, mgr[m].action)
           j == The(found)
           r == [mgr[m] EXCEPT !.pc = "audit", !.uid = j.uid, !.condition = j.condition]
<1>1. mgr[m] \in Reconciles /\ mgr[m].pc = "load" /\ Bounds(mgr[m]) /\ mgr[m].pc \in Bounding
  BY DEF ControlInv, TypeOK, ReconcileInv, Bounding, LoadBoundJob
<1>2. ASSUME faults = 0
      PROVE  \E k \in jobs : found = {k} /\ j = k /\ k.ours /\ k.uid = mgr[m].run.ref.uid /\ ~Several(found)
  <2>1. CalmWork /\ JobInv /\ CalmReconcile(mgr[m])
    BY <1>2 DEF ControlInv, Calm
  <2>2. PICK k \in jobs : k.action = mgr[m].action /\ k.uid = mgr[m].run.ref.uid
    BY <1>1, <2>1 DEF CalmReconcile, CalmStatus, Bounds
  <2> QED BY SMTT(60), <2>1, <2>2, CalmOne DEF The
<1>3. CASE Several(found)
  BY <1>1, <1>2, <1>3, BlockStep DEF LoadBoundJob, Reasons, Unexpected
<1>4. CASE ~Several(found) /\ (found = {} \/ ~j.ours \/ j.uid # mgr[m].run.ref.uid)
  <2>1. Block(m, "JobBindingMismatch") /\ faults # 0
    BY <1>2, <1>4 DEF LoadBoundJob
  <2>. HIDE DEF found, j
  <2> QED BY <1>1, <2>1, BlockStep DEF LoadBoundJob, Reasons, Unexpected
<1>5. CASE ~Several(found) /\ ~(found = {} \/ ~j.ours \/ j.uid # mgr[m].run.ref.uid)
  <2>1. j \in jobs /\ j.action = mgr[m].action /\ j \in Jobs /\ j.uid = mgr[m].run.ref.uid
    BY <1>5 DEF The, Of, ControlInv, TypeOK
  <2>2. Becomes(m, r)
    BY <1>5 DEF LoadBoundJob
  <2>. HIDE DEF j
  <2>3. /\ r \in Reconciles /\ r.pc = "audit" /\ r.uid = j.uid /\ r.condition = j.condition
        /\ r.run = mgr[m].run /\ r.old = mgr[m].old /\ r.approval = mgr[m].approval /\ r.fresh = mgr[m].fresh
        /\ r.action = mgr[m].action
    BY <1>1, <2>1 DEF Reconciles, Jobs, Maybe
  <2>. HIDE DEF r
  <2>4. Bounds(r)
    BY <1>1, <2>1, <2>3, ControlAssumption DEF Bounds, Jobs
  <2>5. faults = 0 => CalmReconcile(r)
    BY <1>1, <2>1, <2>3 DEF ControlInv, Calm, CalmReconcile
  <2> QED BY <1>1, <2>2, <2>3, <2>4, <2>5, MoveStep DEF LoadBoundJob, Ensuring
<1> QED BY <1>3, <1>4, <1>5

\* A reconcile goes on to ensureJob.
LEMMA EnsureStep ==
    ASSUME ControlInv, NEW m \in Managers, mgr[m].pc \in Bounding, NEW run \in Statuses, NEW action \in Actions,
           Ensure(m, run, action),
           \/ action = "resume" /\ run = mgr[m].old /\ run.phase = "AwaitingApproval" /\ mgr[m].approval # None
           \/ /\ action = "verify" /\ mgr[m].old.phase = "Running" /\ SealedAs(run.bundle)
              /\ run = [mgr[m].old EXCEPT !.bundle = run.bundle],
           UNCHANGED <<valid, approval, status, jobs, pods, volume, uids, faults>>
    PROVE  ControlInv'
<1> DEFINE r == [mgr[m] EXCEPT !.pc = "list", !.run = run, !.action = action]
<1>1. mgr[m] \in Reconciles /\ mgr[m].pc # "idle" /\ mgr[m].old \in Statuses /\ Bounds(mgr[m])
  BY DEF ControlInv, TypeOK, Reconciles, Bounding, ReconcileInv
<1>2. /\ r \in Reconciles /\ r.pc = "list" /\ r.run = run /\ r.action = action
      /\ r.old = mgr[m].old /\ r.approval = mgr[m].approval /\ r.fresh = mgr[m].fresh
  BY <1>1 DEF Reconciles, Maybe
<1>3. Becomes(m, r)
  BY DEF Ensure
<1>. HIDE DEF r
<1>4. Ensures(r)
  BY <1>2 DEF Ensures
<1>5. run.ref = mgr[m].old.ref /\ run.phase = mgr[m].old.phase /\ mgr[m].run = mgr[m].old
      /\ mgr[m].old.phase # "Blocked"
  BY <1>1 DEF Statuses, Bounds
<1>6. faults = 0 => CalmReconcile(r)
  BY SMTT(60), <1>1, <1>2, <1>5 DEF ControlInv, Calm, CalmReconcile, CalmStatus
<1> QED BY <1>1, <1>2, <1>3, <1>4, <1>6, MoveStep DEF Bounding

\* SetPhase changes the phase and its reason.
LEMMA SetPhaseFacts ==
    ASSUME NEW s \in Statuses, NEW new \in Phases, NEW reason \in Reasons
    PROVE  /\ SetPhase(s, new, reason) \in Statuses
           /\ SetPhase(s, new, reason).phase = new /\ SetPhase(s, new, reason).reason = reason
           /\ SetPhase(s, new, reason).ref = s.ref /\ SetPhase(s, new, reason).decision = s.decision
           /\ SetPhase(s, new, reason).bundle = s.bundle
BY DEF SetPhase, Statuses, Maybe

\* A status is sent again with its own phase.
LEMMA SendSameStep ==
    ASSUME ControlInv, NEW m \in Managers, mgr[m].pc \in Bounding, NEW reason \in Reasons \ Unexpected,
           Send(m, SetPhase(mgr[m].run, mgr[m].run.phase, reason)),
           UNCHANGED <<valid, approval, status, jobs, pods, volume, uids, faults>>
    PROVE  ControlInv'
<1> DEFINE run == SetPhase(mgr[m].run, mgr[m].run.phase, reason)
<1>1. mgr[m].pc # "idle" /\ mgr[m].old \in Statuses /\ Bounds(mgr[m]) /\ Copied(mgr[m])
  BY DEF ControlInv, TypeOK, Reconciles, Bounding, ReconcileInv
<1>2. /\ run \in Statuses /\ run.phase = mgr[m].old.phase /\ run.reason = reason /\ run.ref = mgr[m].old.ref
      /\ run.decision = mgr[m].old.decision /\ run.bundle = mgr[m].old.bundle
  <2>1. mgr[m].run = mgr[m].old /\ mgr[m].run.phase \in Phases /\ reason \in Reasons
    BY <1>1 DEF Bounds, Phases
  <2> QED BY SMTT(60), <1>1, <2>1, SetPhaseFacts
<1>. HIDE DEF run
<1>3. Follows(mgr[m].old, run, mgr[m].approval) /\ Consistent(run, mgr[m].approval) /\ Backed(run)
  BY <1>1, <1>2 DEF Follows, Consistent, Backed, Copied
<1>4. faults = 0 => CalmStatus(run)
  BY SMTT(60), <1>1, <1>2 DEF ControlInv, Calm, CalmReconcile, CalmStatus, Bounds
<1> QED BY <1>1, <1>2, <1>3, <1>4, SendStep DEF run

LEMMA AuditStep ==
    ASSUME ControlInv, NEW m \in Managers, AuditPods(m)
    PROVE  ControlInv'
<1>1. /\ mgr[m] \in Reconciles /\ mgr[m].pc = "audit" /\ mgr[m].pc \in Bounding
      /\ Bounds(mgr[m]) /\ Copied(mgr[m]) /\ mgr[m].old \in Statuses
  BY DEF ControlInv, TypeOK, ReconcileInv, Bounding, AuditPods, Reconciles
<1>2. faults = 0 => PodSetSound(mgr[m].action, mgr[m].uid)
  <2>1. SUFFICES ASSUME faults = 0 PROVE PodSetSound(mgr[m].action, mgr[m].uid)
    OBVIOUS
  <2>2. CalmWork /\ JobInv /\ CalmReconcile(mgr[m])
    BY <2>1 DEF ControlInv, Calm
  <2>3. PICK k \in jobs : k.action = mgr[m].action /\ k.uid = mgr[m].uid
    BY <1>1, <2>2 DEF CalmReconcile, CalmStatus, Bounds
  <2> QED BY <2>2, <2>3, CalmOne
<1>3. CASE ~PodSetSound(mgr[m].action, mgr[m].uid)
  BY <1>1, <1>2, <1>3, BlockStep DEF AuditPods, Reasons, Unexpected
<1>4. CASE PodSetSound(mgr[m].action, mgr[m].uid) /\ mgr[m].run.phase = "AwaitingApproval"
  <2>1. DecideApproval(m)
    BY <1>4 DEF AuditPods
  <2>2. mgr[m].approval \in {None, mgr[m].run.decision} /\ mgr[m].run = mgr[m].old
    BY <1>1, <1>4 DEF Copied, Consistent, Bounds
  <2>3. CASE mgr[m].approval = None
    BY <1>1, <1>4, <2>1, <2>3, SendSameStep DEF DecideApproval, AuditPods, Reasons, Unexpected
  <2>4. CASE mgr[m].approval # None
    BY <1>1, <1>4, <2>1, <2>2, <2>4, EnsureStep DEF DecideApproval, AuditPods, Actions
  <2> QED BY <2>3, <2>4
<1>5. CASE PodSetSound(mgr[m].action, mgr[m].uid) /\ mgr[m].run.phase # "AwaitingApproval"
  <2>1. DecideActive(m)
    BY <1>5 DEF AuditPods
  <2>2. /\ mgr[m].run.phase = IF mgr[m].action = "verify" THEN "Verifying" ELSE "Running"
        /\ mgr[m].condition \in Conditions
    BY <1>1, <1>5 DEF Copied, Consistent, Bounds, Reconciles, Maybe
  <2>3. CASE mgr[m].condition = "failed"
    BY <1>1, <2>1, <2>3, BlockStep DEF DecideActive, AuditPods, Reasons, Unexpected, CalmReasons
  <2>4. CASE mgr[m].condition = "active"
    BY <1>1, <2>1, <2>2, <2>4, SendSameStep DEF DecideActive, AuditPods, Reasons, Unexpected
  <2>5. CASE mgr[m].condition = "complete"
    <3> DEFINE r == [mgr[m] EXCEPT !.pc = "read"]
    <3>1. /\ r \in Reconciles /\ r.pc = "read" /\ r.run = mgr[m].run /\ r.action = mgr[m].action
          /\ r.old = mgr[m].old /\ r.approval = mgr[m].approval /\ r.fresh = mgr[m].fresh /\ r.uid = mgr[m].uid
      BY <1>1 DEF Reconciles
    <3>2. Becomes(m, r)
      BY <2>1, <2>5 DEF DecideActive, Proceed
    <3>. HIDE DEF r
    <3>3. Bounds(r)
      BY <1>1, <1>5, <3>1 DEF Bounds
    <3>4. faults = 0 => CalmReconcile(r)
      BY <1>1, <2>5, <3>1 DEF ControlInv, Calm, CalmReconcile
    <3> QED BY <1>1, <3>1, <3>2, <3>3, <3>4, MoveStep DEF AuditPods, Ensuring
  <2> QED BY <2>2, <2>3, <2>4, <2>5 DEF Conditions
<1> QED BY <1>3, <1>4, <1>5

\* A result the reconcile m can go on from.
Acceptable(m, found) ==
    \/ mgr[m].action = "start" /\ found.outcome \in {"awaiting_approval", "completed"}
    \/ mgr[m].action = "resume" /\ found.outcome = "completed" /\ found.decision = mgr[m].approval
    \/ mgr[m].action = "verify" /\ found.outcome = "verified" /\ found.bundle = mgr[m].run.bundle

LEMMA AcceptStep ==
    ASSUME ControlInv, NEW m \in Managers, mgr[m].pc = "read", NEW found \in Messages, Truthful(found),
           Accept(m, found), faults = 0 => Acceptable(m, found),
           UNCHANGED <<valid, approval, status, jobs, pods, volume, uids, faults>>
    PROVE  ControlInv'
<1> DEFINE run == mgr[m].run
<1>1. /\ mgr[m].pc \in Bounding /\ mgr[m].pc # "idle" /\ run = mgr[m].old /\ run \in Statuses
      /\ Bounds(mgr[m]) /\ Copied(mgr[m]) /\ mgr[m].action = run.ref.action /\ run.phase \in {"Running", "Verifying"}
  BY DEF ControlInv, TypeOK, ReconcileInv, Bounding, Reconciles, Bounds
<1>2. /\ run.phase = "Running" <=> mgr[m].action \in {"start", "resume"}
      /\ run.phase = "Verifying" <=> mgr[m].action = "verify"
      /\ mgr[m].action = "start" => mgr[m].approval = None
      /\ Consistent(run, mgr[m].approval)
  BY <1>1 DEF Copied, Consistent
<1>3. found.decision \in Maybe(Digests) /\ found.bundle \in Maybe(Digests)
  BY DEF Messages
<1>4. CASE mgr[m].action = "start" /\ found.outcome = "awaiting_approval"
  <2> DEFINE base == [run EXCEPT !.decision = found.decision, !.bundle = None]
             new == SetPhase(base, "AwaitingApproval", "ApprovalRequired")
  <2>1. base \in Statuses /\ base.ref = run.ref /\ base.decision = found.decision
    BY <1>1, <1>3 DEF Statuses, Maybe
  <2>2. Send(m, new)
    BY <1>4 DEF Accept
  <2>. HIDE DEF base
  <2>3. /\ new \in Statuses /\ new.phase = "AwaitingApproval" /\ new.reason = "ApprovalRequired"
        /\ new.ref = run.ref /\ new.decision = found.decision
    <3>1. "AwaitingApproval" \in Phases /\ "ApprovalRequired" \in Reasons  BY DEF Phases, Reasons
    <3>2. /\ new \in Statuses /\ new.phase = "AwaitingApproval" /\ new.reason = "ApprovalRequired"
          /\ new.ref = base.ref /\ new.decision = base.decision
      <4>1. base \in Statuses  BY <2>1
      <4>2. QED  BY <3>1, <4>1, SetPhaseFacts
    <3>3. QED  BY <2>1, <3>2
  <2>. HIDE DEF new
  <2>4. found.decision # None
    BY <1>4 DEF Truthful
  <2>5. Follows(mgr[m].old, new, mgr[m].approval)
    BY <1>1, <1>2, <1>4, <2>3, <2>4 DEF Follows
  <2>6. Consistent(new, mgr[m].approval) /\ Backed(new)
    BY <1>1, <1>2, <1>4, <2>3, <2>4, ControlAssumption
       DEF Consistent, Backed, Copied, Admitted, Unexpected, Phases
  <2>7. faults = 0 => CalmStatus(new)
    BY SMTT(60), <1>1, <2>3 DEF ControlInv, Calm, CalmReconcile, CalmStatus
  <2> QED BY <1>1, <2>2, <2>3, <2>5, <2>6, <2>7, SendStep
<1>5. CASE \/ mgr[m].action = "start" /\ found.outcome = "completed"
           \/ mgr[m].action = "resume" /\ found.outcome = "completed" /\ found.decision = mgr[m].approval
  <2> DEFINE new == [run EXCEPT !.bundle = found.bundle]
  <2>1. new \in Statuses /\ new.bundle = found.bundle
    BY <1>1, <1>3 DEF Statuses
  <2>2. Ensure(m, new, "verify")
    BY <1>5 DEF Accept
  <2>3. SealedAs(new.bundle) /\ new = [mgr[m].old EXCEPT !.bundle = new.bundle]
    BY <1>1, <1>5, <2>1 DEF Truthful
  <2>. HIDE DEF new
  <2> QED BY <1>1, <1>2, <1>5, <2>1, <2>2, <2>3, EnsureStep DEF Actions
<1>6. CASE mgr[m].action = "verify" /\ found.outcome = "verified" /\ found.bundle = run.bundle
  <2> DEFINE new == SetPhase(run, "Succeeded", "Verified")
  <2>1. /\ new \in Statuses /\ new.phase = "Succeeded" /\ new.reason = "Verified"
        /\ new.ref = run.ref /\ new.decision = run.decision /\ new.bundle = run.bundle
    <3>1. "Succeeded" \in Phases /\ "Verified" \in Reasons  BY DEF Phases, Reasons
    <3>2. QED  BY <1>1, <3>1, SetPhaseFacts
  <2>2. Send(m, new)
    BY <1>6 DEF Accept
  <2>. HIDE DEF new
  <2>3. Follows(mgr[m].old, new, mgr[m].approval)
    BY <1>1, <1>2, <1>6, <2>1 DEF Follows
  <2>4. SealedAs(new.bundle) /\ volume.verified
    BY <1>6, <2>1 DEF Truthful
  <2>5. Consistent(new, mgr[m].approval) /\ Backed(new)
    BY <1>1, <1>2, <1>6, <2>1, <2>4, ControlAssumption
       DEF Consistent, Backed, Copied, Admitted, Unexpected, Phases
  <2>6. faults = 0 => CalmStatus(new)
    BY SMTT(60), <1>1, <2>1 DEF ControlInv, Calm, CalmReconcile, CalmStatus
  <2> QED BY <1>1, <2>1, <2>2, <2>3, <2>5, <2>6, SendStep
<1>7. CASE ~Acceptable(m, found)
  <2>1. Block(m, "UnexpectedResult")
    BY <1>7 DEF Accept, Acceptable
  <2> QED BY <1>1, <1>7, <2>1, BlockStep DEF Reasons, Unexpected
<1> QED BY <1>4, <1>5, <1>6, <1>7 DEF Acceptable

LEMMA ReadStep ==
    ASSUME ControlInv, NEW m \in Managers, ReadStepResult(m)
    PROVE  ControlInv'
<1> DEFINE found == Of(pods, mgr[m].action)
           p == The(found)
           bad == found = {} \/ Several(found) \/ p.job # mgr[m].uid \/ p.message = None
<1>1. /\ mgr[m] \in Reconciles /\ mgr[m].pc = "read" /\ mgr[m].pc \in Bounding
      /\ Bounds(mgr[m]) /\ Copied(mgr[m])
  BY DEF ControlInv, TypeOK, ReconcileInv, Bounding, ReadStepResult
<1>2. ASSUME faults = 0
      PROVE  p \in pods /\ found # {} /\ ~Several(found) /\ p.job = mgr[m].uid /\ p.message # None
             /\ Acceptable(m, p.message)
  <2>1. CalmWork /\ JobInv /\ RunnerInv /\ CalmReconcile(mgr[m])
    BY <1>2 DEF ControlInv, Calm
  <2>2. PICK j \in jobs : j.action = mgr[m].action /\ j.uid = mgr[m].uid /\ j.condition = "complete"
    BY <1>1, <2>1 DEF CalmReconcile
  <2>3. PICK q \in pods : q.job = j.uid /\ q.state = "succeeded"
    BY <2>1, <2>2 DEF CalmWork
  <2>4. q.action = j.action
    BY SMTT(60), <2>1, <2>3 DEF CalmWork, JobInv
  <2>5. \A o \in found : o = q
    <3>1. \A o \in found : o.job = q.job /\ o \in pods
      BY <2>1, <2>2, <2>3, CalmOne DEF Of
    <3> QED BY <2>1, <2>3, <3>1 DEF CalmWork
  <2>6. found = {q} /\ p = q
    BY <2>2, <2>4, <2>5 DEF Of, The
  <2>7. found # {} /\ ~Several(found)
    BY <2>6 DEF Several
  <2>8. Expected(q) /\ (q.message # None => Truthful(q.message)) /\ (q.action = "resume" => Granted(q.decision))
    BY <2>1, <2>3 DEF CalmWork, RunnerInv
  <2>. HIDE DEF found, p
  <2>9. Acceptable(m, q.message)
    <3>1. mgr[m].action = q.action /\ mgr[m].action \in Actions
      BY <1>1, <2>2, <2>4 DEF Bounds, Copied, Consistent, Actions
    <3>2. CASE mgr[m].action = "start"
      BY <2>8, <3>1, <3>2 DEF Expected, Acceptable
    <3>3. CASE mgr[m].action = "resume"
      <4>1. mgr[m].approval # None /\ mgr[m].old.phase # None
        BY <1>1, <3>3, ControlAssumption DEF Bounds, Copied, Consistent, Phases
      <4>2. mgr[m].approval = q.decision
        BY <1>1, <2>8, <3>1, <3>3, <4>1 DEF Copied, Granted
      <4> QED BY <2>8, <3>1, <3>3, <4>2 DEF Expected, Acceptable
    <3>4. CASE mgr[m].action = "verify"
      <4>1. mgr[m].run = mgr[m].old /\ mgr[m].old.phase = "Verifying"
        BY <1>1, <3>4 DEF Bounds, Copied, Consistent
      <4>2. SealedAs(mgr[m].run.bundle)
        BY <1>1, <4>1 DEF Copied, Backed
      <4> QED BY <2>8, <3>1, <3>4, <4>2 DEF Expected, Acceptable, Truthful, SealedAs
    <3> QED BY <3>1, <3>2, <3>3, <3>4 DEF Actions
  <2> QED BY <2>2, <2>3, <2>6, <2>7, <2>8, <2>9 DEF Expected
<1>3. CASE bad
  <2>1. Block(m, "AmbiguousPodSet") /\ faults # 0
    BY <1>2, <1>3 DEF ReadStepResult
  <2>. HIDE DEF bad
  <2> QED BY <1>1, <2>1, BlockStep DEF ReadStepResult, Reasons, Unexpected
<1>4. CASE ~bad
  <2>1. found # {}
    BY <1>4
  <2>2. p \in pods
    BY <2>1 DEF The, Of
  <2>3. p.message # None /\ Accept(m, p.message)
    BY <1>4 DEF ReadStepResult
  <2>4. p.message \in Messages /\ Truthful(p.message)
    BY <2>2, <2>3 DEF ControlInv, TypeOK, RunnerInv, Pods, Maybe
  <2>. HIDE DEF p, bad, found
  <2> QED BY <1>1, <1>2, <2>3, <2>4, AcceptStep DEF ReadStepResult
<1> QED BY <1>3, <1>4

(***************************************************************************)
(* ensureJob.                                                              *)
(***************************************************************************)
\* What a reconcile in ensureJob holds.
LEMMA EnsuringFacts ==
    ASSUME ControlInv, NEW m \in Managers, mgr[m].pc \in Ensuring
    PROVE  /\ mgr[m] \in Reconciles /\ mgr[m].pc # "idle" /\ mgr[m].run \in Statuses /\ mgr[m].old \in Statuses
           /\ Ensures(mgr[m]) /\ Copied(mgr[m]) /\ mgr[m].action \in Actions
           /\ mgr[m].run.ref = mgr[m].old.ref /\ mgr[m].run.decision = mgr[m].old.decision
           /\ mgr[m].run.ref # None => mgr[m].run.ref.action # mgr[m].action
           /\ mgr[m].action = "resume" => Granted(mgr[m].approval)
<1>1. /\ mgr[m] \in Reconciles /\ mgr[m].pc # "idle" /\ mgr[m].run \in Statuses /\ mgr[m].old \in Statuses
      /\ Ensures(mgr[m]) /\ Copied(mgr[m])
  BY DEF ControlInv, TypeOK, Reconciles, ReconcileInv, Ensuring
<1>2. mgr[m].run.ref = mgr[m].old.ref /\ mgr[m].run.decision = mgr[m].old.decision
  BY <1>1 DEF Ensures, Statuses
<1>3. mgr[m].action \in Actions
  BY <1>1 DEF Ensures, Actions
<1>4. mgr[m].run.ref # None => mgr[m].run.ref.action # mgr[m].action
  BY <1>1, <1>2 DEF Ensures, Copied, Consistent
<1>5. mgr[m].action = "resume" => Granted(mgr[m].approval)
  BY <1>1, ControlAssumption DEF Ensures, Copied, Phases
<1> QED BY <1>1, <1>2, <1>3, <1>4, <1>5

\* A reconcile goes on to the next request of ensureJob.
LEMMA ProceedStep ==
    ASSUME ControlInv, NEW m \in Managers, mgr[m].pc \in Ensuring, NEW label \in Ensuring, Proceed(m, label),
           label \in {"get", "bind"} => mgr[m].uid # None,
           faults = 0 =>
               /\ label = "observe" => \E j \in jobs : j.action = mgr[m].action
               /\ label \in {"get", "bind"} => \E j \in jobs : j.action = mgr[m].action /\ j.uid = mgr[m].uid,
           UNCHANGED <<valid, approval, status, jobs, pods, volume, uids, faults>>
    PROVE  ControlInv'
<1> DEFINE r == [mgr[m] EXCEPT !.pc = label]
<1>1. mgr[m] \in Reconciles /\ mgr[m].pc # "idle" /\ Ensures(mgr[m])
  BY EnsuringFacts
<1>2. label \notin Bounding /\ label \notin {"idle", "persist", "audit", "read"}
  BY DEF Ensuring, Bounding
<1>3. /\ r \in Reconciles /\ r.pc = label /\ r.run = mgr[m].run /\ r.action = mgr[m].action
      /\ r.old = mgr[m].old /\ r.approval = mgr[m].approval /\ r.fresh = mgr[m].fresh /\ r.uid = mgr[m].uid
  BY <1>1 DEF Reconciles, Ensuring
<1>4. Becomes(m, r)
  BY DEF Proceed
<1>. HIDE DEF r
<1>5. Ensures(r)
  BY <1>1, <1>3 DEF Ensures
<1>6. faults = 0 => CalmReconcile(r)
  BY <1>1, <1>2, <1>3 DEF ControlInv, Calm, CalmReconcile
<1> QED BY <1>1, <1>2, <1>3, <1>4, <1>5, <1>6, MoveStep

LEMMA ListStep ==
    ASSUME ControlInv, NEW m \in Managers, ListJobs(m)
    PROVE  ControlInv'
<1> DEFINE found == Of(jobs, mgr[m].action)
<1>1. mgr[m].pc = "list" /\ mgr[m].pc \in Ensuring
  BY DEF ListJobs, Ensuring
<1>2. faults = 0 => ~Several(found)
  BY SMTT(60) DEF ControlInv, Calm, CalmWork, Several, Of
<1>3. CASE Several(found)
  BY <1>1, <1>2, <1>3, BlockStep DEF ListJobs, Reasons, Unexpected
<1>4. CASE ~Several(found) /\ found = {}
  <2>1. Proceed(m, "create")
    BY <1>4 DEF ListJobs
  <2> QED BY <1>1, <2>1, ProceedStep DEF ListJobs, Ensuring
<1>5. CASE ~Several(found) /\ found # {}
  <2>1. Proceed(m, "observe")
    BY <1>5 DEF ListJobs
  <2>2. \E j \in jobs : j.action = mgr[m].action
    BY <1>5 DEF Of
  <2> QED BY <1>1, <2>1, <2>2, ProceedStep DEF ListJobs, Ensuring
<1> QED BY <1>3, <1>4, <1>5

LEMMA ObserveStep ==
    ASSUME ControlInv, NEW m \in Managers, ObserveJob(m)
    PROVE  ControlInv'
<1> DEFINE found == Of(jobs, mgr[m].action)
           j == The(found)
           r == [mgr[m] EXCEPT !.pc = "get", !.uid = j.uid]
<1>1. mgr[m].pc = "observe" /\ mgr[m].pc \in Ensuring
  BY DEF ObserveJob, Ensuring
<1>2. ASSUME faults = 0
      PROVE  ~Several(found) /\ found # {} /\ j.ours
  <2>1. CalmWork /\ JobInv /\ CalmReconcile(mgr[m])
    BY <1>2 DEF ControlInv, Calm
  <2>2. PICK k \in jobs : k.action = mgr[m].action
    BY <1>1, <2>1 DEF CalmReconcile
  <2> QED BY <2>1, <2>2, CalmOne DEF The
<1>3. CASE Several(found)
  BY <1>1, <1>2, <1>3, BlockStep DEF ObserveJob, Reasons, Unexpected
<1>4. CASE ~Several(found) /\ (found = {} \/ ~j.ours)
  <2>1. Block(m, "JobBindingMismatch") /\ faults # 0
    BY <1>2, <1>4 DEF ObserveJob
  <2>. HIDE DEF found, j
  <2> QED BY <1>1, <2>1, BlockStep DEF ObserveJob, Reasons, Unexpected
<1>5. CASE ~Several(found) /\ ~(found = {} \/ ~j.ours)
  <2>1. j \in jobs /\ j.action = mgr[m].action /\ j \in Jobs
    BY <1>5 DEF The, Of, ControlInv, TypeOK
  <2>2. Becomes(m, r)
    BY <1>5 DEF ObserveJob
  <2>. HIDE DEF j
  <2>3. mgr[m] \in Reconciles /\ mgr[m].pc # "idle" /\ Ensures(mgr[m])
    BY <1>1, EnsuringFacts
  <2>4. /\ r \in Reconciles /\ r.pc = "get" /\ r.uid = j.uid /\ r.run = mgr[m].run /\ r.action = mgr[m].action
        /\ r.old = mgr[m].old /\ r.approval = mgr[m].approval /\ r.fresh = mgr[m].fresh
    BY <2>1, <2>3 DEF Reconciles, Jobs, Maybe
  <2>. HIDE DEF r
  <2>5. j.uid # None
    BY <2>1, ControlAssumption DEF Jobs
  <2>6. Ensures(r)
    BY <2>3, <2>4, <2>5 DEF Ensures
  <2>7. faults = 0 => CalmReconcile(r)
    BY <2>1, <2>3, <2>4 DEF ControlInv, Calm, CalmReconcile
  <2> QED BY <2>2, <2>3, <2>4, <2>6, <2>7, MoveStep DEF ObserveJob, Bounding
<1> QED BY <1>3, <1>4, <1>5

LEMMA GetStep ==
    ASSUME ControlInv, NEW m \in Managers, GetJob(m)
    PROVE  ControlInv'
<1> DEFINE same == \E j \in Of(jobs, mgr[m].action) : j.ours /\ j.uid = mgr[m].uid
<1>1. mgr[m].pc = "get" /\ mgr[m].pc \in Ensuring
  BY DEF GetJob, Ensuring
<1>2. Ensures(mgr[m]) /\ mgr[m].uid # None /\ (mgr[m].run.ref # None => mgr[m].run.ref.action # mgr[m].action)
  BY <1>1, EnsuringFacts DEF Ensures
<1>3. faults = 0 => same
  <2>1. SUFFICES ASSUME faults = 0 PROVE same
    OBVIOUS
  <2>2. CalmWork /\ CalmReconcile(mgr[m])
    BY <2>1 DEF ControlInv, Calm
  <2> QED BY <1>1, <2>2 DEF CalmReconcile, CalmWork, Of
<1>4. CASE ~same
  <2>1. Block(m, "JobBindingMismatch")
    BY <1>4 DEF GetJob
  <2> QED BY <1>1, <1>3, <1>4, <2>1, BlockStep DEF GetJob, Reasons, Unexpected
<1>5. CASE same
  <2>1. Proceed(m, "bind")
    BY <1>2, <1>5 DEF GetJob
  <2>2. \E j \in jobs : j.action = mgr[m].action /\ j.uid = mgr[m].uid
    BY <1>5 DEF Of
  <2> QED BY <1>1, <1>2, <2>1, <2>2, ProceedStep DEF GetJob, Ensuring
<1> QED BY <1>4, <1>5

\* Bound changes the phase, its reason and the bound Job.
LEMMA BoundFacts ==
    ASSUME NEW s \in Statuses, NEW action \in Actions, NEW uid \in Uids
    PROVE  LET new == Bound(s, action, uid)
           IN  /\ new \in Statuses /\ new.ref # None /\ new.ref.action = action /\ new.ref.uid = uid
               /\ new.phase = IF action = "verify" THEN "Verifying" ELSE "Running"
               /\ new.reason \in {"VerifyScheduled", "RunnerScheduled"}
               /\ new.decision = s.decision /\ new.bundle = s.bundle
<1> DEFINE ref == [action |-> action, uid |-> uid]
           bound == [s EXCEPT !.ref = ref]
<1>1. ref \in References /\ ref.action = action /\ ref.uid = uid /\ ref # None
  BY SMTT(60), ControlAssumption DEF References
<1>. HIDE DEF ref
<1>2. bound \in Statuses /\ bound.ref = ref /\ bound.decision = s.decision /\ bound.bundle = s.bundle
  BY <1>1 DEF Statuses, Maybe
<1>3. Bound(s, action, uid) = IF action = "verify" THEN SetPhase(bound, "Verifying", "VerifyScheduled")
                              ELSE SetPhase(bound, "Running", "RunnerScheduled")
  BY DEF Bound, ref
<1>. HIDE DEF bound
<1> QED BY SMTT(60), <1>1, <1>2, <1>3, SetPhaseFacts DEF Phases, Reasons

LEMMA BindStep ==
    ASSUME ControlInv, NEW m \in Managers, BindJob(m)
    PROVE  ControlInv'
<1> DEFINE new == Bound(mgr[m].run, mgr[m].action, mgr[m].uid)
<1>1. mgr[m].pc = "bind" /\ mgr[m].pc \in Ensuring
  BY DEF BindJob, Ensuring
<1>2. /\ mgr[m] \in Reconciles /\ mgr[m].pc # "idle" /\ mgr[m].run \in Statuses /\ mgr[m].old \in Statuses
      /\ Ensures(mgr[m]) /\ Copied(mgr[m]) /\ mgr[m].action \in Actions /\ mgr[m].uid \in Uids
      /\ mgr[m].run.decision = mgr[m].old.decision
  BY <1>1, EnsuringFacts DEF Ensures, Reconciles, Maybe
<1>3. ASSUME faults = 0
      PROVE  /\ \E j \in jobs : j.action = mgr[m].action /\ j.uid = mgr[m].uid
             /\ PodSetSound(mgr[m].action, mgr[m].uid)
  <2>1. CalmWork /\ JobInv /\ CalmReconcile(mgr[m])
    BY <1>3 DEF ControlInv, Calm
  <2>2. PICK j \in jobs : j.action = mgr[m].action /\ j.uid = mgr[m].uid
    BY <1>1, <2>1 DEF CalmReconcile
  <2> QED BY <2>1, <2>2, CalmOne
<1>4. CASE ~PodSetSound(mgr[m].action, mgr[m].uid)
  BY <1>1, <1>3, <1>4, BlockStep DEF BindJob, Reasons, Unexpected
<1>5. CASE PodSetSound(mgr[m].action, mgr[m].uid)
  <2>1. /\ new \in Statuses /\ new.ref # None /\ new.ref.action = mgr[m].action /\ new.ref.uid = mgr[m].uid
        /\ new.phase = IF mgr[m].action = "verify" THEN "Verifying" ELSE "Running"
        /\ new.reason \in {"VerifyScheduled", "RunnerScheduled"}
        /\ new.decision = mgr[m].old.decision /\ new.bundle = mgr[m].run.bundle
    BY SMTT(60), <1>2, BoundFacts
  <2>2. Send(m, new)
    BY <1>5 DEF BindJob
  <2>. HIDE DEF new
  <2>3. Follows(mgr[m].old, new, mgr[m].approval)
    BY <1>2, <2>1 DEF Follows, Ensures
  <2>4. Consistent(new, mgr[m].approval)
    BY <1>2, <2>1, ControlAssumption DEF Ensures, Copied, Consistent, Unexpected, Phases
  <2>5. Backed(new)
    BY <1>2, <2>1 DEF Ensures, Copied, Backed, Admitted
  <2>6. faults = 0 => CalmStatus(new)
    BY <1>3, <2>1 DEF CalmStatus
  <2> QED BY <1>2, <2>1, <2>2, <2>3, <2>4, <2>5, <2>6, SendStep DEF BindJob
<1> QED BY <1>4, <1>5

(***************************************************************************)
(* Steps of the resource, the Jobs, the Pods and the volume.               *)
(***************************************************************************)
\* A reconcile stands still, its copy at most going stale, or is as it should be afterwards.
Undisturbed(k) ==
    \/ /\ SameCopy(mgr'[k], mgr[k])
       /\ mgr'[k].fresh => mgr[k].fresh /\ status' = status /\ approval' = approval
    \/ ReconcileInv(mgr[k])' /\ (faults' = 0 => CalmReconcile(mgr[k])')

LEMMA WorldStep ==
    ASSUME ControlInv, TypeOK', ResourceInv', JobInv', RunnerInv', valid' = valid, GrantKept, SealKept,
           \A k \in Managers : Undisturbed(k),
           faults' = 0 => faults = 0 /\ CalmWork' /\ CalmStatus(status)' /\ JobsKept
    PROVE  ControlInv'
<1>1. ASSUME NEW k \in Managers PROVE ReconcileInv(mgr[k])'
  BY <1>1, ReconcileKept DEF ControlInv, Undisturbed
<1>2. ASSUME NEW k \in Managers, faults' = 0 PROVE CalmReconcile(mgr[k])'
  BY <1>2, CalmReconcileKept DEF ControlInv, Calm, Undisturbed
<1> QED BY <1>1, <1>2 DEF ControlInv, Calm

\* What is granted stays granted.
LEMMA GrantsKept ==
    ASSUME JobInv, RunnerInv, GrantKept, SealKept, UNCHANGED <<jobs, pods, volume, uids>>
    PROVE  JobInv' /\ RunnerInv'
<1>1. \A d : Granted(d) => Granted(d)'
  BY DEF Granted, GrantKept
<1>2. \A x : Truthful(x)' <=> Truthful(x)
  BY DEF Truthful, SealedAs
<1>. HIDE DEF Granted, Truthful
<1>3. JobInv'
  BY <1>1 DEF JobInv
<1>4. RunnerInv'
  BY <1>1, <1>2 DEF RunnerInv
<1> QED BY <1>3, <1>4

LEMMA StaleCopy ==
    ASSUME NEW r \in Reconciles
    PROVE  /\ [r EXCEPT !.fresh = FALSE] \in Reconciles /\ SameCopy([r EXCEPT !.fresh = FALSE], r)
           /\ ~[r EXCEPT !.fresh = FALSE].fresh
BY DEF Reconciles, SameCopy

LEMMA PersistStep ==
    ASSUME ControlInv, NEW m \in Managers, PersistStatus(m)
    PROVE  ControlInv'
<1>1. /\ mgr \in [Managers -> Reconciles] /\ mgr[m] \in Reconciles /\ mgr[m].run \in Statuses /\ mgr[m].pc = "persist"
      /\ Copied(mgr[m]) /\ Persists(mgr[m])
  BY DEF ControlInv, TypeOK, ReconcileInv, Reconciles, PersistStatus
<1>2. CASE mgr[m].run # mgr[m].old /\ mgr[m].fresh
  <2>1. /\ status' = mgr[m].run /\ mgr' = Stale(m, mgr) /\ status = mgr[m].old /\ approval = mgr[m].approval
        /\ UNCHANGED <<valid, approval, jobs, pods, volume, uids, faults>>
    BY <1>1, <1>2 DEF PersistStatus, Copied
  <2>2. /\ mgr' \in [Managers -> Reconciles] /\ mgr'[m] = Idle
        /\ \A k \in Managers \ {m} : SameCopy(mgr'[k], mgr[k]) /\ ~mgr'[k].fresh
    <3>1. \A k \in Managers \ {m} : mgr'[k] = [mgr[k] EXCEPT !.fresh = FALSE] /\ mgr[k] \in Reconciles
      BY <1>1, <2>1 DEF Stale
    <3>2. ASSUME NEW k \in Managers \ {m} PROVE mgr'[k] \in Reconciles /\ SameCopy(mgr'[k], mgr[k]) /\ ~mgr'[k].fresh
      BY <3>1, StaleCopy
    <3>3. mgr'[m] = Idle /\ DOMAIN mgr' = Managers /\ mgr' = [k \in Managers |-> mgr'[k]]
      BY <2>1 DEF Stale
    <3> QED BY <3>2, <3>3, IdleType
  <2>3. TypeOK'
    BY <1>1, <2>1, <2>2 DEF ControlInv, TypeOK
  <2>4. ResourceInv'
    BY <1>1, <2>1 DEF ResourceInv, Persists, Backed, SealedAs
  <2>5. GrantKept /\ SealKept
    BY <1>1, <2>1 DEF GrantKept, SealKept, Persists, Follows, Copied, Consistent
  <2>6. JobInv' /\ RunnerInv'
    BY <2>1, <2>5, GrantsKept DEF ControlInv
  <2>7. ASSUME NEW k \in Managers PROVE Undisturbed(k)
    BY <2>2, IdleType DEF Undisturbed, ReconcileInv, CalmReconcile
  <2>8. ASSUME faults' = 0 PROVE faults = 0 /\ CalmWork' /\ CalmStatus(status)' /\ JobsKept
    <3>1. faults = 0 /\ CalmWork /\ CalmReconcile(mgr[m])
      BY <2>1, <2>8 DEF ControlInv, Calm
    <3>2. CalmStatus(mgr[m].run)
      BY <1>1, <3>1 DEF CalmReconcile
    <3>3. CalmWork' /\ JobsKept
      BY <2>1, <3>1 DEF CalmWork, JobsKept, Expected
    <3>4. CalmStatus(status)'
      BY <2>1, <3>2 DEF CalmStatus
    <3> QED BY <3>1, <3>3, <3>4
  <2> QED BY <2>1, <2>3, <2>4, <2>5, <2>6, <2>7, <2>8, WorldStep
<1>3. CASE ~(mgr[m].run # mgr[m].old /\ mgr[m].fresh)
  <2>1. Becomes(m, Idle) /\ UNCHANGED <<valid, approval, status, jobs, pods, volume, uids, faults>>
    BY <1>3 DEF PersistStatus
  <2>2. ReconcileInv(Idle) /\ CalmReconcile(Idle)
    BY IdleType DEF ReconcileInv, CalmReconcile
  <2>3. faults' \in {faults, faults + 1} /\ faults' \in 0..MaxFaults
    BY <2>1 DEF ControlInv, TypeOK
  <2> QED BY <2>1, <2>2, <2>3, IdleType, LocalStep
<1> QED BY <1>2, <1>3

LEMMA ApproveStep ==
    ASSUME ControlInv, Approve
    PROVE  ControlInv'
<1>1. /\ approval = None /\ status.phase = "AwaitingApproval" /\ status.decision # None /\ status \in Statuses
      /\ approval' = status.decision /\ UNCHANGED <<valid, status, jobs, pods, volume, uids, faults>>
      /\ mgr \in [Managers -> Reconciles] /\ mgr' = [k \in Managers |-> [mgr[k] EXCEPT !.fresh = FALSE]]
  BY DEF Approve, ControlInv, TypeOK
<1>2. /\ mgr' \in [Managers -> Reconciles]
      /\ \A k \in Managers : SameCopy(mgr'[k], mgr[k]) /\ ~mgr'[k].fresh
  <2>1. \A k \in Managers : mgr'[k] = [mgr[k] EXCEPT !.fresh = FALSE] /\ mgr[k] \in Reconciles
    BY <1>1
  <2>2. ASSUME NEW k \in Managers PROVE mgr'[k] \in Reconciles /\ SameCopy(mgr'[k], mgr[k]) /\ ~mgr'[k].fresh
    BY <2>1, StaleCopy
  <2>3. DOMAIN mgr' = Managers /\ mgr' = [k \in Managers |-> mgr'[k]]
    BY <1>1
  <2> QED BY <2>2, <2>3
<1>3. TypeOK'
  BY <1>1, <1>2 DEF ControlInv, TypeOK, Statuses
<1>4. ResourceInv'
  BY <1>1, ControlAssumption DEF ControlInv, ResourceInv, Consistent, Backed, SealedAs, Phases
<1>5. GrantKept /\ SealKept
  BY <1>1 DEF GrantKept, SealKept
<1>6. JobInv' /\ RunnerInv'
  BY <1>1, <1>5, GrantsKept DEF ControlInv
<1>7. ASSUME NEW k \in Managers PROVE Undisturbed(k)
  BY <1>2 DEF Undisturbed
<1>8. ASSUME faults' = 0 PROVE faults = 0 /\ CalmWork' /\ CalmStatus(status)' /\ JobsKept
  BY <1>1, <1>8 DEF ControlInv, Calm, CalmWork, CalmStatus, JobsKept, Expected
<1> QED BY <1>1, <1>3, <1>4, <1>5, <1>6, <1>7, <1>8, WorldStep

\* A Job is created.
LEMMA NewJobStep ==
    ASSUME ControlInv, NEW action \in Actions, NEW ours \in BOOLEAN, NEW decision \in Maybe(Digests),
           NewJob(action, ours, decision), ours /\ action = "resume" => Granted(decision),
           UNCHANGED <<valid, approval, status, pods, volume>>,
           mgr' \in [Managers -> Reconciles], \A k \in Managers : Undisturbed(k), faults' \in 0..MaxFaults,
           faults' = 0 => faults = 0 /\ ours /\ \A j \in jobs : j.action # action
    PROVE  ControlInv'
<1> DEFINE new == [uid |-> uids + 1, action |-> action, ours |-> ours, decision |-> decision, condition |-> "active"]
<1>1. uids \in 0..MaxJobs /\ uids + 1 \in Uids /\ uids' = uids + 1 /\ jobs' = jobs \cup {new}
  BY SMTT(60), ControlAssumption DEF NewJob, ControlInv, TypeOK, Uids
<1>2. new \in Jobs /\ new.uid = uids + 1 /\ new.action = action /\ new.ours = ours /\ new.decision = decision
      /\ new.condition = "active"
  BY <1>1 DEF Jobs, Conditions
<1>. HIDE DEF new
<1>3. TypeOK'
  BY SMTT(60), <1>1, <1>2, ControlAssumption DEF ControlInv, TypeOK, Uids
<1>4. ResourceInv'
  BY DEF ControlInv, ResourceInv, Backed, SealedAs
<1>5. JobInv'
  <2>1. \A j \in jobs : j.uid \in Uids /\ j.uid <= uids /\ j.uid # new.uid
    BY SMTT(60), <1>1, <1>2 DEF ControlInv, TypeOK, JobInv, Jobs, Uids
  <2>2. \A d : Granted(d)' <=> Granted(d)
    BY DEF Granted
  <2>. HIDE DEF Granted
  <2>3. \A j \in jobs' : j.uid <= uids' /\ (j.ours /\ j.action = "resume" => Granted(j.decision)')
    BY SMTT(60), <1>1, <1>2, <2>1, <2>2 DEF ControlInv, JobInv, Uids
  <2>4. \A j, k \in jobs' : j.uid = k.uid => j = k
    BY <1>1, <2>1 DEF ControlInv, JobInv
  <2> QED BY <2>3, <2>4 DEF JobInv
<1>6. RunnerInv'
  BY DEF ControlInv, RunnerInv, Truthful, SealedAs, Granted
<1>7. GrantKept /\ SealKept /\ JobsKept
  BY <1>1 DEF GrantKept, SealKept, JobsKept
<1>8. ASSUME faults' = 0 PROVE faults = 0 /\ CalmWork' /\ CalmStatus(status)'
  <2>1. faults = 0 /\ CalmWork /\ CalmStatus(status) /\ ours /\ \A j \in jobs : j.action # action
    BY <1>8 DEF ControlInv, Calm
  <2>2. CalmStatus(status)'
    BY <1>7, <2>1, CalmStatusKept
  <2>3. CalmWork'
    <3>1. \A j \in jobs' : j.ours
      BY <1>1, <1>2, <2>1 DEF CalmWork
    <3>2. \A j, k \in jobs' : j.action = k.action => j = k
      BY <1>1, <1>2, <2>1 DEF CalmWork
    <3>3. \A j \in jobs' : j.condition = "complete" => \E p \in pods : p.job = j.uid /\ p.state = "succeeded"
      BY <1>1, <1>2, <2>1 DEF CalmWork
    <3>4. \A p \in pods : \E j \in jobs' : j.uid = p.job /\ j.action = p.action
      BY <1>1, <2>1 DEF CalmWork
    <3> QED BY <2>1, <3>1, <3>2, <3>3, <3>4 DEF CalmWork
  <2> QED BY <2>1, <2>2, <2>3
<1> QED BY <1>3, <1>4, <1>5, <1>6, <1>7, <1>8, WorldStep

\* The others stand still while manager m moves.
LEMMA OthersStand ==
    ASSUME ControlInv, NEW m \in Managers, NEW r \in Reconciles, Becomes(m, r), UNCHANGED <<status, approval>>,
           ReconcileInv(mgr[m])' /\ (faults' = 0 => CalmReconcile(mgr[m])')
    PROVE  mgr' \in [Managers -> Reconciles] /\ \A k \in Managers : Undisturbed(k)
<1>1. mgr' \in [Managers -> Reconciles] /\ \A k \in Managers \ {m} : mgr'[k] = mgr[k]
  BY DEF Becomes, ControlInv, TypeOK
<1> QED BY <1>1 DEF Undisturbed, SameCopy

LEMMA CreateStep ==
    ASSUME ControlInv, NEW m \in Managers, CreateJob(m)
    PROVE  ControlInv'
<1>1. mgr[m].pc = "create" /\ mgr[m].pc \in Ensuring
  BY DEF CreateJob, Ensuring
<1>2. CASE NameTaken(mgr[m].action)
  <2>1. \E j \in jobs : j.action = mgr[m].action
    BY <1>2 DEF NameTaken, Of
  <2>2. Proceed(m, "observe") /\ UNCHANGED <<valid, approval, status, jobs, pods, volume, uids, faults>>
    BY <1>2 DEF CreateJob
  <2> QED BY <1>1, <2>1, <2>2, ProceedStep DEF Ensuring
<1>3. CASE ~NameTaken(mgr[m].action)
  <2> DEFINE decision == IF mgr[m].action = "resume" THEN mgr[m].approval ELSE None
             r == [mgr[m] EXCEPT !.pc = "observe"]
  <2>1. /\ NewJob(mgr[m].action, TRUE, decision) /\ Becomes(m, r)
        /\ UNCHANGED <<valid, approval, status, pods, volume, faults>>
    BY <1>3 DEF CreateJob, Proceed
  <2>2. /\ mgr[m] \in Reconciles /\ Ensures(mgr[m]) /\ Copied(mgr[m]) /\ mgr[m].action \in Actions
        /\ mgr[m].action = "resume" => Granted(mgr[m].approval)
    BY <1>1, EnsuringFacts
  <2>3. decision \in Maybe(Digests) /\ (mgr[m].action = "resume" => Granted(decision))
    BY <2>2 DEF Reconciles, Maybe
  <2>. HIDE DEF decision
  <2>4. /\ r \in Reconciles /\ r.pc = "observe" /\ r.run = mgr[m].run /\ r.action = mgr[m].action
        /\ r.old = mgr[m].old /\ r.approval = mgr[m].approval /\ r.fresh = mgr[m].fresh /\ r.uid = mgr[m].uid
    BY <2>2 DEF Reconciles
  <2>. HIDE DEF r
  <2>5. mgr'[m] = r
    BY <2>1 DEF Becomes, ControlInv, TypeOK
  <2>6. ReconcileInv(mgr[m])'
    <3>1. Copied(mgr[m])'
      BY <2>1, <2>2, <2>4, <2>5 DEF Copied, Backed, SealedAs, Granted
    <3>2. Ensures(mgr[m])'
      BY <2>1, <2>2, <2>4, <2>5 DEF Ensures, SealedAs
    <3> QED BY <2>4, <2>5, <3>1, <3>2 DEF ReconcileInv, Bounding
  <2>7. (\E j \in jobs' : j.action = mgr[m].action) /\ jobs \subseteq jobs'
    <3> DEFINE new == [uid |-> uids + 1, action |-> mgr[m].action, ours |-> TRUE,
                       decision |-> decision, condition |-> "active"]
    <3>1. jobs' = jobs \cup {new}
      BY <2>1 DEF NewJob
    <3>2. new.action = mgr[m].action
      OBVIOUS
    <3>. HIDE DEF new
    <3> QED BY <3>1, <3>2
  <2>8. ASSUME faults' = 0 PROVE CalmReconcile(mgr[m])'
    <3>1. CalmStatus(mgr[m].run)
      BY <1>1, <2>1, <2>8 DEF ControlInv, Calm, CalmReconcile
    <3>2. CalmStatus(mgr[m].run)'
      BY <2>4, <2>5, <2>7, <3>1 DEF CalmStatus
    <3> QED BY <2>4, <2>5, <2>7, <3>2 DEF CalmReconcile
  <2>9. faults' = 0 => faults = 0 /\ \A j \in jobs : j.action # mgr[m].action
    BY <1>3, <2>1 DEF NameTaken, Of, ControlInv, Calm, CalmWork
  <2>10. mgr' \in [Managers -> Reconciles] /\ \A k \in Managers : Undisturbed(k)
    BY <2>1, <2>4, <2>6, <2>8, OthersStand
  <2>11. faults' \in 0..MaxFaults
    BY <2>1 DEF ControlInv, TypeOK
  <2> QED BY <2>1, <2>2, <2>3, <2>9, <2>10, <2>11, NewJobStep
<1> QED BY <1>2, <1>3

(***************************************************************************)
(* The runner.                                                             *)
(***************************************************************************)
LEMMA UnfinishedFacts ==
    ASSUME NEW v \in Volumes
    PROVE  LET w == Unfinished(v) IN w \in Volumes /\ w.state = "partial" /\ w.resumed = v.resumed
BY DEF Volumes, Unfinished

LEMMA MessageFacts ==
    ASSUME NEW x \in {"awaiting_approval", "completed", "verified", "blocked"},
           NEW d \in Maybe(Digests), NEW b \in Maybe(Digests)
    PROVE  LET w == Message(x, d, b) IN w \in Messages /\ w.outcome = x /\ w.decision = d /\ w.bundle = b
BY DEF Messages, Message

LEMMA BlockedFacts == Blocked \in Messages /\ Blocked.outcome = "blocked"
BY SMTT(60), MessageFacts DEF Blocked, Maybe

\* What a runner of Pod p leaves and reports.
Honest(p, o) ==
    /\ o.volume \in Volumes /\ o.message \in Messages
    /\ volume.state = "completed" =>
          o.volume.state = "completed" /\ o.volume.digest = volume.digest /\ (volume.verified => o.volume.verified)
    /\ o.volume.resumed = volume.resumed \/ (p.action = "resume" /\ o.volume.resumed = p.decision)
    /\ o.message.outcome = "awaiting_approval" => o.message.decision # None
    /\ o.message.outcome \in {"completed", "verified"} =>
          o.volume.state = "completed" /\ o.volume.digest = o.message.bundle
    /\ o.message.outcome = "verified" => o.volume.verified
    /\ o.message # Blocked =>
          /\ p.action = "start" => o.message.outcome \in {"awaiting_approval", "completed"}
          /\ p.action = "resume" => o.message.outcome = "completed" /\ o.message.decision = p.decision
          /\ p.action = "verify" => o.message.outcome = "verified"

\* A runner that refuses leaves a sealed run as it is.
LEMMA RefusedHonest ==
    ASSUME NEW p, NEW v \in Volumes, v.resumed = volume.resumed \/ (p.action = "resume" /\ v.resumed = p.decision),
           v = volume \/ volume.state # "completed"
    PROVE  Honest(p, Refused(v))
<1> DEFINE o == Refused(v)
<1>1. o.volume = v /\ o.message = Blocked
  BY DEF Refused
<1>. HIDE DEF o
<1>2. Honest(p, o)
  BY <1>1, BlockedFacts DEF Honest
<1> QED BY <1>2 DEF o

LEMMA StartHonest ==
    ASSUME volume \in Volumes, NEW p, p.action = "start", NEW o \in StartOutcomes
    PROVE  Honest(p, o)
<1>1. CASE o = Refused(volume)
  BY <1>1, RefusedHonest
<1>2. CASE volume.state = "absent" /\ o = Refused(Unfinished(volume))
  BY <1>2, RefusedHonest, UnfinishedFacts
<1>3. ASSUME volume.state = "absent", NEW d \in Digests,
             LET failed == [volume EXCEPT !.state = "failed", !.digest = d]
             IN  o \in {Sealed(volume, d, None), Refused(failed),
                        [volume |-> failed, message |-> Message("awaiting_approval", d, None)]}
      PROVE  Honest(p, o)
  <2> DEFINE failed == [volume EXCEPT !.state = "failed", !.digest = d]
             sealed == [volume EXCEPT !.state = "completed", !.digest = d]
             done == Message("completed", None, d)
             await == Message("awaiting_approval", d, None)
  <2>1. /\ failed \in Volumes /\ failed.resumed = volume.resumed
        /\ sealed \in Volumes /\ sealed.state = "completed" /\ sealed.digest = d /\ sealed.resumed = volume.resumed
    BY DEF Volumes, Maybe
  <2>2. /\ done \in Messages /\ done.outcome = "completed" /\ done.bundle = d
        /\ await \in Messages /\ await.outcome = "awaiting_approval" /\ await.decision = d
    BY SMTT(60), MessageFacts DEF Maybe
  <2>3. o = [volume |-> sealed, message |-> done] \/ o = Refused(failed) \/ o = [volume |-> failed, message |-> await]
    BY <1>3 DEF Sealed
  <2>. HIDE DEF failed, sealed, done, await
  <2>4. CASE o = Refused(failed)
    BY <1>3, <2>1, <2>4, RefusedHonest
  <2>5. CASE o = [volume |-> sealed, message |-> done]
    <3>1. o.volume = sealed /\ o.message = done
      BY <2>5
    <3> QED BY <1>3, <2>1, <2>2, <3>1 DEF Honest
  <2>6. CASE o = [volume |-> failed, message |-> await]
    <3>1. o.volume = failed /\ o.message = await /\ d # None
      BY <2>6, ControlAssumption
    <3> QED BY <1>3, <2>1, <2>2, <3>1 DEF Honest
  <2> QED BY <2>3, <2>4, <2>5, <2>6
<1>4. \/ o = Refused(volume) \/ (volume.state = "absent" /\ o = Refused(Unfinished(volume)))
      \/ /\ volume.state = "absent"
         /\ \E d \in Digests : LET failed == [volume EXCEPT !.state = "failed", !.digest = d]
                               IN  o \in {Sealed(volume, d, None), Refused(failed),
                                          [volume |-> failed, message |-> Message("awaiting_approval", d, None)]}
  BY DEF StartOutcomes
<1> QED BY <1>1, <1>2, <1>3, <1>4

LEMMA ResumeHonest ==
    ASSUME volume \in Volumes, NEW p, p.action = "resume", p.decision \in Digests, NEW o \in ResumeOutcomes(p.decision)
    PROVE  Honest(p, o)
<1> DEFINE resumed == [volume EXCEPT !.resumed = volume.digest]
<1>1. CASE o = Refused(volume)
  BY <1>1, RefusedHonest
<1>2. ASSUME volume.state = "failed", volume.digest = p.decision
      PROVE  /\ resumed \in Volumes /\ resumed.state = "failed" /\ resumed.resumed = p.decision
  BY <1>2 DEF Volumes, Maybe
<1>. HIDE DEF resumed
<1>3. CASE volume.state = "failed" /\ volume.digest = p.decision /\ o = Refused(Unfinished(resumed))
  BY <1>2, <1>3, RefusedHonest, UnfinishedFacts
<1>4. ASSUME volume.state = "failed", volume.digest = p.decision, NEW d \in Digests,
             o \in {Sealed(resumed, d, p.decision), Refused([resumed EXCEPT !.digest = d])}
      PROVE  Honest(p, o)
  <2> DEFINE other == [resumed EXCEPT !.digest = d]
             sealed == [resumed EXCEPT !.state = "completed", !.digest = d]
             done == Message("completed", p.decision, d)
  <2>1. /\ other \in Volumes /\ other.resumed = p.decision
        /\ sealed \in Volumes /\ sealed.state = "completed" /\ sealed.digest = d /\ sealed.resumed = p.decision
    BY <1>2, <1>4 DEF Volumes, Maybe
  <2>2. /\ done \in Messages /\ done.outcome = "completed" /\ done.bundle = d /\ done.decision = p.decision
    BY SMTT(60), MessageFacts DEF Maybe
  <2>3. o = [volume |-> sealed, message |-> done] \/ o = Refused(other)
    BY <1>4 DEF Sealed
  <2>. HIDE DEF other, sealed, done
  <2>4. CASE o = Refused(other)
    BY <1>4, <2>1, <2>4, RefusedHonest
  <2>5. CASE o = [volume |-> sealed, message |-> done]
    <3>1. o.volume = sealed /\ o.message = done
      BY <2>5
    <3> QED BY <1>4, <2>1, <2>2, <3>1 DEF Honest
  <2> QED BY <2>3, <2>4, <2>5
<1>5. \/ o = Refused(volume)
      \/ volume.state = "failed" /\ volume.digest = p.decision /\ o = Refused(Unfinished(resumed))
      \/ /\ volume.state = "failed" /\ volume.digest = p.decision
         /\ \E d \in Digests : o \in {Sealed(resumed, d, p.decision), Refused([resumed EXCEPT !.digest = d])}
  BY DEF ResumeOutcomes, resumed
<1> QED BY <1>1, <1>3, <1>4, <1>5

LEMMA VerifyHonest ==
    ASSUME volume \in Volumes, NEW p, p.action = "verify", NEW o \in VerifyOutcomes
    PROVE  Honest(p, o)
<1> DEFINE checked == [volume EXCEPT !.verified = TRUE]
           seen == Message("verified", None, volume.digest)
<1>1. CASE o = Refused(volume)
  BY <1>1, RefusedHonest
<1>2. CASE volume.state = "completed" /\ o = [volume |-> checked, message |-> seen]
  <2>1. /\ checked \in Volumes /\ checked.state = volume.state /\ checked.digest = volume.digest
        /\ checked.resumed = volume.resumed /\ checked.verified
    BY DEF Volumes
  <2>2. seen \in Messages /\ seen.outcome = "verified" /\ seen.bundle = volume.digest
    BY SMTT(60), MessageFacts DEF Maybe, Volumes
  <2>3. o.volume = checked /\ o.message = seen
    BY <1>2
  <2>. HIDE DEF checked, seen
  <2> QED BY <1>2, <2>1, <2>2, <2>3 DEF Honest
<1> QED BY <1>1, <1>2 DEF VerifyOutcomes

LEMMA OutcomesHonest ==
    ASSUME ControlInv, NEW p \in pods, NEW o \in Outcomes(p)
    PROVE  Honest(p, o)
<1>1. volume \in Volumes /\ p \in Pods
  BY DEF ControlInv, TypeOK
<1>2. p.action \in Actions /\ (p.action = "resume" => Granted(p.decision)) /\ p.decision \in Maybe(Digests)
  BY <1>1 DEF Pods, ControlInv, RunnerInv
<1>3. CASE p.action = "start"
  BY <1>1, <1>3, StartHonest DEF Outcomes
<1>4. CASE p.action = "resume"
  <2>1. p.decision \in Digests
    BY <1>2, <1>4 DEF Granted, Maybe
  <2>2. o \in ResumeOutcomes(p.decision)
    BY <1>4 DEF Outcomes
  <2> QED BY <1>1, <1>4, <2>1, <2>2, ResumeHonest
<1>5. CASE p.action = "verify"
  <2>1. o \in VerifyOutcomes
    BY <1>5 DEF Outcomes
  <2> QED BY <1>1, <1>5, <2>1, VerifyHonest
<1> QED BY <1>2, <1>3, <1>4, <1>5 DEF Actions

\* The Pods and the volume change.
LEMMA PodsStep ==
    ASSUME ControlInv, pods' \subseteq Pods, volume' \in Volumes, SealKept, RunnerInv',
           UNCHANGED <<valid, approval, status, jobs, uids, mgr>>,
           faults' \in 0..MaxFaults, faults' = 0 => faults = 0 /\ CalmWork'
    PROVE  ControlInv'
<1>1. TypeOK'
  BY DEF ControlInv, TypeOK
<1>2. ResourceInv' /\ GrantKept
  BY DEF ControlInv, ResourceInv, Backed, SealedAs, SealKept, GrantKept
<1>3. JobInv'
  BY DEF ControlInv, JobInv, Granted
<1>4. ASSUME NEW k \in Managers PROVE Undisturbed(k)
  BY DEF Undisturbed, SameCopy
<1>5. ASSUME faults' = 0 PROVE faults = 0 /\ CalmWork' /\ CalmStatus(status)' /\ JobsKept
  BY <1>5 DEF ControlInv, Calm, CalmStatus, JobsKept
<1> QED BY <1>1, <1>2, <1>3, <1>4, <1>5, WorldStep

\* The Jobs change.
LEMMA JobsStep ==
    ASSUME ControlInv, jobs' \subseteq Jobs, JobInv',
           UNCHANGED <<valid, approval, status, pods, volume, uids, mgr>>,
           faults' \in 0..MaxFaults, faults' = 0 => faults = 0 /\ CalmWork' /\ JobsKept
    PROVE  ControlInv'
<1>1. TypeOK'
  BY DEF ControlInv, TypeOK
<1>2. ResourceInv' /\ GrantKept /\ SealKept
  BY DEF ControlInv, ResourceInv, Backed, SealedAs, SealKept, GrantKept
<1>3. RunnerInv'
  BY DEF ControlInv, RunnerInv, Granted, Truthful, SealedAs
<1>4. ASSUME NEW k \in Managers PROVE Undisturbed(k)
  BY DEF Undisturbed, SameCopy
<1>5. ASSUME faults' = 0 PROVE faults = 0 /\ CalmWork' /\ CalmStatus(status)' /\ JobsKept
  BY <1>5, CalmStatusKept DEF ControlInv, Calm
<1> QED BY <1>1, <1>2, <1>3, <1>4, <1>5, WorldStep

LEMMA FaultFacts ==
    ASSUME ControlInv, Fault
    PROVE  faults' \in 0..MaxFaults /\ faults' = faults + 1 /\ faults' # 0
BY SMTT(60), ControlAssumption DEF ControlInv, TypeOK, Fault

\* A Pod q comes, or takes the place of another.
LEMMA RunnerKept ==
    ASSUME ControlInv, NEW q, q.action = "resume" => Granted(q.decision), q.message # None => Truthful(q.message)',
           pods' \subseteq pods \cup {q}, SealKept, UNCHANGED <<approval, status>>,
           volume'.resumed # None => Granted(volume'.resumed)
    PROVE  RunnerInv'
<1>1. \A d : Granted(d)' <=> Granted(d)
  BY DEF Granted
<1>2. \A x : Truthful(x) => Truthful(x)'
  BY DEF Truthful, SealedAs, SealKept
<1>. HIDE DEF Granted, Truthful
<1> QED BY <1>1, <1>2 DEF ControlInv, RunnerInv

LEMMA RunnerEndsStep ==
    ASSUME ControlInv, NEW p \in pods, RunnerEnds(p)
    PROVE  ControlInv'
<1>1. PICK o \in Outcomes(p) :
          /\ volume' = o.volume
          /\ pods' = (pods \ {p}) \cup
                     {[p EXCEPT !.state = IF o.message = Blocked THEN "failed" ELSE "succeeded", !.message = o.message]}
  BY DEF RunnerEnds
<1> DEFINE q == [p EXCEPT !.state = IF o.message = Blocked THEN "failed" ELSE "succeeded", !.message = o.message]
<1>2. p.state = "running" /\ UNCHANGED <<valid, approval, status, jobs, uids, mgr, faults>>
  BY DEF RunnerEnds
<1>3. Honest(p, o) /\ p \in Pods /\ faults \in 0..MaxFaults
  BY OutcomesHonest DEF ControlInv, TypeOK
<1>4. /\ q \in Pods /\ q.action = p.action /\ q.decision = p.decision /\ q.job = p.job /\ q.message = o.message
      /\ q.state = IF o.message = Blocked THEN "failed" ELSE "succeeded"
  BY <1>3 DEF Pods, Maybe, Honest
<1>5. pods' = (pods \ {p}) \cup {q}
  BY <1>1
<1>. HIDE DEF q
<1>6. pods' \subseteq Pods /\ volume' \in Volumes
  BY <1>1, <1>3, <1>4, <1>5 DEF ControlInv, TypeOK, Honest
<1>7. SealKept
  BY <1>1, <1>3 DEF SealKept, Honest
<1>8. RunnerInv'
  <2>1. Truthful(q.message)'
    BY <1>1, <1>3, <1>4 DEF Truthful, SealedAs, Honest
  <2>2. p.action = "resume" => Granted(p.decision)
    BY DEF ControlInv, RunnerInv
  <2>3. volume'.resumed # None => Granted(volume'.resumed)
    BY <1>1, <1>3, <2>2 DEF ControlInv, RunnerInv, Honest
  <2> QED BY <1>2, <1>4, <1>5, <1>7, <2>1, <2>2, <2>3, RunnerKept
<1>9. ASSUME faults' = 0 PROVE faults = 0 /\ CalmWork'
  <2>1. faults = 0 /\ CalmWork
    BY <1>2, <1>9 DEF ControlInv, Calm
  <2>2. q.state = "succeeded" => Expected(q)
    <3>1. o.message # None
      BY <1>3, ControlAssumption DEF Honest
    <3> QED BY <1>3, <1>4, <3>1 DEF Expected, Honest
  <2>3. \A x \in pods' : x.state = "succeeded" => Expected(x)
    BY <1>5, <2>1, <2>2 DEF CalmWork
  <2>4. \A x \in pods' : \E j \in jobs : j.uid = x.job /\ j.action = x.action
    BY SMTT(60), <1>4, <1>5, <2>1 DEF CalmWork
  <2>5. \A x, y \in pods' : x.job = y.job => x = y
    BY SMTT(60), <1>4, <1>5, <2>1 DEF CalmWork
  <2>6. \A j \in jobs : j.condition = "complete" => \E x \in pods' : x.job = j.uid /\ x.state = "succeeded"
    BY SMTT(60), <1>2, <1>5, <2>1 DEF CalmWork
  <2> QED BY <1>2, <2>1, <2>3, <2>4, <2>5, <2>6 DEF CalmWork
<1> QED BY <1>2, <1>3, <1>6, <1>7, <1>8, <1>9, PodsStep

LEMMA RunnerKilledStep ==
    ASSUME ControlInv, NEW p \in pods, RunnerKilled(p)
    PROVE  ControlInv'
<1>1. PICK s \in {"failed", "succeeded"} : pods' = (pods \ {p}) \cup {[p EXCEPT !.state = s]}
  BY DEF RunnerKilled
<1> DEFINE q == [p EXCEPT !.state = s]
<1>2. /\ UNCHANGED <<valid, approval, status, jobs, uids, mgr>> /\ faults' \in 0..MaxFaults /\ faults' # 0
      /\ p \in Pods /\ volume \in Volumes
  BY FaultFacts DEF RunnerKilled, ControlInv, TypeOK
<1>3. q \in Pods /\ q.action = p.action /\ q.decision = p.decision /\ q.message = p.message
  BY <1>2 DEF Pods
<1>4. pods' = (pods \ {p}) \cup {q}
  BY <1>1
<1>. HIDE DEF q
<1>5. volume' = volume \/ \E o \in Outcomes(p) : volume' = o.volume /\ Honest(p, o)
  BY OutcomesHonest DEF RunnerKilled
<1>6. pods' \subseteq Pods /\ volume' \in Volumes
  BY <1>2, <1>3, <1>4, <1>5 DEF ControlInv, TypeOK, Honest
<1>7. SealKept
  BY <1>5 DEF SealKept, Honest
<1>8. RunnerInv'
  <2>1. p.message # None => Truthful(p.message)'
    BY <1>7 DEF ControlInv, RunnerInv, Truthful, SealedAs, SealKept
  <2>2. p.action = "resume" => Granted(p.decision)
    BY DEF ControlInv, RunnerInv
  <2>3. volume'.resumed # None => Granted(volume'.resumed)
    BY <1>5, <2>2 DEF ControlInv, RunnerInv, Honest
  <2> QED BY <1>2, <1>3, <1>4, <1>7, <2>1, <2>2, <2>3, RunnerKept
<1> QED BY <1>2, <1>6, <1>7, <1>8, PodsStep

LEMMA NewPodFacts ==
    ASSUME ControlInv, NEW j \in jobs, j.ours, NEW i \in 0..MaxFaults, pods' = pods \cup {NewPod(j, i)},
           UNCHANGED <<valid, approval, status, jobs, volume, uids, mgr>>
    PROVE  /\ NewPod(j, i).job = j.uid /\ NewPod(j, i).action = j.action /\ NewPod(j, i).state = "running"
           /\ pods' \subseteq Pods /\ volume' \in Volumes /\ SealKept /\ RunnerInv'
<1>1. j \in Jobs /\ (j.action = "resume" => Granted(j.decision))
  BY DEF ControlInv, TypeOK, JobInv
<1> DEFINE q == NewPod(j, i)
<1>2. /\ q \in Pods /\ q.job = j.uid /\ q.action = j.action /\ q.decision = j.decision /\ q.state = "running"
      /\ q.message = None
  BY <1>1 DEF NewPod, Pods, Jobs, Maybe
<1>. HIDE DEF q
<1>3. pods' \subseteq Pods /\ volume' \in Volumes /\ SealKept
  BY <1>2 DEF ControlInv, TypeOK, SealKept, q
<1>4. RunnerInv'
  <2>1. volume'.resumed # None => Granted(volume'.resumed)
    BY DEF ControlInv, RunnerInv
  <2> QED BY <1>1, <1>2, <1>3, <2>1, RunnerKept DEF q
<1> QED BY <1>2, <1>3, <1>4 DEF q

LEMMA PodStartsStep ==
    ASSUME ControlInv, NEW j \in jobs, PodStarts(j)
    PROVE  ControlInv'
<1> DEFINE q == NewPod(j, 0)
<1>1. /\ j.ours /\ j.condition = "active" /\ (\A p \in pods : p.job # j.uid) /\ pods' = pods \cup {q}
      /\ UNCHANGED <<valid, approval, status, jobs, volume, uids, mgr, faults>>
      /\ 0 \in 0..MaxFaults /\ faults \in 0..MaxFaults
  BY SMTT(60), ControlAssumption DEF PodStarts, ControlInv, TypeOK
<1>2. /\ q.job = j.uid /\ q.action = j.action /\ q.state = "running"
      /\ pods' \subseteq Pods /\ volume' \in Volumes /\ SealKept /\ RunnerInv'
  BY <1>1, NewPodFacts
<1>. HIDE DEF q
<1>3. ASSUME faults' = 0 PROVE faults = 0 /\ CalmWork'
  <2>1. faults = 0 /\ CalmWork
    BY <1>1, <1>3 DEF ControlInv, Calm
  <2> QED BY SMTT(60), <1>1, <1>2, <2>1 DEF CalmWork
<1> QED BY <1>1, <1>2, <1>3, PodsStep

LEMMA SecondPodStep ==
    ASSUME ControlInv, NEW j \in jobs, SecondPod(j)
    PROVE  ControlInv'
<1>1. PICK i \in 1..MaxFaults : pods' = pods \cup {NewPod(j, i)}
  BY DEF SecondPod
<1>2. /\ j.ours /\ UNCHANGED <<valid, approval, status, jobs, volume, uids, mgr>>
      /\ faults' \in 0..MaxFaults /\ faults' # 0 /\ i \in 0..MaxFaults
  BY SMTT(60), FaultFacts, ControlAssumption DEF SecondPod
<1>3. pods' \subseteq Pods /\ volume' \in Volumes /\ SealKept /\ RunnerInv'
  BY <1>1, <1>2, NewPodFacts
<1> QED BY <1>2, <1>3, PodsStep

LEMMA PodDeletedStep ==
    ASSUME ControlInv, NEW p \in pods, PodDeleted(p)
    PROVE  ControlInv'
<1>1. /\ pods' = pods \ {p} /\ UNCHANGED <<valid, approval, status, jobs, volume, uids, mgr>>
      /\ faults' \in 0..MaxFaults /\ faults' # 0
  BY FaultFacts DEF PodDeleted, ControlInv, TypeOK
<1>2. pods' \subseteq Pods /\ volume' \in Volumes /\ SealKept
  BY <1>1 DEF ControlInv, TypeOK, SealKept
<1>3. RunnerInv'
  BY <1>1 DEF ControlInv, RunnerInv, Granted, Truthful, SealedAs
<1> QED BY <1>1, <1>2, <1>3, PodsStep

LEMMA EvidenceEditedStep ==
    ASSUME ControlInv, EvidenceEdited
    PROVE  ControlInv'
<1>1. /\ UNCHANGED <<valid, approval, status, jobs, pods, uids, mgr>> /\ volume \in Volumes
      /\ faults' \in 0..MaxFaults /\ faults' # 0
  BY FaultFacts DEF EvidenceEdited, ControlInv, TypeOK
<1>2. volume' \in Volumes /\ volume'.resumed = volume.resumed /\ SealKept
  <2>1. CASE volume.state = "failed" /\ \E d \in Digests : volume' = [volume EXCEPT !.digest = d]
    <3>1. volume' \in Volumes /\ volume'.resumed = volume.resumed
      BY <1>1, <2>1 DEF Volumes, Maybe
    <3> QED BY <2>1, <3>1 DEF SealKept
  <2>2. CASE volume' = [volume EXCEPT !.intact = FALSE]
    <3>1. /\ volume' \in Volumes /\ volume'.resumed = volume.resumed /\ volume'.state = volume.state
          /\ volume'.digest = volume.digest /\ volume'.verified = volume.verified
      BY <1>1, <2>2 DEF Volumes
    <3> QED BY <3>1 DEF SealKept
  <2> QED BY <2>1, <2>2 DEF EvidenceEdited
<1>3. RunnerInv'
  <2>1. \A x : Truthful(x) => Truthful(x)'
    BY <1>2 DEF Truthful, SealedAs, SealKept
  <2>2. \A d : Granted(d)' <=> Granted(d)
    BY <1>1 DEF Granted
  <2>. HIDE DEF Truthful, Granted
  <2> QED BY <1>1, <1>2, <2>1, <2>2 DEF ControlInv, RunnerInv
<1>4. pods' \subseteq Pods
  BY <1>1 DEF ControlInv, TypeOK
<1> QED BY <1>1, <1>2, <1>3, <1>4, PodsStep

(***************************************************************************)
(* Jobs end, are deleted, are added by others.                             *)
(***************************************************************************)
\* A Job gets another condition.
LEMMA ConditionFacts ==
    ASSUME ControlInv, NEW j \in jobs, NEW c \in Conditions,
           jobs' = (jobs \ {j}) \cup {[j EXCEPT !.condition = c]}, UNCHANGED <<approval, status, uids>>
    PROVE  /\ jobs' \subseteq Jobs /\ JobInv'
           /\ \E k : /\ jobs' = (jobs \ {j}) \cup {k} /\ k.condition = c
                     /\ k.uid = j.uid /\ k.action = j.action /\ k.ours = j.ours
<1> DEFINE k == [j EXCEPT !.condition = c]
<1>1. j \in Jobs /\ \A x \in jobs : x \in Jobs
  BY DEF ControlInv, TypeOK
<1>2. k \in Jobs /\ k.uid = j.uid /\ k.action = j.action /\ k.ours = j.ours /\ k.decision = j.decision /\ k.condition = c
  BY <1>1 DEF Jobs
<1>. HIDE DEF k
<1>3. jobs' = (jobs \ {j}) \cup {k}
  BY DEF k
<1>4. \A d : Granted(d)' <=> Granted(d)
  BY DEF Granted
<1>. HIDE DEF Granted
<1>5. \A x \in jobs' : x.uid <= uids' /\ (x.ours /\ x.action = "resume" => Granted(x.decision)')
  BY <1>2, <1>3, <1>4 DEF ControlInv, JobInv
<1>6. \A x, y \in jobs' : x.uid = y.uid => x = y
  BY SMTT(60), <1>2, <1>3 DEF ControlInv, JobInv
<1>7. JobInv'
  BY <1>5, <1>6 DEF JobInv
<1> QED BY <1>1, <1>2, <1>3, <1>7

LEMMA JobEndsStep ==
    ASSUME ControlInv, NEW j \in jobs, JobEnds(j)
    PROVE  ControlInv'
<1>1. PICK p \in pods :
          /\ p.job = j.uid /\ p.state # "running"
          /\ jobs' = (jobs \ {j}) \cup {[j EXCEPT !.condition = IF p.state = "succeeded" THEN "complete" ELSE "failed"]}
  BY DEF JobEnds
<1> DEFINE c == IF p.state = "succeeded" THEN "complete" ELSE "failed"
<1>2. /\ j.condition = "active" /\ UNCHANGED <<valid, approval, status, pods, volume, uids, mgr, faults>>
      /\ faults \in 0..MaxFaults
  BY DEF JobEnds, ControlInv, TypeOK
<1>3. c \in Conditions /\ (c = "complete" => p.state = "succeeded")
  BY DEF Conditions
<1>4. jobs' = (jobs \ {j}) \cup {[j EXCEPT !.condition = c]}
  BY <1>1
<1>. HIDE DEF c
<1>5. /\ jobs' \subseteq Jobs /\ JobInv'
      /\ \E k : /\ jobs' = (jobs \ {j}) \cup {k} /\ k.condition = c
                /\ k.uid = j.uid /\ k.action = j.action /\ k.ours = j.ours
  BY <1>2, <1>3, <1>4, ConditionFacts
<1>6. PICK k : /\ jobs' = (jobs \ {j}) \cup {k} /\ k.condition = c
               /\ k.uid = j.uid /\ k.action = j.action /\ k.ours = j.ours
  BY <1>5
<1>7. JobsKept
  BY <1>2, <1>6 DEF JobsKept
<1>8. ASSUME faults' = 0 PROVE faults = 0 /\ CalmWork'
  <2>1. faults = 0 /\ CalmWork
    BY <1>2, <1>8 DEF ControlInv, Calm
  <2>2. \A x \in jobs' : x.condition = "complete" => \E y \in pods : y.job = x.uid /\ y.state = "succeeded"
    BY <1>1, <1>3, <1>6, <2>1 DEF CalmWork
  <2>3. \A x \in jobs' : x.ours
    BY <1>6, <2>1 DEF CalmWork
  <2>4. \A x, y \in jobs' : x.action = y.action => x = y
    BY SMTT(60), <1>6, <2>1 DEF CalmWork
  <2>5. \A x \in pods : \E y \in jobs' : y.uid = x.job /\ y.action = x.action
    BY SMTT(60), <1>6, <2>1 DEF CalmWork
  <2> QED BY <1>2, <2>1, <2>2, <2>3, <2>4, <2>5 DEF CalmWork
<1> QED BY <1>2, <1>5, <1>7, <1>8, JobsStep

LEMMA DeadlineStep ==
    ASSUME ControlInv, NEW j \in jobs, DeadlineExceeded(j)
    PROVE  ControlInv'
<1>1. /\ jobs' = (jobs \ {j}) \cup {[j EXCEPT !.condition = "failed"]} /\ "failed" \in Conditions
      /\ UNCHANGED <<valid, approval, status, pods, volume, uids, mgr>> /\ faults' \in 0..MaxFaults /\ faults' # 0
  BY FaultFacts DEF DeadlineExceeded, Conditions
<1>2. jobs' \subseteq Jobs /\ JobInv'
  BY <1>1, ConditionFacts
<1> QED BY <1>1, <1>2, JobsStep

LEMMA JobDeletedStep ==
    ASSUME ControlInv, NEW j \in jobs, JobDeleted(j)
    PROVE  ControlInv'
<1>1. /\ jobs' = jobs \ {j} /\ faults' \in 0..MaxFaults /\ faults' # 0
      /\ UNCHANGED <<valid, approval, status, pods, volume, uids, mgr>>
  BY FaultFacts DEF JobDeleted
<1>2. jobs' \subseteq Jobs /\ JobInv'
  BY <1>1 DEF ControlInv, TypeOK, JobInv, Granted
<1> QED BY <1>1, <1>2, JobsStep

LEMMA ForeignJobStep ==
    ASSUME ControlInv, NEW a \in Actions, ForeignJob(a)
    PROVE  ControlInv'
<1>1. /\ NewJob(a, FALSE, None) /\ UNCHANGED <<valid, approval, status, pods, volume, mgr>>
      /\ faults' \in 0..MaxFaults /\ faults' # 0
  BY FaultFacts DEF ForeignJob
<1>2. mgr' \in [Managers -> Reconciles] /\ None \in Maybe(Digests)
  BY <1>1 DEF ControlInv, TypeOK, Maybe
<1>3. ASSUME NEW k \in Managers PROVE Undisturbed(k)
  BY <1>1 DEF Undisturbed, SameCopy
<1> QED BY <1>1, <1>2, <1>3, NewJobStep

\* A manager that forgets its reconcile.
LEMMA IdleAgain ==
    ASSUME ControlInv, NEW m \in Managers, Becomes(m, Idle)
    PROVE  ReconcileInv(mgr[m])' /\ CalmReconcile(mgr[m])'
<1>1. mgr'[m].pc = "idle"
  BY IdleType DEF Becomes, ControlInv, TypeOK
<1> QED BY <1>1 DEF ReconcileInv, CalmReconcile

LEMMA AnswerLostStep ==
    ASSUME ControlInv, NEW m \in Managers, CreateAnswerLost(m)
    PROVE  ControlInv'
<1> DEFINE decision == IF mgr[m].action = "resume" THEN mgr[m].approval ELSE None
<1>1. /\ NewJob(mgr[m].action, TRUE, decision) /\ Becomes(m, Idle)
      /\ UNCHANGED <<valid, approval, status, pods, volume>> /\ faults' \in 0..MaxFaults /\ faults' # 0
  BY FaultFacts DEF CreateAnswerLost
<1>2. /\ mgr[m] \in Reconciles /\ mgr[m].action \in Actions
      /\ mgr[m].action = "resume" => Granted(mgr[m].approval)
  BY EnsuringFacts DEF CreateAnswerLost, Ensuring
<1>3. decision \in Maybe(Digests) /\ (mgr[m].action = "resume" => Granted(decision))
  BY <1>2 DEF Reconciles, Maybe
<1>. HIDE DEF decision
<1>4. mgr' \in [Managers -> Reconciles] /\ \A k \in Managers : Undisturbed(k)
  BY <1>1, IdleType, IdleAgain, OthersStand
<1> QED BY <1>1, <1>2, <1>3, <1>4, NewJobStep

LEMMA AbortStep ==
    ASSUME ControlInv, NEW m \in Managers, ReconcileAborts(m)
    PROVE  ControlInv'
<1>1. /\ Becomes(m, Idle) /\ UNCHANGED <<valid, approval, status, jobs, pods, volume, uids>>
      /\ faults' \in 0..MaxFaults /\ faults' \in {faults, faults + 1}
  BY FaultFacts DEF ReconcileAborts
<1>2. ReconcileInv(Idle) /\ CalmReconcile(Idle)
  BY IdleType DEF ReconcileInv, CalmReconcile
<1> QED BY <1>1, <1>2, IdleType, LocalStep

(***************************************************************************)
(* The invariant.                                                          *)
(***************************************************************************)
LEMMA InitControlInv == Init => ControlInv
<1>1. SUFFICES ASSUME Init PROVE ControlInv
  OBVIOUS
<1>2. /\ status = NoStatus /\ jobs = {} /\ pods = {} /\ volume = NoRun /\ uids = 0 /\ faults = 0
      /\ mgr = [m \in Managers |-> Idle] /\ valid \in BOOLEAN /\ approval \in Maybe(Digests)
  BY <1>1 DEF Init, Maybe
<1>3. status.phase = None /\ status.reason = None /\ status.ref = None /\ status.decision = None
  BY <1>2 DEF NoStatus
<1>4. volume \in Volumes /\ volume.resumed = None
  BY <1>2 DEF NoRun, Volumes, Maybe
<1>5. TypeOK
  BY SMTT(60), <1>2, <1>4, IdleType, ControlAssumption DEF TypeOK
<1>6. ResourceInv
  BY <1>3, ControlAssumption DEF ResourceInv, Consistent, Backed, Admitted, Phases, Reasons, Unexpected
<1>7. JobInv /\ RunnerInv
  BY <1>2, <1>4 DEF JobInv, RunnerInv
<1>8. ASSUME NEW m \in Managers PROVE ReconcileInv(mgr[m]) /\ CalmReconcile(mgr[m])
  BY <1>2, IdleType DEF ReconcileInv, CalmReconcile
<1>9. CalmWork /\ CalmStatus(status)
  BY <1>2, <1>3, ControlAssumption DEF CalmWork, CalmStatus, Phases
<1> QED BY <1>5, <1>6, <1>7, <1>8, <1>9 DEF ControlInv, Calm

LEMMA NextControlInv == ControlInv /\ [Next]_vars => ControlInv'
<1> SUFFICES ASSUME ControlInv, [Next]_vars PROVE ControlInv'
  OBVIOUS
<1>1. CASE \E m \in Managers : Reconcile(m) \/ ManagerStep(m)
  BY <1>1, ReconcileStep, LoadStep, AuditStep, ReadStep, ListStep, CreateStep, ObserveStep, GetStep,
     BindStep, PersistStep DEF ManagerStep
<1>2. CASE Approve
  BY <1>2, ApproveStep
<1>3. CASE ClusterStep
  BY <1>3, RunnerEndsStep, PodStartsStep, JobEndsStep DEF ClusterStep
<1>4. CASE Disturbance
  BY <1>4, AbortStep, AnswerLostStep, RunnerKilledStep, PodDeletedStep, DeadlineStep, JobDeletedStep,
     SecondPodStep, ForeignJobStep, EvidenceEditedStep DEF Disturbance
<1>5. CASE UNCHANGED vars
  <2>1. UNCHANGED <<valid, approval, status, jobs, pods, volume, uids, mgr, faults>>
    BY <1>5 DEF vars
  <2>2. pods' \subseteq Pods /\ volume' \in Volumes /\ SealKept /\ faults' \in 0..MaxFaults
    BY <2>1 DEF ControlInv, TypeOK, SealKept
  <2>3. RunnerInv'
    BY <2>1 DEF ControlInv, RunnerInv, Granted, Truthful, SealedAs
  <2>4. faults' = 0 => faults = 0 /\ CalmWork'
    BY <2>1 DEF ControlInv, Calm, CalmWork
  <2> QED BY <2>1, <2>2, <2>3, <2>4, PodsStep
<1> QED BY <1>1, <1>2, <1>3, <1>4, <1>5 DEF Next

\* The invariant holds in every reachable state.
THEOREM ControlInvariant == Spec => []ControlInv
BY InitControlInv, NextControlInv, PTL DEF Spec

\* The state has its type: what the reconciler, the bridge and the Job controller write fits.
THEOREM ControlTypes == Spec => []TypeOK
<1>1. ControlInv => TypeOK  BY DEF ControlInv
<1> QED BY <1>1, ControlInvariant, PTL

\* The run directory is resumed only with the published and approved decision, whatever stale
\* reconciles and the Jobs they left behind do.
THEOREM ResumeTheorem == Spec => []ResumedAsApproved
<1>1. ControlInv => ResumedAsApproved  BY DEF ControlInv, RunnerInv, Granted, ResumedAsApproved
<1> QED BY <1>1, ControlInvariant, PTL

\* Succeeded means sealed, verified and of the digest shown.
THEOREM SuccessTheorem == Spec => []SucceededIsVerified
<1>1. ControlInv => SucceededIsVerified
  BY DEF ControlInv, ResourceInv, Backed, SealedAs, SucceededIsVerified
<1> QED BY <1>1, ControlInvariant, PTL

\* The self-checks of the reconciler never fire, and without a fault nothing but an invalid
\* resource or a failed runner blocks a run.
THEOREM BlocksTheorem == Spec => []BlocksExplained
<1>1. ControlInv => BlocksExplained
  BY DEF ControlInv, ResourceInv, Consistent, Unexpected, Calm, CalmStatus, CalmReasons, BlocksExplained
<1> QED BY <1>1, ControlInvariant, PTL

(***************************************************************************)
(* The lifecycle.  Only persistStatus with a fresh copy and the operator   *)
(* change what it shows.                                                   *)
(***************************************************************************)
LEMMA QuietSteps ==
    ASSUME [Next]_vars, \A m \in Managers : ~PersistStatus(m), ~Approve
    PROVE  UNCHANGED <<status, approval>>
<1>1. ASSUME NEW m \in Managers, Reconcile(m) PROVE UNCHANGED <<status, approval>>
  BY <1>1 DEF Reconcile
<1>2. ASSUME NEW m \in Managers, ManagerStep(m) PROVE UNCHANGED <<status, approval>>
  BY <1>2 DEF ManagerStep, LoadBoundJob, AuditPods, ReadStepResult, ListJobs, CreateJob, ObserveJob, GetJob, BindJob
<1>3. CASE ClusterStep
  BY <1>3 DEF ClusterStep, RunnerEnds, PodStarts, JobEnds
<1>4. CASE Disturbance
  BY <1>4 DEF Disturbance, ReconcileAborts, CreateAnswerLost, RunnerKilled, PodDeleted, DeadlineExceeded,
     JobDeleted, SecondPod, ForeignJob, EvidenceEdited
<1>5. CASE UNCHANGED vars
  BY <1>5 DEF vars
<1> QED BY <1>1, <1>2, <1>3, <1>4, <1>5 DEF Next

LEMMA LifecycleStep ==
    ASSUME ControlInv, [Next]_vars
    PROVE  [Lifecycle!Next]_(Lifecycle!vars)
<1>1. CASE UNCHANGED <<status, approval>>
  BY <1>1 DEF Lifecycle!vars, RefAction, RefUid
<1>2. CASE Approve
  BY <1>2 DEF Approve, Lifecycle!Next, Lifecycle!Approve, RefAction, RefUid
<1>3. ASSUME NEW m \in Managers, PersistStatus(m), ~UNCHANGED <<status, approval>>
      PROVE  Lifecycle!Next \/ UNCHANGED Lifecycle!vars
  <2>1. /\ status' = mgr[m].run /\ approval' = approval /\ status = mgr[m].old /\ approval = mgr[m].approval
        /\ Follows(status, status', approval) /\ status' \in Statuses /\ status.phase # "Blocked"
        /\ Consistent(status, approval)
    BY <1>3 DEF PersistStatus, ControlInv, TypeOK, Reconciles, ReconcileInv, Copied, Persists
  <2>2. /\ status'.ref # None => status'.ref.uid \in Uids
        /\ status'.decision # None => status'.decision \in Digests
    BY <2>1 DEF Statuses, References, Maybe
  <2>3. Follows(status, status', approval)
    BY <2>1
  <2> DEFINE old == status
             new == status'
             kept == new.ref = old.ref /\ new.decision = old.decision
             bind == new.ref # None /\ new.decision = old.decision
  <2>4. CASE new.phase = old.phase /\ kept
    BY <2>1, <2>4 DEF Lifecycle!vars, RefAction, RefUid
  <2>5. CASE new.phase = "Blocked" /\ old.phase # "Succeeded" /\ kept
    BY <2>1, <2>5 DEF Lifecycle!Next, Lifecycle!Block, RefAction, RefUid
  <2>6. CASE new.phase = "Running" /\ old.phase = None /\ approval = None /\ bind /\ new.ref.action = "start"
    BY <2>1, <2>2, <2>6 DEF Lifecycle!Next, Lifecycle!Start, Lifecycle!Bind, RefAction, RefUid, Consistent
  <2>7. CASE /\ new.phase = "AwaitingApproval" /\ old.phase = "Running" /\ old.ref.action = "start"
             /\ new.ref = old.ref /\ new.decision # None
    BY <2>1, <2>2, <2>7 DEF Lifecycle!Next, Lifecycle!Await, RefAction, RefUid, Consistent, Admitted
  <2>8. CASE /\ new.phase = "Running" /\ old.phase = "AwaitingApproval" /\ approval # None /\ bind
             /\ new.ref.action = "resume"
    BY <2>1, <2>2, <2>8 DEF Lifecycle!Next, Lifecycle!Resume, Lifecycle!Bind, RefAction, RefUid, Consistent
  <2>9. CASE new.phase = "Verifying" /\ old.phase = "Running" /\ bind /\ new.ref.action = "verify"
    BY <2>1, <2>2, <2>9 DEF Lifecycle!Next, Lifecycle!Verify, Lifecycle!Bind, RefAction, RefUid, Consistent, Admitted
  <2>10. CASE new.phase = "Succeeded" /\ old.phase = "Verifying" /\ kept
    BY <2>1, <2>10 DEF Lifecycle!Next, Lifecycle!Succeed, RefAction, RefUid
  <2> QED BY <2>3, <2>4, <2>5, <2>6, <2>7, <2>8, <2>9, <2>10 DEF Follows
<1> QED BY <1>1, <1>2, <1>3, QuietSteps

\* The control plane implements the lifecycle.
THEOREM LifecycleTheorem == Spec => FollowsLifecycle
<1>1. Init => Lifecycle!Init
  BY SMTT(60) DEF Init, NoStatus, Lifecycle!Init, RefAction, RefUid
<1>2. ControlInv /\ [Next]_vars => [Lifecycle!Next]_(Lifecycle!vars)
  BY LifecycleStep
<1> QED BY <1>1, <1>2, ControlInvariant, PTL DEF Spec, FollowsLifecycle, Lifecycle!Spec

-----------------------------------------------------------------------------
(***************************************************************************)
(* The termination message protocol, StepResult, for every number of       *)
(* changes.  A content that was replaced never comes back, so the contents *)
(* that main reads one after the other never decrease: the bundle it reads *)
(* before verify_run is at most the one verify_run looks at, and that is   *)
(* at most the one it reads afterwards.                                    *)
(***************************************************************************)
Unread == {"parse", "suite", "load", "start", "resume", "verify"}

Writing == {"emit", "exited"}

StepShape ==
    /\ changes \in Nat
    /\ result = [run |-> result.run, decision |-> result.decision, bundle |-> result.bundle]
    /\ looked = [run |-> looked.run, bundle |-> looked.bundle, decisionOf |-> looked.decisionOf]
    /\ pc \in Unread => result = NoResult
    /\ pc # "parse" => Running
    /\ pc \in {"start", "inspect"} => phase = "Start"
    /\ pc = "resume" => phase = "Resume"
    /\ pc = "verify" => phase = "Verify"

\* The reads of _verify_stable_bundle are in order.
ReadsInOrder ==
    /\ bundle # Empty => bundle \in Nat /\ bundle <= changes /\ runId # Empty
    /\ pc \in {"check", "after"} => result.bundle \in Nat /\ result.bundle <= changes
    /\ pc = "check" /\ bundle # Empty => result.bundle <= bundle
    /\ pc = "after" => /\ looked.bundle \in Nat /\ looked.bundle <= changes /\ looked.run # Empty
                       /\ result.bundle <= looked.bundle
                       /\ bundle # Empty => looked.bundle <= bundle

\* What the steps of main have found when they get to the end.
FoundInv ==
    pc \in {"inspect", "before", "check", "after", "done"} =>
        /\ phase = "Start" =>
              /\ result.run # Empty
              /\ result.decision # Empty => pc = "done" /\ result.bundle = Empty /\ looked.decisionOf = result.run
        /\ phase = "Resume" => result.run # Empty /\ result.decision = published.decision
        /\ phase = "Verify" => result.decision = Empty
        /\ pc = "inspect" => result.bundle = Empty
        /\ pc = "done" /\ result.bundle = Empty => phase = "Start" /\ result.decision # Empty
        /\ pc = "done" /\ result.bundle # Empty => result.bundle = looked.bundle /\ looked.run # Empty

\* A message that is no refusal says what main has seen.
Reported(m) ==
    /\ Parses(m) /\ Belongs(m) /\ m.outcome \in {"awaiting_approval", "completed", "verified"}
    /\ m.bundle_sha256 # Empty => m.bundle_sha256 = looked.bundle /\ m.run_id = looked.run
    /\ m.outcome = "awaiting_approval" => m.run_id = looked.decisionOf

MessageInv ==
    /\ message # Empty /\ message.execution_spec_sha256 # Empty => Parses(message) /\ Belongs(message)
    /\ exit = 0 => pc \in Writing /\ Reported(message)
    /\ pc = "exited" /\ exit = 0 => log = "whole"

PublishedInv ==
    /\ phase \in {"AwaitingApproval", "Resume"} =>
          published.run = looked.decisionOf /\ published.run # Empty /\ published.decision # Empty
    /\ phase = "Succeeded" => published.run = looked.run /\ published.bundle = looked.bundle /\ published.run # Empty

StepInv == StepShape /\ ReadsInOrder /\ FoundInv /\ MessageInv /\ PublishedInv

LEMMA ActionNamed == Action # Empty /\ Action \in {"start", "resume", "verify"}
BY StepAssumption DEF Action

\* _classify_error never ends with 0.
LEMMA ErrorExit == ASSUME NEW code \in ErrorCodes PROVE ExitCode(code) # 0
BY SMTT(60) DEF ErrorCodes, ExitCode

\* A step that neither decides on a message nor starts another Job.
LEMMA MessageSame ==
    ASSUME MessageInv, pc \notin Writing, pc' \notin Writing, UNCHANGED <<phase, message, exit>>
    PROVE  MessageInv'
<1>1. exit # 0 /\ exit' # 0 BY DEF MessageInv
<1>2. Belongs(message) = Belongs(message)' BY DEF Belongs, Action
<1> QED BY <1>1, <1>2 DEF MessageInv, Parses, Carried, ErrorCodes

\* The status is as it was; only a Job for start takes a decision.
LEMMA PublishedSame ==
    ASSUME PublishedInv, Running, UNCHANGED <<phase, published>>,
           looked'.decisionOf = looked.decisionOf \/ phase = "Start"
    PROVE  PublishedInv'
BY DEF PublishedInv, Running

\* A refusal parses as soon as the arguments are valid.
LEMMA BlockedParses ==
    ASSUME NEW action, NEW uid, NEW spec, NEW code \in ErrorCodes,
           spec = Empty \/ (spec = "spec" /\ uid = "uid" /\ action = Action)
    PROVE  LET m == Termination(action, uid, spec, "blocked", Empty, Empty, Empty, code)
           IN  m.execution_spec_sha256 # Empty => Parses(m) /\ Belongs(m)
<1> DEFINE m == Termination(action, uid, spec, "blocked", Empty, Empty, Empty, code)
<1>1. /\ m.protocol = "v1" /\ m.action = action /\ m.outcome = "blocked" /\ m.agent_run_uid = uid
      /\ m.execution_spec_sha256 = spec /\ m.run_id = Empty /\ m.resume_decision_sha256 = Empty
      /\ m.bundle_sha256 = Empty /\ m.error_code = code
  BY SMTT(60) DEF Termination
<1> HIDE DEF m
<1> SUFFICES ASSUME spec # Empty PROVE Parses(m) /\ Belongs(m)
  BY <1>1 DEF m
<1>2. Carried(m) BY <1>1 DEF Carried
<1>3. Parses(m) BY <1>1, <1>2, ActionNamed, StepAssumption DEF Parses
<1> QED BY <1>1, <1>3 DEF Belongs

\* A refusal is emitted; nothing else changes.
LEMMA EmitBlockedStep ==
    ASSUME StepInv, Running, NEW action, NEW uid, NEW spec, NEW code \in ErrorCodes, EmitBlocked(action, uid, spec, code),
           spec = Empty \/ (spec = "spec" /\ uid = "uid" /\ action = Action),
           UNCHANGED <<phase, published, bundle, runId, result, looked, changes>>
    PROVE  StepInv'
<1> DEFINE m == Termination(action, uid, spec, "blocked", Empty, Empty, Empty, code)
<1>1. message' = m /\ exit' = ExitCode(code) /\ pc' = "emit"
  BY DEF EmitBlocked, Emit
<1>2. m.execution_spec_sha256 # Empty => Parses(m) /\ Belongs(m)
  BY BlockedParses
<1> HIDE DEF m
<1>3. exit' # 0 BY <1>1, ErrorExit
<1>6. MessageInv'
  <2>1. message' # Empty /\ message'.execution_spec_sha256 # Empty => Parses(message)' /\ Belongs(message)'
    BY <1>1, <1>2 DEF Parses, Carried, Belongs, Action, ErrorCodes
  <2> QED BY <1>3, <2>1 DEF MessageInv
<1>7. StepShape' BY <1>1 DEF StepInv, StepShape, Running, Unread, NoResult
<1>8. ReadsInOrder' BY <1>1 DEF StepInv, ReadsInOrder
<1>9. FoundInv' BY <1>1 DEF FoundInv
<1>10. PublishedInv' BY PublishedSame DEF StepInv
<1> QED BY <1>6, <1>7, <1>8, <1>9, <1>10 DEF StepInv

\* An exception of one of the four classes.
LEMMA RaiseStep ==
    ASSUME StepInv, Running, NEW code \in ErrorCodes, Raise(code), UNCHANGED <<phase, published, bundle, runId, changes>>
    PROVE  StepInv'
BY EmitBlockedStep DEF Raise

\* A step of main that goes on.
LEMMA FoundStep ==
    ASSUME StepInv, Running, pc \notin Writing, pc' \notin Writing, UNCHANGED <<message, exit>>,
           UNCHANGED <<phase, published>>, looked'.decisionOf = looked.decisionOf \/ phase = "Start",
           StepShape', ReadsInOrder', FoundInv'
    PROVE  StepInv'
<1>1. MessageInv' BY MessageSame DEF StepInv
<1>2. PublishedInv' BY PublishedSame DEF StepInv
<1> QED BY <1>1, <1>2 DEF StepInv

\* The steps before _execute find nothing yet.
LEMMA UnreadStep ==
    ASSUME StepInv, Running, pc \in Unread, pc' \in Unread, UNCHANGED <<message, exit>>,
           UNCHANGED <<phase, published, bundle, runId, result, looked, changes>>,
           pc' \in {"start", "resume", "verify"} => pc' = Action
    PROVE  StepInv'
<1>1. pc \notin Writing /\ pc' \notin Writing BY DEF Unread, Writing
<1>2. StepShape'
  <2>1. /\ pc' = "start" => phase = "Start"
        /\ pc' = "resume" => phase = "Resume"
        /\ pc' = "verify" => phase = "Verify"
    BY DEF Action, Running
  <2> QED BY <2>1 DEF StepInv, StepShape, Unread, Running, NoResult
<1>3. ReadsInOrder' BY DEF StepInv, ReadsInOrder, Unread
<1>4. FoundInv' BY DEF FoundInv, Unread
<1> QED BY <1>1, <1>2, <1>3, <1>4, FoundStep

LEMMA ParseStep == ASSUME StepInv, Parse PROVE StepInv'
<1>1. /\ Running /\ pc = "parse"
      /\ UNCHANGED <<phase, published, bundle, runId, result, looked, changes>>
  BY DEF Parse
<1>2. {"invalid_request", "internal_error"} \subseteq ErrorCodes BY DEF ErrorCodes
<1>3. CASE pc' = "suite" /\ UNCHANGED <<message, exit>>
  BY <1>1, <1>3, UnreadStep DEF Unread
<1>4. CASE EmitBlocked(Empty, Empty, Empty, "invalid_request")
  BY <1>1, <1>2, <1>4, EmitBlockedStep
<1>5. CASE EmitBlocked(Action, Empty, Empty, "invalid_request")
  BY <1>1, <1>2, <1>5, EmitBlockedStep
<1>6. CASE EmitBlocked(Action, "uid", Empty, "invalid_request")
  BY <1>1, <1>2, <1>6, EmitBlockedStep
<1>7. CASE \E code \in {"invalid_request", "internal_error"} : EmitBlocked(Action, "uid", "spec", code)
  <2>1. PICK code \in {"invalid_request", "internal_error"} : EmitBlocked(Action, "uid", "spec", code)
    BY <1>7
  <2> QED BY <1>1, <1>2, <2>1, EmitBlockedStep
<1> QED BY <1>3, <1>4, <1>5, <1>6, <1>7 DEF Parse

LEMMA SuiteStep == ASSUME StepInv, CompareSuite \/ LoadSuite PROVE StepInv'
<1>1. Running /\ UNCHANGED <<phase, published, bundle, runId, changes>> /\ pc \in {"suite", "load"}
  BY DEF StepInv, StepShape, CompareSuite, LoadSuite
<1>2. {"evidence_invalid", "invalid_request", "internal_error"} \subseteq ErrorCodes BY DEF ErrorCodes
<1>3. CASE \E code \in ErrorCodes : Raise(code)
  BY <1>1, <1>3, RaiseStep
<1>4. CASE /\ UNCHANGED <<message, exit, result, looked>> /\ pc' \in {"load", Action}
  <2>1. pc \in Unread /\ pc' \in Unread /\ (pc' \in {"start", "resume", "verify"} => pc' = Action)
    BY <1>1, <1>4, ActionNamed DEF Unread
  <2> QED BY <1>1, <1>4, <2>1, UnreadStep
<1> QED BY <1>2, <1>3, <1>4 DEF CompareSuite, LoadSuite, Found

LEMMA NoResultPatched ==
    ASSUME NEW run, NEW decision
    PROVE  [NoResult EXCEPT !.run = run, !.decision = decision] = [run |-> run, decision |-> decision, bundle |-> Empty]
<1> DEFINE started == [NoResult EXCEPT !.run = run]
<1>1. started = [run |-> run, decision |-> Empty, bundle |-> Empty] BY SMTT(60) DEF NoResult
<1>2. [NoResult EXCEPT !.run = run, !.decision = decision] = [started EXCEPT !.decision = decision] OBVIOUS
<1> HIDE DEF started
<1>3. [started EXCEPT !.decision = decision] = [run |-> run, decision |-> decision, bundle |-> Empty] BY SMTT(60), <1>1
<1> QED BY <1>2, <1>3

\* start_run: the run is new, and so is the bundle it may have sealed.
LEMMA StartRunStep == ASSUME StepInv, StartRun PROVE StepInv'
<1>1. pc = "start" /\ phase = "Start" /\ Running /\ UNCHANGED <<phase, published>> /\ changes \in Nat /\ result = NoResult
  BY DEF StepInv, StepShape, StartRun, Unread, Running
<1>2. CASE Fails /\ UNCHANGED <<bundle, runId, changes>>
  BY <1>1, <1>2, RaiseStep DEF Fails
<1>3. CASE /\ Fresh /\ runId' = changes' /\ UNCHANGED looked
           /\ \/ bundle' = Empty /\ Found([result EXCEPT !.run = changes'], "inspect")
              \/ bundle' = changes' /\ Found([result EXCEPT !.run = changes'], "before")
  <2>1. changes' \in Nat /\ changes' = changes + 1 /\ changes' # Empty /\ changes' <= changes'
    <3>1. changes' = changes + 1 BY <1>3 DEF Fresh
    <3>2. changes' \in Nat /\ changes' <= changes' BY SMTT(60), <1>1, <3>1
    <3> QED BY <3>1, <3>2, StepAssumption
  <2>2. /\ pc' \in {"inspect", "before"} /\ UNCHANGED <<message, exit>>
        /\ result' = [NoResult EXCEPT !.run = changes']
    BY <1>1, <1>3 DEF Found
  <2>3. result' = [run |-> changes', decision |-> Empty, bundle |-> Empty]
    BY SMTT(60), <2>2 DEF NoResult
  <2>4. result'.run = changes' /\ result'.decision = Empty /\ result'.bundle = Empty
    BY SMTT(60), <2>3
  <2>5. StepShape'
    BY <1>1, <1>3, <2>1, <2>2, <2>3, <2>4 DEF StepInv, StepShape, Running, Unread
  <2>6. ReadsInOrder'
    BY <1>3, <2>1, <2>2 DEF ReadsInOrder
  <2>7. FoundInv'
    BY <1>1, <2>1, <2>2, <2>4 DEF FoundInv
  <2> QED BY <1>1, <1>3, <2>2, <2>5, <2>6, <2>7, FoundStep DEF Writing
<1> QED BY <1>2, <1>3 DEF StartRun

\* resume_run: the run and the decision are those of the status.
LEMMA ResumeRunStep == ASSUME StepInv, ResumeRun PROVE StepInv'
<1>1. pc = "resume" /\ phase = "Resume" /\ Running /\ UNCHANGED <<phase, published, runId>> /\ changes \in Nat /\ result = NoResult
  BY DEF StepInv, StepShape, ResumeRun, Unread, Running
<1>2. CASE Fails /\ UNCHANGED <<bundle, changes>>
  BY <1>1, <1>2, RaiseStep DEF Fails
<1>3. CASE /\ runId = published.run /\ Fresh /\ bundle' = changes' /\ UNCHANGED looked
           /\ Found([result EXCEPT !.run = runId, !.decision = published.decision], "before")
  <2>1. changes' \in Nat /\ changes' = changes + 1 /\ changes' # Empty /\ changes' <= changes'
    <3>1. changes' = changes + 1 BY <1>3 DEF Fresh
    <3>2. changes' \in Nat /\ changes' <= changes' BY SMTT(60), <1>1, <3>1
    <3> QED BY <3>1, <3>2, StepAssumption
  <2>2. /\ pc' = "before" /\ UNCHANGED <<message, exit>>
        /\ result' = [NoResult EXCEPT !.run = runId, !.decision = published.decision]
    BY <1>1, <1>3 DEF Found
  <2>3. result' = [run |-> runId, decision |-> published.decision, bundle |-> Empty]
    BY <2>2, NoResultPatched
  <2>4. result'.run = runId /\ result'.decision = published.decision /\ result'.bundle = Empty
    BY SMTT(60), <2>3
  <2>5. runId # Empty BY <1>1, <1>3 DEF StepInv, PublishedInv
  <2>6. StepShape'
    BY <1>1, <1>3, <2>1, <2>2, <2>3, <2>4 DEF StepInv, StepShape, Running, Unread
  <2>7. ReadsInOrder'
    BY <1>1, <1>3, <2>1, <2>2, <2>5 DEF ReadsInOrder
  <2>8. FoundInv'
    BY <1>1, <2>2, <2>4, <2>5 DEF FoundInv
  <2> QED BY <1>1, <1>3, <2>2, <2>6, <2>7, <2>8, FoundStep DEF Writing
<1> QED BY <1>2, <1>3 DEF ResumeRun

LEMMA VerifyRunStep == ASSUME StepInv, VerifyRun PROVE StepInv'
<1>1. /\ pc = "verify" /\ phase = "Verify" /\ Running /\ UNCHANGED <<phase, published, bundle, runId, looked, changes>>
      /\ result = NoResult /\ pc' = "before" /\ UNCHANGED <<message, exit, result>>
  BY DEF StepInv, StepShape, VerifyRun, Unread, Running, Found
<1>2. result.decision = Empty BY SMTT(60), <1>1 DEF NoResult
<1>3. StepShape' BY <1>1 DEF StepInv, StepShape, Running, Unread
<1>4. ReadsInOrder' BY <1>1 DEF StepInv, ReadsInOrder
<1>5. FoundInv' BY <1>1, <1>2 DEF FoundInv
<1> QED BY <1>1, <1>3, <1>4, <1>5, FoundStep DEF Writing

\* _awaiting_approval: the decision is that of the run beside it.
LEMMA AwaitingStep == ASSUME StepInv, AwaitingApproval PROVE StepInv'
<1>1. pc = "inspect" /\ phase = "Start" /\ Running /\ UNCHANGED <<phase, published, bundle, runId>> /\ changes \in Nat
  BY DEF StepInv, StepShape, AwaitingApproval, Running
<1>2. CASE (\E code \in ErrorCodes : Raise(code)) /\ UNCHANGED changes
  BY <1>1, <1>2, RaiseStep
<1>3. CASE runId = result.run /\ Decided
  <2>1. changes' \in Nat /\ changes' = changes + 1 /\ changes' # Empty /\ \A v \in Nat : v <= changes => v <= changes'
    <3>1. changes' = changes + 1 BY <1>3 DEF Decided, Fresh
    <3>2. changes' \in Nat /\ \A v \in Nat : v <= changes => v <= changes' BY SMTT(60), <1>1, <3>1
    <3> QED BY <3>1, <3>2, StepAssumption
  <2>2. /\ pc' = "done" /\ UNCHANGED <<message, exit>> /\ result' = [result EXCEPT !.decision = changes']
        /\ looked' = [looked EXCEPT !.decisionOf = runId]
    BY <1>3 DEF Decided, Found
  <2>3. /\ result = [run |-> result.run, decision |-> result.decision, bundle |-> result.bundle]
        /\ looked = [run |-> looked.run, bundle |-> looked.bundle, decisionOf |-> looked.decisionOf]
    BY DEF StepInv, StepShape
  <2>4. /\ result' = [run |-> result.run, decision |-> changes', bundle |-> result.bundle]
        /\ result'.run = result.run /\ result'.decision = changes' /\ result'.bundle = result.bundle
    BY SMTT(60), <2>2, <2>3
  <2>5. /\ looked' = [run |-> looked.run, bundle |-> looked.bundle, decisionOf |-> runId]
        /\ looked'.run = looked.run /\ looked'.bundle = looked.bundle /\ looked'.decisionOf = runId
    BY SMTT(60), <2>2, <2>3
  <2>6. result.bundle = Empty /\ result.run # Empty BY <1>1 DEF StepInv, FoundInv
  <2>7. StepShape'
    BY <1>1, <2>1, <2>2, <2>4, <2>5 DEF StepInv, StepShape, Running, Unread
  <2>8. ReadsInOrder'
    BY <1>1, <2>1, <2>2 DEF StepInv, ReadsInOrder
  <2>9. FoundInv'
    BY <1>1, <1>3, <2>1, <2>2, <2>4, <2>5, <2>6 DEF FoundInv
  <2> QED BY <1>1, <2>2, <2>7, <2>8, <2>9, FoundStep DEF Writing
<1>4. "evidence_invalid" \in ErrorCodes BY DEF ErrorCodes
<1> QED BY <1>2, <1>3, <1>4 DEF AwaitingApproval, Fails

\* _verify_stable_bundle reads the bundle that is there,
LEMMA ReadBeforeStep == ASSUME StepInv, ReadBefore PROVE StepInv'
<1>1. pc = "before" /\ Running /\ UNCHANGED <<phase, published, bundle, runId, changes>>
  BY DEF StepInv, StepShape, ReadBefore
<1>2. CASE \E code \in ErrorCodes : Raise(code)
  BY <1>1, <1>2, RaiseStep
<1>3. CASE bundle # Empty /\ Found([result EXCEPT !.bundle = bundle], "check") /\ UNCHANGED looked
  <2>1. pc' = "check" /\ UNCHANGED <<message, exit>> /\ result' = [result EXCEPT !.bundle = bundle]
    BY <1>3 DEF Found
  <2>2. result = [run |-> result.run, decision |-> result.decision, bundle |-> result.bundle]
    BY DEF StepInv, StepShape
  <2>3. /\ result' = [run |-> result.run, decision |-> result.decision, bundle |-> bundle]
        /\ result'.run = result.run /\ result'.decision = result.decision /\ result'.bundle = bundle
    BY SMTT(60), <2>1, <2>2
  <2>4. bundle \in Nat /\ bundle <= changes BY <1>3 DEF StepInv, ReadsInOrder
  <2>5. bundle <= bundle BY SMTT(60), <2>4
  <2>6. StepShape' BY <1>1, <1>3, <2>1, <2>3 DEF StepInv, StepShape, Running, Unread
  <2>7. ReadsInOrder' BY <1>1, <2>1, <2>3, <2>4, <2>5 DEF StepInv, ReadsInOrder
  <2>8. FoundInv' BY <1>1, <2>1, <2>3 DEF StepInv, FoundInv
  <2> QED BY <1>1, <1>3, <2>1, <2>6, <2>7, <2>8, FoundStep DEF Writing
<1>4. {"invalid_request", "internal_error"} \subseteq ErrorCodes BY DEF ErrorCodes
<1> QED BY <1>2, <1>3, <1>4 DEF ReadBefore

\* verify_run looks at one that is no older,
LEMMA VerifyBundleStep == ASSUME StepInv, VerifyBundle PROVE StepInv'
<1>1. pc = "check" /\ Running /\ UNCHANGED <<phase, published, bundle, runId, changes>>
  BY DEF StepInv, StepShape, VerifyBundle
<1>2. CASE Fails
  BY <1>1, <1>2, RaiseStep DEF Fails
<1>3. CASE bundle # Empty /\ Found(result, "after") /\ looked' = [looked EXCEPT !.run = runId, !.bundle = bundle]
  <2>1. pc' = "after" /\ UNCHANGED <<message, exit, result>>
    BY <1>3 DEF Found
  <2>2. looked = [run |-> looked.run, bundle |-> looked.bundle, decisionOf |-> looked.decisionOf]
    BY DEF StepInv, StepShape
  <2> DEFINE seen == [looked EXCEPT !.run = runId]
  <2>3. looked' = [seen EXCEPT !.bundle = bundle]
    BY <1>3
  <2>4. seen = [run |-> runId, bundle |-> looked.bundle, decisionOf |-> looked.decisionOf]
    BY SMTT(60), <2>2
  <2>. HIDE DEF seen
  <2>5. /\ looked' = [run |-> runId, bundle |-> bundle, decisionOf |-> looked.decisionOf]
        /\ looked'.run = runId /\ looked'.bundle = bundle /\ looked'.decisionOf = looked.decisionOf
    BY SMTT(60), <2>3, <2>4
  <2>6. /\ bundle \in Nat /\ bundle <= changes /\ runId # Empty
        /\ result.bundle \in Nat /\ result.bundle <= changes /\ result.bundle <= bundle
    BY <1>1, <1>3 DEF StepInv, ReadsInOrder
  <2>7. bundle <= bundle BY SMTT(60), <2>6
  <2>8. StepShape' BY <1>1, <2>1, <2>5 DEF StepInv, StepShape, Running, Unread
  <2>9. ReadsInOrder' BY <1>1, <2>1, <2>5, <2>6, <2>7 DEF ReadsInOrder
  <2>10. FoundInv' BY <1>1, <2>1, <2>5 DEF StepInv, FoundInv
  <2> QED BY <1>1, <2>1, <2>5, <2>8, <2>9, <2>10, FoundStep DEF Writing
<1> QED BY <1>2, <1>3 DEF VerifyBundle

\* and when the last read finds the first bundle, verify_run has looked at that.
LEMMA ReadAfterStep == ASSUME StepInv, ReadAfter PROVE StepInv'
<1>1. pc = "after" /\ Running /\ UNCHANGED <<phase, published, bundle, runId, changes>>
  BY DEF StepInv, StepShape, ReadAfter
<1>2. CASE \E code \in ErrorCodes : Raise(code)
  BY <1>1, <1>2, RaiseStep
<1>3. CASE bundle = result.bundle /\ Found(result, "done") /\ UNCHANGED looked
  <2>1. pc' = "done" /\ UNCHANGED <<message, exit, result>>
    BY <1>3 DEF Found
  <2>2. /\ result.bundle \in Nat /\ looked.bundle \in Nat /\ looked.run # Empty
        /\ result.bundle <= looked.bundle /\ (bundle # Empty => looked.bundle <= bundle)
    BY <1>1 DEF StepInv, ReadsInOrder
  <2>3. bundle # Empty BY <1>3, <2>2, StepAssumption
  <2>4. result.bundle = looked.bundle BY SMTT(60), <1>3, <2>2, <2>3
  <2>5. StepShape' BY <1>1, <1>3, <2>1 DEF StepInv, StepShape, Running, Unread
  <2>6. ReadsInOrder' BY <1>1, <2>1 DEF StepInv, ReadsInOrder
  <2>7. FoundInv' BY <1>1, <1>3, <2>1, <2>2, <2>3, <2>4 DEF StepInv, FoundInv
  <2> QED BY <1>1, <1>3, <2>1, <2>5, <2>6, <2>7, FoundStep DEF Writing
<1>4. {"evidence_invalid", "invalid_request", "internal_error"} \subseteq ErrorCodes BY DEF ErrorCodes
<1> QED BY <1>2, <1>3, <1>4 DEF ReadAfter

\* The end of _execute: a message that is no refusal carries what its outcome says.
LEMMA ExecuteStep == ASSUME StepInv, Execute PROVE StepInv'
<1> DEFINE run == IF Action = "verify" THEN looked.run ELSE result.run
           m == Termination(Action, "uid", "spec", Outcome, run, result.decision, result.bundle, Empty)
<1>1. pc = "done" /\ Running /\ UNCHANGED <<phase, published, bundle, runId, result, looked, changes>>
  BY DEF StepInv, StepShape, Execute
<1>2. CASE Outcome = "completed" /\ run # looked.run
  <2>1. EmitBlocked(Action, "uid", "spec", "evidence_invalid") BY <1>2 DEF Execute
  <2> QED BY <1>1, <2>1, EmitBlockedStep DEF ErrorCodes
<1>3. CASE ~(Outcome = "completed" /\ run # looked.run)
  <2>1. message' = m /\ exit' = 0 /\ pc' = "emit" BY <1>3 DEF Execute, Emit
  <2>2. /\ m.protocol = "v1" /\ m.action = Action /\ m.outcome = Outcome /\ m.agent_run_uid = "uid"
        /\ m.execution_spec_sha256 = "spec" /\ m.run_id = run /\ m.resume_decision_sha256 = result.decision
        /\ m.bundle_sha256 = result.bundle /\ m.error_code = Empty
    BY SMTT(60) DEF Termination
  <2>3. /\ phase = "Start" =>
              /\ result.run # Empty
              /\ result.decision # Empty => result.bundle = Empty /\ looked.decisionOf = result.run
        /\ phase = "Resume" => result.run # Empty /\ result.decision = published.decision
        /\ phase = "Verify" => result.decision = Empty
        /\ result.bundle = Empty => phase = "Start" /\ result.decision # Empty
        /\ result.bundle # Empty => result.bundle = looked.bundle /\ looked.run # Empty
        /\ phase = "Resume" => published.decision # Empty
    BY <1>1 DEF StepInv, FoundInv, PublishedInv
  <2>. HIDE DEF m
  <2>4. Reported(m)
    <3>1. CASE phase = "Start" /\ result.bundle = Empty
      <4>1. Action = "start" /\ Outcome = "awaiting_approval" /\ run = result.run
        BY <3>1 DEF Action, Outcome
      <4>2. Carried(m) BY <2>2, <2>3, <3>1, <4>1 DEF Carried
      <4> QED BY <2>2, <2>3, <3>1, <4>1, <4>2, StepAssumption DEF Reported, Parses, Belongs
    <3>2. CASE phase \in {"Start", "Resume"} /\ result.bundle # Empty
      <4>1. /\ Action \in {"start", "resume"} /\ Outcome = "completed" /\ run = result.run /\ run = looked.run
            /\ Action = "resume" <=> phase = "Resume"
        BY <1>3, <3>2 DEF Action, Outcome
      <4>2. Carried(m) BY <2>2, <2>3, <3>2, <4>1 DEF Carried
      <4> QED BY <2>2, <2>3, <3>2, <4>1, <4>2, StepAssumption DEF Reported, Parses, Belongs
    <3>3. CASE phase = "Verify"
      <4>1. Action = "verify" /\ Outcome = "verified" /\ run = looked.run
        BY <3>3 DEF Action, Outcome
      <4>2. Carried(m) BY <2>2, <2>3, <3>3, <4>1 DEF Carried
      <4> QED BY <2>2, <2>3, <3>3, <4>1, <4>2, StepAssumption DEF Reported, Parses, Belongs
    <3> QED BY <1>1, <2>3, <3>1, <3>2, <3>3 DEF Running
  <2>5. MessageInv'
    <3>1. Action' = Action BY <1>1 DEF Action
    <3>2. Reported(message)' BY <1>1, <2>1, <2>4, <3>1 DEF Reported, Parses, Carried, Belongs, ErrorCodes
    <3> QED BY <2>1, <3>2 DEF MessageInv, Reported, Writing
  <2>6. StepShape' BY <1>1, <2>1 DEF StepInv, StepShape, Running, Unread
  <2>7. ReadsInOrder' BY <1>1, <2>1 DEF StepInv, ReadsInOrder
  <2>8. FoundInv' BY <2>1 DEF FoundInv
  <2>9. PublishedInv' BY <1>1, PublishedSame DEF StepInv
  <2> QED BY <2>5, <2>6, <2>7, <2>8, <2>9 DEF StepInv
<1> QED BY <1>2, <1>3

\* The message is written, whole or in part, or the container is killed.
LEMMA WrittenStep ==
    ASSUME StepInv, Running, pc' = "exited", exit' = 0 => exit = 0 /\ log' = "whole",
           UNCHANGED <<phase, published, bundle, runId, result, looked, message, changes>>
    PROVE  StepInv'
<1>1. MessageInv'
  <2>1. Action' = Action BY DEF Action
  <2>2. /\ message' # Empty /\ message'.execution_spec_sha256 # Empty => Parses(message)' /\ Belongs(message)'
        /\ exit' = 0 => Reported(message)'
    BY <2>1 DEF StepInv, MessageInv, Reported, Parses, Carried, Belongs, ErrorCodes
  <2> QED BY <2>2 DEF MessageInv, Writing
<1>2. StepShape' BY DEF StepInv, StepShape, Running, Unread
<1>3. ReadsInOrder' BY DEF StepInv, ReadsInOrder
<1>4. FoundInv' BY DEF FoundInv
<1>5. PublishedInv' BY PublishedSame DEF StepInv
<1> QED BY <1>1, <1>2, <1>3, <1>4, <1>5 DEF StepInv

LEMMA WriteStep == ASSUME StepInv, WriteTermination \/ WriteFails \/ Killed PROVE StepInv'
<1>1. /\ Running /\ pc' = "exited" /\ UNCHANGED <<phase, published, bundle, runId, result, looked, message, changes>>
      /\ \/ log' = "whole" /\ exit' = exit
         \/ exit' \in {70, 137}
  BY DEF StepInv, StepShape, WriteTermination, WriteFails, Killed
<1>2. 70 # 0 /\ 137 # 0 BY SMTT(60)
<1> QED BY <1>1, <1>2, WrittenStep

\* The next Job starts with nothing read and nothing said.
LEMMA NextPhaseStep ==
    ASSUME StepInv, NEW p, NEW s, NextPhase(p, s), UNCHANGED <<bundle, runId, changes>>,
           /\ p \in {"AwaitingApproval", "Resume"} =>
                 s.run = looked.decisionOf /\ s.run # Empty /\ s.decision # Empty
           /\ p = "Succeeded" => s.run = looked.run /\ s.bundle = looked.bundle /\ s.run # Empty
    PROVE  StepInv'
<1>1. /\ phase' = p /\ published' = s /\ pc' = "parse" /\ result' = NoResult /\ looked' = looked
      /\ message' = Empty /\ exit' = Empty
  BY DEF NextPhase
<1>2. NoResult = [run |-> NoResult.run, decision |-> NoResult.decision, bundle |-> NoResult.bundle]
  BY SMTT(60) DEF NoResult
<1>3. exit' # 0
  <2>1. 0 \in Nat BY SMTT(60)
  <2> QED BY <1>1, <2>1, StepAssumption
<1>4. MessageInv' BY <1>1, <1>3 DEF MessageInv
<1>5. StepShape'
  <2>1. result' = [run |-> result'.run, decision |-> result'.decision, bundle |-> result'.bundle] BY <1>1, <1>2
  <2>2. result' = NoResult' BY <1>1 DEF NoResult
  <2> QED BY <1>1, <2>1, <2>2 DEF StepInv, StepShape
<1>6. ReadsInOrder' BY <1>1 DEF StepInv, ReadsInOrder
<1>7. FoundInv' BY <1>1 DEF FoundInv
<1>8. PublishedInv' BY <1>1 DEF PublishedInv
<1> QED BY <1>4, <1>5, <1>6, <1>7, <1>8 DEF StepInv

\* acceptStepResult publishes what the message reports, when it agrees with the status.
LEMMA ReadResultStep == ASSUME StepInv, ReadResult PROVE StepInv'
<1>1. pc = "exited" /\ UNCHANGED <<bundle, runId, changes>> BY DEF ReadResult
<1>2. CASE BlockRun
  <2>1. NextPhase("Blocked", published) BY <1>2 DEF BlockRun
  <2> QED BY <1>1, <2>1, NextPhaseStep
<1>3. CASE exit = 0 /\ AcceptStepResult(message) /\ ~BlockRun
  <2> DEFINE m == message
  <2>1. Reported(m) BY <1>3 DEF StepInv, MessageInv
  <2>. HIDE DEF m
  <2>2. CASE m.action = "start" /\ m.outcome = "awaiting_approval"
    <3> DEFINE s == [run |-> m.run_id, decision |-> m.resume_decision_sha256, bundle |-> Empty]
    <3>1. NextPhase("AwaitingApproval", s) BY <1>3, <2>2 DEF AcceptStepResult, m
    <3>2. m.run_id = looked.decisionOf /\ m.run_id # Empty /\ m.resume_decision_sha256 # Empty
      BY <2>1, <2>2 DEF Reported, Parses, Carried
    <3>3. s.run = m.run_id /\ s.decision = m.resume_decision_sha256 BY SMTT(60)
    <3>. HIDE DEF s
    <3> QED BY <1>1, <3>1, <3>2, <3>3, NextPhaseStep
  <2>3. CASE \E s : NextPhase("Verify", s)
    BY <1>1, <2>3, NextPhaseStep
  <2>4. CASE /\ m.action = "verify" /\ m.outcome = "verified" /\ m.run_id = published.run
             /\ m.bundle_sha256 = published.bundle /\ NextPhase("Succeeded", published)
    <3>1. m.bundle_sha256 = looked.bundle /\ m.run_id = looked.run /\ m.run_id # Empty
      BY <2>1, <2>4 DEF Reported, Parses, Carried
    <3> QED BY <1>1, <2>4, <3>1, NextPhaseStep
  <2> QED BY <1>3, <2>2, <2>3, <2>4 DEF AcceptStepResult, m
<1> QED BY <1>2, <1>3 DEF ReadResult

LEMMA ApproveDecisionStep == ASSUME StepInv, ApproveDecision PROVE StepInv'
<1>1. phase = "AwaitingApproval" /\ NextPhase("Resume", published) /\ UNCHANGED <<bundle, runId, changes>>
  BY DEF ApproveDecision
<1> QED BY <1>1, NextPhaseStep DEF StepInv, PublishedInv

\* Whatever others put in the place of the suite, the bundle or the run is new.
LEMMA ChangedStep == ASSUME StepInv, SuiteChanged \/ BundleChanged \/ RunExchanged PROVE StepInv'
<1>1. /\ UNCHANGED <<phase, published, pc, result, looked, message, log, exit>> /\ Fresh
      /\ bundle' \in {bundle, changes', Empty} /\ (bundle' # Empty => runId' # Empty \/ changes' = Empty)
  BY DEF SuiteChanged, BundleChanged, RunExchanged, StepInv, ReadsInOrder
<1>2. changes \in Nat BY DEF StepInv, StepShape
<1>3. changes' = changes + 1 BY <1>1 DEF Fresh
<1>4. changes' \in Nat /\ changes' <= changes' /\ \A v \in Nat : v <= changes => v <= changes'
  BY SMTT(60), <1>2, <1>3
<1>5. changes' # Empty BY <1>4, StepAssumption
<1>6. StepShape' BY <1>1, <1>4 DEF StepInv, StepShape, Running, NoResult
<1>7. ReadsInOrder'
  <2>1. bundle' # Empty => bundle' \in Nat /\ bundle' <= changes' /\ runId' # Empty
    BY <1>1, <1>4, <1>5 DEF StepInv, ReadsInOrder
  <2>2. pc' \in {"check", "after"} => result'.bundle \in Nat /\ result'.bundle <= changes'
    BY <1>1, <1>4 DEF StepInv, ReadsInOrder
  <2>3. pc' = "check" /\ bundle' # Empty => result'.bundle <= bundle'
    BY <1>1, <1>4 DEF StepInv, ReadsInOrder
  <2>4. pc' = "after" => /\ looked'.bundle \in Nat /\ looked'.bundle <= changes' /\ looked'.run # Empty
                         /\ result'.bundle <= looked'.bundle
                         /\ bundle' # Empty => looked'.bundle <= bundle'
    BY <1>1, <1>4 DEF StepInv, ReadsInOrder
  <2> QED BY <2>1, <2>2, <2>3, <2>4 DEF ReadsInOrder
<1>8. FoundInv' BY <1>1 DEF StepInv, FoundInv
<1>9. MessageInv'
  <2>1. Action' = Action BY <1>1 DEF Action
  <2> QED BY <1>1, <2>1 DEF StepInv, MessageInv, Reported, Parses, Carried, Belongs, ErrorCodes
<1>10. PublishedInv' BY <1>1 DEF StepInv, PublishedInv
<1> QED BY <1>6, <1>7, <1>8, <1>9, <1>10 DEF StepInv

LEMMA StepInvKept == ASSUME StepInv, [NextStep]_stepVars PROVE StepInv'
<1>1. CASE Main
  BY <1>1, ParseStep, SuiteStep, StartRunStep, ResumeRunStep, VerifyRunStep, AwaitingStep, ReadBeforeStep,
     VerifyBundleStep, ReadAfterStep, ExecuteStep, WriteStep DEF Main
<1>2. CASE UNCHANGED stepVars
  <2>1. UNCHANGED <<phase, published, bundle, runId, pc, result, looked, message, log, exit, changes>>
    BY <1>2 DEF stepVars
  <2>2. StepShape' BY <2>1 DEF StepInv, StepShape, Running, NoResult
  <2>3. ReadsInOrder' BY <2>1 DEF StepInv, ReadsInOrder
  <2>4. FoundInv' BY <2>1 DEF StepInv, FoundInv
  <2>5. Action' = Action BY <2>1 DEF Action
  <2>6. MessageInv' BY <2>1, <2>5 DEF StepInv, MessageInv, Reported, Parses, Carried, Belongs, ErrorCodes
  <2>7. PublishedInv' BY <2>1 DEF StepInv, PublishedInv
  <2> QED BY <2>2, <2>3, <2>4, <2>6, <2>7 DEF StepInv
<1> QED BY <1>1, <1>2, ReadResultStep, ApproveDecisionStep, ChangedStep DEF NextStep

(***************************************************************************)
(* What main reads, reports and the controller publishes fit together in   *)
(* every state, for every number of changes.                               *)
(***************************************************************************)
THEOREM StepInvariant == StepSpec => []StepInv
<1>1. ASSUME InitStep PROVE StepInv
  <2>1. 0 \in Nat /\ Empty # 0 BY StepAssumption, SMTT(60)
  <2>2. /\ NoResult = [run |-> NoResult.run, decision |-> NoResult.decision, bundle |-> NoResult.bundle]
        /\ NothingSeen = [run |-> NothingSeen.run, bundle |-> NothingSeen.bundle, decisionOf |-> NothingSeen.decisionOf]
    BY SMTT(60) DEF NoResult, NothingSeen
  <2>3. StepShape BY <1>1, <2>1, <2>2 DEF InitStep, StepShape
  <2>4. ReadsInOrder BY <1>1 DEF InitStep, ReadsInOrder
  <2>5. FoundInv BY <1>1 DEF InitStep, FoundInv
  <2>6. MessageInv BY <1>1, <2>1 DEF InitStep, MessageInv
  <2>7. PublishedInv BY <1>1 DEF InitStep, PublishedInv
  <2> QED BY <2>3, <2>4, <2>5, <2>6, <2>7 DEF StepInv
<1>2. StepInv /\ [NextStep]_stepVars => StepInv'
  BY StepInvKept
<1> QED BY <1>1, <1>2, PTL DEF StepSpec

(***************************************************************************)
(* Every message main decides on once its arguments are valid parses and   *)
(* belongs to the Job, and exit code 0 means a whole message that is no    *)
(* refusal.                                                                *)
(***************************************************************************)
THEOREM ProtocolTheorem == StepSpec => []ProtocolAgreed
<1>1. StepInv => ProtocolAgreed
  BY DEF StepInv, MessageInv, Reported, ProtocolAgreed, Decodes
<1> QED BY <1>1, StepInvariant, PTL

(***************************************************************************)
(* A digest that main reports is of the bundle that verify_run looked at,  *)
(* in the run it saw, whatever others change between the reads.            *)
(***************************************************************************)
THEOREM ReportedTheorem == StepSpec => []ReportedIsVerified
<1>1. StepInv => ReportedIsVerified
  BY DEF StepInv, MessageInv, Reported, ReportedIsVerified
<1> QED BY <1>1, StepInvariant, PTL

(***************************************************************************)
(* The status names together only what was seen together.                  *)
(***************************************************************************)
THEOREM StatusTheorem == StepSpec => []StatusAsSeen
<1>1. StepInv => StatusAsSeen
  BY DEF StepInv, PublishedInv, StatusAsSeen
<1> QED BY <1>1, StepInvariant, PTL

-----------------------------------------------------------------------------
(***************************************************************************)
(* EventFiles.  The invariant says two things.  Every directory a loss of  *)
(* power may leave is readable: its files were flushed before they were    *)
(* named, and no later write touches them, because a write touches only    *)
(* the newest file while that has no name yet.  And before each of the     *)
(* three writes, the memory of the process agrees with the two files as    *)
(* they are now, so that the directory it makes is readable again.         *)
(***************************************************************************)
\* The calls that work on a file without a name.
Publishing == call \in {"write", "sync", "replace"}

\* A write is on its way.
Busy == Publishing \/ call \in {"open", "syncdir", "cleanup"}

\* Types that the proofs need beyond FilesTypeOK.
TypeInv ==
    /\ FilesTypeOK
    /\ disk \subseteq 1..made /\ made >= 2
    /\ rundir \in lost

\* A directory whose two files are on the disk, whole, and tell one transition.
Readable(d) ==
    /\ d.state \in disk /\ d.log \in disk
    /\ data[d.state] \in Contents /\ data[d.log] \in Contents
    /\ EventTransitionStatus(data[d.state], data[d.log]) # "diverged"
    /\ IsPrefix(acked, data[d.log].log)

LostInv == \A d \in lost : Readable(d)

\* A file that is being written has no name in any directory.
FreshInv == Publishing => \A d \in lost : d.state # made /\ d.log # made

\* The file that is about to be renamed holds the payload.
PayloadInv ==
    /\ call \in {"sync", "replace"} => data[made] = Payload
    /\ call = "replace" => made \in disk

\* The memory and the two files, before and after the rename of each stage.
StageInv ==
    /\ call = "idle" => mem = Observed
    /\ Busy /\ stage = "acknowledge" => mem = Observed
    /\ Busy /\ stage = "intent" => mem.log = data[rundir.log].log /\ mem.pending # NoEvent
    /\ call = "syncdir" /\ stage = "intent" => data[rundir.state] = mem
    /\ Busy /\ stage = "append" => mem.pending # NoEvent
    /\ call = "open" /\ stage = "append" => data[rundir.state] = mem /\ data[rundir.log].log = mem.log
    /\ Publishing /\ stage = "append" => data[rundir.state] = mem /\ data[rundir.log].log = mem.log

FilesInv == TypeInv /\ LostInv /\ FreshInv /\ PayloadInv /\ StageInv /\ RefusedForLeftover

-----------------------------------------------------------------------------
(***************************************************************************)
(* Facts about the operators.                                              *)
(***************************************************************************)
\* What the status says of a state and a log.
LEMMA StatusFacts ==
    ASSUME NEW s \in Contents, NEW g \in Contents
    PROVE  /\ s.log = g.log => EventTransitionStatus(s, g) # "diverged"
           /\ s.pending # NoEvent /\ g.log = Append(s.log, s.pending) => EventTransitionStatus(s, g) # "diverged"
           /\ EventTransitionStatus(s, g) = "stable" => s.log = g.log /\ s.pending = NoEvent
           /\ EventTransitionStatus(s, g) = "pending_before_log" => s.log = g.log /\ s.pending # NoEvent
  BY DEF EventTransitionStatus, Contents

\* A log is a prefix of itself and of what extends it.
LEMMA PrefixFacts ==
    ASSUME NEW s \in Seq(1..MaxEvents), NEW t \in Seq(1..MaxEvents), NEW e \in 1..MaxEvents
    PROVE  /\ IsPrefix(s, s)
           /\ IsPrefix(s, t) => IsPrefix(s, Append(t, e))
<1>1. IsPrefix(s, s)
  BY SMTT(60) DEF IsPrefix
<1>2. ASSUME IsPrefix(s, t)
      PROVE  IsPrefix(s, Append(t, e))
  <2>1. Len(s) <= Len(t) /\ Len(s) \in Nat /\ Len(t) \in Nat /\ Len(Append(t, e)) = Len(t) + 1
    BY SMTT(60), <1>2 DEF IsPrefix
  <2>2. SubSeq(t, 1, Len(s)) = SubSeq(Append(t, e), 1, Len(s))
    BY SMTT(60), <2>1
  <2>3. QED
    BY SMTT(60), <1>2, <2>1, <2>2 DEF IsPrefix
<1>3. QED
  BY <1>1, <1>2

\* Making a record.
LEMMA RecordFacts ==
    ASSUME NEW l \in Seq(1..MaxEvents), NEW p \in 1..MaxEvents \cup {NoEvent}
    PROVE  /\ Record(l, p) \in Contents
           /\ Record(l, p).log = l /\ Record(l, p).pending = p
           /\ \A r \in Contents : r.log = l /\ r.pending = p => r = Record(l, p)
  BY SMTT(60) DEF Record, Contents

\* A whole file is not torn.
LEMMA WholeFacts ==
    ASSUME NEW c \in Contents
    PROVE  c # Torn
  BY SMTT(60), FilesAssumption DEF Contents

\* What the payload of a write is.
LEMMA PayloadFacts ==
    ASSUME FilesInv, Busy
    PROVE  /\ Payload \in Contents
           /\ stage = "append" => Payload = Record(Append(data[rundir.log].log, mem.pending), NoEvent)
           /\ stage # "append" => Payload = mem
<1>1. data[rundir.log] \in Contents /\ mem \in Contents
  BY DEF FilesInv, TypeInv, FilesTypeOK, LostInv, Readable
<1>2. CASE stage = "append"
  <2>1. mem.pending \in 1..MaxEvents
    BY <1>1, <1>2 DEF FilesInv, StageInv, Contents
  <2>2. Append(data[rundir.log].log, mem.pending) \in Seq(1..MaxEvents)
    BY SMTT(60), <1>1, <2>1 DEF Contents
  <2>3. QED
    BY <1>2, <2>2, RecordFacts DEF Payload
<1>3. CASE stage # "append"
  BY <1>1, <1>3 DEF Payload
<1>4. QED
  BY <1>2, <1>3

\* What the invariant says of the files as they are now.
LEMMA NowFacts ==
    ASSUME FilesInv
    PROVE  /\ rundir \in lost /\ Readable(rundir)
           /\ data[rundir.state] \in Contents /\ data[rundir.log] \in Contents /\ mem \in Contents
           /\ data[rundir.log].log \in Seq(1..MaxEvents) /\ mem.log \in Seq(1..MaxEvents)
           /\ Observed \in Contents /\ Observed.log = data[rundir.log].log /\ Observed.pending = NoEvent
           /\ made \in Nat /\ made >= 2 /\ made <= MaxFiles
<1>1. rundir \in lost /\ Readable(rundir)
  BY DEF FilesInv, TypeInv, LostInv
<1>2. data[rundir.state] \in Contents /\ data[rundir.log] \in Contents /\ mem \in Contents
  BY <1>1 DEF Readable, FilesInv, TypeInv, FilesTypeOK
<1>3. data[rundir.log].log \in Seq(1..MaxEvents) /\ mem.log \in Seq(1..MaxEvents)
  BY <1>2 DEF Contents
<1>4. Observed \in Contents /\ Observed.log = data[rundir.log].log /\ Observed.pending = NoEvent
  BY <1>3, RecordFacts DEF Observed
<1>5. made \in Nat /\ made >= 2 /\ made <= MaxFiles
  BY SMTT(60), FilesAssumption DEF FilesInv, TypeInv, FilesTypeOK, Files
<1>6. QED
  BY <1>1, <1>2, <1>3, <1>4, <1>5

\* The names of a directory that a loss of power may leave.
LEMMA NameFacts ==
    ASSUME FilesInv, NEW d \in lost
    PROVE  d.state \in 1..made /\ d.log \in 1..made
  BY DEF FilesInv, TypeInv, LostInv, Readable

\* How an exception leaves the memory.
LEMMA RaiseFacts ==
    ASSUME FilesInv, Busy, WriteRaises
    PROVE  /\ mem' \in Contents /\ call' \in {"idle", "down"}
           /\ call' = "idle" => mem' = Observed
<1>1. mem \in Contents /\ data[rundir.log].log \in Seq(1..MaxEvents) /\ mem.log \in Seq(1..MaxEvents)
  BY NowFacts
<1>2. Record(mem.log, NoEvent) \in Contents /\ Record(mem.log, NoEvent).pending = NoEvent
  BY <1>1, RecordFacts
<1>3. CASE stage = "intent"
  <2>1. mem.pending # NoEvent /\ mem.log = data[rundir.log].log
    BY <1>3 DEF FilesInv, StageInv
  <2>2. Record(mem.log, NoEvent) = Observed
    BY <2>1 DEF Observed
  <2>3. (mem' = mem /\ call' = "down") \/ (mem' = Record(mem.log, NoEvent) /\ call' = "idle")
    BY <1>2, <1>3, <2>1 DEF WriteRaises
  <2>4. QED
    BY <1>1, <1>2, <2>2, <2>3
<1>4. CASE stage = "append"
  <2>1. mem.pending # NoEvent
    BY <1>4 DEF FilesInv, StageInv
  <2>2. QED
    BY <1>1, <1>4, <2>1 DEF WriteRaises
<1>5. CASE stage = "acknowledge"
  <2>1. mem = Observed
    BY <1>5 DEF FilesInv, StageInv
  <2>2. QED
    BY <1>1, <1>5, <2>1 DEF WriteRaises
<1>6. QED
  BY <1>3, <1>4, <1>5 DEF FilesInv, TypeInv, FilesTypeOK

\* A directory made of the names there are is readable when the old one is.
LEMMA SameNames ==
    ASSUME FilesInv, NEW d, d.state = rundir.state, d.log = rundir.log, Change(d),
           UNCHANGED <<data, disk, acked>>
    PROVE  LostInv'
<1>1. Readable(rundir)
  BY NowFacts
<1>2. Readable(d)
  BY <1>1 DEF Readable
<1>3. QED
  BY <1>2 DEF FilesInv, LostInv, Readable, Change

\* A transition begins.
LEMMA CommitStep ==
    ASSUME FilesInv, CommitTransition
    PROVE  FilesInv'
<1>1. TypeInv'
  <2>1. issued + 1 \in 1..MaxEvents
    BY SMTT(60), FilesAssumption DEF FilesInv, TypeInv, FilesTypeOK, CommitTransition
  <2>2. mem' \in Contents
    BY <2>1, NowFacts, RecordFacts DEF CommitTransition
  <2>3. QED
    BY SMTT(60), <2>1, <2>2, FilesAssumption DEF FilesInv, TypeInv, FilesTypeOK, CommitTransition
<1>2. LostInv'
  BY DEF FilesInv, LostInv, Readable, CommitTransition
<1>3. FreshInv'
  BY DEF FilesInv, FreshInv, Publishing, CommitTransition
<1>4. PayloadInv'
  BY DEF FilesInv, PayloadInv, Payload, CommitTransition
<1>5. StageInv'
  <2>1. issued + 1 \in 1..MaxEvents /\ issued + 1 # NoEvent
    BY SMTT(60), FilesAssumption DEF FilesInv, TypeInv, FilesTypeOK, CommitTransition
  <2>2. mem'.log = mem.log /\ mem'.pending = issued + 1
    BY SMTT(60), <2>1, NowFacts, RecordFacts DEF CommitTransition
  <2>3. mem.log = data[rundir.log].log
    BY NowFacts DEF FilesInv, StageInv, CommitTransition
  <2>4. QED
    BY <2>1, <2>2, <2>3 DEF FilesInv, StageInv, Busy, Publishing, Observed, CommitTransition
<1>6. RefusedForLeftover'
  BY DEF FilesInv, RefusedForLeftover, CommitTransition
<1>7. QED
  BY <1>1, <1>2, <1>3, <1>4, <1>5, <1>6 DEF FilesInv

\* A temporary file is created.
LEMMA OpenStep ==
    ASSUME FilesInv, OpenTemporary
    PROVE  FilesInv'
<1>1. TypeInv'
  <2>1. made + 1 \in Files /\ made + 1 >= 2
    BY SMTT(60), NowFacts, FilesAssumption DEF Files, OpenTemporary
  <2>2. rundir' \in Directories
    BY <2>1 DEF FilesInv, TypeInv, FilesTypeOK, OpenTemporary, Change, Directories
  <2>3. disk' \subseteq 1..made'
    BY SMTT(60), NowFacts DEF FilesInv, TypeInv, OpenTemporary
  <2>4. QED
    BY <2>1, <2>2, <2>3, FilesAssumption DEF FilesInv, TypeInv, FilesTypeOK, OpenTemporary, Change
<1>2. LostInv'
  <2>1. rundir'.state = rundir.state /\ rundir'.log = rundir.log
    BY DEF FilesInv, TypeInv, FilesTypeOK, Directories, OpenTemporary, Change
  <2>2. QED
    BY <2>1, SameNames DEF OpenTemporary, Change
<1>3. FreshInv'
  <2>1. rundir'.state = rundir.state /\ rundir'.log = rundir.log
    BY DEF FilesInv, TypeInv, FilesTypeOK, Directories, OpenTemporary, Change
  <2>2. \A d \in lost' : d.state \in 1..made /\ d.log \in 1..made
    BY <2>1, NameFacts, NowFacts DEF OpenTemporary, Change
  <2>3. QED
    BY SMTT(60), <2>2, NowFacts DEF FreshInv, OpenTemporary
<1>4. PayloadInv'
  BY DEF FilesInv, PayloadInv, Payload, OpenTemporary, Change
<1>5. StageInv'
  <2>1. rundir'.state = rundir.state /\ rundir'.log = rundir.log
    BY DEF FilesInv, TypeInv, FilesTypeOK, Directories, OpenTemporary, Change
  <2>2. QED
    BY <2>1 DEF FilesInv, StageInv, Busy, Publishing, Observed, OpenTemporary
<1>6. RefusedForLeftover'
  BY DEF FilesInv, RefusedForLeftover, OpenTemporary, Change
<1>7. QED
  BY <1>1, <1>2, <1>3, <1>4, <1>5, <1>6 DEF FilesInv

\* The payload is written.
LEMMA WriteCallStep ==
    ASSUME FilesInv, WritePayload
    PROVE  FilesInv'
<1>1. TypeInv'
  BY DEF FilesInv, TypeInv, FilesTypeOK, WritePayload
<1>2. LostInv'
  BY SMTT(60) DEF FilesInv, LostInv, Readable, WritePayload, FreshInv, Publishing
<1>3. FreshInv'
  BY DEF FilesInv, FreshInv, Publishing, WritePayload
<1>4. PayloadInv'
  BY SMTT(60) DEF FilesInv, PayloadInv, Payload, WritePayload, FreshInv, Publishing, TypeInv, FilesTypeOK
<1>5. StageInv'
  BY SMTT(60) DEF FilesInv, StageInv, Busy, Publishing, Observed, WritePayload, FreshInv, Publishing, TypeInv
<1>6. RefusedForLeftover'
  BY DEF FilesInv, RefusedForLeftover, WritePayload
<1>7. QED
  BY <1>1, <1>2, <1>3, <1>4, <1>5, <1>6 DEF FilesInv

\* The file is flushed.
LEMMA SyncStep ==
    ASSUME FilesInv, SyncFile
    PROVE  FilesInv'
<1>1. TypeInv'
  BY SMTT(60) DEF FilesInv, TypeInv, FilesTypeOK, SyncFile
<1>2. LostInv'
  BY DEF FilesInv, LostInv, Readable, SyncFile
<1>3. FreshInv'
  BY DEF FilesInv, FreshInv, Publishing, SyncFile
<1>4. PayloadInv'
  BY DEF FilesInv, PayloadInv, Payload, SyncFile
<1>5. StageInv'
  BY DEF FilesInv, StageInv, Busy, Publishing, Observed, SyncFile
<1>6. RefusedForLeftover'
  BY DEF FilesInv, RefusedForLeftover, SyncFile
<1>7. QED
  BY <1>1, <1>2, <1>3, <1>4, <1>5, <1>6 DEF FilesInv

\* The file is renamed over the target.
LEMMA ReplaceStep ==
    ASSUME FilesInv, Replace
    PROVE  FilesInv'
<1>w. Publishing /\ Busy
  BY DEF Replace, Publishing, Busy
<1>e. data[made] = Payload /\ made \in disk /\ Payload \in Contents
  BY <1>w, PayloadFacts DEF FilesInv, PayloadInv, Replace
<1>a. stage = "append" => rundir'.log = made /\ rundir'.state = rundir.state
  BY DEF FilesInv, TypeInv, FilesTypeOK, Directories, Replace, Change
<1>b. stage # "append" => rundir'.state = made /\ rundir'.log = rundir.log
  BY DEF FilesInv, TypeInv, FilesTypeOK, Directories, Replace, Change
<1>c. /\ rundir'.state \in disk /\ rundir'.log \in disk
      /\ data[rundir'.state] \in Contents /\ data[rundir'.log] \in Contents
  BY <1>a, <1>b, <1>e, NowFacts DEF Readable
<1>d. /\ EventTransitionStatus(data[rundir'.state], data[rundir'.log]) # "diverged"
      /\ IsPrefix(acked, data[rundir'.log].log)
  <2>1. CASE stage = "append"
    <3>1. mem.pending \in 1..MaxEvents /\ data[rundir.state] = mem /\ data[rundir.log].log = mem.log
      BY <1>w, <2>1, NowFacts DEF FilesInv, StageInv, Contents
    <3>2. Append(mem.log, mem.pending) \in Seq(1..MaxEvents)
      BY SMTT(60), <3>1, NowFacts
    <3>3. data[made].log = Append(mem.log, mem.pending)
      <4>1. data[made] = Record(Append(mem.log, mem.pending), NoEvent)
        BY <1>e, <1>w, <2>1, <3>1, PayloadFacts
      <4>2. QED
        BY <3>2, <4>1, RecordFacts
    <3>4. mem.pending # NoEvent
      BY <1>w, <2>1 DEF FilesInv, StageInv
    <3>5. EventTransitionStatus(mem, data[made]) # "diverged"
      BY <1>e, <3>3, <3>4, NowFacts, StatusFacts
    <3>6. IsPrefix(acked, data[made].log)
      <4>1. IsPrefix(acked, mem.log) /\ acked \in Seq(1..MaxEvents)
        BY <3>1, NowFacts DEF Readable, FilesInv, TypeInv, FilesTypeOK
      <4>2. QED
        BY <3>1, <3>3, <4>1, NowFacts, PrefixFacts
    <3>7. QED
      BY <1>a, <2>1, <3>1, <3>5, <3>6
  <2>2. CASE stage # "append"
    <3>1. data[made] = mem
      BY <1>e, <1>w, <2>2, PayloadFacts
    <3>2. mem.log = data[rundir.log].log
      BY <1>w, <2>2, NowFacts DEF FilesInv, StageInv, TypeInv, FilesTypeOK
    <3>3. EventTransitionStatus(mem, data[rundir.log]) # "diverged"
      BY <3>2, NowFacts, StatusFacts
    <3>4. QED
      BY <1>b, <2>2, <3>1, <3>3, NowFacts DEF Readable
  <2>3. QED
    BY <2>1, <2>2
<1>1. TypeInv'
  <2>1. made \in Files
    BY DEF FilesInv, TypeInv, FilesTypeOK
  <2>2. rundir' \in Directories
    BY <2>1 DEF FilesInv, TypeInv, FilesTypeOK, Directories, Replace, Change
  <2>3. QED
    BY <2>2, FilesAssumption DEF FilesInv, TypeInv, FilesTypeOK, Replace, Change
<1>2. LostInv'
  <2>1. Readable(rundir')
    BY <1>a, <1>b, <1>c, <1>d DEF Readable
  <2>2. QED
    BY <2>1 DEF FilesInv, LostInv, Readable, Replace, Change
<1>3. FreshInv'
  BY DEF FilesInv, FreshInv, Publishing, Replace, Change
<1>4. PayloadInv'
  BY DEF FilesInv, PayloadInv, Payload, Replace, Change
<1>5. StageInv'
  <2>1. CASE stage = "append"
    BY <2>1, <1>a DEF FilesInv, StageInv, Busy, Publishing, Observed, Replace
  <2>2. CASE stage = "intent"
    <3>1. data[made] = mem
      BY <1>e, <1>w, <2>2, PayloadFacts
    <3>2. QED
      BY <2>2, <1>b, <3>1 DEF FilesInv, StageInv, Busy, Publishing, Observed, Replace
  <2>3. CASE stage = "acknowledge"
    BY <2>3, <1>b DEF FilesInv, StageInv, Busy, Publishing, Observed, Replace
  <2>4. QED
    BY <2>1, <2>2, <2>3 DEF FilesInv, TypeInv, FilesTypeOK
<1>6. RefusedForLeftover'
  BY DEF FilesInv, RefusedForLeftover, Replace, Change
<1>7. QED
  BY <1>1, <1>2, <1>3, <1>4, <1>5, <1>6 DEF FilesInv

\* The directory is flushed.
LEMMA SyncDirStep ==
    ASSUME FilesInv, SyncDirectory
    PROVE  FilesInv'
<1>1. TypeInv'
  <2>1. mem' \in Contents /\ acked' \in Seq(1..MaxEvents)
    BY NowFacts DEF FilesInv, TypeInv, FilesTypeOK, SyncDirectory, Continue
  <2>2. call' \in {"open", "idle"} /\ stage' \in {"intent", "append", "acknowledge"}
    BY DEF SyncDirectory, Continue
  <2>3. QED
    BY <2>1, <2>2, FilesAssumption DEF FilesInv, TypeInv, FilesTypeOK, SyncDirectory
<1>2. LostInv'
  <2>1. IsPrefix(acked', data[rundir.log].log)
    <3>1. CASE stage = "acknowledge"
      <4>1. acked' = data[rundir.log].log
        BY <3>1, NowFacts DEF FilesInv, StageInv, Busy, SyncDirectory, Continue
      <4>2. IsPrefix(data[rundir.log].log, data[rundir.log].log)
        BY SMTT(60), NowFacts DEF IsPrefix
      <4>3. QED
        BY <4>1, <4>2
    <3>2. CASE stage # "acknowledge"
      BY <3>2, NowFacts DEF Readable, SyncDirectory, Continue
    <3>3. QED
      BY <3>1, <3>2
  <2>2. QED
    BY <2>1, NowFacts DEF LostInv, Readable, SyncDirectory
<1>3. FreshInv'
  BY DEF FilesInv, FreshInv, Publishing, SyncDirectory, Continue
<1>4. PayloadInv'
  BY DEF FilesInv, PayloadInv, Payload, SyncDirectory, Continue
<1>5. StageInv'
  <2>1. CASE stage = "intent"
    BY <2>1 DEF FilesInv, StageInv, Busy, Publishing, Observed, SyncDirectory, Continue
  <2>2. CASE stage = "append"
    BY <2>2 DEF FilesInv, StageInv, Busy, Publishing, Observed, SyncDirectory, Continue
  <2>3. CASE stage = "acknowledge"
    BY <2>3 DEF FilesInv, StageInv, Busy, Publishing, Observed, SyncDirectory, Continue
  <2>4. QED
    BY <2>1, <2>2, <2>3 DEF FilesInv, TypeInv, FilesTypeOK
<1>6. RefusedForLeftover'
  BY DEF FilesInv, RefusedForLeftover, SyncDirectory, Continue
<1>7. QED
  BY <1>1, <1>2, <1>3, <1>4, <1>5, <1>6 DEF FilesInv

\* The creation fails.
LEMMA OpenFailsStep ==
    ASSUME FilesInv, OpenFails
    PROVE  FilesInv'
<1>1. TypeInv'
  <2>1. Busy
    BY DEF Busy, Publishing, OpenFails
  <2>2. mem' \in Contents /\ call' \in {"idle", "down"}
    BY <2>1, RaiseFacts DEF OpenFails
  <2>3. QED
    BY SMTT(60), <2>2, FilesAssumption DEF FilesInv, TypeInv, FilesTypeOK, Files, OpenFails, CallFails
<1>2. LostInv'
  BY DEF FilesInv, LostInv, Readable, OpenFails
<1>3. FreshInv'
  BY DEF FilesInv, FreshInv, Publishing, OpenFails, CallFails, WriteRaises
<1>4. PayloadInv'
  BY DEF FilesInv, PayloadInv, Payload, OpenFails, CallFails, WriteRaises
<1>5. StageInv'
  <2>1. Busy
    BY DEF Busy, Publishing, OpenFails
  <2>2. call' \in {"idle", "down"} /\ (call' = "idle" => mem' = Observed)
    BY <2>1, RaiseFacts DEF OpenFails
  <2>3. QED
    BY <2>2 DEF StageInv, Busy, Publishing, Observed, OpenFails
<1>6. RefusedForLeftover'
  BY DEF FilesInv, RefusedForLeftover, OpenFails, WriteRaises
<1>7. QED
  BY <1>1, <1>2, <1>3, <1>4, <1>5, <1>6 DEF FilesInv

\* A call fails.
LEMMA WriteFailsStep ==
    ASSUME FilesInv, WriteCallFails
    PROVE  FilesInv'
<1>1. TypeInv'
  BY SMTT(60), FilesAssumption DEF FilesInv, TypeInv, FilesTypeOK, Files, WriteCallFails, CallFails
<1>2. LostInv'
  BY DEF FilesInv, LostInv, Readable, WriteCallFails
<1>3. FreshInv'
  BY DEF FilesInv, FreshInv, Publishing, WriteCallFails
<1>4. PayloadInv'
  BY DEF FilesInv, PayloadInv, Payload, WriteCallFails
<1>5. StageInv'
  BY DEF FilesInv, StageInv, Busy, Publishing, Observed, WriteCallFails
<1>6. RefusedForLeftover'
  BY DEF FilesInv, RefusedForLeftover, WriteCallFails
<1>7. QED
  BY <1>1, <1>2, <1>3, <1>4, <1>5, <1>6 DEF FilesInv

\* The temporary file is removed.
LEMMA UnlinkStep ==
    ASSUME FilesInv, Unlink
    PROVE  FilesInv'
<1>n. rundir'.state = rundir.state /\ rundir'.log = rundir.log
  BY DEF FilesInv, TypeInv, FilesTypeOK, Directories, Unlink, Change
<1>1. TypeInv'
  <2>1. Busy
    BY DEF Busy, Publishing, Unlink
  <2>2. mem' \in Contents /\ call' \in {"idle", "down"}
    BY <2>1, RaiseFacts DEF Unlink
  <2>3. rundir' \in Directories /\ lost' \subseteq Directories /\ rundir' \in lost'
    BY SMTT(60) DEF FilesInv, TypeInv, FilesTypeOK, Directories, Unlink, Change
  <2>4. QED
    BY <2>2, <2>3, FilesAssumption DEF FilesInv, TypeInv, FilesTypeOK, Files, Unlink
<1>2. LostInv'
  <2>1. CASE made \in rundir.temps
    BY <1>n, <2>1, SameNames DEF Unlink, Change
  <2>2. CASE made \notin rundir.temps
    BY <2>2 DEF FilesInv, LostInv, Readable, Unlink
  <2>3. QED
    BY <2>1, <2>2
<1>3. FreshInv'
  BY DEF FilesInv, FreshInv, Publishing, Unlink, WriteRaises
<1>4. PayloadInv'
  BY DEF FilesInv, PayloadInv, Payload, Unlink, WriteRaises
<1>5. StageInv'
  <2>1. Busy
    BY DEF Busy, Publishing, Unlink
  <2>2. call' \in {"idle", "down"} /\ (call' = "idle" => mem' = Observed)
    BY <2>1, RaiseFacts DEF Unlink
  <2>3. QED
    BY <1>n, <2>2 DEF StageInv, Busy, Publishing, Observed, Unlink
<1>6. RefusedForLeftover'
  BY DEF FilesInv, RefusedForLeftover, Unlink, WriteRaises
<1>7. QED
  BY <1>1, <1>2, <1>3, <1>4, <1>5, <1>6 DEF FilesInv

\* The removal fails.
LEMMA UnlinkFailsStep ==
    ASSUME FilesInv, UnlinkFails
    PROVE  FilesInv'
<1>1. TypeInv'
  <2>1. Busy
    BY DEF Busy, Publishing, UnlinkFails
  <2>2. mem' \in Contents /\ call' \in {"idle", "down"}
    BY <2>1, RaiseFacts DEF UnlinkFails
  <2>3. QED
    BY SMTT(60), <2>2, FilesAssumption DEF FilesInv, TypeInv, FilesTypeOK, Files, UnlinkFails, Crashes
<1>2. LostInv'
  BY DEF FilesInv, LostInv, Readable, UnlinkFails
<1>3. FreshInv'
  BY DEF FilesInv, FreshInv, Publishing, UnlinkFails, Crashes, WriteRaises
<1>4. PayloadInv'
  BY DEF FilesInv, PayloadInv, Payload, UnlinkFails, Crashes, WriteRaises
<1>5. StageInv'
  <2>1. Busy
    BY DEF Busy, Publishing, UnlinkFails
  <2>2. call' \in {"idle", "down"} /\ (call' = "idle" => mem' = Observed)
    BY <2>1, RaiseFacts DEF UnlinkFails
  <2>3. QED
    BY <2>2 DEF StageInv, Busy, Publishing, Observed, UnlinkFails
<1>6. RefusedForLeftover'
  BY DEF FilesInv, RefusedForLeftover, UnlinkFails, WriteRaises
<1>7. QED
  BY <1>1, <1>2, <1>3, <1>4, <1>5, <1>6 DEF FilesInv

\* The process stops.
LEMMA CrashStep ==
    ASSUME FilesInv, Crash
    PROVE  FilesInv'
<1>1. TypeInv'
  BY SMTT(60), FilesAssumption DEF FilesInv, TypeInv, FilesTypeOK, Files, Crash, Crashes
<1>2. LostInv'
  BY DEF FilesInv, LostInv, Readable, Crash
<1>3. FreshInv'
  BY DEF FilesInv, FreshInv, Publishing, Crash
<1>4. PayloadInv'
  BY DEF FilesInv, PayloadInv, Payload, Crash
<1>5. StageInv'
  BY DEF FilesInv, StageInv, Busy, Publishing, Observed, Crash
<1>6. RefusedForLeftover'
  BY DEF FilesInv, RefusedForLeftover, Crash
<1>7. QED
  BY <1>1, <1>2, <1>3, <1>4, <1>5, <1>6 DEF FilesInv

\* The program ends.
LEMMA EndStep ==
    ASSUME FilesInv, EndProgram
    PROVE  FilesInv'
<1>1. TypeInv'
  BY DEF FilesInv, TypeInv, FilesTypeOK, EndProgram
<1>2. LostInv'
  BY DEF FilesInv, LostInv, Readable, EndProgram
<1>3. FreshInv'
  BY DEF FilesInv, FreshInv, Publishing, EndProgram
<1>4. PayloadInv'
  BY DEF FilesInv, PayloadInv, Payload, EndProgram
<1>5. StageInv'
  BY DEF FilesInv, StageInv, Busy, Publishing, Observed, EndProgram
<1>6. RefusedForLeftover'
  BY DEF FilesInv, RefusedForLeftover, EndProgram
<1>7. QED
  BY <1>1, <1>2, <1>3, <1>4, <1>5, <1>6 DEF FilesInv

\* A resume.
LEMMA ResumeProgramStep ==
    ASSUME FilesInv, ResumeProgram
    PROVE  FilesInv'
<1>1. TypeInv'
  <2>1. mem' \in Contents /\ call' \in {"idle", "open"} /\ stage' \in {"intent", "append", "acknowledge"}
    BY NowFacts DEF FilesInv, TypeInv, FilesTypeOK, ResumeProgram
  <2>2. QED
    BY <2>1, FilesAssumption DEF FilesInv, TypeInv, FilesTypeOK, ResumeProgram
<1>2. LostInv'
  BY DEF FilesInv, LostInv, Readable, ResumeProgram
<1>3. FreshInv'
  BY DEF FilesInv, FreshInv, Publishing, ResumeProgram
<1>4. PayloadInv'
  BY DEF FilesInv, PayloadInv, Payload, ResumeProgram
<1>5. StageInv'
  <2> DEFINE standing == EventTransitionStatus(data[rundir.state], data[rundir.log])
  <2>1. CASE standing = "stable"
    <3>1. data[rundir.state] = Observed
      <4>1. data[rundir.state].log = data[rundir.log].log /\ data[rundir.state].pending = NoEvent
        BY <2>1, NowFacts, StatusFacts
      <4>2. data[rundir.state] = Record(data[rundir.log].log, NoEvent)
        BY <4>1, NowFacts DEF Record, Contents
      <4>3. QED
        BY <4>2 DEF Observed
    <3>2. mem' = data[rundir.state] /\ call' = "idle"
      BY <2>1 DEF ResumeProgram
    <3>3. QED
      BY <3>1, <3>2 DEF StageInv, Busy, Publishing, Observed, ResumeProgram
  <2>2. CASE standing = "pending_before_log"
    <3>1. data[rundir.state].log = data[rundir.log].log /\ data[rundir.state].pending # NoEvent
      BY <2>2, NowFacts, StatusFacts
    <3>2. mem' = data[rundir.state] /\ call' = "open" /\ stage' = "append"
      BY <2>2 DEF ResumeProgram
    <3>3. QED
      BY <3>1, <3>2 DEF StageInv, Busy, Publishing, Observed, ResumeProgram
  <2>3. CASE standing = "pending_after_log"
    <3>1. mem' = Observed /\ call' = "open" /\ stage' = "acknowledge"
      BY <2>3 DEF ResumeProgram
    <3>2. QED
      BY <3>1 DEF StageInv, Busy, Publishing, Observed, ResumeProgram
  <2>4. QED
    BY <2>1, <2>2, <2>3 DEF ResumeProgram
<1>6. RefusedForLeftover'
  BY DEF FilesInv, RefusedForLeftover, ResumeProgram
<1>7. QED
  BY <1>1, <1>2, <1>3, <1>4, <1>5, <1>6 DEF FilesInv

\* A resume is refused.
LEMMA RefusedStep ==
    ASSUME FilesInv, ResumeRefused
    PROVE  FilesInv'
<1>1. TypeInv'
  BY DEF FilesInv, TypeInv, FilesTypeOK, ResumeRefused
<1>2. LostInv'
  BY DEF FilesInv, LostInv, Readable, ResumeRefused
<1>3. FreshInv'
  BY DEF FilesInv, FreshInv, Publishing, ResumeRefused
<1>4. PayloadInv'
  BY DEF FilesInv, PayloadInv, Payload, ResumeRefused
<1>5. StageInv'
  BY DEF FilesInv, StageInv, Busy, Publishing, Observed, ResumeRefused
<1>6. RefusedForLeftover'
  <2>1. Whole(rundir.state) /\ Whole(rundir.log)
    BY NowFacts, WholeFacts DEF Whole
  <2>2. rundir.temps # {}
    BY <2>1, NowFacts DEF ResumeRefused, Loads, Readable
  <2>3. QED
    BY <2>2 DEF RefusedForLeftover, ResumeRefused
<1>7. QED
  BY <1>1, <1>2, <1>3, <1>4, <1>5, <1>6 DEF FilesInv

\* The power is lost.
LEMMA PowerStep ==
    ASSUME FilesInv, PowerLoss
    PROVE  FilesInv'
<1>1. TypeInv'
  <2>1. rundir' \in Directories /\ lost' \subseteq Directories /\ rundir' \in lost'
    BY DEF FilesInv, TypeInv, FilesTypeOK, PowerLoss
  <2>2. DOMAIN data' = Files /\ disk' \subseteq Files /\ disk' \subseteq 1..made'
    BY SMTT(60), NowFacts, FilesAssumption DEF Files, PowerLoss
  <2>3. QED
    BY SMTT(60), <2>1, <2>2, FilesAssumption DEF FilesInv, TypeInv, FilesTypeOK, PowerLoss, Crashes
<1>2. LostInv'
  <2>1. \A f \in disk : data'[f] = data[f]
    BY DEF FilesInv, TypeInv, FilesTypeOK, PowerLoss
  <2>2. disk \subseteq disk'
    BY DEF FilesInv, TypeInv, PowerLoss
  <2>3. rundir' \in lost /\ lost' = {rundir'} /\ acked' = acked
    BY DEF PowerLoss
  <2>4. QED
    BY <2>1, <2>2, <2>3 DEF FilesInv, LostInv, Readable
<1>3. FreshInv'
  BY DEF FilesInv, FreshInv, Publishing, PowerLoss
<1>4. PayloadInv'
  BY DEF FilesInv, PayloadInv, Payload, PowerLoss
<1>5. StageInv'
  BY DEF FilesInv, StageInv, Busy, Publishing, Observed, PowerLoss
<1>6. RefusedForLeftover'
  BY DEF FilesInv, RefusedForLeftover, PowerLoss
<1>7. QED
  BY <1>1, <1>2, <1>3, <1>4, <1>5, <1>6 DEF FilesInv

-----------------------------------------------------------------------------
\* The files of a new run.
LEMMA FilesInit == InitFiles => FilesInv
<1> SUFFICES ASSUME InitFiles PROVE FilesInv
  OBVIOUS
<1>1. EmptyFile \in Contents /\ EmptyFile.log = <<>> /\ EmptyFile.pending = NoEvent
  BY SMTT(60) DEF EmptyFile, Record, Contents
<1>2. data[1] = EmptyFile /\ data[2] = EmptyFile
  BY SMTT(60), FilesAssumption DEF InitFiles, Files
<1>3. TypeInv
  BY SMTT(60), <1>1, FilesAssumption DEF InitFiles, TypeInv, FilesTypeOK, Directories, Files
<1>4. LostInv
  <2>1. EventTransitionStatus(EmptyFile, EmptyFile) # "diverged"
    BY <1>1, StatusFacts
  <2>2. IsPrefix(<<>>, <<>>)
    BY SMTT(60) DEF IsPrefix
  <2>3. QED
    BY SMTT(60), <1>1, <1>2, <2>1, <2>2 DEF InitFiles, LostInv, Readable
<1>5. FreshInv /\ PayloadInv /\ RefusedForLeftover
  BY DEF InitFiles, FreshInv, Publishing, PayloadInv, RefusedForLeftover
<1>6. StageInv
  BY <1>1, <1>2 DEF InitFiles, StageInv, Busy, Publishing, Observed, EmptyFile
<1>7. QED
  BY <1>3, <1>4, <1>5, <1>6 DEF FilesInv

\* Every step keeps the invariant.
LEMMA FilesStep == FilesInv /\ [NextFiles]_fileVars => FilesInv'
<1> SUFFICES ASSUME FilesInv, [NextFiles]_fileVars PROVE FilesInv'
  OBVIOUS
<1>1. CASE UNCHANGED fileVars
  <2>1. UNCHANGED <<rundir, lost, data, disk, made, issued, mem, call, stage, acked, failedCalls, crashes>>
    BY <1>1 DEF fileVars
  <2>2. TypeInv'  BY <2>1 DEF FilesInv, TypeInv, FilesTypeOK
  <2>3. LostInv'  BY <2>1 DEF FilesInv, LostInv, Readable
  <2>4. FreshInv' /\ PayloadInv'  BY <2>1 DEF FilesInv, FreshInv, Publishing, PayloadInv, Payload
  <2>5. StageInv'  BY <2>1 DEF FilesInv, StageInv, Busy, Publishing, Observed
  <2>6. RefusedForLeftover'  BY <2>1 DEF FilesInv, RefusedForLeftover
  <2>7. QED  BY <2>2, <2>3, <2>4, <2>5, <2>6 DEF FilesInv
<1>2. CASE Step
  BY <1>2, OpenStep, WriteCallStep, SyncStep, ReplaceStep, SyncDirStep, UnlinkStep, EndStep, ResumeProgramStep,
     RefusedStep DEF Step
<1>3. CASE NextFiles /\ ~Step
  BY <1>3, CommitStep, OpenFailsStep, WriteFailsStep, UnlinkFailsStep, CrashStep, PowerStep DEF NextFiles
<1>4. QED
  BY <1>1, <1>2, <1>3

\* The invariant holds in every run of EventFiles: the writes of a transition over
\* atomic_write_bytes, whatever fails and whenever the process or the machine stops.
THEOREM FilesInvariant == FilesSpec => []FilesInv
  BY FilesInit, FilesStep, PTL DEF FilesSpec

\* Whatever a loss of power leaves, a resume can read both files and finish the transition:
\* atomic_write_bytes flushes a file before it gets its name.
THEOREM ReadableTheorem == FilesSpec => []ReadableAfterLoss
<1>1. FilesInv => ReadableAfterLoss
  BY WholeFacts DEF FilesInv, LostInv, Readable, ReadableAfterLoss, Whole
<1>2. QED
  BY <1>1, FilesInvariant, PTL

\* No loss of power takes back a committed event: _commit_transition returns after the flush
\* of the directory.
THEOREM CommittedTheorem == FilesSpec => []CommittedSurvives
<1>1. FilesInv => CommittedSurvives
  BY DEF FilesInv, LostInv, Readable, CommittedSurvives
<1>2. QED
  BY <1>1, FilesInvariant, PTL

\* _load_context refuses a run for nothing but a leftover temporary file.
THEOREM RefusedTheorem == FilesSpec => []RefusedForLeftover
<1>1. FilesInv => RefusedForLeftover
  BY DEF FilesInv
<1>2. QED
  BY <1>1, FilesInvariant, PTL


(***************************************************************************)
(* The temporary files, counted.                                           *)
(***************************************************************************)
\* One file more or less.
LEMMA Counted ==
    ASSUME NEW S \in SUBSET Files, NEW x
    PROVE  /\ IsFiniteSet(S) /\ Cardinality(S) \in Nat /\ Cardinality(S \ {x}) \in Nat
           /\ Cardinality(S \ {x}) <= Cardinality(S) /\ Cardinality(S) <= Cardinality(S \ {x}) + 1
           /\ Cardinality(S \cup {x}) <= Cardinality(S) + 1 /\ S \ {} = S
<1>1. IsFiniteSet(S)
  <2>1. 1 \in Int /\ MaxFiles \in Int
    BY SMTT(60), FilesAssumption
  <2> QED BY <2>1, FS_Interval, FS_Subset DEF Files
<1>2. IsFiniteSet(S \ {x}) /\ Cardinality(S) \in Nat /\ Cardinality(S \ {x}) \in Nat
  BY <1>1, FS_RemoveElement, FS_CardinalityType
<1>3. Cardinality(S \ {x}) = IF x \in S THEN Cardinality(S) - 1 ELSE Cardinality(S)
  BY <1>1, FS_RemoveElement
<1>4. Cardinality(S \cup {x}) = IF x \in S THEN Cardinality(S) ELSE Cardinality(S) + 1
  BY <1>1, FS_AddElement
<1>5. S \ {} = S
  OBVIOUS
<1> QED BY SMTT(60), <1>1, <1>2, <1>3, <1>4, <1>5

\* A directory a loss of power may leave has one leftover more than there were crashes, at most.
CountInv == LeftoversExplained /\ \A d \in lost : Cardinality(d.temps) <= crashes + 1

\* What the counts are about.
LEMMA TempsCounted ==
    ASSUME FilesInv, NEW d \in lost, NEW x
    PROVE  /\ d.temps \in SUBSET Files /\ crashes \in Nat
           /\ Cardinality(d.temps) \in Nat /\ Cardinality(d.temps \ {x}) \in Nat
           /\ Cardinality(d.temps \ {x}) <= Cardinality(d.temps)
           /\ Cardinality(d.temps) <= Cardinality(d.temps \ {x}) + 1
           /\ Cardinality(d.temps \cup {x}) <= Cardinality(d.temps) + 1 /\ d.temps \ {} = d.temps
<1>1. d.temps \in SUBSET Files
  BY DEF FilesInv, TypeInv, FilesTypeOK, Directories
<1>2. crashes \in Nat
  BY SMTT(60), FilesAssumption DEF FilesInv, TypeInv, FilesTypeOK
<1> QED BY <1>1, <1>2, Counted

\* A step that leaves the directories alone and does not forget the file in hand.
LEMMA CountKept ==
    ASSUME FilesInv, CountInv, UNCHANGED <<rundir, lost, made>>, crashes' = crashes \/ crashes' = crashes + 1,
           InHand \subseteq InHand' \/ crashes' = crashes + 1
    PROVE  CountInv'
<1> DEFINE n == Cardinality(rundir.temps)
           k == Cardinality(rundir.temps \ {made})
<1>1. rundir \in lost
  BY NowFacts
<1>2. n \in Nat /\ k \in Nat /\ k <= n /\ n <= k + 1 /\ crashes \in Nat /\ rundir.temps \ {} = rundir.temps
  BY <1>1, TempsCounted
<1>3. InHand \in {{}, {made}} /\ InHand' \in {{}, {made}}
  BY DEF InHand
<1>4. Cardinality(rundir.temps \ InHand) <= crashes
  BY DEF CountInv, LeftoversExplained
<1>5. Cardinality(rundir.temps \ InHand') <= crashes'
  <2>1. Cardinality(rundir.temps \ InHand) \in {n, k} /\ Cardinality(rundir.temps \ InHand') \in {n, k}
    BY <1>2, <1>3
  <2>. HIDE DEF n, k
  <2>2. CASE InHand = {made} /\ InHand' = {}
    <3>1. crashes' = crashes + 1 BY <2>2
    <3> QED BY SMTT(60), <1>2, <1>4, <2>1, <3>1
  <2>3. CASE ~(InHand = {made} /\ InHand' = {})
    <3>1. \/ InHand = InHand'
          \/ InHand = {} /\ InHand' = {made}
      BY <1>3, <2>3
    <3>2. Cardinality(rundir.temps \ InHand') <= Cardinality(rundir.temps \ InHand)
      <4>1. CASE InHand = InHand' BY SMTT(60), <1>2, <2>1, <4>1
      <4>2. CASE InHand = {} /\ InHand' = {made} BY <1>2, <4>2 DEF n, k
      <4> QED BY <3>1, <4>1, <4>2
    <3> QED BY SMTT(60), <1>2, <1>4, <2>1, <3>2
  <2> QED BY <2>2, <2>3
<1>6. \A d \in lost : Cardinality(d.temps) <= crashes' + 1
  <2> TAKE d \in lost
  <2>1. Cardinality(d.temps) \in Nat /\ Cardinality(d.temps) <= crashes + 1
    BY TempsCounted DEF CountInv
  <2> QED BY SMTT(60), <1>2, <2>1
<1> QED BY <1>5, <1>6 DEF CountInv, LeftoversExplained

\* A step that changes the directory.
LEMMA CountChanged ==
    ASSUME FilesInv, CountInv, NEW d, Change(d), UNCHANGED crashes,
           Cardinality(d.temps \ InHand') <= crashes, Cardinality(d.temps) <= crashes + 1
    PROVE  CountInv'
BY DEF CountInv, LeftoversExplained, Change

\* Every step keeps the counts.
LEMMA CountStep == FilesInv /\ CountInv /\ [NextFiles]_fileVars => CountInv'
<1> SUFFICES ASSUME FilesInv, CountInv, [NextFiles]_fileVars PROVE CountInv'
  OBVIOUS
<1>1. rundir \in lost /\ rundir \in Directories /\ made \in Nat
  BY NowFacts DEF FilesInv, TypeInv, FilesTypeOK
<1>2. /\ rundir.temps \in SUBSET Files /\ crashes \in Nat /\ rundir.temps \ {} = rundir.temps
      /\ \A x : /\ Cardinality(rundir.temps) \in Nat /\ Cardinality(rundir.temps \ {x}) \in Nat
                /\ Cardinality(rundir.temps \ {x}) <= Cardinality(rundir.temps)
                /\ Cardinality(rundir.temps) <= Cardinality(rundir.temps \ {x}) + 1
                /\ Cardinality(rundir.temps \cup {x}) <= Cardinality(rundir.temps) + 1
  BY <1>1, TempsCounted
<1>3. Cardinality(rundir.temps \ InHand) <= crashes
  BY DEF CountInv, LeftoversExplained
<1>4. CASE UNCHANGED fileVars
  BY <1>4, CountKept DEF fileVars, InHand
<1>5. CASE CommitTransition \/ WritePayload \/ SyncFile \/ EndProgram \/ ResumeProgram \/ ResumeRefused
  BY <1>5, CountKept DEF CommitTransition, WritePayload, SyncFile, EndProgram, ResumeProgram, ResumeRefused, InHand
<1>6. CASE OpenFails \/ WriteCallFails
  BY <1>6, CountKept DEF OpenFails, WriteCallFails, WriteRaises, CallFails, InHand
<1>7. CASE Crash \/ UnlinkFails
  BY <1>7, CountKept DEF Crash, UnlinkFails, Crashes
<1>8. CASE OpenTemporary
  <2> DEFINE d == [rundir EXCEPT !.temps = @ \cup {made + 1}]
  <2>1. Change(d) /\ InHand = {} /\ InHand' = {made + 1} /\ UNCHANGED crashes
    BY <1>8 DEF OpenTemporary, InHand
  <2>2. d.temps = rundir.temps \cup {made + 1}
    BY <1>1 DEF Directories
  <2>. HIDE DEF d
  <2>3. Cardinality(rundir.temps) <= crashes
    BY <1>2, <1>3, <2>1
  <2>4. Cardinality(d.temps) <= crashes + 1
    <3>1. Cardinality(d.temps) <= Cardinality(rundir.temps) + 1 BY <1>2, <2>2
    <3>2. rundir.temps \cup {made + 1} \in SUBSET Files
      BY SMTT(60), <1>1, <1>2, <1>8, FilesAssumption DEF OpenTemporary, Files
    <3>3. Cardinality(d.temps) \in Nat BY <2>2, <3>2, Counted
    <3>4. Cardinality(rundir.temps) \in Nat /\ crashes \in Nat BY <1>2
    <3> QED BY SMTT(60), <2>3, <3>1, <3>3, <3>4
  <2>5. Cardinality(d.temps \ InHand') <= crashes
    <3>1. d.temps \ {made + 1} = rundir.temps \ {made + 1} BY <2>2
    <3> QED BY SMTT(60), <1>2, <2>1, <2>3, <3>1
  <2> QED BY <2>1, <2>4, <2>5, CountChanged
<1>9. CASE Replace
  <2> DEFINE d == IF stage = "append" THEN [rundir EXCEPT !.log = made, !.temps = rundir.temps \ {made}]
                  ELSE [rundir EXCEPT !.state = made, !.temps = rundir.temps \ {made}]
  <2>1. Change(d) /\ InHand = {made} /\ InHand' = {} /\ UNCHANGED crashes
    BY <1>9 DEF Replace, InHand
  <2>2. d.temps = rundir.temps \ {made}
    BY <1>1 DEF Directories
  <2>. HIDE DEF d
  <2>3. Cardinality(d.temps) \in Nat /\ Cardinality(d.temps) <= crashes /\ d.temps \ {} = d.temps
    BY <1>2, <1>3, <2>1, <2>2
  <2>4. Cardinality(d.temps) <= crashes + 1
    BY SMTT(60), <1>2, <2>3
  <2> QED BY <2>1, <2>3, <2>4, CountChanged
<1>10. CASE SyncDirectory
  <2>1. InHand = {} /\ InHand' = {} /\ UNCHANGED <<rundir, crashes>> /\ lost' = {rundir}
    BY <1>10 DEF SyncDirectory, Continue, InHand
  <2> QED BY <1>1, <1>3, <2>1 DEF CountInv, LeftoversExplained
<1>11. CASE Unlink
  <2>1. InHand = {made} /\ InHand' = {} /\ UNCHANGED <<crashes, made>>
    BY <1>11 DEF Unlink, WriteRaises, InHand
  <2>2. CASE made \in rundir.temps
    <3> DEFINE d == [rundir EXCEPT !.temps = @ \ {made}]
    <3>1. Change(d)
      BY <1>11, <2>2 DEF Unlink
    <3>2. d.temps = rundir.temps \ {made}
      BY <1>1 DEF Directories
    <3>. HIDE DEF d
    <3>3. Cardinality(d.temps) \in Nat /\ Cardinality(d.temps) <= crashes /\ d.temps \ {} = d.temps
      BY <1>2, <1>3, <2>1, <3>2
    <3>4. Cardinality(d.temps) <= crashes + 1
      BY SMTT(60), <1>2, <3>3
    <3> QED BY <2>1, <3>1, <3>3, <3>4, CountChanged
  <2>3. CASE made \notin rundir.temps
    <3>1. UNCHANGED <<rundir, lost>>
      BY <1>11, <2>3 DEF Unlink
    <3>2. rundir.temps \ {made} = rundir.temps \ {}
      BY <2>3
    <3> QED BY <1>3, <2>1, <3>1, <3>2 DEF CountInv, LeftoversExplained
  <2> QED BY <2>2, <2>3
<1>12. CASE PowerLoss
  <2>1. rundir' \in lost /\ lost' = {rundir'} /\ crashes' = crashes + 1 /\ InHand' = {}
    BY <1>12 DEF PowerLoss, Crashes, InHand
  <2>2. Cardinality(rundir'.temps) <= crashes' /\ Cardinality(rundir'.temps) \in Nat /\ rundir'.temps \ {} = rundir'.temps
    BY <2>1, TempsCounted DEF CountInv
  <2>3. Cardinality(rundir'.temps) <= crashes' + 1
    BY SMTT(60), <1>2, <2>1, <2>2
  <2> QED BY <2>1, <2>2, <2>3 DEF CountInv, LeftoversExplained
<1> QED BY <1>4, <1>5, <1>6, <1>7, <1>8, <1>9, <1>10, <1>11, <1>12 DEF NextFiles, Step

\* There are no more leftover temporary files than crashes, losses of power and failed removals:
\* every way out of atomic_write_bytes removes its own.
THEOREM LeftoversTheorem == FilesSpec => []LeftoversExplained
<1>1. InitFiles => CountInv
  <2> SUFFICES ASSUME InitFiles PROVE CountInv
    OBVIOUS
  <2>1. Cardinality({}) = 0 /\ {} \ InHand = {}
    BY FS_EmptySet
  <2>2. rundir.temps = {} /\ lost = {rundir} /\ crashes = 0
    BY DEF InitFiles
  <2> QED BY SMTT(60), <2>1, <2>2 DEF CountInv, LeftoversExplained
<1>2. CountInv => LeftoversExplained
  BY DEF CountInv
<1> QED BY <1>1, <1>2, CountStep, FilesInvariant, PTL DEF FilesSpec

=============================================================================
