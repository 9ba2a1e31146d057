----------------------------- MODULE RunEngine ------------------------------
(***************************************************************************)
(* One run of a BenchHandoff suite (schema version 3): start, resume,      *)
(* inspect and seal, over the durable files of the run directory and the   *)
(* closed workspace (src/src/benchhandoff/engine.py, POSIX backend of      *)
(* processes.py).                                                          *)
(*                                                                         *)
(* A runner is the one process that holds the run's writer lock (module    *)
(* WriterLock shows that there is at most one).  It works on an in-memory  *)
(* copy, mem, of state.json; each durable write is a step of its own, so a *)
(* crash can fall between any two of them.  The child of an attempt is a   *)
(* process family (a leader and the descendants left in its group) that    *)
(* outlives a crashed runner.                                              *)
(*                                                                         *)
(* A refused start, inspect or resume changes nothing and is not a step.   *)
(* An exception of the runner is a Crash without its orphans: it leaves    *)
(* the same files.  Time stamps, argv, logs' text and return codes beyond  *)
(* zero / non-zero are left out; so is a change of the execution context,  *)
(* except the one the engine checks after the child's exit.                *)
(***************************************************************************)
EXTENDS RunState

CONSTANTS
    Undisciplined,  \* paths outside its own outputs that a child may write
    BoundResumes,   \* whether resumes may carry an approved decision
    MaxCrashes,     \* bound: crashes of a runner
    MaxEdits        \* bound: edits of the workspace by nobody's child

ASSUME EngineAssumption ==
    /\ Undisciplined \subseteq Paths
    /\ BoundResumes \in BOOLEAN
    /\ MaxCrashes \in Nat /\ MaxEdits \in Nat

VARIABLES
    root,        \* the run directory: absent, partial, ready, littered (a stray temporary file)
    disk,        \* state.json
    log,         \* events.jsonl
    logs,        \* log file pairs of the attempts
    quarantine,  \* files below quarantine/
    bundle,      \* bundle.json
    ws,          \* the workspace tree
    family,      \* family[t][n]: the process family of attempt n of task t
    pc,          \* the runner's program counter, "idle" when there is no runner
    mem,         \* context.state
    next,        \* where the runner goes on after the commit in progress
    cur,         \* the task _execute_remaining is at
    todo,        \* outputs _recover_incomplete_task has still to look at
    moved,       \* the quarantine records it has collected
    outcome,     \* how the child ended
    bound,       \* the decision this resume carries, Nil if none
    draft,       \* the bundle _build_bundle is putting together
    decision,    \* the decision inspect issued last
    crashes,
    edits

files    == <<root, disk, log, logs, quarantine, bundle>>
world    == <<ws, family>>
locals   == <<next, cur, todo, moved, outcome, bound, draft>>
counters == <<crashes, edits>>
vars     == <<files, world, pc, mem, locals, decision, counters>>

Init ==
    /\ root = "absent" /\ disk = Nil /\ log = << >> /\ bundle = Nil
    /\ logs = [t \in Tasks |-> [n \in AttemptNumbers |-> "none"]]
    /\ quarantine = [p \in Paths |-> [n \in AttemptNumbers |-> Absent]]
    /\ ws = BaselineTree
    /\ family = [t \in Tasks |-> [n \in AttemptNumbers |-> "unborn"]]
    /\ pc = "idle" /\ mem = Nil
    /\ next = "idle" /\ cur = 1 /\ todo = << >> /\ moved = << >> /\ outcome = "ok" /\ bound = Nil /\ draft = Nil
    /\ decision = Nil
    /\ crashes = 0 /\ edits = 0

\* The runner is gone, by return, by exception or by a crash.
Halt ==
    /\ pc' = "idle" /\ mem' = Nil
    /\ next' = "idle" /\ cur' = 1 /\ todo' = << >> /\ moved' = << >> /\ outcome' = "ok"
    /\ bound' = Nil /\ draft' = Nil

(***************************************************************************)
(* Checks made before anything is changed.                                 *)
(***************************************************************************)
AttemptNumber(s, t) == Len(s.tasks[t].attempts)

Alive == {"leader", "group"}

\* A child of the attempt has existed and may have written to its logs.
Launched == [t \in Tasks |-> [n \in AttemptNumbers |-> family[t][n] # "unborn"]]

\* _load_context.
Loadable ==
    /\ root = "ready"
    /\ StateShape(disk)
    /\ EventTransitionStatus(disk, log) # "diverged"
    /\ LogArtifacts(disk, logs, Launched)
    /\ QuarantineArtifacts(disk, quarantine)
    /\ WorkspaceHistory(disk)
    /\ CurrentWorkspace(disk, ws, quarantine)

\* _verify_completed_task.
VerifiedTask(s, t) == \A p \in OutputSet(t) : ws[p] = s.tasks[t].outputs[p]

\* _verify_completed_prefix.
VerifiedPrefix(s) == \A t \in Tasks : Completed(s, t) => VerifiedTask(s, t)

LaunchResolved(a) == ~a.guard /\ a.child

\* Mutant: the descendants left in the leader's group are not looked for.
LeaderGone(t, n) == family[t][n] # "leader"

\* The leader is not the recorded process any more and its group is empty.
FamilyGone(t, n) == family[t][n] \notin Alive

\* _assert_recovery_liveness.
RecoveryLiveness(s) ==
    \A t \in Tasks : s.tasks[t].status = "running" =>
        LaunchResolved(Latest(s, t)) /\ FamilyGone(t, AttemptNumber(s, t))

\* Mutant: the attempt limit is compared with <=.
AttemptBudgetOffByOne(s) ==
    LET t == FirstIncomplete(s)
    IN  t \in Tasks => AttemptNumber(s, t) <= MaxAttemptsPerTask /\ TotalAttempts(s) <= MaxTotalAttempts

\* _assert_resume_attempt_budget.
AttemptBudget(s) ==
    LET t == FirstIncomplete(s)
    IN  t \in Tasks => /\ AttemptNumber(s, t) < MaxAttemptsPerTask
                       /\ TotalAttempts(s) < MaxTotalAttempts

\* What a resume decision's digest covers: every evidence file and the workspace.
Evidence == [state |-> disk, log |-> log, logs |-> logs,
             quarantine |-> quarantine, bundle |-> bundle, ws |-> ws]

\* _build_resume_decision: when there is a decision to issue.
DecisionEligible(s) ==
    /\ EventTransitionStatus(s, log) = "stable"
    /\ VerifiedPrefix(s)
    /\ RecoveryLiveness(s)
    /\ CurrentWorkspace(s, ws, quarantine)
    /\ bundle # Nil \/ AllCompleted(s) => s.status = "completed"
    /\ bundle # Nil => AllCompleted(s)
    /\ AttemptBudget(s)
    /\ \A t \in Tasks : t = FirstIncomplete(s) /\ s.tasks[t].status \in {"running", "failed"} =>
          \A p \in OutputSet(t) : ws[p] = Absent \/ quarantine[p][AttemptNumber(s, t)] = Absent

\* verify_run: the bundle is the current evidence.
BundleVerified ==
    /\ Loadable /\ disk.pending = Nil /\ disk.status = "completed"
    /\ BoundObservation(disk, ws, {})
    /\ bundle = [Evidence EXCEPT !.bundle = Nil]

(***************************************************************************)
(* _commit_transition: intent in state.json, record in events.jsonl,       *)
(* acknowledgement in state.json.                                          *)
(***************************************************************************)
CommitAllowed(s) ==
    /\ s.pending = Nil
    /\ EventTransitionStatus(s, log) = "stable"
    /\ Len(s.event_log) < MaxEvents

BeginCommit(s, event, continue) ==
    /\ CommitAllowed(s)
    /\ mem' = [s EXCEPT !.pending = event]
    /\ next' = continue
    /\ pc' = "intent"

\* Mutant: the intent carries the event but not the transition it stands for.
PersistEventOnly ==
    /\ pc = "intent" /\ StateShape(mem)
    /\ disk' = [disk EXCEPT !.pending = mem.pending]
    /\ pc' = "append"
    /\ UNCHANGED <<root, log, logs, quarantine, bundle, world, mem, locals, decision, counters>>

PersistIntent ==
    /\ pc = "intent" /\ StateShape(mem)
    /\ disk' = mem
    /\ pc' = "append"
    /\ UNCHANGED <<root, log, logs, quarantine, bundle, world, mem, locals, decision, counters>>

AppendEvent ==
    /\ pc = "append"
    /\ log' = Append(mem.event_log, mem.pending)
    /\ pc' = "ack"
    /\ UNCHANGED <<root, disk, logs, quarantine, bundle, world, mem, locals, decision, counters>>

\* Mutant: the acknowledgement keeps the old identity of the log.
AcknowledgedStale(s) == [s EXCEPT !.pending = Nil]

Acknowledged(s) == [s EXCEPT !.event_log = log, !.pending = Nil]

Acknowledge ==
    /\ pc = "ack" /\ StateShape(Acknowledged(mem))
    /\ disk' = Acknowledged(mem)
    /\ IF next = "idle" THEN Halt
       ELSE pc' = next /\ mem' = Acknowledged(mem) /\ UNCHANGED locals
    /\ UNCHANGED <<root, log, logs, quarantine, bundle, world, decision, counters>>

(***************************************************************************)
(* start_run.                                                              *)
(***************************************************************************)
\* _preflight_suite, then the new run directory with its plan and empty log.
StartRun ==
    /\ pc = "idle" /\ root = "absent" /\ ws = BaselineTree
    /\ root' = "partial"
    /\ pc' = "create"
    /\ UNCHANGED <<disk, log, logs, quarantine, bundle, world, mem, locals, decision, counters>>

\* state.json is the last file of the topology to appear.
CreateRun ==
    /\ pc = "create"
    /\ root' = "ready" /\ disk' = InitialState
    /\ BeginCommit(InitialState, RunEvent("run_started"), "loop")
    /\ UNCHANGED <<log, logs, quarantine, bundle, world, cur, todo, moved, outcome, bound, draft, decision, counters>>

(***************************************************************************)
(* inspect_resume and resume_run.                                          *)
(***************************************************************************)
\* It takes no lock: a runner may be at work, and what is read across two of its writes matches
\* the evidence no more than any other decision that is out of date.
Inspect ==
    /\ BoundResumes /\ Loadable
    /\ bundle # Nil => BundleVerified
    /\ DecisionEligible(disk)
    /\ decision' = Evidence
    /\ UNCHANGED <<files, world, pc, mem, locals, counters>>

\* Mutant: any decision that was issued is accepted.
DecisionIssued(s, carried) == DecisionEligible(s)

\* A decision is accepted when the recomputed one has the same digest.
DecisionCurrent(s, carried) == DecisionEligible(s) /\ carried = Evidence

Resume(carried) ==
    /\ pc = "idle" /\ Loadable
    /\ carried # Nil => DecisionCurrent(disk, carried)
    /\ bundle = Nil
    /\ mem' = disk /\ bound' = carried
    /\ pc' = IF disk.pending = Nil THEN "admit" ELSE "reconcile"
    /\ UNCHANGED <<files, world, next, cur, todo, moved, outcome, draft, decision, counters>>

ResumeRun == Resume(Nil)

ResumeBound == BoundResumes /\ decision # Nil /\ Resume(decision)

\* _reconcile_pending_event.
ReconcileAppend ==
    /\ pc = "reconcile" /\ EventTransitionStatus(mem, log) = "pending_before_log"
    /\ log' = Append(log, mem.pending)
    /\ UNCHANGED <<root, disk, logs, quarantine, bundle, world, pc, mem, locals, decision, counters>>

ReconcileAcknowledge ==
    /\ pc = "reconcile" /\ EventTransitionStatus(mem, log) = "pending_after_log"
    /\ mem' = Acknowledged(mem) /\ disk' = Acknowledged(mem)
    /\ pc' = "admit"
    /\ UNCHANGED <<root, log, logs, quarantine, bundle, world, locals, decision, counters>>

\* The checks of _resume_run_checked between reconciliation and the first transition.
Admissible(s) ==
    /\ VerifiedPrefix(s) /\ RecoveryLiveness(s) /\ AttemptBudget(s)
    /\ bound # Nil => DecisionCurrent(s, bound)

AdmitResume ==
    /\ pc = "admit" /\ Admissible(mem)
    /\ BeginCommit([mem EXCEPT !.status = "running", !.error = FALSE], RunEvent("run_resumed"), "loop")
    /\ UNCHANGED <<files, world, cur, todo, moved, outcome, bound, draft, decision, counters>>

(***************************************************************************)
(* _execute_remaining and _recover_incomplete_task.                        *)
(***************************************************************************)
PassCompletedTask ==
    /\ pc = "loop" /\ cur \in Tasks /\ Completed(mem, cur) /\ VerifiedTask(mem, cur)
    /\ cur' = cur + 1
    /\ UNCHANGED <<files, world, pc, mem, next, todo, moved, outcome, bound, draft, decision, counters>>

SetLatest(s, t, a) == [s EXCEPT !.tasks[t].attempts[AttemptNumber(s, t)] = a]

\* Mutant: the return code of an orphaned child is left null.
InterruptedWithoutCode(a) ==
    [a EXCEPT !.status = IF @ = "running" THEN "interrupted" ELSE @,
              !.closure = IF a.status = "running" THEN "empty" ELSE @,
              !.after = IF @ = Nil THEN ws ELSE @]

\* A running attempt becomes interrupted; an unrecorded observation is taken now.
Interrupted(a) ==
    [a EXCEPT !.status = IF @ = "running" THEN "interrupted" ELSE @,
              !.closure = IF a.status = "running" THEN "empty" ELSE @,
              !.rc = IF a.status = "running" /\ a.child THEN "unavailable" ELSE @,
              !.after = IF @ = Nil THEN ws ELSE @]

Recoverable(s, t) == RecoveryLiveness(s) /\ RecoveryObservation(s, t, ws, quarantine)

BeginRecovery ==
    /\ pc = "loop" /\ cur \in Tasks /\ mem.tasks[cur].status \in {"running", "failed"}
    /\ Recoverable(mem, cur)
    /\ mem' = SetLatest(mem, cur, Interrupted(Latest(mem, cur)))
    /\ todo' = OutputsOf[cur] /\ moved' = << >>
    /\ pc' = "quarantine"
    /\ UNCHANGED <<files, world, next, cur, outcome, bound, draft, decision, counters>>

\* Mutant: the output is unlinked, not moved.
QuarantineUnlinks ==
    /\ pc = "quarantine" /\ todo # << >>
    /\ LET p == Head(todo)
           n == AttemptNumber(mem, cur)
           c == IF ws[p] # Absent THEN ws[p] ELSE quarantine[p][n]
       IN  /\ ws[p] = Absent \/ quarantine[p][n] = Absent
           /\ ws' = [ws EXCEPT ![p] = Absent]
           /\ UNCHANGED quarantine
           /\ moved' = IF c = Absent THEN moved ELSE [q \in DOMAIN moved \cup {p} |-> IF q = p THEN c ELSE moved[q]]
    /\ todo' = Tail(todo)
    /\ UNCHANGED <<root, disk, log, logs, bundle, family, pc, mem, next, cur, outcome, bound, draft, decision, counters>>

\* Mutant: an output moved before a crash gets no record.
QuarantineForgetsMoved ==
    /\ pc = "quarantine" /\ todo # << >>
    /\ LET p == Head(todo)
           n == AttemptNumber(mem, cur)
           c == ws[p]
       IN  /\ ws[p] = Absent \/ quarantine[p][n] = Absent
           /\ ws' = [ws EXCEPT ![p] = Absent]
           /\ quarantine' = [quarantine EXCEPT ![p][n] = IF c = Absent THEN @ ELSE c]
           /\ moved' = IF c = Absent THEN moved ELSE [q \in DOMAIN moved \cup {p} |-> IF q = p THEN c ELSE moved[q]]
    /\ todo' = Tail(todo)
    /\ UNCHANGED <<root, disk, log, logs, bundle, family, pc, mem, next, cur, outcome, bound, draft, decision, counters>>

\* Mutant: the loop stays at the same output.
QuarantineRepeats ==
    /\ pc = "quarantine" /\ todo # << >>
    /\ LET p == Head(todo)
           n == AttemptNumber(mem, cur)
           c == IF ws[p] # Absent THEN ws[p] ELSE quarantine[p][n]
       IN  /\ ws[p] = Absent \/ quarantine[p][n] = Absent
           /\ ws' = [ws EXCEPT ![p] = Absent]
           /\ quarantine' = [quarantine EXCEPT ![p][n] = c]
           /\ moved' = IF c = Absent THEN moved ELSE [q \in DOMAIN moved \cup {p} |-> IF q = p THEN c ELSE moved[q]]
    /\ todo' = todo
    /\ UNCHANGED <<root, disk, log, logs, bundle, family, pc, mem, next, cur, outcome, bound, draft, decision, counters>>

\* One output: moved, already at its destination, or never produced.
QuarantineOutput ==
    /\ pc = "quarantine" /\ todo # << >>
    /\ LET p == Head(todo)
           n == AttemptNumber(mem, cur)
           c == IF ws[p] # Absent THEN ws[p] ELSE quarantine[p][n]
       IN  /\ ws[p] = Absent \/ quarantine[p][n] = Absent
           /\ ws' = [ws EXCEPT ![p] = Absent]
           /\ quarantine' = [quarantine EXCEPT ![p][n] = c]
           /\ moved' = IF c = Absent THEN moved
                       ELSE [q \in DOMAIN moved \cup {p} |-> IF q = p THEN c ELSE moved[q]]
    /\ todo' = Tail(todo)
    /\ UNCHANGED <<root, disk, log, logs, bundle, family, pc, mem, next, cur, outcome, bound, draft, decision, counters>>

\* workspace_recovered is observed once nothing is left to move.
FinishRecovery ==
    /\ pc = "quarantine" /\ todo = << >> /\ BoundObservation(mem, ws, {})
    /\ BeginCommit([SetLatest(mem, cur, [Latest(mem, cur) EXCEPT !.quarantined = moved, !.recovered = ws])
                       EXCEPT !.tasks[cur].status = "pending"],
                   Event("task_recovery_prepared", cur, AttemptNumber(mem, cur)), "loop")
    /\ todo' = << >> /\ moved' = << >>
    /\ UNCHANGED <<files, world, cur, outcome, bound, draft, decision, counters>>

(***************************************************************************)
(* _run_task, up to the launch.                                            *)
(***************************************************************************)
\* The inputs, the absent outputs and the closed tree; then the attempt limits.
LaunchReady(s, t) ==
    /\ BoundObservation(s, ws, {})
    /\ AttemptNumber(s, t) + 1 <= MaxAttemptsPerTask
    /\ TotalAttempts(s) < MaxTotalAttempts
    /\ ~Launched[t][AttemptNumber(s, t) + 1]

PrepareStdout ==
    /\ pc = "loop" /\ cur \in Tasks /\ mem.tasks[cur].status = "pending"
    /\ LaunchReady(mem, cur)
    /\ logs' = [logs EXCEPT ![cur][AttemptNumber(mem, cur) + 1] = IF @ = "none" THEN "stdout" ELSE @]
    /\ pc' = "stderr"
    /\ UNCHANGED <<root, disk, log, quarantine, bundle, world, mem, locals, decision, counters>>

\* Mutant: a retry replaces the attempts before it.
WithOnlyAttempt(s, t) ==
    [s EXCEPT !.status = "running", !.error = FALSE,
              !.tasks[t].status = "running",
              !.tasks[t].attempts = <<NewAttempt(CleanTree(s))>>]

\* Mutant: every attempt is taken to start from the baseline.
WithBaselineAttempt(s, t) ==
    [s EXCEPT !.status = "running", !.error = FALSE,
              !.tasks[t].status = "running",
              !.tasks[t].attempts = Append(@, NewAttempt(BaselineTree))]

WithNewAttempt(s, t) ==
    [s EXCEPT !.status = "running", !.error = FALSE,
              !.tasks[t].status = "running",
              !.tasks[t].attempts = Append(@, NewAttempt(CleanTree(s)))]

StartAttempt ==
    /\ pc = "stderr"
    /\ LET n == AttemptNumber(mem, cur) + 1
       IN  /\ logs' = [logs EXCEPT ![cur][n] = "both"]
           /\ BeginCommit(WithNewAttempt(mem, cur), Event("task_started", cur, n), "launch")
    /\ UNCHANGED <<root, disk, log, quarantine, bundle, world, cur, todo, moved, outcome, bound, draft, decision, counters>>

(***************************************************************************)
(* _run_task: launch, identity, wait.                                      *)
(***************************************************************************)
Child == family[cur][AttemptNumber(mem, cur)]

ChildBecomes(value) == family' = [family EXCEPT ![cur][AttemptNumber(mem, cur)] = value]

\* The in-memory attempt after the child is known, stopped or never created.
Scoped(s, child, closure) ==
    SetLatest(s, cur, [Latest(s, cur) EXCEPT !.guard = FALSE, !.child = child, !.closure = closure])

LaunchChild ==
    /\ pc = "launch"
    /\ ChildBecomes("leader")
    /\ pc' = "identify"
    /\ UNCHANGED <<files, ws, mem, locals, decision, counters>>

LaunchFails ==
    /\ pc = "launch"
    /\ mem' = Scoped(mem, FALSE, "empty")
    /\ outcome' = "failed"
    /\ pc' = "observe"
    /\ UNCHANGED <<files, world, next, cur, todo, moved, bound, draft, decision, counters>>

CaptureIdentity ==
    /\ pc = "identify"
    /\ mem' = Scoped(mem, TRUE, "active")
    /\ pc' = "persist"
    /\ UNCHANGED <<files, world, locals, decision, counters>>

\* stop_managed_process: the whole group is stopped and confirmed empty.
StopChild(how) ==
    /\ ChildBecomes("gone")
    /\ mem' = Scoped(mem, TRUE, "empty")
    /\ outcome' = how
    /\ pc' = "observe"
    /\ UNCHANGED <<root, log, logs, quarantine, bundle, ws, next, cur, todo, moved, bound, draft, decision, counters>>

IdentityUnavailable ==
    /\ pc = "identify"
    /\ StopChild("failed")
    /\ UNCHANGED disk

\* _write_state: the child's identity, before anything waits for it.
PersistIdentity ==
    /\ pc = "persist" /\ StateShape(mem)
    /\ disk' = mem
    /\ pc' = "wait"
    /\ UNCHANGED <<root, log, logs, quarantine, bundle, world, mem, locals, decision, counters>>

\* An operating-system error leaves the old state.json; an interrupt may come after the replace.
PersistIdentityFails ==
    /\ pc = "persist"
    /\ \/ StopChild("failed") /\ UNCHANGED disk
       \/ StopChild("interrupted") /\ disk' \in {disk, mem}

\* Mutant: only the leader is waited for.
AwaitLeaderExit(how) ==
    /\ pc = "wait" /\ Child # "leader"
    /\ mem' = Scoped(mem, TRUE, "empty")
    /\ outcome' = how
    /\ pc' = "observe"
    /\ UNCHANGED <<files, world, next, cur, todo, moved, bound, draft, decision, counters>>

AwaitExit(how) ==
    /\ pc = "wait" /\ Child = "gone"
    /\ mem' = Scoped(mem, TRUE, "empty")
    /\ outcome' = how
    /\ pc' = "observe"
    /\ UNCHANGED <<files, world, next, cur, todo, moved, bound, draft, decision, counters>>

\* wait_empty: the leader has exited but its group has not emptied in time.
ScopeLingers ==
    /\ pc = "wait" /\ Child = "group"
    /\ StopChild("failed")
    /\ UNCHANGED disk

InterruptWait(how) ==
    /\ pc = "wait" /\ Child = "leader"
    /\ StopChild(how)
    /\ UNCHANGED disk

(***************************************************************************)
(* _run_task: after the child.                                             *)
(***************************************************************************)
\* The post-exit execution-context check fails.
ContextDrifts ==
    /\ pc = "observe" /\ outcome = "ok"
    /\ outcome' = "failed"
    /\ UNCHANGED <<files, world, pc, mem, next, cur, todo, moved, bound, draft, decision, counters>>

\* The closed tree with this task's outputs volatile, and every output present.
OutputsAcceptable(s, t) ==
    BoundObservation(s, ws, OutputSet(t)) /\ \A p \in OutputSet(t) : ws[p] # Absent

WithCompletion(s, t) ==
    LET outputs == Files(ws, OutputSet(t))
        a == [Latest(s, t) EXCEPT !.status = "completed", !.rc = "known", !.after = ws, !.outputs = outputs]
    IN  [SetLatest(s, t, a) EXCEPT !.tasks[t].status = "completed", !.tasks[t].outputs = outputs]

CompleteAttempt ==
    /\ pc = "observe" /\ outcome = "ok" /\ OutputsAcceptable(mem, cur)
    /\ BeginCommit(WithCompletion(mem, cur), Event("task_completed", cur, AttemptNumber(mem, cur)), "loop")
    /\ cur' = cur + 1
    /\ UNCHANGED <<files, world, todo, moved, outcome, bound, draft, decision, counters>>

\* _finish_failed_attempt.
WithFailure(s, t, how) ==
    LET old == Latest(s, t)
        a   == [old EXCEPT !.guard = FALSE, !.after = ws,
                           !.status = IF how = "interrupted" THEN "interrupted" ELSE "failed",
                           !.rc = IF old.child THEN "known" ELSE "null"]
    IN  [SetLatest(s, t, a) EXCEPT !.status = "failed", !.error = TRUE, !.tasks[t].status = "failed"]

FailAttempt ==
    /\ pc = "observe"
    /\ outcome = "ok" => ~OutputsAcceptable(mem, cur)
    /\ BeginCommit(WithFailure(mem, cur, outcome),
                   Event("task_failed", cur, AttemptNumber(mem, cur)), "idle")
    /\ UNCHANGED <<files, world, cur, todo, moved, outcome, bound, draft, decision, counters>>

(***************************************************************************)
(* The end of _execute_remaining, and _build_bundle.                       *)
(***************************************************************************)
CompleteRun ==
    /\ pc = "loop" /\ cur = TaskCount + 1
    /\ BeginCommit([mem EXCEPT !.status = "completed", !.error = FALSE], RunEvent("run_completed"), "seal")
    /\ UNCHANGED <<files, world, cur, todo, moved, outcome, bound, draft, decision, counters>>

Sealable(s) ==
    /\ EventTransitionStatus(s, log) = "stable"
    /\ bundle = Nil
    /\ BoundObservation(s, ws, {})

\* final_workspace: the closed tree, observed once more.
ObserveFinal ==
    /\ pc = "seal" /\ Sealable(mem)
    /\ draft' = [ws |-> ws]
    /\ pc' = "hash"
    /\ UNCHANGED <<files, world, mem, next, cur, todo, moved, outcome, bound, decision, counters>>

\* Mutant: the tree is read again beside the artifacts, after it was checked.
HashTreeAgain ==
    /\ pc = "hash"
    /\ draft' = Evidence
    /\ pc' = "publish"
    /\ UNCHANGED <<files, world, mem, next, cur, todo, moved, outcome, bound, decision, counters>>

\* run_artifacts: the identity of every file of the run directory.
HashArtifacts ==
    /\ pc = "hash"
    /\ draft' = [Evidence EXCEPT !.ws = draft.ws]
    /\ pc' = "publish"
    /\ UNCHANGED <<files, world, mem, next, cur, todo, moved, outcome, bound, decision, counters>>

WriteBundle ==
    /\ pc = "publish"
    /\ bundle' = draft
    /\ pc' = "verify"
    /\ UNCHANGED <<root, disk, log, logs, quarantine, world, mem, locals, decision, counters>>

BuildBundle == ObserveFinal \/ HashArtifacts \/ WriteBundle

\* The verify_run of _execute_remaining, before it reports a completed run.
VerifySealed ==
    /\ pc = "verify" /\ BundleVerified
    /\ Halt
    /\ UNCHANGED <<files, world, decision, counters>>

(***************************************************************************)
(* Refusals inside a run, crashes, and the world outside the runner.       *)
(***************************************************************************)
\* Where the next thing the runner does is to commit a transition.
CommitPoint ==
    \/ pc \in {"admit", "observe"}
    \/ pc = "quarantine" /\ todo = << >>
    \/ pc = "loop" /\ cur = TaskCount + 1

\* A failed check raises: the runner stops and its files stay as they are.
Refuse ==
    /\ \/ pc = "admit" /\ ~Admissible(mem)
       \/ /\ pc = "loop" /\ cur \in Tasks
          /\ \/ Completed(mem, cur) /\ ~VerifiedTask(mem, cur)
             \/ mem.tasks[cur].status \in {"running", "failed"} /\ ~Recoverable(mem, cur)
             \/ mem.tasks[cur].status = "pending" /\ ~LaunchReady(mem, cur)
       \/ /\ pc = "quarantine" /\ todo # << >>
          /\ ws[Head(todo)] # Absent /\ quarantine[Head(todo)][AttemptNumber(mem, cur)] # Absent
       \/ pc = "quarantine" /\ todo = << >> /\ ~BoundObservation(mem, ws, {})
       \/ CommitPoint /\ ~CommitAllowed(mem)
       \/ pc = "seal" /\ ~Sealable(mem)
       \/ pc = "verify" /\ ~BundleVerified
    /\ Halt
    /\ UNCHANGED <<files, world, decision, counters>>

\* The task_started commit is refused once both log files are there.
RefuseAttempt ==
    /\ pc = "stderr" /\ ~CommitAllowed(mem)
    /\ logs' = [logs EXCEPT ![cur][AttemptNumber(mem, cur) + 1] = "both"]
    /\ Halt
    /\ UNCHANGED <<root, disk, log, quarantine, bundle, world, decision, counters>>

\* The runner dies; a child it has launched goes on.
Crash ==
    /\ pc # "idle" /\ crashes < MaxCrashes
    /\ crashes' = crashes + 1
    /\ Halt
    /\ UNCHANGED <<files, world, decision, edits>>

\* It dies while an atomic write has its temporary file in the run directory.
CrashInWrite ==
    /\ pc \in {"intent", "append", "ack", "persist", "reconcile", "publish"} /\ crashes < MaxCrashes
    /\ crashes' = crashes + 1
    /\ root' = "littered"
    /\ Halt
    /\ UNCHANGED <<disk, log, logs, quarantine, bundle, world, decision, edits>>

\* An exception while a child is managed: the scope is closed on the way out.
RaiseWithCleanup ==
    /\ pc \in {"identify", "persist", "wait"} /\ crashes < MaxCrashes
    /\ crashes' = crashes + 1
    /\ disk' \in {disk, mem}
    /\ ChildBecomes("gone")
    /\ Halt
    /\ UNCHANGED <<root, log, logs, quarantine, bundle, ws, decision, edits>>

ChildWrites(t, n) ==
    /\ family[t][n] \in Alive
    /\ \E p \in OutputSet(t) \cup Undisciplined, r \in Revisions :
          ws[p] # <<t, n, r>> /\ ws' = [ws EXCEPT ![p] = <<t, n, r>>]
    /\ UNCHANGED <<files, family, pc, mem, locals, decision, counters>>

LeaderExits(t, n) ==
    /\ family[t][n] = "leader"
    /\ \E left \in {"group", "gone"} : family' = [family EXCEPT ![t][n] = left]
    /\ UNCHANGED <<files, ws, pc, mem, locals, decision, counters>>

GroupExits(t, n) ==
    /\ family[t][n] = "group"
    /\ family' = [family EXCEPT ![t][n] = "gone"]
    /\ UNCHANGED <<files, ws, pc, mem, locals, decision, counters>>

\* Somebody edits or removes a workspace file.
Edit ==
    /\ edits < MaxEdits
    /\ edits' = edits + 1
    /\ \E p \in Paths, c \in {Foreign, Absent} : ws[p] # c /\ ws' = [ws EXCEPT ![p] = c]
    /\ UNCHANGED <<files, family, pc, mem, locals, decision, crashes>>

Operator == StartRun \/ ResumeRun \/ ResumeBound \/ Inspect

Commit == PersistIntent \/ AppendEvent \/ Acknowledge

RunnerStep ==
    \/ CreateRun \/ Commit
    \/ ReconcileAppend \/ ReconcileAcknowledge \/ AdmitResume
    \/ PassCompletedTask \/ BeginRecovery \/ QuarantineOutput \/ FinishRecovery
    \/ PrepareStdout \/ StartAttempt \/ LaunchChild \/ CaptureIdentity \/ PersistIdentity
    \/ AwaitExit("ok") \/ ScopeLingers
    \/ CompleteAttempt \/ FailAttempt \/ CompleteRun
    \/ BuildBundle \/ VerifySealed \/ Refuse \/ RefuseAttempt

\* What the environment decides about the runner.
RunnerFault ==
    \/ LaunchFails \/ IdentityUnavailable \/ PersistIdentityFails
    \/ AwaitExit("failed") \/ InterruptWait("interrupted") \/ InterruptWait("failed")
    \/ ContextDrifts
    \/ Crash \/ CrashInWrite \/ RaiseWithCleanup

ChildStep ==
    \E t \in Tasks, n \in AttemptNumbers :
        ChildWrites(t, n) \/ LeaderExits(t, n) \/ GroupExits(t, n)

ChildExits ==
    \E t \in Tasks, n \in AttemptNumbers : LeaderExits(t, n) \/ GroupExits(t, n)

Next == Operator \/ RunnerStep \/ RunnerFault \/ ChildStep \/ Edit

Spec == Init /\ [][Next]_vars

=============================================================================
