----------------------------- MODULE RunSafety ------------------------------
(***************************************************************************)
(* What never goes wrong in a run.  RunProofs, RunStoryProofs,             *)
(* RunArtifactProofs, RunRecoveryProofs and RunHistoryProofs prove it for  *)
(* every suite.                                                            *)
(***************************************************************************)
EXTENDS RunEngine

Families == {"unborn", "leader", "group", "gone"}

PCs == {"idle", "create", "intent", "append", "ack", "reconcile", "admit", "loop", "quarantine",
        "stderr", "launch", "identify", "persist", "wait", "observe", "seal", "hash", "publish", "verify"}

(***************************************************************************)
(* The type invariant: files, processes and the runner's locals have the   *)
(* shapes the engine reads and writes.                                     *)
(***************************************************************************)
TypeOK ==
    /\ root \in {"absent", "partial", "ready", "littered"}
    /\ disk \in States \cup {Nil} /\ (disk = Nil <=> root \in {"absent", "partial"})
    /\ log \in Seq(Events)
    /\ logs \in [Tasks -> [AttemptNumbers -> LogPairs]]
    /\ quarantine \in [Paths -> [AttemptNumbers -> Contents \cup {Absent}]]
    /\ ws \in Trees
    /\ family \in [Tasks -> [AttemptNumbers -> Families]]
    /\ pc \in PCs /\ next \in {"idle", "loop", "launch", "seal"}
    /\ mem \in States \cup {Nil} /\ (mem = Nil <=> pc \in {"idle", "create"})
    /\ cur \in 1..(TaskCount + 1)
    /\ todo \in Seq(Paths) /\ moved \in PartialTrees
    /\ outcome \in {"ok", "failed", "interrupted"}
    /\ crashes \in 0..MaxCrashes /\ edits \in 0..MaxEdits

(***************************************************************************)
(* The event log is never diverged from state.json: wherever a crash cuts  *)
(* _commit_transition or _reconcile_pending_event, events.jsonl is the     *)
(* acknowledged log, alone or followed by exactly the pending record, so   *)
(* _event_transition_status never makes _load_context refuse the run.      *)
(***************************************************************************)
LogNeverDiverges == disk # Nil => EventTransitionStatus(disk, log) # "diverged"

(***************************************************************************)
(* A run as its event log tells it: before the first event.                *)
(***************************************************************************)
Untold == [status |-> "running",
           tasks |-> [t \in Tasks |-> [status |-> "pending", attempts |-> 0]]]

\* An event is a legal continuation of the story told so far.
Continues(story, e) ==
    LET task == story.tasks[e.task]
        ahead == \A u \in 1..(e.task - 1) : story.tasks[u].status = "completed"
    IN  /\ story.status # "broken"
        /\ CASE e.type = "run_started" -> story = Untold
             [] e.type = "run_resumed" -> TRUE
             [] e.type = "run_completed" ->
                   story.status = "running" /\ \A t \in Tasks : story.tasks[t].status = "completed"
             [] e.type = "task_started" ->
                   ahead /\ story.status = "running" /\ task.status = "pending" /\ e.attempt = task.attempts + 1
             [] e.type \in {"task_failed", "task_completed"} ->
                   ahead /\ story.status = "running" /\ task.status = "running" /\ e.attempt = task.attempts
             [] e.type = "task_recovery_prepared" ->
                   ahead /\ story.status = "running" /\ task.status \in {"running", "failed"} /\ e.attempt = task.attempts

Tell(story, e) ==
    IF ~Continues(story, e) THEN [story EXCEPT !.status = "broken"]
    ELSE CASE e.type = "task_started" ->
                 [story EXCEPT !.tasks[e.task] = [status |-> "running", attempts |-> e.attempt]]
           [] e.type = "task_failed" ->
                 [status |-> "failed", tasks |-> [story.tasks EXCEPT ![e.task].status = "failed"]]
           [] e.type = "task_recovery_prepared" -> [story EXCEPT !.tasks[e.task].status = "pending"]
           [] e.type = "task_completed" -> [story EXCEPT !.tasks[e.task].status = "completed"]
           [] e.type = "run_completed" -> [story EXCEPT !.status = "completed"]
           [] OTHER -> [story EXCEPT !.status = "running"]

\* The events told one after the other.
StoryOf(events) ==
    LET told[i \in 0..Len(events)] == IF i = 0 THEN Untold ELSE Tell(told[i - 1], events[i])
    IN  told[Len(events)]

\* The same as state.json records it.
StoryIn(s) == [status |-> s.status,
               tasks |-> [t \in Tasks |-> [status |-> s.tasks[t].status, attempts |-> AttemptNumber(s, t)]]]

Intended(s) == IF s.pending = Nil THEN s.event_log ELSE Append(s.event_log, s.pending)

(***************************************************************************)
(* Whatever crashes interrupt _commit_transition and                       *)
(* _reconcile_pending_event, replaying the acknowledged events and the     *)
(* pending intent from nothing gives exactly the run status, task statuses *)
(* and attempt counts that state.json records: no transition is lost,      *)
(* doubled or out of order.                                                *)
(***************************************************************************)
LogTellsState == disk # Nil => StoryOf(Intended(disk)) = StoryIn(disk)

(***************************************************************************)
(* A process family that is still alive belongs to the latest attempt of   *)
(* a durably running task, so no second family runs beside it and          *)
(* _assert_recovery_liveness refuses every resume until it is gone.        *)
(***************************************************************************)
LiveFamilyBlocksResume ==
    \A t \in Tasks, n \in AttemptNumbers : family[t][n] \in Alive =>
        /\ disk # Nil /\ disk.tasks[t].status = "running" /\ n = AttemptNumber(disk, t)
        /\ pc \in {"idle", "reconcile", "admit", "identify", "persist", "wait"}

(***************************************************************************)
(* The engine never leaves, nor ever tries to persist, a state.json that   *)
(* its own _validate_state_shape rejects: each record it builds along      *)
(* start, failure, interrupt, recovery and resume is one it can load.      *)
(***************************************************************************)
PersistedShapeValid ==
    /\ disk # Nil => StateShape(disk)
    /\ pc \in {"intent", "persist"} => StateShape(mem)
    /\ pc \in {"ack", "reconcile"} => StateShape([mem EXCEPT !.pending = Nil])

(***************************************************************************)
(* The log and quarantine files found in the run directory are those the   *)
(* durable attempt records account for, at every point a crash can fall    *)
(* on: _validate_attempt_artifacts never refuses what the engine left.     *)
(***************************************************************************)
ArtifactsAccountedFor ==
    disk # Nil => LogArtifacts(disk, logs, Launched) /\ QuarantineArtifacts(disk, quarantine)

(***************************************************************************)
(* A resume that passes _assert_resume_attempt_budget never mutates        *)
(* evidence only to meet the attempt limits of _run_task afterwards.       *)
(***************************************************************************)
BudgetCheckSuffices ==
    pc = "loop" /\ cur \in Tasks /\ mem.tasks[cur].status # "completed" =>
        /\ AttemptNumber(mem, cur) < MaxAttemptsPerTask
        /\ TotalAttempts(mem) < MaxTotalAttempts

(***************************************************************************)
(* No file an attempt produced is lost: it leaves the workspace only by    *)
(* the move to its own quarantine destination or when the same attempt     *)
(* writes it again, and a quarantined file never changes.                  *)
(***************************************************************************)
NoOutputLost ==
    [][/\ \A p \in Paths : ws[p] \in Tasks \X AttemptNumbers \X Revisions /\ ws'[p] # ws[p] =>
             LET t == ws[p][1]
                 n == ws[p][2]
             IN  \/ ws'[p] = Absent /\ quarantine'[p][n] = ws[p]
                 \/ ws'[p] # Absent /\ ws'[p][1] = t /\ ws'[p][2] = n
       /\ \A p \in Paths, n \in AttemptNumbers :
             quarantine[p][n] # Absent => quarantine'[p][n] = quarantine[p][n]]_vars

\* What state.json may become in one write, given what it was.
Grows(old, new) ==
    \A t \in Tasks :
        /\ Completed(old, t) => new.tasks[t] = old.tasks[t]
        /\ Len(new.tasks[t].attempts) \in {Len(old.tasks[t].attempts), Len(old.tasks[t].attempts) + 1}
        /\ \A i \in DOMAIN old.tasks[t].attempts :
              old.tasks[t].attempts[i].quarantined # Nil => new.tasks[t].attempts[i] = old.tasks[t].attempts[i]

(***************************************************************************)
(* The durable record only grows: a completed task and an attempt that was *)
(* recovered never change again, and no step forgets an attempt.           *)
(***************************************************************************)
RecordOnlyGrows ==
    [][disk # Nil => Grows(disk, disk')]_vars

(***************************************************************************)
(* A resume bound to a reviewed decision starts from exactly the evidence  *)
(* that was reviewed: when its run_resumed intent becomes durable, state,  *)
(* log, attempt logs and quarantine are those inspect_resume digested,     *)
(* whatever other resumes, crashes and edits came between.  So a decision  *)
(* is good for one resume.                                                 *)
(***************************************************************************)
ApprovedEvidenceResumed ==
    [][bound # Nil /\ pc = "intent" /\ disk' # disk /\ mem.pending.type = "run_resumed" =>
         /\ bound.state = disk /\ bound.log = log
         /\ bound.logs = logs /\ bound.quarantine = quarantine]_vars

\* What bundle.json should hold, by the records of the run directory alone.
Accounted(s) == [state |-> s, log |-> log, logs |-> logs, quarantine |-> quarantine, bundle |-> Nil, ws |-> CleanTree(s)]

(***************************************************************************)
(* A bundle is one picture, though _build_bundle observes the workspace,   *)
(* hashes the run directory and writes bundle.json one after the other and *)
(* anybody may edit the workspace meanwhile: the tree it seals is the one  *)
(* that the records it hashed account for, and those are the files of the  *)
(* run directory for ever after.                                           *)
(***************************************************************************)
SealedTreeExact == bundle # Nil => AllCompleted(disk) /\ bundle = Accounted(disk)

(***************************************************************************)
(* Every workspace summary in a durable attempt record can be derived      *)
(* again from the baseline and the sealed or quarantined outputs, which is *)
(* what _validate_workspace_history asks of every later load.              *)
(***************************************************************************)
HistoryDerivable == disk # Nil => WorkspaceHistory(disk)

(***************************************************************************)
(* After one crash or exception, wherever it falls, this is so.  A second  *)
(* one, inside the recovery of the first, can break it: RunHistory.  The   *)
(* properties that rest on it below have the same condition.               *)
(***************************************************************************)
DerivableAfterOneCrash == crashes <= 1 => HistoryDerivable

(***************************************************************************)
(* bundle.json is written once, and nothing it hashes changes afterwards:  *)
(* state, events, logs and quarantine stay as _build_bundle saw them, and  *)
(* verify_run keeps accepting the run.                                     *)
(***************************************************************************)
SealedRunVerifies == bundle # Nil /\ root = "ready" /\ crashes <= 1 => BundleVerified

(***************************************************************************)
(* The dead ends that README.md and LIMITATIONS.md announce.               *)
(***************************************************************************)
UnresolvedLaunch ==
    \E t \in Tasks : disk.tasks[t].status = "running" /\ Latest(disk, t).guard

WorkspaceDrift ==
    LET t == FirstIncomplete(disk)
        volatile == IF t \in Tasks /\ disk.tasks[t].status # "pending" THEN OutputSet(t) ELSE {}
    IN  ~BoundObservation(disk, ws, volatile)

DeadEnd == root # "ready" \/ UnresolvedLaunch \/ ~AttemptBudget(disk) \/ WorkspaceDrift

(***************************************************************************)
(* A run that is neither sealed nor in an announced dead end can always be *)
(* resumed once its orphaned child is gone: no crash, failure or interrupt *)
(* leaves evidence that the engine itself refuses to load.                 *)
(***************************************************************************)
ResumeStaysPossible ==
    pc = "idle" /\ disk # Nil /\ bundle = Nil /\ ~DeadEnd /\ crashes <= 1 =>
        /\ Loadable /\ VerifiedPrefix(disk)
        /\ \/ RecoveryLiveness(disk)
           \/ \E t \in Tasks : ~FamilyGone(t, AttemptNumber(disk, t))

=============================================================================
