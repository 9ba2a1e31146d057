------------------------------ MODULE RunState ------------------------------
(***************************************************************************)
(* The values the run engine of BenchHandoff stores, and the pure checks   *)
(* it makes on them: state.json, its attempt records, the event log, the   *)
(* closed workspace tree (schema version 3) and the load-time validators   *)
(* of src/src/benchhandoff/engine.py.                                      *)
(*                                                                         *)
(* Data abstractions.  A file's identity (SHA-256 and size) is its         *)
(* content; a content is named by the attempt that wrote it.  The identity *)
(* of events.jsonl that state.json carries is the sequence of its records. *)
(* The summary of the workspace tree is the tree.  Entries of the reviewed *)
(* manifest are not listed: the paths outside every task's outputs stand   *)
(* for the rest of the closed tree and are Absent exactly when that rest   *)
(* agrees with the manifest.                                               *)
(***************************************************************************)
EXTENDS Integers, Sequences, FiniteSets

CONSTANTS
    TaskCount,           \* number of tasks; they run in the order 1..TaskCount
    Paths,               \* workspace paths
    OutputsOf,           \* OutputsOf[t]: the declared outputs of task t, in order
    Revisions,           \* distinct contents one attempt can give an output
    MaxAttemptsPerTask,  \* MAX_ATTEMPTS_PER_TASK
    MaxTotalAttempts,    \* MAX_TOTAL_ATTEMPTS
    MaxEvents,           \* MAX_EVENT_COUNT
    Absent,              \* no such file
    Foreign,             \* a content no attempt wrote
    Nil                  \* JSON null, or an absent optional field

Tasks == 1..TaskCount

AttemptNumbers == 1..MaxAttemptsPerTask

Elems(s) == {s[i] : i \in DOMAIN s}

OutputSet(t) == Elems(OutputsOf[t])

ASSUME SuiteAssumption ==
    /\ TaskCount \in Nat \ {0}
    /\ OutputsOf \in [Tasks -> Seq(Paths)]
    /\ \A t \in Tasks : OutputsOf[t] # << >>
    /\ \A t, u \in Tasks : t # u => OutputSet(t) \cap OutputSet(u) = {}
    /\ \A t \in Tasks : \A i, j \in DOMAIN OutputsOf[t] :
          OutputsOf[t][i] = OutputsOf[t][j] => i = j

\* MAX_TOTAL_ATTEMPTS = 256 is MAX_SUITE_TASKS * MAX_ATTEMPTS_PER_TASK = 64 * 4.
ASSUME LimitAssumption ==
    /\ MaxAttemptsPerTask \in Nat \ {0}
    /\ MaxTotalAttempts \in Nat
    /\ MaxTotalAttempts >= TaskCount * MaxAttemptsPerTask
    /\ MaxEvents \in Nat \ {0}

(***************************************************************************)
(* Workspace trees.                                                        *)
(***************************************************************************)
Contents == (Tasks \X AttemptNumbers \X Revisions) \cup {Foreign}

\* No file is none of the contents.
ASSUME AbsentAssumption == Absent \notin Contents

Trees == [Paths -> Contents \cup {Absent}]

\* The reviewed baseline: none of the tasks' outputs exists.
BaselineTree == [p \in Paths |-> Absent]

\* The files of a set of paths as a partial map from path to content.
Files(tree, S) == [p \in {q \in S : tree[q] # Absent} |-> tree[p]]

PartialTrees == UNION {[S -> Contents] : S \in SUBSET Paths}

\* project_workspace_summary: a tree with some more files in it.
WithOutputs(tree, files) ==
    [p \in Paths |-> IF p \in DOMAIN files THEN files[p] ELSE tree[p]]

(***************************************************************************)
(* state.json.                                                             *)
(***************************************************************************)
Event(type, t, n) == [type |-> type, task |-> t, attempt |-> n]

RunEvent(type) == Event(type, 0, 0)

EventTypes == {"run_started", "run_resumed", "run_completed", "task_started",
               "task_failed", "task_recovery_prepared", "task_completed"}

Events == [type : EventTypes, task : 0..TaskCount, attempt : 0..MaxAttemptsPerTask]

Attempts == [status : {"running", "failed", "interrupted", "completed"}, guard : BOOLEAN, child : BOOLEAN,
             closure : {"pending-launch", "active", "empty"}, rc : {"null", "known", "unavailable"},
             before : Trees, after : Trees \cup {Nil}, recovered : Trees \cup {Nil},
             quarantined : PartialTrees \cup {Nil}, outputs : PartialTrees \cup {Nil}]

TaskRecords == [status : {"pending", "running", "failed", "completed"},
                attempts : Seq(Attempts), outputs : PartialTrees \cup {Nil}]

States == [status : {"running", "failed", "completed"}, error : BOOLEAN,
           event_log : Seq(Events), pending : Events \cup {Nil}, tasks : [Tasks -> TaskRecords]]

\* null is none of the values it stands in for.
ASSUME NilAssumption == Nil \notin States /\ Nil \notin Events /\ Nil \notin Trees /\ Nil \notin PartialTrees

\* _run_task: the attempt record before its child is launched.
NewAttempt(before) ==
    [status |-> "running", guard |-> TRUE, child |-> FALSE,
     closure |-> "pending-launch", rc |-> "null", before |-> before,
     after |-> Nil, recovered |-> Nil, quarantined |-> Nil, outputs |-> Nil]

\* _initial_state.
InitialState ==
    [status |-> "running", error |-> FALSE, event_log |-> << >>, pending |-> Nil,
     tasks |-> [t \in Tasks |-> [status |-> "pending", attempts |-> << >>, outputs |-> Nil]]]

Latest(s, t) == s.tasks[t].attempts[Len(s.tasks[t].attempts)]

Completed(s, t) == s.tasks[t].status = "completed"

AllCompleted(s) == \A t \in Tasks : Completed(s, t)

\* The first task that is not completed, or TaskCount + 1.
FirstIncomplete(s) ==
    IF AllCompleted(s) THEN TaskCount + 1
    ELSE CHOOSE t \in Tasks : ~Completed(s, t) /\ \A u \in 1..(t - 1) : Completed(s, u)

TotalAttempts(s) ==
    Cardinality({k \in Tasks \X AttemptNumbers : k[2] <= Len(s.tasks[k[1]].attempts)})

\* _workspace_completed_outputs over the tasks in T, laid over the baseline.
SealedTree(s, T) ==
    [p \in Paths |->
        IF \E t \in T : Completed(s, t) /\ p \in OutputSet(t)
        THEN LET t == CHOOSE u \in T : Completed(s, u) /\ p \in OutputSet(u)
             IN  s.tasks[t].outputs[p]
        ELSE Absent]

CleanTree(s) == SealedTree(s, Tasks)

(***************************************************************************)
(* _validate_attempt and _validate_attempt_process_scope.                  *)
(***************************************************************************)
Terminal == {"failed", "interrupted"}

\* "empty" stands for the closures that confirm an empty scope: not-created and
\* launch-cleaned without a child, natural-empty, terminated, recovered-empty with one.
ScopeShape(a) ==
    \/ a.guard /\ a.closure = "pending-launch"
    \/ ~a.guard /\ ~a.child /\ a.status = "failed" /\ a.closure = "empty"
    \/ ~a.guard /\ a.child /\ a.status = "running" /\ a.closure = "active"
    \/ ~a.guard /\ a.child /\ a.status # "running" /\ a.closure = "empty"

AttemptShape(a, t) ==
    /\ a.status \in Terminal \cup {"running", "completed"}
    /\ a.status \in Terminal => a.after # Nil
    /\ a.status = "running" =>
          a.rc = "null" /\ a.after = Nil /\ a.recovered = Nil /\ a.quarantined = Nil
    /\ a.guard => a.status = "running" /\ ~a.child
    /\ a.status = "running" /\ ~a.guard => a.child
    /\ ScopeShape(a)
    /\ a.rc = "unavailable" => a.status = "interrupted" /\ a.child
    /\ a.status \in Terminal => (a.child <=> a.rc # "null")
    /\ a.status = "completed" => a.child /\ a.rc = "known" /\ a.after # Nil
    /\ a.status = "completed" <=> a.outputs # Nil
    /\ a.outputs # Nil => DOMAIN a.outputs = OutputSet(t)
    /\ a.quarantined # Nil => a.status \in Terminal /\ DOMAIN a.quarantined \subseteq OutputSet(t)
    /\ a.quarantined # Nil <=> a.recovered # Nil

(***************************************************************************)
(* _validate_state_shape.                                                  *)
(***************************************************************************)
TaskShape(s, t) ==
    LET task == s.tasks[t]
        n    == Len(task.attempts)
    IN  /\ n <= MaxAttemptsPerTask
        /\ \A i \in 1..n : AttemptShape(task.attempts[i], t)
        /\ \A i \in 1..(n - 1) :
              task.attempts[i].status \in Terminal /\ task.attempts[i].quarantined # Nil
        /\ (task.status = "completed") <=> (task.outputs # Nil)
        /\ \/ /\ task.status = "pending"
              /\ n > 0 => Latest(s, t).status \in Terminal /\ Latest(s, t).quarantined # Nil
           \/ /\ task.status = "running"
              /\ n > 0 /\ Latest(s, t).status = "running"
           \/ /\ task.status = "failed"
              /\ n > 0 /\ Latest(s, t).status \in Terminal /\ Latest(s, t).quarantined = Nil
           \/ /\ task.status = "completed"
              /\ n > 0 /\ Latest(s, t).status = "completed" /\ Latest(s, t).outputs = task.outputs

\* Completed tasks form a prefix; what follows the first incomplete task is untouched.
OrderedPrefix(s) ==
    \A t, u \in Tasks : t < u /\ ~Completed(s, t) =>
        s.tasks[u].status = "pending" /\ s.tasks[u].attempts = << >>

\* Every check of the state but the one on the attempts of all tasks together.
StateBody(s) ==
    /\ s.status \in {"running", "failed", "completed"}
    /\ Len(s.event_log) <= MaxEvents
    /\ s.pending # Nil => Len(s.event_log) < MaxEvents
    /\ \A t \in Tasks : TaskShape(s, t)
    /\ OrderedPrefix(s)
    /\ s.status = "completed" => AllCompleted(s) /\ ~s.error
    /\ s.status = "failed" => s.error

StateShape(s) == StateBody(s) /\ TotalAttempts(s) <= MaxTotalAttempts

(***************************************************************************)
(* _event_transition_status: the log against the acknowledged identity.    *)
(***************************************************************************)
EventTransitionStatus(s, log) ==
    CASE s.pending = Nil /\ log = s.event_log                    -> "stable"
      [] s.pending # Nil /\ log = s.event_log                    -> "pending_before_log"
      [] s.pending # Nil /\ log = Append(s.event_log, s.pending) -> "pending_after_log"
      [] OTHER                                                   -> "diverged"

(***************************************************************************)
(* _validate_attempt_artifacts.  logs[t][n] is the attempt's pair of log   *)
(* files: none, only stdout, or both; a pair may have text in it as soon   *)
(* as a child was launched, launched[t][n].  quarantine[p][n] is the       *)
(* deterministic destination of output p of the n-th attempt of its task.  *)
(***************************************************************************)
LogPairs == {"none", "stdout", "both"}

\* Mutant: the log pair prepared for the next attempt is not tolerated.
LogArtifactsStrict(s, logs, launched) ==
    \A t \in Tasks, n \in AttemptNumbers :
        logs[t][n] = (IF n <= Len(s.tasks[t].attempts) THEN "both" ELSE "none")

LogArtifacts(s, logs, launched) ==
    \A t \in Tasks, n \in AttemptNumbers :
        LET count == Len(s.tasks[t].attempts)
        IN  /\ n <= count => logs[t][n] = "both"
            /\ n > count /\ logs[t][n] # "none" =>
                  /\ t = FirstIncomplete(s) /\ s.tasks[t].status = "pending"
                  /\ n = count + 1 /\ ~launched[t][n]

QuarantineArtifacts(s, quarantine) ==
    \A t \in Tasks, n \in AttemptNumbers : \A p \in OutputSet(t) :
        LET attempts   == s.tasks[t].attempts
            recorded   == n <= Len(attempts) /\ attempts[n].quarantined # Nil
            referenced == recorded /\ p \in DOMAIN attempts[n].quarantined
        IN  /\ referenced => quarantine[p][n] = attempts[n].quarantined[p]
            /\ ~referenced /\ quarantine[p][n] # Absent =>
                  /\ t = FirstIncomplete(s) /\ s.tasks[t].status \in {"running", "failed"}
                  /\ n = Len(attempts) /\ ~recorded

(***************************************************************************)
(* _validate_workspace_history: every recorded summary is derived again    *)
(* from the baseline and the sealed or quarantined outputs.                *)
(***************************************************************************)
AttemptHistory(a, clean) ==
    /\ a.before = clean
    /\ a.status = "completed" => a.after = WithOutputs(clean, a.outputs)
    /\ a.quarantined # Nil =>
          a.after = WithOutputs(clean, a.quarantined) /\ a.recovered = clean

WorkspaceHistory(s) ==
    \A t \in Tasks : \A i \in DOMAIN s.tasks[t].attempts :
        AttemptHistory(s.tasks[t].attempts[i], SealedTree(s, 1..(t - 1)))

(***************************************************************************)
(* verify_workspace, _recovery_workspace_observation and                   *)
(* _current_workspace_observation.                                         *)
(***************************************************************************)
BoundObservation(s, ws, volatile) ==
    \A p \in Paths \ volatile : ws[p] = CleanTree(s)[p]

\* The unverified files of attempt n of task t, wherever they are now.
Unverified(t, n, ws, quarantine) ==
    [p \in {q \in OutputSet(t) : ws[q] # Absent \/ quarantine[q][n] # Absent} |->
        IF ws[p] # Absent THEN ws[p] ELSE quarantine[p][n]]

RecoveryObservation(s, t, ws, quarantine) ==
    LET n == Len(s.tasks[t].attempts)
        a == Latest(s, t)
    IN  /\ BoundObservation(s, ws, OutputSet(t))
        /\ a.after = Nil => a.status = "running"
        /\ a.after # Nil =>
              /\ \A p \in OutputSet(t) : ws[p] = Absent \/ quarantine[p][n] = Absent
              /\ a.after = WithOutputs(CleanTree(s), Unverified(t, n, ws, quarantine))

CurrentWorkspace(s, ws, quarantine) ==
    LET t == FirstIncomplete(s)
    IN  IF t \in Tasks /\ s.tasks[t].status \in {"running", "failed"}
        THEN RecoveryObservation(s, t, ws, quarantine)
        ELSE /\ BoundObservation(s, ws, {})
             /\ t \in Tasks /\ s.tasks[t].attempts # << >> => ws = Latest(s, t).recovered

=============================================================================
