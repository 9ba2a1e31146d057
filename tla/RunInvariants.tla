--------------------------- MODULE RunInvariants ----------------------------
(***************************************************************************)
(* The inductive invariants of RunEngine that its safety properties follow *)
(* from, in layers: each layer is inductive given the ones before it.      *)
(***************************************************************************)
EXTENDS RunSafety

(***************************************************************************)
(* First layer: what every record satisfies, what the runner's copy        *)
(* and the files agree on at each point of the commit protocol, and whose  *)
(* child may be alive when.                                                *)
(***************************************************************************)
Recorded(s) ==
    \A t \in Tasks :
        /\ Len(s.tasks[t].attempts) <= MaxAttemptsPerTask
        /\ s.tasks[t].status \in {"running", "failed"} => s.tasks[t].attempts # << >>
        /\ Completed(s, t) => s.tasks[t].outputs \in [OutputSet(t) -> Contents]

RecordInv == (disk # Nil => Recorded(disk)) /\ (mem # Nil => Recorded(mem))

Committing == {"intent", "append", "ack"}

LedgerInv ==
    /\ LogNeverDiverges
    /\ disk = Nil => log = << >> /\ pc \in {"idle", "create"}
    /\ pc = "create" => disk = Nil
    /\ pc = "intent" => mem.pending # Nil /\ disk.pending = Nil /\ mem.event_log = log /\ disk.event_log = log
    /\ pc = "append" => mem = disk /\ mem.pending # Nil /\ log = mem.event_log
    /\ pc = "ack" => mem = disk /\ mem.pending # Nil /\ log = Append(mem.event_log, mem.pending)
    /\ pc = "reconcile" => mem = disk /\ mem.pending # Nil
    /\ pc \notin {"idle", "create", "reconcile"} \cup Committing =>
          mem.pending = Nil /\ disk.pending = Nil /\ mem.event_log = log /\ disk.event_log = log

\* The runner has a child to launch or to wait for.
Managing == {"launch", "identify", "persist", "wait"}

LaunchInv ==
    /\ pc = "admit" => mem = disk
    /\ pc \in {"quarantine", "stderr", "observe"} \cup Managing => cur \in Tasks
    /\ pc = "quarantine" => mem.tasks[cur].status \in {"running", "failed"}
    /\ pc = "stderr" => mem.tasks[cur].status = "pending" /\ Len(mem.tasks[cur].attempts) < MaxAttemptsPerTask
    /\ pc \in {"observe"} \cup Managing => mem.tasks[cur].status = "running"
    /\ pc \in Committing /\ next = "launch" => cur \in Tasks /\ mem.tasks[cur].status = "running"
    /\ pc \in Managing =>
          disk.tasks[cur].status = "running" /\ Len(disk.tasks[cur].attempts) = Len(mem.tasks[cur].attempts)
    /\ pc \in Managing => \A t \in Tasks, n \in AttemptNumbers : family[t][n] \in Alive => t = cur /\ pc # "launch"

EngineInv == TypeOK /\ RecordInv /\ LedgerInv /\ LiveFamilyBlocksResume /\ LaunchInv

(***************************************************************************)
(* Second layer: state.json, the runner's copy of it, and the record the   *)
(* runner is about to write.                                               *)
(***************************************************************************)

\* t is where the run stands: the tasks before it are completed and it is not.
At(s, t) == ~Completed(s, t) /\ \A u \in Tasks : u < t => Completed(s, u)

\* r is s but for the latest attempt, the status and the outputs of task t.
Touches(r, s, t) ==
    /\ \A u \in Tasks : u # t => r.tasks[u] = s.tasks[u]
    /\ Len(r.tasks[t].attempts) = Len(s.tasks[t].attempts)
    /\ \A i \in 1..(Len(s.tasks[t].attempts) - 1) : r.tasks[t].attempts[i] = s.tasks[t].attempts[i]

\* The runner's copy is state.json, or state.json with a newer record of the latest attempt.
CopyInv ==
    /\ pc \in {"append", "ack", "reconcile", "admit", "loop", "stderr", "launch", "identify", "wait",
              "seal", "hash", "publish", "verify"} => mem = disk
    /\ pc \in {"quarantine", "persist", "observe"} =>
          /\ Touches(mem, disk, cur)
          /\ mem.tasks[cur].status = disk.tasks[cur].status /\ mem.tasks[cur].outputs = disk.tasks[cur].outputs
          /\ mem.status = disk.status /\ mem.error = disk.error
    /\ pc = "intent" => Grows(disk, mem)
    /\ mem # Nil => \A u \in Tasks : u < cur => Completed(mem, u)
    /\ mem = Nil => cur = 1

\* An attempt whose child is gone and whose end is not recorded yet.
Unrecorded(a) ==
    /\ a.status = "running" /\ ~a.guard /\ a.closure = "empty" /\ a.rc = "null" /\ a.after = Nil
    /\ a.recovered = Nil /\ a.quarantined = Nil /\ a.outputs = Nil
    /\ ~a.child => outcome = "failed"

\* The record about to be written is one _validate_state_shape accepts.
ShapeInv ==
    /\ disk # Nil => StateBody(disk)
    /\ pc \in {"intent", "persist"} => StateBody(mem)
    /\ pc = "observe" => Unrecorded(Latest(mem, cur))
    /\ pc = "quarantine" =>
          /\ AttemptShape(Latest(mem, cur), cur) /\ Latest(mem, cur).status \in Terminal
          /\ Latest(mem, cur).quarantined = Nil
          /\ Elems(todo) \subseteq OutputSet(cur) /\ DOMAIN moved \subseteq OutputSet(cur)

\* The task that runs next has an attempt left.
BudgetInv ==
    pc \in {"loop", "quarantine"} \/ (pc \in Committing /\ next = "loop") =>
        \A t \in Tasks : At(mem, t) => Len(mem.tasks[t].attempts) < MaxAttemptsPerTask

\* The evidence has not changed since the decision of the resume was recomputed.
ApprovalInv ==
    bound # Nil /\ pc = "intent" /\ mem.pending.type = "run_resumed" =>
        /\ bound.state = disk /\ bound.log = log
        /\ bound.logs = logs /\ bound.quarantine = quarantine

StoreInv == CopyInv /\ ShapeInv /\ BudgetInv /\ ApprovalInv

\* A run stands at a task or is through.
Placed(s) == AllCompleted(s) \/ \E t \in Tasks : At(s, t)

PlaceInv ==
    /\ disk # Nil => Placed(disk)
    /\ pc = "intent" => Placed(mem)
    /\ pc \in {"seal", "hash", "publish", "verify"} \/ (pc \in Committing /\ next = "seal") =>
          AllCompleted(mem) /\ mem.status = "completed"

\* The bundle under way holds what the records account for, and the one written is of a run at rest.
SealInv ==
    /\ pc = "hash" => draft = [ws |-> CleanTree(disk)]
    /\ pc = "publish" => draft = Accounted(disk)
    /\ bundle # Nil =>
          /\ pc \in {"idle", "verify"} /\ disk # Nil /\ disk.pending = Nil
          /\ AllCompleted(disk) /\ disk.status = "completed" /\ bundle = Accounted(disk)

\* The event about to become durable leads from the story of state.json to that of the copy.
StoryInv ==
    /\ LogTellsState
    /\ pc = "intent" => Tell(StoryIn(disk), mem.pending) = StoryIn(mem)
    /\ pc \in {"loop", "quarantine", "stderr", "observe"} \cup Managing => disk.status = "running"
    /\ pc \in Committing /\ next \in {"loop", "launch"} => mem.status = "running"

\* Record r is one step of the run's lifecycle after record s.
Leads(s, r) ==
    \/ /\ r.tasks = s.tasks
       /\ r.status = "running" \/ (r.status = "completed" /\ s.status = "running" /\ AllCompleted(s))
    \/ \E t \in Tasks :
          /\ s.status = "running" /\ At(s, t) /\ \A u \in Tasks : u # t => r.tasks[u] = s.tasks[u]
          /\ \/ /\ s.tasks[t].status = "pending" /\ r.tasks[t].status = "running" /\ r.status = "running"
                /\ AttemptNumber(r, t) = AttemptNumber(s, t) + 1
             \/ /\ AttemptNumber(r, t) = AttemptNumber(s, t)
                /\ \/ s.tasks[t].status = "running" /\ r.tasks[t].status = "completed" /\ r.status = "running"
                   \/ s.tasks[t].status = "running" /\ r.tasks[t].status = "failed" /\ r.status = "failed"
                   \/ /\ s.tasks[t].status \in {"running", "failed"}
                      /\ r.tasks[t].status = "pending" /\ r.status = "running"

StepsInv == pc = "intent" => Leads(disk, mem)

(***************************************************************************)
(* Third layer: the log and quarantine files that attempts leave beside    *)
(* state.json.  Only the task a run stands at has files that state.json    *)
(* does not account for: the log pair prepared for its next attempt, or    *)
(* outputs moved by a recovery that is not recorded yet.                   *)
(***************************************************************************)
LogsFit(s, pairs, families) ==
    \A t \in Tasks, n \in AttemptNumbers :
        LET count == Len(s.tasks[t].attempts)
        IN  /\ n <= count => pairs[t][n] = "both"
            /\ n > count => families[t][n] = "unborn"
            /\ n > count /\ pairs[t][n] # "none" => At(s, t) /\ s.tasks[t].status = "pending" /\ n = count + 1

\* The n-th attempt of task t has its quarantine recorded.
QuarantineKnown(s, t, n) == n <= Len(s.tasks[t].attempts) /\ s.tasks[t].attempts[n].quarantined # Nil

QuarantineFits(s, moves) ==
    \A t \in Tasks, n \in AttemptNumbers : \A p \in OutputSet(t) :
        LET referenced == QuarantineKnown(s, t, n) /\ p \in DOMAIN s.tasks[t].attempts[n].quarantined
        IN  /\ referenced => moves[p][n] = s.tasks[t].attempts[n].quarantined[p]
            /\ ~referenced /\ moves[p][n] # Absent =>
                  /\ At(s, t) /\ s.tasks[t].status \in {"running", "failed"}
                  /\ n = Len(s.tasks[t].attempts) /\ ~QuarantineKnown(s, t, n)

\* The runner is in an attempt, or about to be.
Attempting == pc \in Managing \cup {"observe"} \/ (pc \in Committing /\ next = "launch")

ArtifactInv ==
    /\ disk = Nil => /\ \A t \in Tasks, n \in AttemptNumbers : logs[t][n] = "none" /\ family[t][n] = "unborn"
                     /\ \A p \in Paths, n \in AttemptNumbers : quarantine[p][n] = Absent
    /\ disk # Nil => LogsFit(disk, logs, family) /\ QuarantineFits(disk, quarantine)
    /\ pc = "intent" => LogsFit(mem, logs, family) /\ QuarantineFits(mem, quarantine)
    /\ pc = "quarantine" =>
          \A p \in OutputSet(cur) :
             LET n == AttemptNumber(mem, cur)
             IN  /\ p \in DOMAIN moved => moved[p] = quarantine[p][n]
                 /\ quarantine[p][n] # Absent => p \in DOMAIN moved \cup Elems(todo)
    /\ Attempting => \A p \in OutputSet(cur) : quarantine[p][AttemptNumber(mem, cur)] = Absent

(***************************************************************************)
(* Fourth layer: the workspace, and what the attempt records say of it, as *)
(* long as nobody edits it.                                                *)
(***************************************************************************)

\* Every file the failed attempt of task t left is in the workspace or in quarantine.
FailedTree(s, t, tree, moves) ==
    LET n == Len(s.tasks[t].attempts)
    IN  /\ \A p \in OutputSet(t) : tree[p] = Absent \/ moves[p][n] = Absent
        /\ \A p \in Paths :
              Latest(s, t).after[p] = IF p \in OutputSet(t) /\ tree[p] = Absent THEN moves[p][n] ELSE tree[p]

FailedTrees(s, tree, moves) == \A t \in Tasks : s.tasks[t].status = "failed" => FailedTree(s, t, tree, moves)

TreeInv ==
    edits = 0 =>
        /\ pc \in {"stderr", "launch"} \/ (pc \in Committing /\ next = "launch") => BoundObservation(mem, ws, {})
        /\ disk # Nil => FailedTrees(disk, ws, quarantine)
        /\ pc = "intent" => FailedTrees(mem, ws, quarantine)
        /\ pc = "quarantine" =>
              /\ BoundObservation(mem, ws, OutputSet(cur))
              /\ \A p \in OutputSet(cur) : ws[p] = Absent \/ (p \in Elems(todo) /\ p \notin DOMAIN moved)
        /\ pc \in {"hash", "publish"} \/ bundle # Nil => BoundObservation(disk, ws, {})

\* A file an attempt has written.
Produced == Tasks \X AttemptNumbers \X Revisions

\* What a task under way finds at its outputs, or at a path it should not write, is from its latest attempt.
Own(s, tree) ==
    \A t \in Tasks : s.tasks[t].status \in {"running", "failed"} =>
        \A p \in OutputSet(t) \cup Undisciplined :
            tree[p] \in Produced => tree[p][1] = t /\ tree[p][2] = AttemptNumber(s, t)

\* No child writes the outputs of a task that others come after.
Restrained == \A t \in Tasks : t < TaskCount => OutputSet(t) \cap Undisciplined = {}

OwnInv ==
    edits = 0 =>
        /\ disk # Nil => Own(disk, ws)
        /\ pc = "intent" => Own(mem, ws)

\* A task has a child on record whose end is not.
Unfinished(s) == \E t \in Tasks : s.tasks[t].status = "running"

\* Outputs of such a child have been moved already.
Stray(s, moves) ==
    \E t \in Tasks : s.tasks[t].status = "running" /\ \E p \in OutputSet(t) : moves[p][Len(s.tasks[t].attempts)] # Absent

\* Only a crash leaves a task running, and only one more leaves its recovery half done;
\* otherwise the event log is full and the run goes nowhere.
CrashInv ==
    edits = 0 =>
        /\ pc \in {"idle", "reconcile", "admit"} /\ disk # Nil /\ Len(disk.event_log) < MaxEvents =>
              /\ Unfinished(disk) => crashes >= 1
              /\ Stray(disk, quarantine) => crashes >= 2
        /\ pc \in {"loop", "quarantine"} \/ (pc \in Committing /\ next = "loop") => (Unfinished(mem) => crashes >= 1)
        /\ pc = "loop" \/ (pc \in Committing /\ next = "loop") => (Stray(mem, quarantine) => crashes >= 2)
        /\ pc \in Committing /\ next = "idle" => ~Unfinished(mem)
        /\ pc = "intent" => (Stray(disk, quarantine) => crashes >= 1)
        /\ pc = "quarantine" /\ mem.tasks[cur].status = "running" /\ crashes < 2 =>
              \A p \in OutputSet(cur) : ws[p] = Absent \/ quarantine[p][AttemptNumber(mem, cur)] = Absent

HistoryInv ==
    edits = 0 /\ crashes <= 1 =>
        /\ disk # Nil => WorkspaceHistory(disk)
        /\ pc = "intent" => WorkspaceHistory(mem)
        /\ pc \in {"quarantine", "persist", "observe"} => Latest(mem, cur).before = Latest(disk, cur).before
        /\ pc = "quarantine" =>
              \A p \in Paths :
                 Latest(mem, cur).after[p] =
                     IF p \in DOMAIN moved THEN moved[p]
                     ELSE IF p \in Elems(todo) /\ ws[p] = Absent THEN quarantine[p][AttemptNumber(mem, cur)]
                     ELSE ws[p]

=============================================================================
