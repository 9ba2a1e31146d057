----------------------------- MODULE RunProofs ------------------------------
(***************************************************************************)
(* Proofs, for every suite and every bound, of the safety invariants of    *)
(* RunSafety.                                                              *)
(***************************************************************************)
EXTENDS RunInvariants, TLAPS

USE ZenonT(60)

(***************************************************************************)
(* The values the engine builds.                                           *)
(***************************************************************************)

\* _initial_state has the shape of a state.
LEMMA InitialStateType ==
    InitialState \in States /\ Recorded(InitialState) /\ InitialState.pending = Nil /\ InitialState.event_log = << >>
<1>1. InitialState \in States
  BY SMTT(60) DEF InitialState, States, TaskRecords
<1>2. \A t \in Tasks : InitialState.tasks[t].status = "pending" /\ InitialState.tasks[t].attempts = << >>
  BY DEF InitialState
<1>3. Recorded(InitialState)
  BY SMTT(60), <1>2, LimitAssumption DEF Recorded, Completed
<1> QED BY <1>1, <1>3 DEF InitialState

\* No files at all are a partial tree.
LEMMA NoFilesType == << >> \in PartialTrees
<1>1. << >> \in [{} -> Contents] /\ {} \in SUBSET Paths
  BY SMTT(60)
<1> QED BY <1>1 DEF PartialTrees

\* The tree of the sealed outputs is a tree.
LEMMA CleanTreeType ==
    ASSUME NEW s \in States, Recorded(s)
    PROVE  CleanTree(s) \in Trees
<1>1. ASSUME NEW p \in Paths PROVE CleanTree(s)[p] \in Contents \cup {Absent}
  <2>1. CASE \E t \in Tasks : Completed(s, t) /\ p \in OutputSet(t)
    <3>1. PICK t \in Tasks : /\ Completed(s, t) /\ p \in OutputSet(t)
                             /\ CleanTree(s)[p] = s.tasks[t].outputs[p]
      BY <2>1 DEF CleanTree, SealedTree
    <3>2. s.tasks[t].outputs \in [OutputSet(t) -> Contents]
      BY <3>1 DEF Recorded
    <3> QED BY <3>1, <3>2
  <2>2. CASE ~\E t \in Tasks : Completed(s, t) /\ p \in OutputSet(t)
    BY <2>2 DEF CleanTree, SealedTree
  <2> QED BY <2>1, <2>2
<1> QED BY <1>1 DEF CleanTree, SealedTree, Trees

\* A fresh attempt record is an attempt record.
LEMMA NewAttemptType ==
    ASSUME NEW before \in Trees
    PROVE  NewAttempt(before) \in Attempts
BY DEF NewAttempt, Attempts

\* The latest attempt of a task that has one.
LEMMA LatestType ==
    ASSUME NEW s \in States, Recorded(s), NEW t \in Tasks, s.tasks[t].status \in {"running", "failed"}
    PROVE  /\ s.tasks[t].attempts \in Seq(Attempts)
           /\ AttemptNumber(s, t) \in AttemptNumbers
           /\ AttemptNumber(s, t) \in DOMAIN s.tasks[t].attempts
           /\ Latest(s, t) \in Attempts
<1>1. s.tasks[t].attempts \in Seq(Attempts) /\ s.tasks[t].attempts # << >>
  BY DEF States, TaskRecords, Recorded
<1>2. Len(s.tasks[t].attempts) \in Nat /\ Len(s.tasks[t].attempts) # 0
  BY SMTT(60), <1>1
<1>3. Len(s.tasks[t].attempts) <= MaxAttemptsPerTask
  BY DEF Recorded
<1> QED BY SMTT(60), <1>1, <1>2, <1>3, LimitAssumption DEF AttemptNumber, AttemptNumbers, Latest

\* r is a well-formed state with the commit fields of s.
Built(r, s) == r \in States /\ Recorded(r) /\ r.event_log = s.event_log /\ r.pending = s.pending

\* Replacing one task record, and the run's status, builds a state.
LEMMA TaskUpdateType ==
    ASSUME NEW s \in States, Recorded(s), NEW t \in Tasks, NEW task \in TaskRecords,
           Len(task.attempts) <= MaxAttemptsPerTask,
           task.status \in {"running", "failed"} => task.attempts # << >>,
           task.status = "completed" => task.outputs \in [OutputSet(t) -> Contents],
           NEW r \in States, r.event_log = s.event_log, r.pending = s.pending,
           r.tasks = [s.tasks EXCEPT ![t] = task]
    PROVE  Built(r, s)
<1>1. s.tasks \in [Tasks -> TaskRecords]
  BY DEF States
<1>2. ASSUME NEW u \in Tasks
      PROVE  /\ Len(r.tasks[u].attempts) <= MaxAttemptsPerTask
             /\ r.tasks[u].status \in {"running", "failed"} => r.tasks[u].attempts # << >>
             /\ Completed(r, u) => r.tasks[u].outputs \in [OutputSet(u) -> Contents]
  <2>1. CASE u = t BY <1>1, <2>1 DEF Completed
  <2>2. CASE u # t
    <3>1. r.tasks[u] = s.tasks[u] BY <1>1, <2>2
    <3> QED BY <3>1 DEF Recorded, Completed
  <2> QED BY <2>1, <2>2
<1> QED BY <1>2 DEF Built, Recorded

\* SetLatest changes one attempt record and nothing else.
LEMMA SetLatestType ==
    ASSUME NEW s \in States, Recorded(s), NEW t \in Tasks, s.tasks[t].status \in {"running", "failed"},
           NEW a \in Attempts
    PROVE  /\ Built(SetLatest(s, t, a), s)
           /\ SetLatest(s, t, a).status = s.status /\ SetLatest(s, t, a).error = s.error
           /\ \A u \in Tasks : /\ SetLatest(s, t, a).tasks[u].status = s.tasks[u].status
                               /\ Len(SetLatest(s, t, a).tasks[u].attempts) = Len(s.tasks[u].attempts)
<1> DEFINE r == SetLatest(s, t, a)
           new == [s.tasks[t].attempts EXCEPT ![AttemptNumber(s, t)] = a]
           task == [s.tasks[t] EXCEPT !.attempts = new]
<1>1. new \in Seq(Attempts) /\ Len(new) = Len(s.tasks[t].attempts) /\ new # << >>
  BY SMTT(60), LatestType DEF AttemptNumber
<1>. HIDE DEF new
<1>2. task \in TaskRecords /\ task.status = s.tasks[t].status /\ task.outputs = s.tasks[t].outputs
      /\ task.attempts = new
  BY <1>1 DEF States, TaskRecords
<1>3. r = [s EXCEPT !.tasks = [s.tasks EXCEPT ![t] = task]]
  BY DEF SetLatest, new
<1>. HIDE DEF task, r
<1>4. r \in States /\ r.event_log = s.event_log /\ r.pending = s.pending
      /\ r.tasks = [s.tasks EXCEPT ![t] = task] /\ s.tasks \in [Tasks -> TaskRecords]
      /\ r.status = s.status /\ r.error = s.error
  BY <1>2, <1>3 DEF States
<1>5. \A u \in Tasks : /\ r.tasks[u].status = s.tasks[u].status
                       /\ Len(r.tasks[u].attempts) = Len(s.tasks[u].attempts)
  BY <1>1, <1>2, <1>4
<1>6. Built(r, s)
  <2>1. Len(task.attempts) <= MaxAttemptsPerTask
    BY <1>1, <1>2 DEF Recorded
  <2>2. task.status # "completed" /\ task.attempts # << >>
    BY <1>1, <1>2
  <2> QED BY <1>2, <1>4, <2>1, <2>2, TaskUpdateType
<1> QED BY <1>4, <1>5, <1>6 DEF r

\* The same tasks with another status, error, log identity or intent.
LEMMA HeaderType ==
    ASSUME NEW s \in States, Recorded(s), NEW e \in Events, log \in Seq(Events)
    PROVE  /\ [s EXCEPT !.pending = e] \in States /\ Recorded([s EXCEPT !.pending = e])
           /\ [s EXCEPT !.pending = e].pending = e
           /\ [s EXCEPT !.pending = e].event_log = s.event_log /\ [s EXCEPT !.pending = e].tasks = s.tasks
           /\ Acknowledged(s) \in States /\ Recorded(Acknowledged(s))
           /\ Acknowledged(s).pending = Nil /\ Acknowledged(s).event_log = log /\ Acknowledged(s).tasks = s.tasks
           /\ \A status \in {"running", "completed"} :
                 Built([s EXCEPT !.status = status, !.error = FALSE], s)
<1>1. /\ [s EXCEPT !.pending = e] \in States /\ [s EXCEPT !.pending = e].pending = e
      /\ [s EXCEPT !.pending = e].event_log = s.event_log /\ [s EXCEPT !.pending = e].tasks = s.tasks
  BY DEF States
<1>2. /\ Acknowledged(s) \in States
      /\ Acknowledged(s).pending = Nil /\ Acknowledged(s).event_log = log /\ Acknowledged(s).tasks = s.tasks
  BY DEF States, Acknowledged
<1>3. \A r : r.tasks = s.tasks => Recorded(r)
  BY DEF Recorded, Completed
<1>4. ASSUME NEW status \in {"running", "completed"}
      PROVE  Built([s EXCEPT !.status = status, !.error = FALSE], s)
  <2>1. /\ [s EXCEPT !.status = status, !.error = FALSE] \in States
        /\ [s EXCEPT !.status = status, !.error = FALSE].tasks = s.tasks
        /\ [s EXCEPT !.status = status, !.error = FALSE].event_log = s.event_log
        /\ [s EXCEPT !.status = status, !.error = FALSE].pending = s.pending
    BY DEF States
  <2> QED BY <1>3, <2>1 DEF Built
<1> QED BY <1>1, <1>2, <1>3, <1>4

(***************************************************************************)
(* The records the runner builds in each phase of a task.                  *)
(***************************************************************************)

\* Interrupted makes an attempt record of an attempt record.
LEMMA InterruptedType ==
    ASSUME NEW a \in Attempts, ws \in Trees
    PROVE  Interrupted(a) \in Attempts
<1> DEFINE st == IF a.status = "running" THEN "interrupted" ELSE a.status
           cl == IF a.status = "running" THEN "empty" ELSE a.closure
           rc == IF a.status = "running" /\ a.child THEN "unavailable" ELSE a.rc
           af == IF a.after = Nil THEN ws ELSE a.after
<1>1. /\ st \in {"running", "failed", "interrupted", "completed"} /\ af \in Trees \cup {Nil}
      /\ cl \in {"pending-launch", "active", "empty"} /\ rc \in {"null", "known", "unavailable"}
  BY DEF Attempts
<1>2. Interrupted(a) = [a EXCEPT !.status = st, !.closure = cl, !.rc = rc, !.after = af]
  BY DEF Interrupted, Attempts
<1>. HIDE DEF st, cl, rc, af
<1>3. [a EXCEPT !.status = st, !.closure = cl, !.rc = rc, !.after = af] \in Attempts
  BY <1>1 DEF Attempts
<1> QED BY <1>2, <1>3

\* _recover_incomplete_task builds a state whose task waits for its next attempt.
LEMMA RecoveredType ==
    ASSUME NEW s \in States, Recorded(s), NEW t \in Tasks, s.tasks[t].status \in {"running", "failed"},
           ws \in Trees, moved \in PartialTrees
    PROVE  Built([SetLatest(s, t, [Latest(s, t) EXCEPT !.quarantined = moved, !.recovered = ws])
                     EXCEPT !.tasks[t].status = "pending"], s)
<1> DEFINE a == [Latest(s, t) EXCEPT !.quarantined = moved, !.recovered = ws]
           b == SetLatest(s, t, a)
           task == [b.tasks[t] EXCEPT !.status = "pending"]
           r == [b EXCEPT !.tasks[t].status = "pending"]
<1>1. a \in Attempts
  <2>1. Latest(s, t) \in Attempts BY LatestType
  <2> HIDE DEF Latest
  <2> QED BY <2>1 DEF Attempts
<1>. HIDE DEF a
<1>2. Built(b, s)
  BY <1>1, SetLatestType
<1>. HIDE DEF b
<1>3. task \in TaskRecords /\ task.status = "pending" /\ Len(task.attempts) <= MaxAttemptsPerTask
  <2>1. b.tasks[t] \in TaskRecords /\ Len(b.tasks[t].attempts) <= MaxAttemptsPerTask
    BY <1>2 DEF Built, States, Recorded
  <2> QED BY <2>1 DEF TaskRecords
<1>4. r = [b EXCEPT !.tasks = [b.tasks EXCEPT ![t] = task]]
  OBVIOUS
<1>. HIDE DEF task, r
<1>5. r \in States /\ r.tasks = [b.tasks EXCEPT ![t] = task] /\ r.event_log = b.event_log /\ r.pending = b.pending
  BY <1>2, <1>3, <1>4 DEF Built, States
<1>6. Built(r, b)
  BY SMTT(60), <1>2, <1>3, <1>5, TaskUpdateType DEF Built
<1> QED BY <1>2, <1>6 DEF Built, r, b, a

\* The record committed with task_started.
LEMMA NewAttemptBuilt ==
    ASSUME NEW s \in States, Recorded(s), NEW t \in Tasks, Len(s.tasks[t].attempts) < MaxAttemptsPerTask
    PROVE  Built(WithNewAttempt(s, t), s) /\ WithNewAttempt(s, t).tasks[t].status = "running"
<1> DEFINE new == Append(s.tasks[t].attempts, NewAttempt(CleanTree(s)))
           task == [s.tasks[t] EXCEPT !.status = "running", !.attempts = new]
           r == WithNewAttempt(s, t)
<1>1. NewAttempt(CleanTree(s)) \in Attempts
  BY CleanTreeType, NewAttemptType
<1>2. s.tasks[t].attempts \in Seq(Attempts)
  BY DEF States, TaskRecords
<1>3. new \in Seq(Attempts) /\ Len(new) <= MaxAttemptsPerTask /\ new # << >>
  BY SMTT(60), <1>1, <1>2, LimitAssumption
<1>. HIDE DEF new
<1>4. task \in TaskRecords /\ task.status = "running" /\ task.attempts = new
  BY <1>3 DEF States, TaskRecords
<1>. HIDE DEF task
<1>5. r = [s EXCEPT !.status = "running", !.error = FALSE, !.tasks = [s.tasks EXCEPT ![t] = task]]
  BY DEF WithNewAttempt, task, new, States
<1>. HIDE DEF r
<1>6. r \in States /\ r.tasks = [s.tasks EXCEPT ![t] = task] /\ r.event_log = s.event_log /\ r.pending = s.pending
  BY <1>4, <1>5 DEF States
<1>7. Built(r, s)
  BY <1>3, <1>4, <1>6, TaskUpdateType
<1>8. r.tasks[t].status = "running"
  BY <1>4, <1>6 DEF States
<1> QED BY <1>7, <1>8 DEF r

\* Recording what became of the child leaves the task running.
LEMMA ScopedType ==
    ASSUME NEW s \in States, Recorded(s), cur \in Tasks, s.tasks[cur].status = "running",
           NEW child \in BOOLEAN, NEW closure \in {"active", "empty"}
    PROVE  /\ Built(Scoped(s, child, closure), s)
           /\ Scoped(s, child, closure).tasks[cur].status = "running"
           /\ Len(Scoped(s, child, closure).tasks[cur].attempts) = Len(s.tasks[cur].attempts)
<1> DEFINE a == [Latest(s, cur) EXCEPT !.guard = FALSE, !.child = child, !.closure = closure]
<1>1. a \in Attempts
  <2>1. Latest(s, cur) \in Attempts BY LatestType
  <2> HIDE DEF Latest
  <2> QED BY <2>1 DEF Attempts
<1>. HIDE DEF a
<1> QED BY <1>1, SetLatestType DEF Scoped, a

\* The record committed with task_completed.
LEMMA CompletionBuilt ==
    ASSUME NEW s \in States, Recorded(s), NEW t \in Tasks, s.tasks[t].status = "running",
           ws \in Trees, \A p \in OutputSet(t) : ws[p] # Absent
    PROVE  Built(WithCompletion(s, t), s)
<1> DEFINE outputs == Files(ws, OutputSet(t))
           a == [Latest(s, t) EXCEPT !.status = "completed", !.rc = "known", !.after = ws, !.outputs = outputs]
           b == SetLatest(s, t, a)
           task == [b.tasks[t] EXCEPT !.status = "completed", !.outputs = outputs]
           r == WithCompletion(s, t)
<1>1. OutputSet(t) \in SUBSET Paths
  BY SMTT(60), SuiteAssumption DEF OutputSet, Elems
<1>2. outputs \in [OutputSet(t) -> Contents]
  BY <1>1 DEF Files, Trees
<1>3. outputs \in PartialTrees
  BY <1>1, <1>2 DEF PartialTrees
<1>. HIDE DEF outputs
<1>4. a \in Attempts
  <2>1. Latest(s, t) \in Attempts BY LatestType
  <2> HIDE DEF Latest
  <2> QED BY <1>3, <2>1 DEF Attempts
<1>. HIDE DEF a
<1>5. Built(b, s)
  BY <1>4, SetLatestType
<1>. HIDE DEF b
<1>6. /\ task \in TaskRecords /\ task.status = "completed" /\ Len(task.attempts) <= MaxAttemptsPerTask
      /\ task.outputs = outputs
  <2>1. b.tasks[t] \in TaskRecords /\ Len(b.tasks[t].attempts) <= MaxAttemptsPerTask
    BY <1>5 DEF Built, States, Recorded
  <2> QED BY <1>3, <2>1 DEF TaskRecords
<1>. HIDE DEF task
<1>7. r = [b EXCEPT !.tasks = [b.tasks EXCEPT ![t] = task]]
  <2>1. b.tasks \in [Tasks -> TaskRecords] /\ b \in States
    BY <1>5 DEF Built, States
  <2>2. r = [b EXCEPT !.tasks[t].status = "completed", !.tasks[t].outputs = outputs]
    BY DEF WithCompletion, b, a, outputs
  <2>. HIDE DEF r
  <2> QED BY <2>1, <2>2 DEF task, States
<1>. HIDE DEF r
<1>8. r \in States /\ r.tasks = [b.tasks EXCEPT ![t] = task] /\ r.event_log = b.event_log /\ r.pending = b.pending
  BY <1>5, <1>6, <1>7 DEF Built, States
<1>9. Built(r, b)
  BY SMTT(60), <1>2, <1>5, <1>6, <1>8, TaskUpdateType DEF Built
<1> QED BY <1>5, <1>9 DEF Built, r

\* The record committed with task_failed.
LEMMA FailureBuilt ==
    ASSUME NEW s \in States, Recorded(s), NEW t \in Tasks, s.tasks[t].status = "running", ws \in Trees, NEW how
    PROVE  Built(WithFailure(s, t, how), s)
<1> DEFINE st == IF how = "interrupted" THEN "interrupted" ELSE "failed"
           rc == IF Latest(s, t).child THEN "known" ELSE "null"
           a == [Latest(s, t) EXCEPT !.guard = FALSE, !.after = ws, !.status = st, !.rc = rc]
           b == SetLatest(s, t, a)
           task == [b.tasks[t] EXCEPT !.status = "failed"]
           r == WithFailure(s, t, how)
<1>1. st \in {"interrupted", "failed"} /\ rc \in {"known", "null"}
  OBVIOUS
<1>2. r = [b EXCEPT !.status = "failed", !.error = TRUE, !.tasks[t].status = "failed"]
  BY DEF WithFailure
<1>. HIDE DEF st, rc
<1>3. a \in Attempts
  <2>1. Latest(s, t) \in Attempts BY LatestType
  <2> HIDE DEF Latest
  <2> QED BY <1>1, <2>1 DEF Attempts
<1>. HIDE DEF a
<1>4. Built(b, s) /\ Len(b.tasks[t].attempts) = Len(s.tasks[t].attempts)
  BY <1>3, SetLatestType
<1>. HIDE DEF b
<1>5. /\ task \in TaskRecords /\ task.status = "failed" /\ Len(task.attempts) <= MaxAttemptsPerTask
      /\ task.attempts # << >>
  <2>1. /\ b.tasks[t] \in TaskRecords /\ Len(b.tasks[t].attempts) <= MaxAttemptsPerTask
        /\ s.tasks[t].attempts # << >> /\ s.tasks[t].attempts \in Seq(Attempts)
    BY <1>4 DEF Built, States, Recorded, TaskRecords
  <2>2. b.tasks[t].attempts # << >>
    BY SMTT(60), <1>4, <2>1
  <2> QED BY <2>1, <2>2 DEF TaskRecords
<1>. HIDE DEF task
<1>6. r = [b EXCEPT !.status = "failed", !.error = TRUE, !.tasks = [b.tasks EXCEPT ![t] = task]]
  <2>1. b \in States BY <1>4 DEF Built
  <2> HIDE DEF r
  <2> QED BY <1>2, <2>1 DEF task, States
<1>. HIDE DEF r
<1>7. r \in States /\ r.tasks = [b.tasks EXCEPT ![t] = task] /\ r.event_log = b.event_log /\ r.pending = b.pending
  BY <1>4, <1>5, <1>6 DEF Built, States
<1>8. Built(r, b)
  BY <1>4, <1>5, <1>7, TaskUpdateType DEF Built
<1> QED BY <1>4, <1>8 DEF Built, r

(***************************************************************************)
(* Facts about steps that several actions share.                           *)
(***************************************************************************)
NoFamily == \A t \in Tasks, n \in AttemptNumbers : family[t][n] \notin Alive

\* Beginning a commit from a state with no live child keeps the invariant.
LEMMA BeginCommitStep ==
    ASSUME EngineInv, NEW r, Built(r, mem), NEW e \in Events, NEW c \in {"idle", "loop", "launch", "seal"},
           pc \in {"admit", "loop", "quarantine", "stderr", "observe"}, NoFamily,
           BeginCommit(r, e, c),
           c = "launch" => cur' \in Tasks /\ r.tasks[cur'].status = "running",
           logs' \in [Tasks -> [AttemptNumbers -> LogPairs]], cur' \in 1..(TaskCount + 1),
           todo' \in Seq(Paths), moved' \in PartialTrees,
           UNCHANGED <<root, disk, log, quarantine, world, outcome, bound, counters>>
    PROVE  EngineInv'
<1>1. mem \in States /\ disk \in States /\ disk # Nil
  BY NilAssumption DEF EngineInv, TypeOK, LedgerInv
<1>2. mem.pending = Nil /\ disk.pending = Nil /\ mem.event_log = log /\ disk.event_log = log
  BY DEF EngineInv, LedgerInv, Committing
<1>3. /\ mem' \in States /\ Recorded(mem') /\ mem'.pending = e /\ mem'.event_log = log
      /\ mem'.tasks = r.tasks
  <2>1. log \in Seq(Events) BY DEF EngineInv, TypeOK
  <2> QED BY <1>2, <2>1, HeaderType DEF BeginCommit, Built
<1>4. mem' # Nil /\ e # Nil /\ pc' = "intent" /\ next' = c
  BY <1>3, NilAssumption DEF BeginCommit
<1>5. TypeOK'
  BY <1>1, <1>3, <1>4 DEF EngineInv, TypeOK, world, counters, PCs
<1>6. RecordInv'
  <2>1. Recorded(mem)' BY <1>3 DEF Recorded, Completed
  <2>2. Recorded(disk)' BY <1>1 DEF EngineInv, RecordInv, Recorded, Completed
  <2> QED BY <2>1, <2>2 DEF RecordInv
<1>7. LedgerInv'
  BY <1>1, <1>2, <1>3, <1>4 DEF EngineInv, LedgerInv, LogNeverDiverges, EventTransitionStatus, Committing
<1>8. LiveFamilyBlocksResume'
  BY DEF LiveFamilyBlocksResume, NoFamily, world, Alive
<1>9. LaunchInv'
  BY <1>3, <1>4 DEF LaunchInv, Managing, Committing
<1> QED BY <1>5, <1>6, <1>7, <1>8, <1>9 DEF EngineInv

\* A runner may stop anywhere: what it leaves on disk keeps the invariant.
LEMMA HaltStep ==
    ASSUME EngineInv, Halt, pc # "idle",
           root' = root \/ (root' = "littered" /\ pc # "create"),
           crashes' \in 0..MaxCrashes,
           logs' \in [Tasks -> [AttemptNumbers -> LogPairs]],
           UNCHANGED <<disk, log, quarantine, world, edits>>
    PROVE  EngineInv'
<1>1. root' \in {"absent", "partial", "ready", "littered"} /\ (disk = Nil <=> root' \in {"absent", "partial"})
  BY DEF EngineInv, TypeOK, LedgerInv
<1>2. TypeOK'
  <2>2. cur' \in 1..(TaskCount + 1) /\ todo' \in Seq(Paths) /\ moved' \in PartialTrees
    BY SMTT(60), NoFilesType, SuiteAssumption DEF Halt
  <2>3. pc' = "idle" /\ mem' = Nil /\ next' = "idle" /\ outcome' = "ok"
    BY DEF Halt
  <2>4. UNCHANGED <<disk, log, quarantine, ws, family, edits>>
    BY DEF world
  <2> QED BY <1>1, <2>2, <2>3, <2>4 DEF EngineInv, TypeOK, PCs
<1>3. RecordInv'
  BY DEF EngineInv, RecordInv, Recorded, Completed, Halt
<1>4. LedgerInv' /\ LaunchInv'
  BY DEF EngineInv, LedgerInv, LaunchInv, LogNeverDiverges, EventTransitionStatus, Halt, Committing, Managing
<1>5. LiveFamilyBlocksResume'
  BY DEF EngineInv, LiveFamilyBlocksResume, Halt, world, Alive, AttemptNumber
<1> QED BY <1>2, <1>3, <1>4, <1>5 DEF EngineInv

(***************************************************************************)
(* Every action keeps EngineInv.                                           *)
(***************************************************************************)

\* The initial state: no run directory, no runner, the reviewed baseline.
LEMMA InitInv == Init => EngineInv
<1> SUFFICES ASSUME Init PROVE EngineInv
  OBVIOUS
<1>1. TypeOK
  <2>2. ws \in Trees
    BY DEF Init, BaselineTree, Trees
  <2>3. logs \in [Tasks -> [AttemptNumbers -> LogPairs]] /\ family \in [Tasks -> [AttemptNumbers -> Families]]
    BY DEF Init, LogPairs, Families
  <2>4. quarantine \in [Paths -> [AttemptNumbers -> Contents \cup {Absent}]]
    BY DEF Init
  <2>5. cur \in 1..(TaskCount + 1) /\ crashes \in 0..MaxCrashes /\ edits \in 0..MaxEdits
    BY SMTT(60), SuiteAssumption, EngineAssumption DEF Init
  <2>6. log \in Seq(Events) /\ todo \in Seq(Paths) /\ moved \in PartialTrees
    BY SMTT(60), NoFilesType DEF Init
  <2> QED BY <2>2, <2>3, <2>4, <2>5, <2>6 DEF Init, TypeOK, PCs
<1>2. RecordInv /\ LedgerInv /\ LaunchInv
  BY DEF Init, RecordInv, LedgerInv, LaunchInv, LogNeverDiverges, Committing, Managing
<1>3. LiveFamilyBlocksResume
  BY DEF Init, LiveFamilyBlocksResume, Alive
<1> QED BY <1>1, <1>2, <1>3 DEF EngineInv

\* start_run, inspect_resume and the load of resume_run.
LEMMA OperatorSteps == EngineInv /\ (StartRun \/ CreateRun \/ Inspect \/ ResumeRun \/ ResumeBound) => EngineInv'
<1> SUFFICES ASSUME EngineInv PROVE StartRun \/ CreateRun \/ Inspect \/ ResumeRun \/ ResumeBound => EngineInv'
  OBVIOUS
<1>1. CASE StartRun
  <2>1. TypeOK'
    BY <1>1 DEF EngineInv, TypeOK, StartRun, world, locals, counters, PCs
  <2>2. RecordInv' /\ LedgerInv' /\ LaunchInv'
    BY <1>1 DEF EngineInv, TypeOK, RecordInv, Recorded, Completed, LedgerInv, LaunchInv, LogNeverDiverges, StartRun,
                Committing, Managing
  <2>3. LiveFamilyBlocksResume'
    BY <1>1 DEF EngineInv, TypeOK, LiveFamilyBlocksResume, StartRun, world, Alive, AttemptNumber
  <2> QED BY <2>1, <2>2, <2>3 DEF EngineInv
<1>2. CASE CreateRun
  <2> DEFINE e == RunEvent("run_started")
  <2>1. e \in Events
    BY SMTT(60), SuiteAssumption, LimitAssumption DEF RunEvent, Event, Events, EventTypes
  <2>2. log = << >> /\ log \in Seq(Events)
    BY <1>2 DEF EngineInv, TypeOK, LedgerInv, CreateRun
  <2>3. /\ mem' \in States /\ Recorded(mem') /\ mem'.pending = e /\ mem'.event_log = << >>
        /\ pc' = "intent" /\ next' = "loop"
    BY <1>2, <2>1, <2>2, InitialStateType, HeaderType DEF CreateRun, BeginCommit
  <2>4. disk' = InitialState /\ root' = "ready" /\ disk' # Nil /\ mem' # Nil /\ e # Nil
    BY <1>2, <2>1, <2>3, InitialStateType, NilAssumption DEF CreateRun
  <2>. HIDE DEF e
  <2>5. TypeOK'
    BY <1>2, <2>3, <2>4, InitialStateType DEF EngineInv, TypeOK, CreateRun, world, counters, PCs
  <2>6. RecordInv'
    <3>1. Recorded(mem)' BY <2>3 DEF Recorded, Completed
    <3>2. Recorded(disk)' BY <2>4, InitialStateType DEF Recorded, Completed
    <3> QED BY <3>1, <3>2 DEF RecordInv
  <2>7. LedgerInv'
    BY <1>2, <2>1, <2>2, <2>3, <2>4, InitialStateType DEF LedgerInv, LogNeverDiverges, EventTransitionStatus, CreateRun,
                Committing
  <2>8. LiveFamilyBlocksResume'
    BY <1>2 DEF EngineInv, LiveFamilyBlocksResume, CreateRun, world, Alive
  <2>9. LaunchInv'
    BY <2>3 DEF LaunchInv, Managing, Committing
  <2> QED BY <2>5, <2>6, <2>7, <2>8, <2>9 DEF EngineInv
<1>3. CASE Inspect
  BY <1>3 DEF Inspect, files, world, locals, counters, EngineInv, TypeOK, RecordInv, Recorded, Completed, LedgerInv,
              LaunchInv, LogNeverDiverges, EventTransitionStatus, LiveFamilyBlocksResume, AttemptNumber
<1>4. ASSUME NEW w, Resume(w) PROVE EngineInv'
  <2>1. disk # Nil /\ disk \in States
    BY <1>4 DEF EngineInv, TypeOK, Resume, Loadable
  <2>2. mem' = disk /\ pc' = (IF disk.pending = Nil THEN "admit" ELSE "reconcile")
        /\ UNCHANGED <<root, disk, log, logs, quarantine, ws, family, next, cur, todo, moved, outcome, crashes, edits>>
    BY <1>4 DEF Resume, files, world, counters
  <2>3. disk.pending = Nil => log = disk.event_log
    BY <2>1 DEF EngineInv, LedgerInv, LogNeverDiverges, EventTransitionStatus
  <2>4. TypeOK'
    BY <1>4, <2>1, <2>2 DEF EngineInv, TypeOK, PCs
  <2>5. RecordInv'
    BY <2>1, <2>2 DEF EngineInv, RecordInv, Recorded, Completed
  <2>6. LedgerInv'
    BY <2>1, <2>2, <2>3 DEF EngineInv, LedgerInv, LogNeverDiverges, EventTransitionStatus, Committing
  <2>7. LiveFamilyBlocksResume'
    BY <2>1, <2>2 DEF EngineInv, LiveFamilyBlocksResume, AttemptNumber
  <2>8. LaunchInv'
    BY <2>2 DEF LaunchInv, Managing, Committing
  <2> QED BY <2>4, <2>5, <2>6, <2>7, <2>8 DEF EngineInv
<1> QED BY <1>1, <1>2, <1>3, <1>4 DEF ResumeRun, ResumeBound

\* _commit_transition and _reconcile_pending_event.
LEMMA CommitSteps == EngineInv /\ (Commit \/ ReconcileAppend \/ ReconcileAcknowledge) => EngineInv'
<1> SUFFICES ASSUME EngineInv PROVE Commit \/ ReconcileAppend \/ ReconcileAcknowledge => EngineInv'
  OBVIOUS
<1> USE NilAssumption
<1>1. CASE PersistIntent
  <2>1. /\ pc = "intent" /\ pc' = "append" /\ disk' = mem /\ mem' = mem
        /\ UNCHANGED <<root, log, logs, quarantine, ws, family, next, cur, todo, moved, outcome, bound, crashes, edits>>
    BY <1>1 DEF PersistIntent, world, locals, counters
  <2>2. mem \in States /\ disk # Nil /\ mem # Nil
    BY <2>1 DEF EngineInv, TypeOK, LedgerInv
  <2>3. TypeOK'
    BY <2>1, <2>2 DEF EngineInv, TypeOK, PCs
  <2>4. RecordInv'
    BY <2>1, <2>2 DEF EngineInv, RecordInv, Recorded, Completed
  <2>5. LedgerInv'
    BY <2>1, <2>2 DEF EngineInv, LedgerInv, LogNeverDiverges, EventTransitionStatus, Committing
  <2>6. LiveFamilyBlocksResume'
    BY <2>1 DEF EngineInv, LiveFamilyBlocksResume, Alive
  <2>7. LaunchInv'
    BY <2>1 DEF EngineInv, LaunchInv, Managing, Committing
  <2> QED BY <2>3, <2>4, <2>5, <2>6, <2>7 DEF EngineInv
<1>2. CASE AppendEvent
  <2>1. /\ pc = "append" /\ pc' = "ack" /\ log' = Append(mem.event_log, mem.pending)
        /\ UNCHANGED <<root, disk, mem, logs, quarantine, ws, family, next, cur, todo, moved, outcome, bound, crashes, edits>>
    BY <1>2 DEF AppendEvent, world, locals, counters
  <2>2. mem = disk /\ mem \in States /\ mem # Nil /\ mem.pending # Nil /\ log = mem.event_log
    BY <2>1 DEF EngineInv, TypeOK, LedgerInv
  <2>3. mem.pending \in Events /\ mem.event_log \in Seq(Events)
    BY <2>2 DEF States
  <2>4. log' \in Seq(Events)
    BY SMTT(60), <2>1, <2>3
  <2>5. TypeOK'
    BY <2>1, <2>4 DEF EngineInv, TypeOK, PCs
  <2>6. RecordInv'
    BY <2>1 DEF EngineInv, RecordInv, Recorded, Completed
  <2>7. LedgerInv'
    BY <2>1, <2>2 DEF LedgerInv, LogNeverDiverges, EventTransitionStatus, Committing
  <2>8. LiveFamilyBlocksResume'
    BY <2>1 DEF EngineInv, LiveFamilyBlocksResume, Alive
  <2>9. LaunchInv'
    BY <2>1 DEF EngineInv, LaunchInv, Managing, Committing
  <2> QED BY <2>5, <2>6, <2>7, <2>8, <2>9 DEF EngineInv
<1>3. CASE Acknowledge
  <2> DEFINE s == Acknowledged(mem)
  <2>1. pc = "ack" /\ disk' = s /\ UNCHANGED <<root, log, logs, quarantine, ws, family, crashes, edits>>
    BY <1>3 DEF Acknowledge, world, counters
  <2>2. mem = disk /\ mem \in States /\ mem # Nil /\ Recorded(mem) /\ log \in Seq(Events) /\ mem.pending \in Events
    BY <2>1 DEF EngineInv, TypeOK, LedgerInv, RecordInv, States
  <2>3. s \in States /\ Recorded(s) /\ s.pending = Nil /\ s.event_log = log /\ s.tasks = mem.tasks /\ s # Nil
    BY <2>2, HeaderType
  <2>. HIDE DEF s
  <2>4. NoFamily
    BY <2>1 DEF EngineInv, LiveFamilyBlocksResume, NoFamily
  <2>5. LiveFamilyBlocksResume'
    BY <2>1, <2>4 DEF LiveFamilyBlocksResume, NoFamily, Alive
  <2>6. (disk # Nil => Recorded(disk))'
    BY <2>1, <2>3 DEF Recorded, Completed
  <2>7. CASE next = "idle"
    <3>1. pc' = "idle" /\ mem' = Nil /\ Halt
      BY <1>3, <2>7 DEF Acknowledge, Halt
    <3>2. TypeOK'
      <4>2. cur' \in 1..(TaskCount + 1) /\ todo' \in Seq(Paths) /\ moved' \in PartialTrees
        BY SMTT(60), <3>1, NoFilesType, SuiteAssumption DEF Halt
      <4>3. next' = "idle" /\ outcome' = "ok"
        BY <3>1 DEF Halt
      <4> QED BY <2>1, <2>2, <2>3, <3>1, <4>2, <4>3 DEF EngineInv, TypeOK, PCs
    <3>3. RecordInv' /\ LedgerInv' /\ LaunchInv'
      BY <2>1, <2>3, <2>6, <3>1 DEF RecordInv, LedgerInv, LaunchInv, LogNeverDiverges, EventTransitionStatus,
                                  Committing, Managing
    <3> QED BY <2>5, <3>2, <3>3 DEF EngineInv
  <2>8. CASE next # "idle"
    <3>1. /\ pc' = next /\ mem' = s /\ pc' \in {"loop", "launch", "seal"}
          /\ UNCHANGED <<next, cur, todo, moved, outcome, bound>>
      BY <1>3, <2>8 DEF Acknowledge, locals, s, EngineInv, TypeOK
    <3>2. TypeOK'
      BY <2>1, <2>2, <2>3, <3>1 DEF EngineInv, TypeOK, PCs
    <3>3. RecordInv'
      BY <2>1, <2>3, <3>1 DEF RecordInv, Recorded, Completed
    <3>4. LedgerInv'
      BY <2>1, <2>3, <3>1 DEF LedgerInv, LogNeverDiverges, EventTransitionStatus, Committing
    <3>5. LaunchInv'
      BY <2>1, <2>3, <2>4, <3>1 DEF EngineInv, LaunchInv, NoFamily, Managing, Committing
    <3> QED BY <2>5, <3>2, <3>3, <3>4, <3>5 DEF EngineInv
  <2> QED BY <2>7, <2>8
<1>4. CASE ReconcileAppend
  <2>1. /\ pc = "reconcile" /\ pc' = pc /\ log' = Append(log, mem.pending) /\ log = mem.event_log
        /\ UNCHANGED <<root, disk, mem, logs, quarantine, ws, family, next, cur, todo, moved, outcome, bound, crashes, edits>>
    BY <1>4 DEF ReconcileAppend, EventTransitionStatus, world, locals, counters
  <2>2. mem = disk /\ mem \in States /\ mem # Nil /\ mem.pending # Nil
    BY <2>1 DEF EngineInv, TypeOK, LedgerInv
  <2>3. log' \in Seq(Events)
    <3>1. mem.pending \in Events BY <2>2 DEF States
    <3> QED BY SMTT(60), <2>1, <3>1 DEF EngineInv, TypeOK
  <2>4. TypeOK'
    BY <2>1, <2>3 DEF EngineInv, TypeOK, PCs
  <2>5. RecordInv'
    BY <2>1 DEF EngineInv, RecordInv, Recorded, Completed
  <2>6. LedgerInv'
    BY <2>1, <2>2 DEF LedgerInv, LogNeverDiverges, EventTransitionStatus, Committing
  <2>7. LiveFamilyBlocksResume' /\ LaunchInv'
    BY <2>1 DEF EngineInv, LiveFamilyBlocksResume, LaunchInv, AttemptNumber, Managing, Committing
  <2> QED BY <2>4, <2>5, <2>6, <2>7 DEF EngineInv
<1>5. CASE ReconcileAcknowledge
  <2> DEFINE s == Acknowledged(mem)
  <2>1. /\ pc = "reconcile" /\ pc' = "admit" /\ disk' = s /\ mem' = s
        /\ UNCHANGED <<root, log, logs, quarantine, ws, family, next, cur, todo, moved, outcome, bound, crashes, edits>>
    BY <1>5 DEF ReconcileAcknowledge, world, locals, counters
  <2>2. mem = disk /\ mem \in States /\ mem # Nil /\ Recorded(mem) /\ log \in Seq(Events) /\ mem.pending \in Events
    BY <2>1 DEF EngineInv, TypeOK, LedgerInv, RecordInv, States
  <2>3. s \in States /\ Recorded(s) /\ s.pending = Nil /\ s.event_log = log /\ s.tasks = mem.tasks /\ s # Nil
    BY <2>2, HeaderType
  <2>. HIDE DEF s
  <2>4. TypeOK'
    BY <2>1, <2>2, <2>3 DEF EngineInv, TypeOK, PCs
  <2>5. RecordInv'
    BY <2>1, <2>3 DEF RecordInv, Recorded, Completed
  <2>6. LedgerInv'
    BY <2>1, <2>3 DEF LedgerInv, LogNeverDiverges, EventTransitionStatus, Committing
  <2>7. LiveFamilyBlocksResume' /\ LaunchInv'
    BY <2>1, <2>2, <2>3 DEF EngineInv, LiveFamilyBlocksResume, LaunchInv, AttemptNumber, Managing, Committing
  <2> QED BY <2>4, <2>5, <2>6, <2>7 DEF EngineInv
<1> QED BY <1>1, <1>2, <1>3, <1>4, <1>5 DEF Commit

\* The steps that begin a commit, from admission to the end of the run.
LEMMA BeginSteps ==
    EngineInv /\ (AdmitResume \/ FinishRecovery \/ StartAttempt \/ CompleteAttempt \/ FailAttempt \/ CompleteRun)
        => EngineInv'
<1> SUFFICES ASSUME EngineInv
             PROVE  AdmitResume \/ FinishRecovery \/ StartAttempt \/ CompleteAttempt \/ FailAttempt \/ CompleteRun
                        => EngineInv'
  OBVIOUS
<1>1. pc \in {"admit", "loop", "quarantine", "stderr", "observe"} => mem \in States /\ Recorded(mem) /\ mem # Nil
  BY DEF EngineInv, TypeOK, RecordInv
<1>2. pc \in {"loop", "quarantine", "stderr", "observe"} => NoFamily
  BY DEF EngineInv, LiveFamilyBlocksResume, NoFamily
<1>3. /\ log \in Seq(Events) /\ ws \in Trees /\ moved \in PartialTrees /\ todo \in Seq(Paths)
      /\ logs \in [Tasks -> [AttemptNumbers -> LogPairs]] /\ cur \in 1..(TaskCount + 1)
  BY DEF EngineInv, TypeOK
<1>4. \A type \in EventTypes, t \in Tasks, n \in AttemptNumbers :
        RunEvent(type) \in Events /\ Event(type, t, n) \in Events
  BY SMTT(60), SuiteAssumption, LimitAssumption DEF RunEvent, Event, Events, Tasks, AttemptNumbers
<1>5. \A type \in EventTypes : RunEvent(type) \in Events
  BY SMTT(60), SuiteAssumption, LimitAssumption DEF RunEvent, Event, Events
<1>6. CASE AdmitResume
  <2>1. pc = "admit" /\ RecoveryLiveness(mem) /\ mem = disk
    BY <1>6 DEF AdmitResume, Admissible, EngineInv, LaunchInv
  <2>2. NoFamily
    BY <2>1 DEF EngineInv, LiveFamilyBlocksResume, NoFamily, RecoveryLiveness, FamilyGone
  <2>3. Built([mem EXCEPT !.status = "running", !.error = FALSE], mem)
    BY <1>1, <1>3, <1>5, <2>1, HeaderType DEF EventTypes
  <2>4. RunEvent("run_resumed") \in Events
    BY <1>5 DEF EventTypes
  <2>5. /\ BeginCommit([mem EXCEPT !.status = "running", !.error = FALSE], RunEvent("run_resumed"), "loop")
        /\ logs' = logs /\ cur' = cur /\ todo' = todo /\ moved' = moved
        /\ UNCHANGED <<root, disk, log, quarantine, world, outcome, bound, counters>>
    BY <1>6 DEF AdmitResume, files
  <2> QED BY <1>3, <2>1, <2>2, <2>3, <2>4, <2>5, BeginCommitStep
<1>7. CASE FinishRecovery
  <2>1. pc = "quarantine" /\ cur \in Tasks /\ mem.tasks[cur].status \in {"running", "failed"}
    BY <1>7 DEF FinishRecovery, EngineInv, LaunchInv
  <2>2. Event("task_recovery_prepared", cur, AttemptNumber(mem, cur)) \in Events
    BY <1>1, <1>4, <2>1, LatestType DEF EventTypes
  <2> DEFINE r == [SetLatest(mem, cur, [Latest(mem, cur) EXCEPT !.quarantined = moved, !.recovered = ws])
                      EXCEPT !.tasks[cur].status = "pending"]
  <2>3. Built(r, mem)
    BY <1>1, <1>3, <2>1, RecoveredType
  <2>4. /\ BeginCommit(r, Event("task_recovery_prepared", cur, AttemptNumber(mem, cur)), "loop")
        /\ todo' = << >> /\ moved' = << >> /\ cur' = cur /\ logs' = logs
        /\ UNCHANGED <<root, disk, log, quarantine, world, outcome, bound, counters>>
    BY <1>7 DEF FinishRecovery, files
  <2>. HIDE DEF r
  <2>5. todo' \in Seq(Paths) /\ moved' \in PartialTrees
    BY SMTT(60), <2>4, NoFilesType
  <2>6. /\ logs' \in [Tasks -> [AttemptNumbers -> LogPairs]] /\ cur' \in 1..(TaskCount + 1)
        /\ UNCHANGED <<root, disk, log, quarantine, world, outcome, bound, counters>>
    BY <1>3, <2>4
  <2>7. NoFamily
    BY <1>2, <2>1
  <2>8. BeginCommit(r, Event("task_recovery_prepared", cur, AttemptNumber(mem, cur)), "loop")
    BY <2>4
  <2> QED BY <2>1, <2>2, <2>3, <2>5, <2>6, <2>7, <2>8, BeginCommitStep
<1>8. CASE StartAttempt
  <2> DEFINE n == AttemptNumber(mem, cur) + 1
             r == WithNewAttempt(mem, cur)
  <2>1. /\ pc = "stderr" /\ cur \in Tasks /\ mem.tasks[cur].status = "pending"
        /\ Len(mem.tasks[cur].attempts) < MaxAttemptsPerTask
    BY <1>8 DEF StartAttempt, EngineInv, LaunchInv
  <2>2. n \in AttemptNumbers
    <3>1. mem.tasks[cur].attempts \in Seq(Attempts)
      BY <1>1, <2>1 DEF States, TaskRecords
    <3> QED BY SMTT(60), <2>1, <3>1, LimitAssumption DEF AttemptNumber, AttemptNumbers
  <2>3. Event("task_started", cur, n) \in Events
    BY <1>4, <2>1, <2>2 DEF EventTypes
  <2>4. Built(r, mem) /\ r.tasks[cur].status = "running"
    BY <1>1, <2>1, NewAttemptBuilt
  <2>5. /\ BeginCommit(r, Event("task_started", cur, n), "launch")
        /\ logs' = [logs EXCEPT ![cur][n] = "both"]
        /\ UNCHANGED <<root, disk, log, quarantine, world, cur, todo, moved, outcome, bound, counters>>
    BY <1>8 DEF StartAttempt
  <2>. HIDE DEF n, r
  <2>6. logs' \in [Tasks -> [AttemptNumbers -> LogPairs]]
    BY <1>3, <2>1, <2>2, <2>5 DEF LogPairs
  <2> QED BY <1>2, <1>3, <2>1, <2>3, <2>4, <2>5, <2>6, BeginCommitStep
<1>9. CASE CompleteAttempt
  <2>1. pc = "observe" /\ cur \in Tasks /\ mem.tasks[cur].status = "running"
    BY <1>9 DEF CompleteAttempt, EngineInv, LaunchInv
  <2>2. Event("task_completed", cur, AttemptNumber(mem, cur)) \in Events
    BY <1>1, <1>4, <2>1, LatestType DEF EventTypes
  <2>3. Built(WithCompletion(mem, cur), mem)
    BY <1>1, <1>3, <1>9, <2>1, CompletionBuilt DEF CompleteAttempt, OutputsAcceptable
  <2>4. cur' \in 1..(TaskCount + 1)
    BY SMTT(60), <1>9, <2>1, SuiteAssumption DEF CompleteAttempt, Tasks
  <2> QED BY <1>2, <1>3, <1>9, <2>1, <2>2, <2>3, <2>4, BeginCommitStep DEF CompleteAttempt, files, world
<1>10. CASE FailAttempt
  <2>1. pc = "observe" /\ cur \in Tasks /\ mem.tasks[cur].status = "running"
    BY <1>10 DEF FailAttempt, EngineInv, LaunchInv
  <2>2. Event("task_failed", cur, AttemptNumber(mem, cur)) \in Events
    BY <1>1, <1>4, <2>1, LatestType DEF EventTypes
  <2>3. Built(WithFailure(mem, cur, outcome), mem)
    BY <1>1, <1>3, <2>1, FailureBuilt
  <2> QED BY <1>2, <1>3, <1>10, <2>1, <2>2, <2>3, BeginCommitStep DEF FailAttempt, files, world
<1>11. CASE CompleteRun
  <2>1. Built([mem EXCEPT !.status = "completed", !.error = FALSE], mem) /\ pc = "loop"
    BY <1>1, <1>3, <1>5, <1>11, HeaderType DEF CompleteRun, EventTypes
  <2>2. RunEvent("run_completed") \in Events
    BY <1>5 DEF EventTypes
  <2> QED BY <1>2, <1>3, <1>11, <2>1, <2>2, BeginCommitStep DEF CompleteRun, files, world
<1> QED BY <1>6, <1>7, <1>8, <1>9, <1>10, <1>11

\* Where no commit is in progress.
Working == {"admit", "loop", "quarantine", "stderr", "observe", "seal", "hash", "publish", "verify"} \cup Managing

\* Between commits a step may replace mem, and state.json by mem, if the commit fields stay.
LEMMA WorkingStep ==
    ASSUME EngineInv, pc \in Working, pc' \in Working, Built(mem', mem), disk' \in {disk, mem},
           UNCHANGED <<root, log, next, bound, counters>>,
           logs' \in [Tasks -> [AttemptNumbers -> LogPairs]],
           quarantine' \in [Paths -> [AttemptNumbers -> Contents \cup {Absent}]],
           ws' \in Trees, family' \in [Tasks -> [AttemptNumbers -> Families]],
           cur' \in 1..(TaskCount + 1), todo' \in Seq(Paths), moved' \in PartialTrees,
           outcome' \in {"ok", "failed", "interrupted"}
    PROVE  TypeOK' /\ RecordInv' /\ LedgerInv'
<1>1. mem \in States /\ disk \in States /\ disk # Nil /\ mem # Nil /\ Recorded(mem) /\ Recorded(disk)
  BY DEF EngineInv, TypeOK, LedgerInv, RecordInv, Working, Managing
<1>2. mem.pending = Nil /\ disk.pending = Nil /\ mem.event_log = log /\ disk.event_log = log
  BY DEF EngineInv, LedgerInv, Working, Managing, Committing
<1>3. mem' \in States /\ mem' # Nil /\ Recorded(mem') /\ mem'.pending = Nil /\ mem'.event_log = log
  BY <1>2, NilAssumption DEF Built
<1>4. disk' \in States /\ disk' # Nil /\ Recorded(disk') /\ disk'.pending = Nil /\ disk'.event_log = log
  BY <1>1, <1>2
<1>5. TypeOK'
  BY <1>1, <1>3, <1>4 DEF EngineInv, TypeOK, counters, PCs, Working, Managing
<1>6. RecordInv'
  <2>1. Recorded(mem)' BY <1>3 DEF Recorded, Completed
  <2>2. Recorded(disk)' BY <1>4 DEF Recorded, Completed
  <2> QED BY <2>1, <2>2 DEF RecordInv
<1>7. LedgerInv'
  BY <1>3, <1>4 DEF LedgerInv, LogNeverDiverges, EventTransitionStatus, Committing, Working, Managing
<1> QED BY <1>5, <1>6, <1>7

\* A state is built from itself.
LEMMA SameBuilt == ASSUME EngineInv, pc \in Working PROVE mem \in States /\ Recorded(mem) /\ Built(mem, mem)
BY DEF EngineInv, TypeOK, RecordInv, Built, Working, Managing

\* _execute_remaining up to the attempt: nothing durable but logs and quarantine.
LEMMA PreparationSteps ==
    EngineInv /\ (PassCompletedTask \/ BeginRecovery \/ QuarantineOutput \/ PrepareStdout) => EngineInv'
<1> SUFFICES ASSUME EngineInv
             PROVE  PassCompletedTask \/ BeginRecovery \/ QuarantineOutput \/ PrepareStdout => EngineInv'
  OBVIOUS
<1>0. /\ logs \in [Tasks -> [AttemptNumbers -> LogPairs]]
      /\ quarantine \in [Paths -> [AttemptNumbers -> Contents \cup {Absent}]]
      /\ ws \in Trees /\ family \in [Tasks -> [AttemptNumbers -> Families]]
      /\ cur \in 1..(TaskCount + 1) /\ todo \in Seq(Paths) /\ moved \in PartialTrees
      /\ outcome \in {"ok", "failed", "interrupted"}
  BY DEF EngineInv, TypeOK
<1>1. pc \in {"loop", "quarantine"} => NoFamily /\ pc \in Working
  BY DEF EngineInv, LiveFamilyBlocksResume, NoFamily, Working
<1>2. NoFamily /\ family' = family => LiveFamilyBlocksResume'
  BY DEF LiveFamilyBlocksResume, NoFamily, Alive
<1>3. CASE PassCompletedTask
  <2>1. /\ pc = "loop" /\ pc' = "loop" /\ mem' = mem /\ disk' = disk /\ cur' \in 1..(TaskCount + 1)
        /\ UNCHANGED <<root, log, next, bound, counters, logs, quarantine, ws, family, todo, moved, outcome>>
    BY SMTT(60), <1>3, SuiteAssumption DEF PassCompletedTask, files, world, Tasks
  <2>2. TypeOK' /\ RecordInv' /\ LedgerInv'
    BY <1>0, <1>1, <2>1, SameBuilt, WorkingStep DEF Working
  <2>3. LaunchInv'
    BY <2>1 DEF LaunchInv, Managing, Committing
  <2> QED BY <1>1, <1>2, <2>1, <2>2, <2>3 DEF EngineInv
<1>4. CASE BeginRecovery
  <2>1. /\ pc = "loop" /\ pc' = "quarantine" /\ disk' = disk /\ cur \in Tasks
        /\ mem' = SetLatest(mem, cur, Interrupted(Latest(mem, cur)))
        /\ mem.tasks[cur].status \in {"running", "failed"}
        /\ todo' = OutputsOf[cur] /\ moved' = << >>
        /\ UNCHANGED <<root, log, next, bound, counters, logs, quarantine, ws, family, cur, outcome>>
    BY <1>4 DEF BeginRecovery, files, world
  <2>2. mem \in States /\ Recorded(mem)
    BY <1>1, <2>1, SameBuilt
  <2>3. Built(mem', mem) /\ mem'.tasks[cur].status = mem.tasks[cur].status
    <3>1. Interrupted(Latest(mem, cur)) \in Attempts
      BY <1>0, <2>1, <2>2, LatestType, InterruptedType
    <3> QED BY SMTT(60), <2>1, <2>2, <3>1, SetLatestType
  <2>4. todo' \in Seq(Paths) /\ moved' \in PartialTrees
    BY <2>1, SuiteAssumption, NoFilesType
  <2>5. TypeOK' /\ RecordInv' /\ LedgerInv'
    BY <1>0, <1>1, <2>1, <2>3, <2>4, WorkingStep DEF Working
  <2>6. LaunchInv'
    BY <2>1, <2>3 DEF LaunchInv, Managing, Committing
  <2> QED BY <1>1, <1>2, <2>1, <2>5, <2>6 DEF EngineInv
<1>5. CASE QuarantineOutput
  <2> DEFINE p == Head(todo)
             n == AttemptNumber(mem, cur)
             c == IF ws[p] # Absent THEN ws[p] ELSE quarantine[p][n]
  <2>1. /\ pc = "quarantine" /\ pc' = "quarantine" /\ disk' = disk /\ mem' = mem /\ todo # << >>
        /\ ws' = [ws EXCEPT ![p] = Absent] /\ quarantine' = [quarantine EXCEPT ![p][n] = c]
        /\ moved' = IF c = Absent THEN moved
                    ELSE [q \in DOMAIN moved \cup {p} |-> IF q = p THEN c ELSE moved[q]]
        /\ todo' = Tail(todo)
        /\ UNCHANGED <<root, log, next, bound, counters, logs, family, cur, outcome>>
    BY <1>5 DEF QuarantineOutput
  <2>2. cur \in Tasks /\ mem.tasks[cur].status \in {"running", "failed"} /\ mem \in States /\ Recorded(mem)
    BY <1>1, <2>1, SameBuilt DEF EngineInv, LaunchInv
  <2>3. n \in AttemptNumbers /\ p \in Paths /\ todo' \in Seq(Paths)
    BY SMTT(60), <1>0, <2>1, <2>2, LatestType
  <2>. HIDE DEF n, p
  <2>4. c \in Contents \cup {Absent}
    BY <1>0, <2>3 DEF Trees
  <2>. HIDE DEF c
  <2>5. ws' \in Trees /\ quarantine' \in [Paths -> [AttemptNumbers -> Contents \cup {Absent}]]
    BY <1>0, <2>1, <2>3, <2>4 DEF Trees
  <2>6. moved' \in PartialTrees
    <3>1. CASE c = Absent BY <1>0, <2>1, <3>1
    <3>2. CASE c # Absent
      <4>1. PICK S \in SUBSET Paths : moved \in [S -> Contents]
        BY <1>0 DEF PartialTrees
      <4>2. moved' \in [S \cup {p} -> Contents] /\ S \cup {p} \in SUBSET Paths
        BY <2>1, <2>3, <2>4, <3>2, <4>1
      <4> QED BY <4>2 DEF PartialTrees
    <3> QED BY <3>1, <3>2
  <2>7. TypeOK' /\ RecordInv' /\ LedgerInv'
    BY <1>0, <1>1, <2>1, <2>3, <2>5, <2>6, SameBuilt, WorkingStep DEF Working
  <2>8. LaunchInv'
    BY <2>1, <2>2 DEF LaunchInv, Managing, Committing
  <2> QED BY <1>1, <1>2, <2>1, <2>7, <2>8 DEF EngineInv
<1>6. CASE PrepareStdout
  <2> DEFINE n == AttemptNumber(mem, cur) + 1
             v == IF logs[cur][n] = "none" THEN "stdout" ELSE logs[cur][n]
  <2>1. /\ pc = "loop" /\ pc' = "stderr" /\ disk' = disk /\ mem' = mem /\ cur \in Tasks
        /\ mem.tasks[cur].status = "pending" /\ n <= MaxAttemptsPerTask
        /\ logs' = [logs EXCEPT ![cur][n] = IF @ = "none" THEN "stdout" ELSE @]
        /\ UNCHANGED <<root, log, next, bound, counters, quarantine, ws, family, cur, todo, moved, outcome>>
    BY <1>6 DEF PrepareStdout, LaunchReady, world, locals
  <2>2. mem.tasks[cur].attempts \in Seq(Attempts)
    BY <1>1, <2>1, SameBuilt DEF States, TaskRecords
  <2>3. n \in AttemptNumbers /\ Len(mem.tasks[cur].attempts) < MaxAttemptsPerTask
    BY SMTT(60), <2>1, <2>2, LimitAssumption DEF AttemptNumber, AttemptNumbers
  <2>. HIDE DEF n
  <2>4. logs' \in [Tasks -> [AttemptNumbers -> LogPairs]]
    <3>1. v \in LogPairs BY <1>0, <2>1, <2>3 DEF LogPairs
    <3>2. logs' = [logs EXCEPT ![cur][n] = v] BY <1>0, <2>1, <2>3
    <3>. HIDE DEF v
    <3> QED BY SMTT(60), <1>0, <2>1, <2>3, <3>1, <3>2
  <2>5. TypeOK' /\ RecordInv' /\ LedgerInv'
    BY <1>0, <1>1, <2>1, <2>4, SameBuilt, WorkingStep DEF Working
  <2>6. LaunchInv'
    BY <2>1, <2>3 DEF LaunchInv, Managing, Committing
  <2> QED BY <1>1, <1>2, <2>1, <2>5, <2>6 DEF EngineInv
<1> QED BY <1>3, <1>4, <1>5, <1>6

\* Once the managed child is gone no family is left.
LEMMA ManagedChild ==
    ASSUME EngineInv, pc \in Managing
    PROVE  /\ cur \in Tasks /\ mem \in States /\ Recorded(mem) /\ mem.tasks[cur].status = "running"
           /\ AttemptNumber(mem, cur) \in AttemptNumbers /\ AttemptNumber(disk, cur) = AttemptNumber(mem, cur)
           /\ \A t \in Tasks, n \in AttemptNumbers :
                 family[t][n] \in Alive => t = cur /\ n = AttemptNumber(mem, cur)
           /\ ChildBecomes("gone") => NoFamily' /\ family' \in [Tasks -> [AttemptNumbers -> Families]]
<1>1. cur \in Tasks /\ mem \in States /\ Recorded(mem) /\ mem.tasks[cur].status = "running"
  BY SameBuilt DEF EngineInv, LaunchInv, Working
<1>2. AttemptNumber(mem, cur) \in AttemptNumbers
  BY <1>1, LatestType
<1>3. AttemptNumber(disk, cur) = AttemptNumber(mem, cur)
  BY DEF EngineInv, LaunchInv, AttemptNumber
<1>4. \A t \in Tasks, n \in AttemptNumbers : family[t][n] \in Alive => t = cur /\ n = AttemptNumber(mem, cur)
  BY <1>3 DEF EngineInv, LaunchInv, LiveFamilyBlocksResume
<1>5. family \in [Tasks -> [AttemptNumbers -> Families]]
  BY DEF EngineInv, TypeOK
<1>6. ASSUME ChildBecomes("gone") PROVE NoFamily' /\ family' \in [Tasks -> [AttemptNumbers -> Families]]
  BY <1>1, <1>2, <1>4, <1>5, <1>6 DEF ChildBecomes, NoFamily, Alive, Families
<1> QED BY <1>1, <1>2, <1>3, <1>4, <1>6

\* A step that ends the management of the child keeps the invariant.
LEMMA ObserveStep ==
    ASSUME EngineInv, pc \in Managing, pc' = "observe", disk' \in {disk, mem},
           NEW child \in BOOLEAN, mem' = Scoped(mem, child, "empty"),
           NoFamily', family' \in [Tasks -> [AttemptNumbers -> Families]],
           outcome' \in {"ok", "failed", "interrupted"},
           UNCHANGED <<root, log, logs, quarantine, ws, next, cur, todo, moved, bound, counters>>
    PROVE  EngineInv'
<1>1. Built(mem', mem) /\ mem'.tasks[cur].status = "running" /\ cur \in Tasks
  BY ManagedChild, ScopedType
<1>2. TypeOK' /\ RecordInv' /\ LedgerInv'
  <2>1. /\ logs' \in [Tasks -> [AttemptNumbers -> LogPairs]]
        /\ quarantine' \in [Paths -> [AttemptNumbers -> Contents \cup {Absent}]]
        /\ ws' \in Trees /\ cur' \in 1..(TaskCount + 1) /\ todo' \in Seq(Paths) /\ moved' \in PartialTrees
    BY DEF EngineInv, TypeOK
  <2>2. pc \in Working /\ pc' \in Working
    BY DEF Working
  <2> QED BY <1>1, <2>1, <2>2, WorkingStep
<1>3. LiveFamilyBlocksResume'
  BY DEF LiveFamilyBlocksResume, NoFamily
<1>4. LaunchInv'
  BY <1>1 DEF LaunchInv, Managing, Committing
<1> QED BY <1>2, <1>3, <1>4 DEF EngineInv

\* _run_task from the launch to the observation of what the child did.
LEMMA ChildManagementSteps ==
    EngineInv /\ (LaunchChild \/ LaunchFails \/ CaptureIdentity \/ IdentityUnavailable \/ PersistIdentity
                    \/ PersistIdentityFails \/ AwaitExit("ok") \/ AwaitExit("failed") \/ ScopeLingers
                    \/ InterruptWait("interrupted") \/ InterruptWait("failed") \/ ContextDrifts) => EngineInv'
<1> SUFFICES ASSUME EngineInv
             PROVE  LaunchChild \/ LaunchFails \/ CaptureIdentity \/ IdentityUnavailable \/ PersistIdentity
                    \/ PersistIdentityFails \/ AwaitExit("ok") \/ AwaitExit("failed") \/ ScopeLingers
                    \/ InterruptWait("interrupted") \/ InterruptWait("failed") \/ ContextDrifts => EngineInv'
  OBVIOUS
<1>0. /\ logs \in [Tasks -> [AttemptNumbers -> LogPairs]]
      /\ quarantine \in [Paths -> [AttemptNumbers -> Contents \cup {Absent}]]
      /\ ws \in Trees /\ family \in [Tasks -> [AttemptNumbers -> Families]]
      /\ cur \in 1..(TaskCount + 1) /\ todo \in Seq(Paths) /\ moved \in PartialTrees
      /\ outcome \in {"ok", "failed", "interrupted"}
  BY DEF EngineInv, TypeOK
<1>1. CASE LaunchChild
  <2>1. /\ pc = "launch" /\ pc' = "identify" /\ mem' = mem /\ disk' = disk
        /\ family' = [family EXCEPT ![cur][AttemptNumber(mem, cur)] = "leader"]
        /\ UNCHANGED <<root, log, next, bound, counters, logs, quarantine, ws, cur, todo, moved, outcome>>
    BY <1>1 DEF LaunchChild, ChildBecomes, files, locals
  <2>2. pc \in Managing /\ pc \in Working /\ pc' \in Working /\ NoFamily
    BY <2>1 DEF Managing, Working, EngineInv, LaunchInv, NoFamily
  <2>3. /\ cur \in Tasks /\ AttemptNumber(mem, cur) \in AttemptNumbers
        /\ AttemptNumber(disk, cur) = AttemptNumber(mem, cur) /\ mem.tasks[cur].status = "running"
        /\ disk # Nil /\ disk.tasks[cur].status = "running"
    BY <2>1, <2>2, ManagedChild DEF EngineInv, LaunchInv, LedgerInv
  <2>4. family' \in [Tasks -> [AttemptNumbers -> Families]]
    BY <1>0, <2>1, <2>3 DEF Families
  <2>5. \A t \in Tasks, n \in AttemptNumbers : family'[t][n] \in Alive => t = cur /\ n = AttemptNumber(mem, cur)
    BY <1>0, <2>1, <2>2, <2>3 DEF NoFamily
  <2>6. TypeOK' /\ RecordInv' /\ LedgerInv'
    BY <1>0, <2>1, <2>2, <2>4, SameBuilt, WorkingStep
  <2>7. LiveFamilyBlocksResume'
    BY <2>1, <2>3, <2>5 DEF LiveFamilyBlocksResume, AttemptNumber
  <2>8. LaunchInv'
    BY <2>1, <2>3, <2>5 DEF LaunchInv, Managing, Committing, AttemptNumber
  <2> QED BY <2>6, <2>7, <2>8 DEF EngineInv
<1>2. CASE LaunchFails
  <2>1. pc \in Managing /\ pc = "launch"
    BY <1>2 DEF LaunchFails, Managing
  <2>2. NoFamily'
    BY <1>2, <2>1 DEF LaunchFails, world, EngineInv, LaunchInv, NoFamily
  <2> QED BY <1>0, <1>2, <2>1, <2>2, ObserveStep DEF LaunchFails, files, world
<1>3. CASE CaptureIdentity
  <2>1. /\ pc = "identify" /\ pc' = "persist" /\ mem' = Scoped(mem, TRUE, "active") /\ disk' = disk
        /\ UNCHANGED <<root, log, next, bound, counters, logs, quarantine, ws, family, cur, todo, moved, outcome>>
    BY <1>3 DEF CaptureIdentity, files, world, locals
  <2>2. pc \in Managing /\ pc \in Working /\ pc' \in Working
    BY <2>1 DEF Managing, Working
  <2>3. /\ cur \in Tasks /\ Built(mem', mem) /\ mem'.tasks[cur].status = "running"
        /\ Len(mem'.tasks[cur].attempts) = Len(mem.tasks[cur].attempts)
    BY <2>1, <2>2, ManagedChild, ScopedType
  <2>4. TypeOK' /\ RecordInv' /\ LedgerInv'
    BY <1>0, <2>1, <2>2, <2>3, WorkingStep
  <2>5. LiveFamilyBlocksResume' /\ LaunchInv'
    BY <2>1, <2>3 DEF EngineInv, LiveFamilyBlocksResume, LaunchInv, Managing, Committing, AttemptNumber
  <2> QED BY <2>4, <2>5 DEF EngineInv
<1>4. ASSUME NEW how \in {"failed", "interrupted"}, StopChild(how), disk' \in {disk, mem}, pc \in Managing
      PROVE  EngineInv'
  <2>1. NoFamily' /\ family' \in [Tasks -> [AttemptNumbers -> Families]]
    BY <1>4, ManagedChild DEF StopChild
  <2> QED BY <1>0, <1>4, <2>1, ObserveStep DEF StopChild
<1>5. CASE IdentityUnavailable \/ PersistIdentityFails \/ ScopeLingers
           \/ InterruptWait("interrupted") \/ InterruptWait("failed")
  BY <1>4, <1>5 DEF IdentityUnavailable, PersistIdentityFails, ScopeLingers, InterruptWait, Managing
<1>6. CASE PersistIdentity
  <2>1. /\ pc = "persist" /\ pc' = "wait" /\ mem' = mem /\ disk' = mem
        /\ UNCHANGED <<root, log, next, bound, counters, logs, quarantine, ws, family, cur, todo, moved, outcome>>
    BY <1>6 DEF PersistIdentity, world, locals
  <2>2. pc \in Managing /\ pc \in Working /\ pc' \in Working
    BY <2>1 DEF Managing, Working
  <2>3. TypeOK' /\ RecordInv' /\ LedgerInv'
    BY <1>0, <2>1, <2>2, SameBuilt, WorkingStep
  <2>4. mem # Nil
    BY <2>1 DEF EngineInv, TypeOK
  <2>5. LiveFamilyBlocksResume' /\ LaunchInv'
    BY <2>1, <2>2, <2>4, ManagedChild DEF EngineInv, LiveFamilyBlocksResume, LaunchInv, Managing, Committing, AttemptNumber
  <2> QED BY <2>3, <2>5 DEF EngineInv
<1>7. ASSUME NEW how \in {"ok", "failed"}, AwaitExit(how) PROVE EngineInv'
  <2>1. pc \in Managing /\ pc = "wait"
    BY <1>7 DEF AwaitExit, Managing
  <2>2. NoFamily'
    BY <1>7, <2>1, ManagedChild DEF AwaitExit, world, NoFamily, Child, Alive
  <2> QED BY <1>0, <1>7, <2>1, <2>2, ObserveStep DEF AwaitExit, files, world
<1>8. CASE ContextDrifts
  <2>1. /\ pc = "observe" /\ pc' = pc /\ mem' = mem /\ disk' = disk /\ outcome' = "failed"
        /\ UNCHANGED <<root, log, next, bound, counters, logs, quarantine, ws, family, cur, todo, moved>>
    BY <1>8 DEF ContextDrifts, files, world
  <2>2. TypeOK' /\ RecordInv' /\ LedgerInv'
    BY <1>0, <2>1, SameBuilt, WorkingStep DEF Working
  <2>3. LiveFamilyBlocksResume' /\ LaunchInv'
    BY <2>1 DEF EngineInv, LiveFamilyBlocksResume, LaunchInv, Managing, Committing, AttemptNumber
  <2> QED BY <2>2, <2>3 DEF EngineInv
<1> QED BY <1>1, <1>2, <1>3, <1>5, <1>6, <1>7, <1>8

\* _build_bundle works on the bundle alone.
LEMMA BundleFrame ==
    ASSUME BuildBundle
    PROVE  /\ pc \in {"seal", "hash", "publish"} /\ pc' \in {"hash", "publish", "verify"}
           /\ UNCHANGED <<root, disk, log, logs, quarantine, ws, family, mem, next, cur, todo, moved, outcome, bound,
                          decision, crashes, edits>>
BY DEF BuildBundle, ObserveFinal, HashArtifacts, WriteBundle, files, world, locals, counters

LEMMA BundleSteps == EngineInv /\ BuildBundle => EngineInv'
<1> SUFFICES ASSUME EngineInv, BuildBundle PROVE EngineInv'
  OBVIOUS
<1>1. /\ pc \in {"seal", "hash", "publish"} /\ pc' \in {"hash", "publish", "verify"}
      /\ UNCHANGED <<root, disk, log, logs, quarantine, ws, family, mem, next, cur, todo, moved, outcome, bound,
                     crashes, edits>>
  BY BundleFrame
<1>2. TypeOK'
  BY <1>1 DEF EngineInv, TypeOK, PCs
<1>3. RecordInv'
  BY <1>1 DEF EngineInv, RecordInv, Recorded, Completed
<1>4. LedgerInv'
  BY <1>1 DEF EngineInv, LedgerInv, LogNeverDiverges, EventTransitionStatus, Committing
<1>5. LiveFamilyBlocksResume' /\ LaunchInv'
  BY <1>1 DEF EngineInv, LiveFamilyBlocksResume, LaunchInv, Managing, Committing, AttemptNumber
<1> QED BY <1>2, <1>3, <1>4, <1>5 DEF EngineInv

\* The runner is done, refuses, crashes or raises.
LEMMA HaltingSteps ==
    EngineInv /\ (VerifySealed \/ Refuse \/ RefuseAttempt \/ Crash \/ CrashInWrite \/ RaiseWithCleanup) => EngineInv'
<1> SUFFICES ASSUME EngineInv
             PROVE  VerifySealed \/ Refuse \/ RefuseAttempt \/ Crash \/ CrashInWrite \/ RaiseWithCleanup => EngineInv'
  OBVIOUS
<1>0. logs \in [Tasks -> [AttemptNumbers -> LogPairs]]
  BY DEF EngineInv, TypeOK
<1>1. crashes \in 0..MaxCrashes /\ (crashes < MaxCrashes => crashes + 1 \in 0..MaxCrashes)
  BY SMTT(60), EngineAssumption DEF EngineInv, TypeOK
<1>2. CASE VerifySealed
  BY <1>0, <1>1, <1>2, HaltStep DEF VerifySealed, files, counters
<1>3. CASE Refuse
  BY <1>0, <1>1, <1>3, HaltStep DEF Refuse, CommitPoint, files, counters
<1>4. CASE Crash
  BY <1>0, <1>1, <1>4, HaltStep DEF Crash, files
<1>5. CASE CrashInWrite
  BY <1>0, <1>1, <1>5, HaltStep DEF CrashInWrite
<1>7. CASE RefuseAttempt
  <2>1. logs' \in [Tasks -> [AttemptNumbers -> LogPairs]]
    BY <1>0, <1>7 DEF RefuseAttempt, LogPairs
  <2> QED BY <1>1, <1>7, <2>1, HaltStep DEF RefuseAttempt, counters
<1>6. CASE RaiseWithCleanup
  <2>1. /\ pc \in {"identify", "persist", "wait"} /\ disk' \in {disk, mem} /\ ChildBecomes("gone") /\ Halt
        /\ crashes' \in 0..MaxCrashes /\ UNCHANGED <<root, log, logs, quarantine, ws, edits>>
    BY <1>1, <1>6 DEF RaiseWithCleanup
  <2>2. NoFamily' /\ family' \in [Tasks -> [AttemptNumbers -> Families]] /\ mem \in States /\ Recorded(mem)
    BY <2>1, ManagedChild DEF Managing
  <2>3. disk # Nil /\ mem # Nil /\ disk \in States /\ Recorded(disk)
    BY <2>1 DEF EngineInv, LedgerInv, TypeOK, RecordInv
  <2>4. disk' # Nil /\ disk' \in States /\ Recorded(disk') /\ disk'.pending = Nil /\ disk'.event_log = log
    <3>1. mem.pending = Nil /\ disk.pending = Nil /\ mem.event_log = log /\ disk.event_log = log
      BY <2>1 DEF EngineInv, LedgerInv, Committing
    <3> QED BY <2>1, <2>2, <2>3, <3>1
  <2>5. /\ pc' = "idle" /\ mem' = Nil /\ next' = "idle" /\ outcome' = "ok"
        /\ cur' \in 1..(TaskCount + 1) /\ todo' \in Seq(Paths) /\ moved' \in PartialTrees
    BY SMTT(60), <2>1, NoFilesType, SuiteAssumption DEF Halt
  <2>6. TypeOK'
    BY <2>1, <2>2, <2>3, <2>4, <2>5 DEF EngineInv, TypeOK, PCs
  <2>7. RecordInv'
    BY <2>4, <2>5 DEF RecordInv, Recorded, Completed
  <2>8. LedgerInv' /\ LaunchInv'
    BY <2>1, <2>4, <2>5 DEF LedgerInv, LaunchInv, LogNeverDiverges, EventTransitionStatus, Committing, Managing
  <2>9. LiveFamilyBlocksResume'
    BY <2>2 DEF LiveFamilyBlocksResume, NoFamily
  <2> QED BY <2>6, <2>7, <2>8, <2>9 DEF EngineInv
<1> QED BY <1>2, <1>3, <1>4, <1>5, <1>6, <1>7

\* Children write and exit, people edit the workspace, and nothing happens.
LEMMA WorldSteps == EngineInv /\ (ChildStep \/ Edit \/ UNCHANGED vars) => EngineInv'
<1> SUFFICES ASSUME EngineInv PROVE ChildStep \/ Edit \/ UNCHANGED vars => EngineInv'
  OBVIOUS
<1>1. ws \in Trees /\ family \in [Tasks -> [AttemptNumbers -> Families]] /\ edits \in 0..MaxEdits
  BY DEF EngineInv, TypeOK
<1>2. ASSUME ws' \in Trees, family' \in [Tasks -> [AttemptNumbers -> Families]], edits' \in 0..MaxEdits,
             \A t \in Tasks, n \in AttemptNumbers : family'[t][n] \in Alive => family[t][n] \in Alive,
             UNCHANGED <<files, pc, mem, locals, crashes>>
      PROVE  EngineInv'
  <2>1. /\ UNCHANGED <<root, disk, log, logs, quarantine, pc, mem, next, cur, todo, moved, outcome, bound, crashes>>
    BY <1>2 DEF files, locals
  <2>2. TypeOK'
    BY SMTT(60), <1>2, <2>1 DEF EngineInv, TypeOK
  <2>3. RecordInv' /\ LedgerInv'
    BY <2>1 DEF EngineInv, RecordInv, Recorded, Completed, LedgerInv, LogNeverDiverges, EventTransitionStatus
  <2>4. LiveFamilyBlocksResume' /\ LaunchInv'
    BY <1>2, <2>1 DEF EngineInv, LiveFamilyBlocksResume, LaunchInv, AttemptNumber
  <2> QED BY <2>2, <2>3, <2>4 DEF EngineInv
<1>3. ASSUME NEW t \in Tasks, NEW n \in AttemptNumbers, ChildWrites(t, n) PROVE EngineInv'
  <2>1. OutputSet(t) \subseteq Paths
    BY SMTT(60), SuiteAssumption DEF OutputSet, Elems
  <2>2. PICK p \in OutputSet(t) \cup Undisciplined, r \in Revisions : ws' = [ws EXCEPT ![p] = <<t, n, r>>]
    BY <1>3 DEF ChildWrites
  <2>3. ws' \in Trees
    BY <1>1, <2>1, <2>2, EngineAssumption DEF Trees, Contents
  <2> QED BY <1>1, <1>2, <1>3, <2>3 DEF ChildWrites, counters
<1>4. ASSUME NEW t \in Tasks, NEW n \in AttemptNumbers, LeaderExits(t, n) \/ GroupExits(t, n) PROVE EngineInv'
  <2>1. PICK left \in {"group", "gone"} : family' = [family EXCEPT ![t][n] = left] /\ family[t][n] \in Alive
    BY <1>4 DEF LeaderExits, GroupExits, Alive
  <2>2. family' \in [Tasks -> [AttemptNumbers -> Families]]
    BY <1>1, <2>1 DEF Families
  <2>3. \A u \in Tasks, m \in AttemptNumbers : family'[u][m] \in Alive => family[u][m] \in Alive
    BY <1>1, <2>1
  <2> QED BY <1>1, <1>2, <1>4, <2>2, <2>3 DEF LeaderExits, GroupExits, counters
<1>5. CASE Edit
  <2>1. ws' \in Trees
    BY <1>1, <1>5 DEF Edit, Trees, Contents
  <2>2. edits' \in 0..MaxEdits
    BY SMTT(60), <1>1, <1>5, EngineAssumption DEF Edit
  <2> QED BY <1>1, <1>2, <1>5, <2>1, <2>2 DEF Edit
<1>6. CASE UNCHANGED vars
  BY <1>1, <1>2, <1>6 DEF vars, world, counters
<1> QED BY <1>3, <1>4, <1>5, <1>6 DEF ChildStep

\* EngineInv is inductive: Init establishes it and every step keeps it.
THEOREM EngineInvariant == Spec => []EngineInv
<1>1. EngineInv /\ [Next]_vars => EngineInv'
  BY OperatorSteps, CommitSteps, BeginSteps, PreparationSteps, ChildManagementSteps, BundleSteps, HaltingSteps,
     WorldSteps
     DEF Next, Operator, RunnerStep, RunnerFault
<1> QED BY InitInv, <1>1, PTL DEF Spec

\* The files, processes and locals of RunEngine have their types, for every suite.
THEOREM TypeCorrect == Spec => []TypeOK
<1>1. EngineInv => TypeOK BY DEF EngineInv
<1> QED BY <1>1, EngineInvariant, PTL

(***************************************************************************)
(* For every suite and any number of crashes, resumes and edits,           *)
(* events.jsonl is the acknowledged log alone or with exactly the pending  *)
(* record: _event_transition_status never finds it diverged.               *)
(***************************************************************************)
THEOREM LogNeverDivergesTheorem == Spec => []LogNeverDiverges
<1>1. EngineInv => LogNeverDiverges BY DEF EngineInv, LedgerInv
<1> QED BY <1>1, EngineInvariant, PTL

(***************************************************************************)
(* For every suite, a live process family belongs to the latest attempt of *)
(* a durably running task and keeps _assert_recovery_liveness from         *)
(* admitting a resume: no two families are ever alive together.            *)
(***************************************************************************)
THEOREM LiveFamilyTheorem == Spec => []LiveFamilyBlocksResume
<1>1. EngineInv => LiveFamilyBlocksResume BY DEF EngineInv
<1> QED BY <1>1, EngineInvariant, PTL

(***************************************************************************)
(* The records the runner writes.                                          *)
(***************************************************************************)

\* A state has lengths, tasks and attempts of the right kinds.
LEMMA StateTypes ==
    ASSUME NEW s \in States, NEW t \in Tasks
    PROVE  /\ s.tasks[t] \in TaskRecords /\ s.tasks[t].attempts \in Seq(Attempts)
           /\ Len(s.tasks[t].attempts) \in Nat
           /\ \A i \in 1..Len(s.tasks[t].attempts) : s.tasks[t].attempts[i] \in Attempts
           /\ s.event_log \in Seq(Events) /\ Len(s.event_log) \in Nat
<1>1. s.tasks[t] \in TaskRecords /\ s.tasks[t].attempts \in Seq(Attempts) /\ s.event_log \in Seq(Events)
  BY DEF States, TaskRecords
<1>2. Len(s.tasks[t].attempts) \in Nat /\ Len(s.event_log) \in Nat
      /\ \A i \in 1..Len(s.tasks[t].attempts) : s.tasks[t].attempts[i] \in Attempts
  BY SMTT(60), <1>1
<1> QED BY <1>1, <1>2

\* A run stands at one task at most, the first incomplete one.
LEMMA StandsAtFirst ==
    ASSUME NEW s \in States, NEW t \in Tasks, At(s, t)
    PROVE  FirstIncomplete(s) = t /\ ~AllCompleted(s)
<1>1. ~AllCompleted(s)
  BY DEF At, AllCompleted
<1>2. ~Completed(s, t) /\ \A u \in 1..(t - 1) : Completed(s, u)
  <2>1. \A u \in 1..(t - 1) : u \in Tasks /\ u < t
    BY SMTT(60), SuiteAssumption DEF Tasks
  <2> QED BY <2>1 DEF At
<1>3. \A v \in Tasks : (~Completed(s, v) /\ \A u \in 1..(v - 1) : Completed(s, u)) => v = t
  <2> SUFFICES ASSUME NEW v \in Tasks, ~Completed(s, v), \A u \in 1..(v - 1) : Completed(s, u)
               PROVE  v = t
    OBVIOUS
  <2>1. v < t => v \in 1..(t - 1)
    BY SMTT(60), SuiteAssumption DEF Tasks
  <2>2. t < v => t \in 1..(v - 1)
    BY SMTT(60), SuiteAssumption DEF Tasks
  <2>3. ~(v < t) /\ ~(t < v)
    BY <1>2, <2>1, <2>2
  <2> QED BY SMTT(60), <2>3, SuiteAssumption DEF Tasks
<1> QED BY <1>1, <1>2, <1>3 DEF FirstIncomplete

\* What SetLatest changes, field by field.
LEMMA LatestReplaced ==
    ASSUME NEW s \in States, Recorded(s), NEW t \in Tasks, s.tasks[t].status \in {"running", "failed"},
           NEW a \in Attempts
    PROVE  LET r == SetLatest(s, t, a)
           IN  /\ r \in States /\ Touches(r, s, t) /\ Latest(r, t) = a
               /\ r.tasks[t].status = s.tasks[t].status /\ r.tasks[t].outputs = s.tasks[t].outputs
               /\ r.status = s.status /\ r.error = s.error
               /\ r.event_log = s.event_log /\ r.pending = s.pending
<1> DEFINE r == SetLatest(s, t, a)
           old == s.tasks[t].attempts
           new == [old EXCEPT ![AttemptNumber(s, t)] = a]
<1>1. /\ Len(new) = Len(old) /\ new[Len(old)] = a
      /\ \A i \in 1..(Len(old) - 1) : new[i] = old[i]
  BY SMTT(60), LatestType DEF AttemptNumber
<1>2. r = [s EXCEPT !.tasks = [s.tasks EXCEPT ![t] = [s.tasks[t] EXCEPT !.attempts = new]]]
  BY DEF SetLatest
<1>. HIDE DEF new
<1>3. s.tasks \in [Tasks -> TaskRecords] /\ s.tasks[t] \in TaskRecords
  BY DEF States
<1>4. /\ r.tasks = [s.tasks EXCEPT ![t] = [s.tasks[t] EXCEPT !.attempts = new]]
      /\ r.status = s.status /\ r.error = s.error /\ r.event_log = s.event_log /\ r.pending = s.pending
  BY <1>2 DEF States
<1>5. r \in States
  BY SetLatestType DEF Built
<1>. HIDE DEF r
<1>6. /\ \A u \in Tasks : u # t => r.tasks[u] = s.tasks[u]
      /\ r.tasks[t] = [s.tasks[t] EXCEPT !.attempts = new]
  BY <1>3, <1>4
<1>7. /\ r.tasks[t].attempts = new /\ r.tasks[t].status = s.tasks[t].status
      /\ r.tasks[t].outputs = s.tasks[t].outputs
  BY <1>3, <1>6 DEF TaskRecords
<1>8. Touches(r, s, t) /\ Latest(r, t) = a
  BY <1>1, <1>6, <1>7 DEF Touches, Latest
<1> QED BY <1>4, <1>5, <1>7, <1>8 DEF r

\* Touching the same task twice touches it.
LEMMA TouchesTwice ==
    ASSUME NEW r, NEW q, NEW s, NEW t \in Tasks, Touches(r, q, t), Touches(q, s, t)
    PROVE  Touches(r, s, t)
BY DEF Touches

\* The record committed with task_recovery_prepared, field by field.
LEMMA RecoveredRecord ==
    ASSUME NEW s \in States, Recorded(s), NEW t \in Tasks, s.tasks[t].status \in {"running", "failed"},
           NEW a \in Attempts
    PROVE  LET r == [SetLatest(s, t, a) EXCEPT !.tasks[t].status = "pending"]
           IN  /\ Touches(r, s, t) /\ Latest(r, t) = a
               /\ r.tasks[t].status = "pending" /\ r.tasks[t].outputs = s.tasks[t].outputs
               /\ r.status = s.status /\ r.error = s.error /\ r.event_log = s.event_log
<1> DEFINE b == SetLatest(s, t, a)
           r == [b EXCEPT !.tasks[t].status = "pending"]
<1>1. /\ b \in States /\ Touches(b, s, t) /\ Latest(b, t) = a
      /\ b.tasks[t].outputs = s.tasks[t].outputs
      /\ b.status = s.status /\ b.error = s.error /\ b.event_log = s.event_log
  BY LatestReplaced
<1>. HIDE DEF b
<1>2. b.tasks \in [Tasks -> TaskRecords] /\ b.tasks[t] \in TaskRecords
  BY <1>1 DEF States
<1>3. /\ r.tasks = [b.tasks EXCEPT ![t] = [b.tasks[t] EXCEPT !.status = "pending"]]
      /\ r.status = b.status /\ r.error = b.error /\ r.event_log = b.event_log
  BY <1>1 DEF States
<1>. HIDE DEF r
<1>4. /\ \A u \in Tasks : u # t => r.tasks[u] = b.tasks[u]
      /\ r.tasks[t] = [b.tasks[t] EXCEPT !.status = "pending"]
  BY <1>2, <1>3
<1>5. /\ r.tasks[t].attempts = b.tasks[t].attempts /\ r.tasks[t].status = "pending"
      /\ r.tasks[t].outputs = b.tasks[t].outputs
  BY <1>2, <1>4 DEF TaskRecords
<1>6. Touches(r, b, t) /\ Latest(r, t) = Latest(b, t)
  BY <1>4, <1>5 DEF Touches, Latest
<1> QED BY <1>1, <1>3, <1>5, <1>6, TouchesTwice DEF r, b

\* The record committed with task_completed, field by field.
LEMMA CompletedRecord ==
    ASSUME NEW s \in States, Recorded(s), NEW t \in Tasks, s.tasks[t].status = "running",
           ws \in Trees, \A p \in OutputSet(t) : ws[p] # Absent
    PROVE  LET r == WithCompletion(s, t)
               outputs == Files(ws, OutputSet(t))
           IN  /\ Touches(r, s, t) /\ outputs \in [OutputSet(t) -> Contents] /\ outputs \in PartialTrees
               /\ Latest(r, t) = [Latest(s, t) EXCEPT !.status = "completed", !.rc = "known",
                                                      !.after = ws, !.outputs = outputs]
               /\ r.tasks[t].status = "completed" /\ r.tasks[t].outputs = outputs
               /\ r.status = s.status /\ r.error = s.error /\ r.event_log = s.event_log
<1> DEFINE outputs == Files(ws, OutputSet(t))
           a == [Latest(s, t) EXCEPT !.status = "completed", !.rc = "known", !.after = ws, !.outputs = outputs]
           b == SetLatest(s, t, a)
           r == WithCompletion(s, t)
<1>1. OutputSet(t) \in SUBSET Paths
  BY SMTT(60), SuiteAssumption DEF OutputSet, Elems
<1>2. outputs \in [OutputSet(t) -> Contents]
  BY <1>1 DEF Files, Trees
<1>3. outputs \in PartialTrees
  BY <1>1, <1>2 DEF PartialTrees
<1>4. r = [b EXCEPT !.tasks[t].status = "completed", !.tasks[t].outputs = outputs]
  BY DEF WithCompletion
<1>. HIDE DEF outputs, r
<1>5. a \in Attempts
  <2>1. Latest(s, t) \in Attempts BY LatestType
  <2> HIDE DEF Latest
  <2> QED BY <1>3, <2>1 DEF Attempts
<1>. HIDE DEF a
<1>6. /\ b \in States /\ Touches(b, s, t) /\ Latest(b, t) = a
      /\ b.status = s.status /\ b.error = s.error /\ b.event_log = s.event_log
  BY <1>5, LatestReplaced
<1>. HIDE DEF b
<1>7. b.tasks \in [Tasks -> TaskRecords] /\ b.tasks[t] \in TaskRecords
  BY <1>6 DEF States
<1>8. /\ r.tasks = [b.tasks EXCEPT ![t] = [b.tasks[t] EXCEPT !.status = "completed", !.outputs = outputs]]
      /\ r.status = b.status /\ r.error = b.error /\ r.event_log = b.event_log
  BY <1>4, <1>6, <1>7 DEF States
<1>9. /\ \A u \in Tasks : u # t => r.tasks[u] = b.tasks[u]
      /\ r.tasks[t] = [b.tasks[t] EXCEPT !.status = "completed", !.outputs = outputs]
  BY <1>7, <1>8
<1>10. /\ r.tasks[t].attempts = b.tasks[t].attempts /\ r.tasks[t].status = "completed"
       /\ r.tasks[t].outputs = outputs
  BY <1>7, <1>9 DEF TaskRecords
<1>11. Touches(r, b, t) /\ Latest(r, t) = Latest(b, t)
  BY <1>9, <1>10 DEF Touches, Latest
<1> QED BY <1>2, <1>3, <1>6, <1>8, <1>10, <1>11, TouchesTwice DEF r, a, outputs

\* The record committed with task_failed, field by field.
LEMMA FailedRecord ==
    ASSUME NEW s \in States, Recorded(s), NEW t \in Tasks, s.tasks[t].status = "running", ws \in Trees,
           NEW how \in {"ok", "failed", "interrupted"}
    PROVE  LET r == WithFailure(s, t, how)
           IN  /\ Touches(r, s, t)
               /\ Latest(r, t) = [Latest(s, t) EXCEPT !.guard = FALSE, !.after = ws,
                                      !.status = IF how = "interrupted" THEN "interrupted" ELSE "failed",
                                      !.rc = IF Latest(s, t).child THEN "known" ELSE "null"]
               /\ r.tasks[t].status = "failed" /\ r.tasks[t].outputs = s.tasks[t].outputs
               /\ r.status = "failed" /\ r.error = TRUE /\ r.event_log = s.event_log
<1> DEFINE st == IF how = "interrupted" THEN "interrupted" ELSE "failed"
           rc == IF Latest(s, t).child THEN "known" ELSE "null"
           a == [Latest(s, t) EXCEPT !.guard = FALSE, !.after = ws, !.status = st, !.rc = rc]
           b == SetLatest(s, t, a)
           r == WithFailure(s, t, how)
<1>1. st \in {"interrupted", "failed"} /\ rc \in {"known", "null"}
  OBVIOUS
<1>2. r = [b EXCEPT !.status = "failed", !.error = TRUE, !.tasks[t].status = "failed"]
  BY DEF WithFailure
<1>. HIDE DEF st, rc, r
<1>3. a \in Attempts
  <2>1. Latest(s, t) \in Attempts BY LatestType
  <2> HIDE DEF Latest
  <2> QED BY <1>1, <2>1 DEF Attempts
<1>. HIDE DEF a
<1>4. /\ b \in States /\ Touches(b, s, t) /\ Latest(b, t) = a
      /\ b.tasks[t].outputs = s.tasks[t].outputs /\ b.event_log = s.event_log
  BY <1>3, LatestReplaced
<1>. HIDE DEF b
<1>5. b.tasks \in [Tasks -> TaskRecords] /\ b.tasks[t] \in TaskRecords
  BY <1>4 DEF States
<1>6. /\ r.tasks = [b.tasks EXCEPT ![t] = [b.tasks[t] EXCEPT !.status = "failed"]]
      /\ r.status = "failed" /\ r.error = TRUE /\ r.event_log = b.event_log
  BY <1>2, <1>4, <1>5 DEF States
<1>7. /\ \A u \in Tasks : u # t => r.tasks[u] = b.tasks[u]
      /\ r.tasks[t] = [b.tasks[t] EXCEPT !.status = "failed"]
  BY <1>5, <1>6
<1>8. /\ r.tasks[t].attempts = b.tasks[t].attempts /\ r.tasks[t].status = "failed"
      /\ r.tasks[t].outputs = b.tasks[t].outputs
  BY <1>5, <1>7 DEF TaskRecords
<1>9. Touches(r, b, t) /\ Latest(r, t) = Latest(b, t)
  BY <1>7, <1>8 DEF Touches, Latest
<1> QED BY <1>4, <1>6, <1>8, <1>9, TouchesTwice DEF r, a, st, rc

\* The record committed with task_started, field by field.
LEMMA StartedRecord ==
    ASSUME NEW s \in States, NEW t \in Tasks
    PROVE  LET r == WithNewAttempt(s, t)
               n == Len(s.tasks[t].attempts)
           IN  /\ \A u \in Tasks : u # t => r.tasks[u] = s.tasks[u]
               /\ Len(r.tasks[t].attempts) = n + 1 /\ Latest(r, t) = NewAttempt(CleanTree(s))
               /\ \A i \in 1..n : r.tasks[t].attempts[i] = s.tasks[t].attempts[i]
               /\ r.tasks[t].status = "running" /\ r.tasks[t].outputs = s.tasks[t].outputs
               /\ r.status = "running" /\ r.error = FALSE /\ r.event_log = s.event_log
<1> DEFINE old == s.tasks[t].attempts
           fresh == NewAttempt(CleanTree(s))
           new == Append(old, fresh)
           r == WithNewAttempt(s, t)
<1>1. s.tasks \in [Tasks -> TaskRecords] /\ s.tasks[t] \in TaskRecords /\ old \in Seq(Attempts)
  BY StateTypes DEF States
<1>2. r = [s EXCEPT !.status = "running", !.error = FALSE,
                    !.tasks = [s.tasks EXCEPT ![t] = [s.tasks[t] EXCEPT !.status = "running", !.attempts = new]]]
  BY <1>1 DEF WithNewAttempt, States
<1>. HIDE DEF fresh, r
<1>3. Len(new) = Len(old) + 1 /\ new[Len(old) + 1] = fresh /\ \A i \in 1..Len(old) : new[i] = old[i]
  BY SMTT(60), <1>1
<1>. HIDE DEF new
<1>4. /\ r.tasks = [s.tasks EXCEPT ![t] = [s.tasks[t] EXCEPT !.status = "running", !.attempts = new]]
      /\ r.status = "running" /\ r.error = FALSE /\ r.event_log = s.event_log
  BY <1>2 DEF States
<1>5. /\ \A u \in Tasks : u # t => r.tasks[u] = s.tasks[u]
      /\ r.tasks[t] = [s.tasks[t] EXCEPT !.status = "running", !.attempts = new]
  BY <1>1, <1>4
<1>6. r.tasks[t].attempts = new /\ r.tasks[t].status = "running" /\ r.tasks[t].outputs = s.tasks[t].outputs
  BY <1>1, <1>5 DEF TaskRecords
<1> QED BY <1>3, <1>4, <1>5, <1>6 DEF r, fresh, Latest

(***************************************************************************)
(* _validate_attempt accepts the attempt records the runner makes.         *)
(***************************************************************************)

\* A fresh attempt.
LEMMA NewAttemptShape ==
    ASSUME NEW before, NEW t
    PROVE  AttemptShape(NewAttempt(before), t) /\ NewAttempt(before).status = "running"
BY DEF NewAttempt, AttemptShape, ScopeShape, Terminal

\* An attempt whose child has been identified.
LEMMA IdentifiedShape ==
    ASSUME NEW a \in Attempts, NEW t, AttemptShape(a, t), a.status = "running",
           NEW b, b = [a EXCEPT !.guard = FALSE, !.child = TRUE, !.closure = "active"]
    PROVE  AttemptShape(b, t) /\ b.status = "running"
<1>1. /\ b.status = "running" /\ b.guard = FALSE /\ b.child = TRUE /\ b.closure = "active" /\ b.rc = a.rc
      /\ b.after = a.after /\ b.recovered = a.recovered /\ b.quarantined = a.quarantined /\ b.outputs = a.outputs
  BY DEF Attempts
<1> QED BY <1>1 DEF AttemptShape, ScopeShape, Terminal

\* An interrupted or failed attempt at the start of its recovery.
LEMMA InterruptedShape ==
    ASSUME NEW a \in Attempts, NEW t, AttemptShape(a, t), a.status \in Terminal \cup {"running"},
           a.status = "running" => LaunchResolved(a), ws \in Trees
    PROVE  /\ AttemptShape(Interrupted(a), t) /\ Interrupted(a).status \in Terminal
           /\ Interrupted(a).quarantined = a.quarantined
<1> DEFINE b == Interrupted(a)
<1>1. /\ b.status = (IF a.status = "running" THEN "interrupted" ELSE a.status)
      /\ b.closure = (IF a.status = "running" THEN "empty" ELSE a.closure)
      /\ b.rc = (IF a.status = "running" /\ a.child THEN "unavailable" ELSE a.rc)
      /\ b.after = (IF a.after = Nil THEN ws ELSE a.after)
      /\ b.guard = a.guard /\ b.child = a.child
      /\ b.recovered = a.recovered /\ b.quarantined = a.quarantined /\ b.outputs = a.outputs
  BY DEF Interrupted, Attempts
<1>2. b.after # Nil
  BY <1>1, NilAssumption
<1>. HIDE DEF b
<1>3. CASE a.status = "running"
  <2>1. /\ b.status = "interrupted" /\ b.closure = "empty" /\ b.rc = "unavailable" /\ ~b.guard /\ b.child
        /\ b.recovered = Nil /\ b.quarantined = Nil /\ b.outputs = Nil /\ b.quarantined = a.quarantined
    BY <1>1, <1>3 DEF LaunchResolved, AttemptShape
  <2> QED BY <1>2, <2>1 DEF AttemptShape, ScopeShape, Terminal, b
<1>4. CASE a.status # "running"
  <2>1. a.status \in Terminal /\ a.after # Nil
    BY <1>4 DEF AttemptShape
  <2>2. /\ b.status = a.status /\ b.closure = a.closure /\ b.rc = a.rc /\ b.after = a.after
    BY <1>1, <1>4, <2>1
  <2>3. AttemptShape(b, t)
    BY <1>1, <2>1, <2>2 DEF AttemptShape, ScopeShape
  <2> QED BY <1>1, <2>1, <2>2, <2>3 DEF b
<1> QED BY <1>3, <1>4

\* An attempt whose files are in quarantine.
LEMMA RecoveredShape ==
    ASSUME NEW a \in Attempts, NEW t, AttemptShape(a, t), a.status \in Terminal, a.quarantined = Nil,
           ws \in Trees, moved \in PartialTrees, DOMAIN moved \subseteq OutputSet(t),
           NEW b, b = [a EXCEPT !.quarantined = moved, !.recovered = ws]
    PROVE  AttemptShape(b, t) /\ b.status \in Terminal /\ b.quarantined # Nil
<1>1. /\ b.status = a.status /\ b.guard = a.guard /\ b.child = a.child /\ b.closure = a.closure /\ b.rc = a.rc
      /\ b.after = a.after /\ b.recovered = ws /\ b.quarantined = moved /\ b.outputs = a.outputs
  BY DEF Attempts
<1>2. ws # Nil /\ moved # Nil
  BY NilAssumption
<1>3. b.recovered # Nil /\ b.quarantined # Nil
  BY <1>1, <1>2
<1> QED BY <1>1, <1>3 DEF AttemptShape, ScopeShape, Terminal

\* The attempt record in task_completed.
AsCompleted(a, outputs) == [a EXCEPT !.status = "completed", !.rc = "known", !.after = ws, !.outputs = outputs]

\* A completed attempt.
LEMMA CompletedShape ==
    ASSUME NEW a \in Attempts, NEW t \in Tasks, Unrecorded(a), a.child = TRUE, ws \in Trees,
           NEW outputs \in PartialTrees, DOMAIN outputs = OutputSet(t)
    PROVE  LET b == AsCompleted(a, outputs)
           IN  AttemptShape(b, t) /\ b.status = "completed" /\ b.outputs = outputs
<1> DEFINE b == AsCompleted(a, outputs)
<1>1. /\ b.status = "completed" /\ b.guard = a.guard /\ b.child = a.child /\ b.closure = a.closure /\ b.rc = "known"
      /\ b.after = ws /\ b.recovered = a.recovered /\ b.quarantined = a.quarantined /\ b.outputs = outputs
  BY DEF Attempts, AsCompleted
<1>. HIDE DEF b
<1>2. ws # Nil /\ outputs # Nil
  BY NilAssumption
<1>3. b.after # Nil /\ b.outputs # Nil
  BY <1>1, <1>2
<1> QED BY <1>1, <1>3 DEF AttemptShape, ScopeShape, Terminal, Unrecorded, b

\* A failed or interrupted attempt.
LEMMA FailedShape ==
    ASSUME NEW a \in Attempts, NEW t, Unrecorded(a), ws \in Trees, a.child \in BOOLEAN,
           NEW b, b = [a EXCEPT !.guard = FALSE, !.after = ws,
                                !.status = IF outcome = "interrupted" THEN "interrupted" ELSE "failed",
                                !.rc = IF a.child THEN "known" ELSE "null"]
    PROVE  AttemptShape(b, t) /\ b.status \in Terminal /\ b.quarantined = Nil
<1>1. /\ b.status = (IF outcome = "interrupted" THEN "interrupted" ELSE "failed")
      /\ b.guard = FALSE /\ b.child = a.child /\ b.closure = a.closure
      /\ b.rc = (IF a.child THEN "known" ELSE "null")
      /\ b.after = ws /\ b.recovered = a.recovered /\ b.quarantined = a.quarantined /\ b.outputs = a.outputs
  BY DEF Attempts
<1>2. b.after # Nil
  BY <1>1, NilAssumption
<1>3. CASE a.child
  <2>1. b.rc = "known" /\ b.child
    BY <1>1, <1>3
  <2>2. b.closure = "empty" /\ ~b.guard /\ b.recovered = Nil /\ b.quarantined = Nil /\ b.outputs = Nil
    BY <1>1 DEF Unrecorded
  <2>3. b.status \in Terminal /\ b.status # "running" /\ b.status # "completed"
    BY SMTT(60), <1>1 DEF Terminal
  <2> QED BY <1>2, <2>1, <2>2, <2>3 DEF AttemptShape, ScopeShape
<1>4. CASE ~a.child
  BY <1>1, <1>2, <1>4 DEF AttemptShape, ScopeShape, Terminal, Unrecorded
<1> QED BY <1>3, <1>4

(***************************************************************************)
(* _validate_state_shape accepts the states the runner makes.              *)
(***************************************************************************)

\* The last attempt of a task and the task's own record agree.
LatestFits(s, t) ==
    /\ (s.tasks[t].status = "completed") <=> (s.tasks[t].outputs # Nil)
    /\ \/ s.tasks[t].status = "pending" /\ Latest(s, t).status \in Terminal /\ Latest(s, t).quarantined # Nil
       \/ s.tasks[t].status = "running" /\ Latest(s, t).status = "running"
       \/ s.tasks[t].status = "failed" /\ Latest(s, t).status \in Terminal /\ Latest(s, t).quarantined = Nil
       \/ /\ s.tasks[t].status = "completed"
          /\ Latest(s, t).status = "completed" /\ Latest(s, t).outputs = s.tasks[t].outputs

\* The fields of a state besides its tasks.
HeaderFits(s) ==
    /\ s.status \in {"running", "failed", "completed"}
    /\ Len(s.event_log) <= MaxEvents
    /\ s.pending # Nil => Len(s.event_log) < MaxEvents
    /\ s.status = "completed" => AllCompleted(s) /\ ~s.error
    /\ s.status = "failed" => s.error

\* New values of the header fields.
LEMMA HeaderShape ==
    ASSUME NEW s, StateBody(s), NEW r, r.tasks = s.tasks, HeaderFits(r)
    PROVE  StateBody(r)
<1>1. \A t \in Tasks : TaskShape(r, t)
  BY DEF StateBody, TaskShape, Latest
<1>2. OrderedPrefix(r)
  BY DEF StateBody, OrderedPrefix, Completed
<1> QED BY <1>1, <1>2 DEF StateBody, HeaderFits

\* What follows the task a run stands at stays untouched.
LEMMA PrefixKept ==
    ASSUME NEW s, OrderedPrefix(s), NEW t \in Tasks, At(s, t),
           NEW r, \A u \in Tasks : u # t => r.tasks[u] = s.tasks[u]
    PROVE  OrderedPrefix(r)
<1> SUFFICES ASSUME NEW v \in Tasks, NEW u \in Tasks, v < u, ~Completed(r, v)
             PROVE  r.tasks[u].status = "pending" /\ r.tasks[u].attempts = << >>
  BY DEF OrderedPrefix
<1>1. ~(v < t)
  <2>1. v < t => v # t /\ Completed(s, v)
    BY SMTT(60), SuiteAssumption DEF At, Tasks
  <2> QED BY <2>1 DEF Completed
<1>2. t < u /\ u # t
  BY SMTT(60), <1>1, SuiteAssumption DEF Tasks
<1>3. s.tasks[u].status = "pending" /\ s.tasks[u].attempts = << >>
  BY <1>2 DEF At, OrderedPrefix
<1> QED BY <1>2, <1>3

\* A new record of the latest attempt of the task a run stands at.
LEMMA TouchedShape ==
    ASSUME NEW s \in States, StateBody(s), NEW t \in Tasks, At(s, t), s.tasks[t].status \in {"running", "failed"},
           NEW r \in States, Touches(r, s, t), AttemptShape(Latest(r, t), t), LatestFits(r, t), HeaderFits(r)
    PROVE  StateBody(r)
<1> DEFINE n == Len(s.tasks[t].attempts)
<1>1. TaskShape(s, t) /\ n \in Nat /\ n > 0 /\ n <= MaxAttemptsPerTask
  <2>1. TaskShape(s, t) /\ n \in Nat
    BY StateTypes DEF StateBody
  <2> QED BY <2>1 DEF TaskShape
<1>2. \A i \in 1..n : AttemptShape(s.tasks[t].attempts[i], t)
  BY <1>1 DEF TaskShape
<1>3. \A i \in 1..(n - 1) : s.tasks[t].attempts[i].status \in Terminal /\ s.tasks[t].attempts[i].quarantined # Nil
  BY <1>1 DEF TaskShape
<1>4. Len(r.tasks[t].attempts) = n /\ \A i \in 1..(n - 1) : r.tasks[t].attempts[i] = s.tasks[t].attempts[i]
  BY DEF Touches
<1>. HIDE DEF n
<1>5. \A i \in 1..n : i \in 1..(n - 1) \/ i = n
  BY SMTT(60), <1>1
<1>6. Latest(r, t) = r.tasks[t].attempts[n]
  BY <1>4 DEF Latest
<1>7. \A i \in 1..n : AttemptShape(r.tasks[t].attempts[i], t)
  BY <1>2, <1>4, <1>5, <1>6
<1>8. TaskShape(r, t)
  <2>1. \A i \in 1..(n - 1) : r.tasks[t].attempts[i].status \in Terminal /\ r.tasks[t].attempts[i].quarantined # Nil
    BY <1>3, <1>4
  <2> QED BY <1>1, <1>4, <1>7, <2>1 DEF TaskShape, LatestFits
<1>9. \A u \in Tasks : TaskShape(r, u)
  <2>1. ASSUME NEW u \in Tasks, u # t PROVE TaskShape(r, u)
    <3>1. r.tasks[u] = s.tasks[u] /\ TaskShape(s, u)
      BY <2>1 DEF Touches, StateBody
    <3> QED BY <3>1 DEF TaskShape, Latest
  <2> QED BY <1>8, <2>1
<1>10. OrderedPrefix(r)
  BY PrefixKept DEF Touches, StateBody
<1> QED BY <1>9, <1>10 DEF StateBody, HeaderFits

\* A new attempt of the task a run stands at.
LEMMA ExtendedShape ==
    ASSUME NEW s \in States, StateBody(s), NEW t \in Tasks, At(s, t), s.tasks[t].status = "pending",
           Len(s.tasks[t].attempts) < MaxAttemptsPerTask,
           NEW r \in States, \A u \in Tasks : u # t => r.tasks[u] = s.tasks[u],
           Len(r.tasks[t].attempts) = Len(s.tasks[t].attempts) + 1,
           \A i \in 1..Len(s.tasks[t].attempts) : r.tasks[t].attempts[i] = s.tasks[t].attempts[i],
           AttemptShape(Latest(r, t), t), LatestFits(r, t), HeaderFits(r)
    PROVE  StateBody(r)
<1> DEFINE n == Len(s.tasks[t].attempts)
<1>1. TaskShape(s, t) /\ n \in Nat
  BY StateTypes DEF StateBody
<1>2. \A i \in 1..n : AttemptShape(s.tasks[t].attempts[i], t)
  BY <1>1 DEF TaskShape
<1>3. \A i \in 1..(n - 1) : s.tasks[t].attempts[i].status \in Terminal /\ s.tasks[t].attempts[i].quarantined # Nil
  BY <1>1 DEF TaskShape
<1>4. n > 0 => s.tasks[t].attempts[n].status \in Terminal /\ s.tasks[t].attempts[n].quarantined # Nil
  BY <1>1 DEF TaskShape, Latest
<1>. HIDE DEF n
<1>5. /\ n + 1 <= MaxAttemptsPerTask /\ n + 1 > 0 /\ (n + 1) - 1 = n
      /\ \A i \in 1..(n + 1) : i \in 1..n \/ i = n + 1
      /\ \A i \in 1..n : i \in 1..(n - 1) \/ (i = n /\ n > 0)
  BY SMTT(60), <1>1, LimitAssumption DEF n
<1>6. Len(r.tasks[t].attempts) = n + 1 /\ \A i \in 1..n : r.tasks[t].attempts[i] = s.tasks[t].attempts[i]
  BY DEF n
<1>7. \A i \in 1..(n + 1) : AttemptShape(r.tasks[t].attempts[i], t)
  BY <1>2, <1>5, <1>6 DEF Latest
<1>8. \A i \in 1..n : r.tasks[t].attempts[i].status \in Terminal /\ r.tasks[t].attempts[i].quarantined # Nil
  BY <1>3, <1>4, <1>5, <1>6
<1>9. TaskShape(r, t)
  BY <1>5, <1>6, <1>7, <1>8 DEF TaskShape, LatestFits
<1>10. \A u \in Tasks : TaskShape(r, u)
  <2>1. ASSUME NEW u \in Tasks, u # t PROVE TaskShape(r, u)
    <3>1. r.tasks[u] = s.tasks[u] /\ TaskShape(s, u)
      BY <2>1 DEF StateBody
    <3> QED BY <3>1 DEF TaskShape, Latest
  <2> QED BY <1>9, <2>1
<1>11. OrderedPrefix(r)
  BY PrefixKept DEF StateBody
<1> QED BY <1>10, <1>11 DEF StateBody, HeaderFits

(***************************************************************************)
(* What a state may become.                                                *)
(***************************************************************************)

\* A new record of the latest attempt of a task that is running or failed.
LEMMA TouchedGrows ==
    ASSUME NEW s \in States, StateBody(s), NEW t \in Tasks, s.tasks[t].status \in {"running", "failed"},
           NEW r, Touches(r, s, t)
    PROVE  Grows(s, r)
<1> DEFINE n == Len(s.tasks[t].attempts)
<1>1. TaskShape(s, t) /\ n \in Nat /\ s.tasks[t].attempts \in Seq(Attempts)
  BY StateTypes DEF StateBody
<1>2. DOMAIN s.tasks[t].attempts = 1..n
  BY SMTT(60), <1>1
<1>3. \A i \in 1..n : i \in 1..(n - 1) \/ i = n
  BY SMTT(60), <1>1
<1>4. n > 0 /\ AttemptShape(s.tasks[t].attempts[n], t)
  <2>1. n > 0 BY <1>1 DEF TaskShape
  <2>2. n \in 1..n BY SMTT(60), <1>1, <2>1
  <2> QED BY <1>1, <2>1, <2>2 DEF TaskShape
<1>5. s.tasks[t].attempts[n].quarantined = Nil
  BY <1>1, <1>4 DEF TaskShape, Latest, AttemptShape
<1>6. \A i \in DOMAIN s.tasks[t].attempts :
        s.tasks[t].attempts[i].quarantined # Nil => r.tasks[t].attempts[i] = s.tasks[t].attempts[i]
  BY <1>2, <1>3, <1>5 DEF Touches
<1>7. ~Completed(s, t) /\ Len(r.tasks[t].attempts) = n
  BY DEF Completed, Touches
<1>8. ASSUME NEW u \in Tasks, u # t
      PROVE  /\ Completed(s, u) => r.tasks[u] = s.tasks[u]
             /\ Len(r.tasks[u].attempts) \in {Len(s.tasks[u].attempts), Len(s.tasks[u].attempts) + 1}
             /\ \A i \in DOMAIN s.tasks[u].attempts :
                   s.tasks[u].attempts[i].quarantined # Nil => r.tasks[u].attempts[i] = s.tasks[u].attempts[i]
  <2>1. r.tasks[u] = s.tasks[u] BY <1>8 DEF Touches
  <2> QED BY <2>1
<1> QED BY <1>6, <1>7, <1>8 DEF Grows

\* The same tasks.
LEMMA SameGrows == ASSUME NEW s, NEW r, r.tasks = s.tasks PROVE Grows(s, r)
BY DEF Grows

\* A new attempt.
LEMMA ExtendedGrows ==
    ASSUME NEW s \in States, NEW t \in Tasks, s.tasks[t].status = "pending",
           NEW r, \A u \in Tasks : u # t => r.tasks[u] = s.tasks[u],
           Len(r.tasks[t].attempts) = Len(s.tasks[t].attempts) + 1,
           \A i \in 1..Len(s.tasks[t].attempts) : r.tasks[t].attempts[i] = s.tasks[t].attempts[i]
    PROVE  Grows(s, r)
<1>1. s.tasks[t].attempts \in Seq(Attempts)
  BY StateTypes
<1>2. DOMAIN s.tasks[t].attempts = 1..Len(s.tasks[t].attempts)
  BY SMTT(60), <1>1
<1> QED BY <1>2 DEF Grows, Completed

\* The runner's copy and state.json while the runner is at a task that is not completed.
LEMMA Standing ==
    ASSUME EngineInv, StoreInv, pc \in {"loop", "quarantine", "stderr", "observe"} \cup Managing,
           cur \in Tasks, mem.tasks[cur].status # "completed"
    PROVE  /\ mem \in States /\ disk \in States /\ Recorded(mem) /\ Recorded(disk) /\ disk # Nil /\ StateBody(disk)
           /\ At(mem, cur) /\ At(disk, cur) /\ Touches(mem, disk, cur)
           /\ mem.tasks[cur].status = disk.tasks[cur].status /\ mem.tasks[cur].outputs = disk.tasks[cur].outputs
           /\ disk.tasks[cur].outputs = Nil
           /\ mem.status = disk.status /\ mem.error = disk.error /\ disk.status # "completed"
           /\ mem.pending = Nil /\ disk.pending = Nil /\ mem.event_log = log /\ disk.event_log = log
<1>1. pc \in Working
  BY DEF Working
<1>2. mem \in States /\ Recorded(mem) /\ mem # Nil
  BY <1>1, SameBuilt, NilAssumption
<1>3. disk # Nil /\ disk \in States /\ Recorded(disk) /\ StateBody(disk)
  BY DEF EngineInv, LedgerInv, TypeOK, RecordInv, StoreInv, ShapeInv, Managing
<1>4. /\ Touches(mem, disk, cur)
      /\ mem.tasks[cur].status = disk.tasks[cur].status /\ mem.tasks[cur].outputs = disk.tasks[cur].outputs
      /\ mem.status = disk.status /\ mem.error = disk.error
  <2>1. CASE mem = disk
    BY <2>1 DEF Touches
  <2>2. CASE mem # disk
    BY <2>2 DEF StoreInv, CopyInv, Managing
  <2> QED BY <2>1, <2>2
<1>5. At(mem, cur)
  BY <1>2 DEF At, StoreInv, CopyInv, Completed
<1>6. At(disk, cur)
  <2>1. \A u \in Tasks : u < cur => u # cur
    BY SMTT(60), SuiteAssumption DEF Tasks
  <2> QED BY <1>4, <1>5, <2>1 DEF At, Completed, Touches
<1>7. disk.tasks[cur].outputs = Nil
  BY <1>3, <1>4 DEF StateBody, TaskShape
<1>8. disk.status # "completed"
  BY <1>3, <1>4 DEF StateBody, AllCompleted, Completed
<1>9. mem.pending = Nil /\ disk.pending = Nil /\ mem.event_log = log /\ disk.event_log = log
  BY DEF EngineInv, LedgerInv, Committing, Managing
<1> QED BY <1>2, <1>3, <1>4, <1>5, <1>6, <1>7, <1>8, <1>9

\* The fields of the intent.
LEMMA IntentFields ==
    ASSUME NEW r, NEW s, Built(r, s), NEW e \in Events, NEW c, BeginCommit(r, e, c)
    PROVE  /\ mem' \in States /\ mem'.tasks = r.tasks /\ mem'.status = r.status /\ mem'.error = r.error
           /\ mem'.event_log = r.event_log /\ mem'.pending = e /\ e # Nil
           /\ Len(mem'.event_log) < MaxEvents /\ Len(mem'.event_log) <= MaxEvents
           /\ mem' # Nil /\ pc' = "intent" /\ next' = c
<1>1. r \in States /\ mem' = [r EXCEPT !.pending = e] /\ Len(r.event_log) < MaxEvents /\ pc' = "intent" /\ next' = c
  BY DEF Built, BeginCommit, CommitAllowed
<1>2. /\ mem' \in States /\ mem'.tasks = r.tasks /\ mem'.status = r.status /\ mem'.error = r.error
      /\ mem'.event_log = r.event_log /\ mem'.pending = e
  BY <1>1 DEF States
<1>3. Len(mem'.event_log) <= MaxEvents
  <2>1. mem'.event_log \in Seq(Events) BY <1>2 DEF States
  <2>2. Len(mem'.event_log) < MaxEvents BY <1>1, <1>2
  <2>. HIDE <1>1, <1>2
  <2> QED BY SMTT(60), <2>1, <2>2, LimitAssumption
<1> QED BY <1>1, <1>2, <1>3, NilAssumption

\* A commit begun with a record that fits keeps the second layer.
LEMMA StoreBegins ==
    ASSUME StoreInv, pc' = "intent", disk' = disk, StateBody(mem'), Grows(disk, mem'), mem' # Nil,
           \A u \in Tasks : u < cur' => Completed(mem', u),
           next' = "loop" => \A t \in Tasks : At(mem', t) => Len(mem'.tasks[t].attempts) < MaxAttemptsPerTask,
           bound' # Nil /\ mem'.pending.type = "run_resumed" =>
               /\ bound'.state = disk' /\ bound'.log = log'
               /\ bound'.logs = logs' /\ bound'.quarantine = quarantine',
           bundle' = bundle
    PROVE  StoreInv'
<1>1. CopyInv'
  BY DEF CopyInv, Completed, Grows
<1>2. ShapeInv'
  <2>1. disk' # Nil => StateBody(disk')
    BY DEF StoreInv, ShapeInv
  <2>2. StateBody(mem)' /\ (disk # Nil => StateBody(disk))'
    BY <2>1
  <2> QED BY <2>2 DEF ShapeInv
<1>3. BudgetInv'
  BY DEF BudgetInv, At, Completed, Committing
<1>4. ApprovalInv'
  BY DEF StoreInv, ApprovalInv
<1> QED BY <1>1, <1>2, <1>3, <1>4 DEF StoreInv

(***************************************************************************)
(* Every action keeps the second layer.                                    *)
(***************************************************************************)

\* The initial state has no record to fit.
LEMMA StoreInit == Init => StoreInv
BY DEF Init, StoreInv, CopyInv, ShapeInv, BudgetInv, ApprovalInv, Committing

\* task_recovery_prepared.
LEMMA RecoveryIntent ==
    ASSUME EngineInv, StoreInv, FinishRecovery
    PROVE  /\ cur \in Tasks /\ mem.tasks[cur].status \in {"running", "failed"} /\ mem' \in States /\ mem' # Nil
           /\ pc' = "intent" /\ next' = "loop" /\ Touches(mem', disk, cur) /\ Touches(mem', mem, cur)
           /\ mem'.tasks[cur].status = "pending" /\ Latest(mem, cur) \in Attempts
           /\ Latest(mem', cur) = [Latest(mem, cur) EXCEPT !.quarantined = moved, !.recovered = ws]
           /\ mem'.pending = Event("task_recovery_prepared", cur, AttemptNumber(mem, cur)) /\ mem'.pending.type = "task_recovery_prepared"
           /\ mem'.status = mem.status /\ StateBody(mem')
<1> DEFINE a == [Latest(mem, cur) EXCEPT !.quarantined = moved, !.recovered = ws]
           r == [SetLatest(mem, cur, a) EXCEPT !.tasks[cur].status = "pending"]
           e == Event("task_recovery_prepared", cur, AttemptNumber(mem, cur))
<1>1. pc = "quarantine" /\ cur \in Tasks /\ mem.tasks[cur].status \in {"running", "failed"}
  BY DEF FinishRecovery, EngineInv, LaunchInv
<1>2. /\ mem \in States /\ disk \in States /\ Recorded(mem) /\ StateBody(disk) /\ At(disk, cur)
      /\ Touches(mem, disk, cur) /\ disk.tasks[cur].status \in {"running", "failed"}
      /\ mem.tasks[cur].outputs = Nil /\ mem.status = disk.status /\ mem.error = disk.error /\ disk.status # "completed"
  BY <1>1, Standing
<1>3. ws \in Trees /\ moved \in PartialTrees
  BY DEF EngineInv, TypeOK
<1>4. Latest(mem, cur) \in Attempts
  BY <1>1, <1>2, LatestType
<1>5. a \in Attempts
  <2> HIDE DEF Latest
  <2> QED BY <1>3, <1>4 DEF Attempts
<1>6. AttemptShape(a, cur) /\ a.status \in Terminal /\ a.quarantined # Nil
  <2>1. /\ AttemptShape(Latest(mem, cur), cur) /\ Latest(mem, cur).status \in Terminal
        /\ Latest(mem, cur).quarantined = Nil /\ DOMAIN moved \subseteq OutputSet(cur)
    BY <1>1 DEF StoreInv, ShapeInv
  <2>. HIDE DEF Latest
  <2> QED BY <1>3, <1>4, <2>1, RecoveredShape
<1>7. e \in Events
  <2>1. AttemptNumber(mem, cur) \in AttemptNumbers BY <1>1, <1>2, LatestType
  <2> QED BY SMTT(60), <1>1, <2>1, SuiteAssumption, LimitAssumption
          DEF Event, Events, EventTypes, Tasks, AttemptNumbers
<1>8. Built(r, mem)
  BY <1>1, <1>2, <1>3, RecoveredType
<1>9. /\ Touches(r, mem, cur) /\ Latest(r, cur) = a /\ r.tasks[cur].status = "pending"
      /\ r.tasks[cur].outputs = Nil /\ r.status = mem.status /\ r.error = mem.error
  <2>. HIDE DEF a
  <2> QED BY <1>1, <1>2, <1>5, RecoveredRecord
<1>10. BeginCommit(r, e, "loop")
  BY DEF FinishRecovery
<1>. HIDE DEF r, e
<1>11. /\ mem' \in States /\ mem'.tasks = r.tasks /\ mem'.status = r.status /\ mem'.error = r.error
       /\ mem'.pending = e /\ Len(mem'.event_log) < MaxEvents /\ Len(mem'.event_log) <= MaxEvents
       /\ mem' # Nil /\ pc' = "intent" /\ next' = "loop"
  BY <1>7, <1>8, <1>10, IntentFields
<1>. HIDE DEF a
<1>12. /\ Touches(mem', mem, cur) /\ Latest(mem', cur) = a /\ mem'.tasks[cur].status = "pending"
       /\ mem'.tasks[cur].outputs = Nil
  BY <1>9, <1>11 DEF Touches, Latest
<1>13. Touches(mem', disk, cur)
  BY <1>1, <1>2, <1>12, TouchesTwice
<1>14. HeaderFits(mem')
  BY <1>2, <1>9, <1>11 DEF HeaderFits, StateBody
<1>15. LatestFits(mem', cur)
  BY <1>6, <1>12 DEF LatestFits
<1>16. StateBody(mem')
  BY <1>1, <1>2, <1>6, <1>11, <1>12, <1>13, <1>14, <1>15, TouchedShape
<1>17. e.type = "task_recovery_prepared"
  BY DEF e, Event
<1> QED BY <1>1, <1>4, <1>9, <1>11, <1>12, <1>13, <1>16, <1>17 DEF a, e

\* task_completed.
LEMMA CompletionIntent ==
    ASSUME EngineInv, StoreInv, CompleteAttempt
    PROVE  /\ cur \in Tasks /\ mem.tasks[cur].status = "running" /\ mem' \in States /\ mem' # Nil
           /\ pc' = "intent" /\ next' = "loop" /\ Touches(mem', disk, cur) /\ Touches(mem', mem, cur)
           /\ mem'.tasks[cur].status = "completed" /\ mem'.tasks[cur].outputs = Files(ws, OutputSet(cur))
           /\ Files(ws, OutputSet(cur)) \in [OutputSet(cur) -> Contents] /\ Latest(mem, cur) \in Attempts
           /\ Latest(mem', cur) = [Latest(mem, cur) EXCEPT !.status = "completed", !.rc = "known", !.after = ws,
                                                           !.outputs = Files(ws, OutputSet(cur))]
           /\ mem'.pending = Event("task_completed", cur, AttemptNumber(mem, cur)) /\ mem'.pending.type = "task_completed"
           /\ mem'.status = mem.status /\ StateBody(mem')
<1> DEFINE outputs == Files(ws, OutputSet(cur))
           a == [Latest(mem, cur) EXCEPT !.status = "completed", !.rc = "known", !.after = ws, !.outputs = outputs]
           r == WithCompletion(mem, cur)
           e == Event("task_completed", cur, AttemptNumber(mem, cur))
<1>1. pc = "observe" /\ cur \in Tasks /\ mem.tasks[cur].status = "running" /\ outcome = "ok"
  BY DEF CompleteAttempt, EngineInv, LaunchInv
<1>2. /\ mem \in States /\ disk \in States /\ Recorded(mem) /\ StateBody(disk) /\ At(disk, cur)
      /\ Touches(mem, disk, cur) /\ disk.tasks[cur].status = "running"
      /\ mem.status = disk.status /\ mem.error = disk.error /\ disk.status # "completed"
  BY <1>1, Standing
<1>3. ws \in Trees /\ \A p \in OutputSet(cur) : ws[p] # Absent
  BY DEF EngineInv, TypeOK, CompleteAttempt, OutputsAcceptable
<1>4. Latest(mem, cur) \in Attempts
  BY <1>1, <1>2, LatestType
<1>5. /\ Touches(r, mem, cur) /\ outputs \in [OutputSet(cur) -> Contents] /\ outputs \in PartialTrees
      /\ Latest(r, cur) = a /\ r.tasks[cur].status = "completed" /\ r.tasks[cur].outputs = outputs
      /\ r.status = mem.status /\ r.error = mem.error
  BY <1>1, <1>2, <1>3, CompletedRecord
<1>6. Unrecorded(Latest(mem, cur)) /\ Latest(mem, cur).child
  BY <1>1, <1>4 DEF StoreInv, ShapeInv, Unrecorded, Attempts
<1>. HIDE DEF outputs
<1>7. AttemptShape(a, cur) /\ a.status = "completed" /\ a.outputs = outputs
  <2>1. DOMAIN outputs = OutputSet(cur) /\ outputs \in PartialTrees BY <1>5
  <2>2. Latest(mem, cur).child = TRUE BY <1>4, <1>6 DEF Attempts
  <2>3. AttemptShape(AsCompleted(Latest(mem, cur), outputs), cur)
        /\ AsCompleted(Latest(mem, cur), outputs).status = "completed"
        /\ AsCompleted(Latest(mem, cur), outputs).outputs = outputs
    BY <1>1, <1>3, <1>4, <1>6, <2>1, <2>2, CompletedShape
  <2> QED BY <2>3 DEF AsCompleted
<1>8. e \in Events
  <2>1. AttemptNumber(mem, cur) \in AttemptNumbers BY <1>1, <1>2, LatestType
  <2> QED BY SMTT(60), <1>1, <2>1, SuiteAssumption, LimitAssumption
          DEF Event, Events, EventTypes, Tasks, AttemptNumbers
<1>9. Built(r, mem)
  BY <1>1, <1>2, <1>3, CompletionBuilt
<1>10. BeginCommit(r, e, "loop")
  BY DEF CompleteAttempt
<1>. HIDE DEF r, e, a
<1>11. /\ mem' \in States /\ mem'.tasks = r.tasks /\ mem'.status = r.status /\ mem'.error = r.error
       /\ mem'.pending = e /\ Len(mem'.event_log) < MaxEvents /\ Len(mem'.event_log) <= MaxEvents
       /\ mem' # Nil /\ pc' = "intent" /\ next' = "loop"
  BY <1>8, <1>9, <1>10, IntentFields
<1>12. /\ Touches(mem', mem, cur) /\ Latest(mem', cur) = a /\ mem'.tasks[cur].status = "completed"
       /\ mem'.tasks[cur].outputs = outputs
  BY <1>5, <1>11 DEF Touches, Latest
<1>13. Touches(mem', disk, cur)
  BY <1>1, <1>2, <1>12, TouchesTwice
<1>14. HeaderFits(mem')
  BY <1>2, <1>5, <1>11 DEF HeaderFits, StateBody
<1>15. LatestFits(mem', cur)
  BY <1>5, <1>7, <1>12, NilAssumption DEF LatestFits
<1>16. StateBody(mem')
  BY <1>1, <1>2, <1>7, <1>11, <1>12, <1>13, <1>14, <1>15, TouchedShape
<1>17. e.type = "task_completed"
  BY DEF e, Event
<1> QED BY <1>1, <1>4, <1>5, <1>11, <1>12, <1>13, <1>16, <1>17 DEF a, e, outputs

\* task_failed.
LEMMA FailureIntent ==
    ASSUME EngineInv, StoreInv, FailAttempt
    PROVE  /\ cur \in Tasks /\ mem.tasks[cur].status = "running" /\ mem' \in States /\ mem' # Nil
           /\ pc' = "intent" /\ next' = "idle" /\ Touches(mem', disk, cur) /\ Touches(mem', mem, cur)
           /\ mem'.tasks[cur].status = "failed"
           /\ Latest(mem', cur).after = ws /\ Latest(mem', cur).before = Latest(mem, cur).before
           /\ Latest(mem', cur).status \in Terminal /\ Latest(mem', cur).quarantined = Nil
           /\ mem'.pending = Event("task_failed", cur, AttemptNumber(mem, cur)) /\ mem'.pending.type = "task_failed"
           /\ mem'.status = "failed" /\ StateBody(mem')
<1> DEFINE a == [Latest(mem, cur) EXCEPT !.guard = FALSE, !.after = ws,
                                         !.status = IF outcome = "interrupted" THEN "interrupted" ELSE "failed",
                                         !.rc = IF Latest(mem, cur).child THEN "known" ELSE "null"]
           r == WithFailure(mem, cur, outcome)
           e == Event("task_failed", cur, AttemptNumber(mem, cur))
<1>1. pc = "observe" /\ cur \in Tasks /\ mem.tasks[cur].status = "running"
  BY DEF FailAttempt, EngineInv, LaunchInv
<1>2. /\ mem \in States /\ disk \in States /\ Recorded(mem) /\ StateBody(disk) /\ At(disk, cur)
      /\ Touches(mem, disk, cur) /\ disk.tasks[cur].status = "running" /\ mem.tasks[cur].outputs = Nil
  BY <1>1, Standing
<1>3. ws \in Trees /\ outcome \in {"ok", "failed", "interrupted"}
  BY DEF EngineInv, TypeOK
<1>4. Latest(mem, cur) \in Attempts
  BY <1>1, <1>2, LatestType
<1>5. /\ Touches(r, mem, cur) /\ Latest(r, cur) = a
      /\ r.tasks[cur].status = "failed" /\ r.tasks[cur].outputs = Nil
      /\ r.status = "failed" /\ r.error = TRUE
  <2>0. Touches(WithFailure(mem, cur, outcome), mem, cur)
    BY <1>1, <1>2, <1>3, FailedRecord
  <2>1. Touches(r, mem, cur) /\ Latest(r, cur) = a
    BY <1>1, <1>2, <1>3, <2>0, FailedRecord
  <2>2. r.tasks[cur].status = "failed" /\ r.tasks[cur].outputs = mem.tasks[cur].outputs
    BY <1>1, <1>2, <1>3, FailedRecord
  <2>3. r.status = "failed" /\ r.error = TRUE
    BY <1>1, <1>2, <1>3, FailedRecord
  <2> QED BY <1>2, <2>1, <2>2, <2>3
<1>6. Unrecorded(Latest(mem, cur)) /\ Latest(mem, cur).child \in BOOLEAN
  BY <1>1, <1>4 DEF StoreInv, ShapeInv, Attempts
<1>7. AttemptShape(a, cur) /\ a.status \in Terminal /\ a.quarantined = Nil
  <2>. HIDE DEF Latest
  <2> QED BY <1>3, <1>4, <1>6, FailedShape
<1>8. a.after = ws /\ a.before = Latest(mem, cur).before
  <2>. HIDE DEF Latest
  <2> QED BY <1>4 DEF Attempts
<1>9. e \in Events
  <2>1. AttemptNumber(mem, cur) \in AttemptNumbers BY <1>1, <1>2, LatestType
  <2> QED BY SMTT(60), <1>1, <2>1, SuiteAssumption, LimitAssumption
          DEF Event, Events, EventTypes, Tasks, AttemptNumbers
<1>10. Built(r, mem)
  BY <1>1, <1>2, <1>3, FailureBuilt
<1>11. BeginCommit(r, e, "idle")
  BY DEF FailAttempt
<1>. HIDE DEF r, e, a
<1>12. /\ mem' \in States /\ mem'.tasks = r.tasks /\ mem'.status = r.status /\ mem'.error = r.error
       /\ mem'.pending = e /\ Len(mem'.event_log) < MaxEvents /\ Len(mem'.event_log) <= MaxEvents
       /\ mem' # Nil /\ pc' = "intent" /\ next' = "idle"
  BY <1>9, <1>10, <1>11, IntentFields
<1>13. /\ Touches(mem', mem, cur) /\ Latest(mem', cur) = a /\ mem'.tasks[cur].status = "failed"
       /\ mem'.tasks[cur].outputs = Nil
  BY <1>5, <1>12 DEF Touches, Latest
<1>14. Touches(mem', disk, cur)
  BY <1>1, <1>2, <1>13, TouchesTwice
<1>15. HeaderFits(mem')
  BY <1>5, <1>12 DEF HeaderFits
<1>16. LatestFits(mem', cur)
  BY <1>7, <1>13 DEF LatestFits
<1>17. StateBody(mem')
  BY <1>1, <1>2, <1>7, <1>12, <1>13, <1>14, <1>15, <1>16, TouchedShape
<1>18. e.type = "task_failed"
  BY DEF e, Event
<1> QED BY <1>1, <1>5, <1>7, <1>8, <1>12, <1>13, <1>14, <1>17, <1>18 DEF e

\* task_started.
LEMMA StartIntent ==
    ASSUME EngineInv, StoreInv, StartAttempt
    PROVE  /\ cur \in Tasks /\ mem = disk /\ disk.tasks[cur].status = "pending" /\ mem' \in States /\ mem' # Nil
           /\ pc' = "intent" /\ next' = "launch" /\ Len(disk.tasks[cur].attempts) < MaxAttemptsPerTask
           /\ \A u \in Tasks : u # cur => mem'.tasks[u] = disk.tasks[u]
           /\ Len(mem'.tasks[cur].attempts) = Len(disk.tasks[cur].attempts) + 1
           /\ \A i \in 1..Len(disk.tasks[cur].attempts) : mem'.tasks[cur].attempts[i] = disk.tasks[cur].attempts[i]
           /\ Latest(mem', cur) = NewAttempt(CleanTree(disk)) /\ mem'.tasks[cur].status = "running"
           /\ mem'.pending = Event("task_started", cur, AttemptNumber(disk, cur) + 1)
           /\ mem'.pending.type = "task_started" /\ mem'.status = "running" /\ StateBody(mem')
<1> DEFINE n == Len(mem.tasks[cur].attempts)
           r == WithNewAttempt(mem, cur)
           e == Event("task_started", cur, n + 1)
<1>1. /\ pc = "stderr" /\ cur \in Tasks /\ mem.tasks[cur].status = "pending" /\ n < MaxAttemptsPerTask
  BY DEF StartAttempt, EngineInv, LaunchInv
<1>2. mem = disk
  BY <1>1 DEF StoreInv, CopyInv
<1>3. /\ mem \in States /\ Recorded(mem) /\ StateBody(mem) /\ At(mem, cur) /\ mem.tasks[cur].outputs = Nil
  BY <1>1, <1>2, Standing
<1>4. e \in Events
  <2>1. n \in Nat BY <1>1, <1>3, StateTypes
  <2>2. n + 1 \in 0..MaxAttemptsPerTask BY SMTT(60), <1>1, <2>1, LimitAssumption
  <2> QED BY SMTT(60), <1>1, <2>2, SuiteAssumption DEF Event, Events, EventTypes, Tasks
<1>5. /\ \A u \in Tasks : u # cur => r.tasks[u] = mem.tasks[u]
      /\ Len(r.tasks[cur].attempts) = n + 1 /\ Latest(r, cur) = NewAttempt(CleanTree(mem))
      /\ \A i \in 1..n : r.tasks[cur].attempts[i] = mem.tasks[cur].attempts[i]
      /\ r.tasks[cur].status = "running" /\ r.tasks[cur].outputs = Nil
      /\ r.status = "running" /\ r.error = FALSE
  BY <1>1, <1>3, StartedRecord
<1>6. Built(r, mem)
  BY <1>1, <1>3, NewAttemptBuilt
<1>7. BeginCommit(r, e, "launch")
  BY DEF StartAttempt, AttemptNumber
<1>. HIDE DEF r, e
<1>8. /\ mem' \in States /\ mem'.tasks = r.tasks /\ mem'.status = r.status /\ mem'.error = r.error
      /\ mem'.pending = e /\ Len(mem'.event_log) < MaxEvents /\ Len(mem'.event_log) <= MaxEvents
      /\ mem' # Nil /\ pc' = "intent" /\ next' = "launch"
  BY <1>4, <1>6, <1>7, IntentFields
<1>. HIDE DEF n
<1>9. /\ \A u \in Tasks : u # cur => mem'.tasks[u] = mem.tasks[u]
      /\ Len(mem'.tasks[cur].attempts) = n + 1 /\ Latest(mem', cur) = NewAttempt(CleanTree(mem))
      /\ \A i \in 1..n : mem'.tasks[cur].attempts[i] = mem.tasks[cur].attempts[i]
      /\ mem'.tasks[cur].status = "running" /\ mem'.tasks[cur].outputs = Nil
  BY <1>5, <1>8 DEF Latest
<1>10. AttemptShape(Latest(mem', cur), cur) /\ Latest(mem', cur).status = "running"
  BY <1>9, NewAttemptShape
<1>11. HeaderFits(mem') /\ LatestFits(mem', cur)
  BY <1>5, <1>8, <1>9, <1>10 DEF HeaderFits, LatestFits
<1>12. StateBody(mem')
  BY <1>1, <1>3, <1>8, <1>9, <1>10, <1>11, ExtendedShape DEF n
<1>13. e.type = "task_started"
  BY DEF e, Event
<1> QED BY <1>1, <1>2, <1>5, <1>8, <1>9, <1>12, <1>13 DEF n, e, AttemptNumber

\* run_resumed and run_completed.
LEMMA HeaderIntent ==
    ASSUME EngineInv, NEW status \in {"running", "completed"}, NEW e \in Events, NEW c, mem \in States, Recorded(mem),
           StateBody(mem), status = "completed" => AllCompleted(mem),
           BeginCommit([mem EXCEPT !.status = status, !.error = FALSE], e, c)
    PROVE  /\ mem'.tasks = mem.tasks /\ mem'.status = status /\ StateBody(mem') /\ mem' # Nil
           /\ pc' = "intent" /\ next' = c /\ mem'.pending = e
<1> DEFINE r == [mem EXCEPT !.status = status, !.error = FALSE]
<1>1. r.tasks = mem.tasks /\ r.status = status /\ r.error = FALSE
  BY DEF States
<1>2. Built(r, mem)
  <2>1. log \in Seq(Events) BY DEF EngineInv, TypeOK
  <2> QED BY <2>1, HeaderType
<1>3. BeginCommit(r, e, c)
  BY DEF r
<1>. HIDE DEF r
<1>4. /\ mem'.tasks = mem.tasks /\ mem'.status = status /\ mem'.error = FALSE /\ mem'.pending = e
      /\ Len(mem'.event_log) < MaxEvents /\ Len(mem'.event_log) <= MaxEvents
      /\ mem' # Nil /\ pc' = "intent" /\ next' = c
  BY <1>1, <1>2, <1>3, IntentFields
<1>5. HeaderFits(mem')
  BY <1>4 DEF HeaderFits, AllCompleted, Completed
<1> QED BY <1>4, <1>5, HeaderShape

\* The steps that begin a commit, from admission to the end of the run.
LEMMA StoreBeginSteps ==
    EngineInv /\ StoreInv
        /\ (AdmitResume \/ FinishRecovery \/ StartAttempt \/ CompleteAttempt \/ FailAttempt \/ CompleteRun) => StoreInv'
<1> SUFFICES ASSUME EngineInv, StoreInv
             PROVE  AdmitResume \/ FinishRecovery \/ StartAttempt \/ CompleteAttempt \/ FailAttempt \/ CompleteRun
                        => StoreInv'
  OBVIOUS
<1>1. \A type \in EventTypes : RunEvent(type) \in Events /\ RunEvent(type).type = type
  BY SMTT(60), SuiteAssumption, LimitAssumption DEF RunEvent, Event, Events
<1>3. CASE AdmitResume
  <2>1. /\ pc = "admit" /\ mem = disk /\ UNCHANGED <<disk, log, logs, quarantine, bundle, cur, bound>>
        /\ BeginCommit([mem EXCEPT !.status = "running", !.error = FALSE], RunEvent("run_resumed"), "loop")
        /\ AttemptBudget(mem) /\ (bound # Nil => bound = Evidence)
    BY <1>3 DEF AdmitResume, Admissible, DecisionCurrent, StoreInv, CopyInv, files
  <2>2. mem \in States /\ Recorded(mem) /\ StateBody(mem) /\ mem # Nil
    BY <2>1, SameBuilt, NilAssumption DEF Working, StoreInv, ShapeInv
  <2>3. mem'.tasks = disk.tasks /\ StateBody(mem') /\ mem' # Nil /\ pc' = "intent"
    BY <1>1, HeaderIntent, <2>1, <2>2 DEF EventTypes
  <2>4. \A u \in Tasks : u < cur' => Completed(mem', u)
    BY <2>1, <2>2, <2>3 DEF StoreInv, CopyInv, Completed
  <2>5. \A t \in Tasks : At(mem', t) => Len(mem'.tasks[t].attempts) < MaxAttemptsPerTask
    <3>1. \A t \in Tasks : At(mem', t) => At(mem, t)
      BY <2>1, <2>3 DEF At, Completed
    <3> QED BY <2>1, <2>2, <2>3, <3>1, StandsAtFirst DEF AttemptBudget, AttemptNumber
  <2>6. bound' # Nil => /\ bound'.state = disk' /\ bound'.log = log'
                        /\ bound'.logs = logs' /\ bound'.quarantine = quarantine'
    <3>1. bound # Nil => /\ bound.state = disk /\ bound.log = log
                         /\ bound.logs = logs /\ bound.quarantine = quarantine
      <4>1. /\ Evidence.state = disk /\ Evidence.log = log
            /\ Evidence.logs = logs /\ Evidence.quarantine = quarantine
        BY DEF Evidence
      <4> QED BY <2>1, <4>1
    <3> QED BY <2>1, <3>1
  <2> QED BY <2>1, <2>3, <2>4, <2>5, <2>6, SameGrows, StoreBegins
<1>4. CASE FinishRecovery
  <2>1. /\ cur \in Tasks /\ mem.tasks[cur].status \in {"running", "failed"} /\ mem' # Nil /\ mem' \in States
        /\ pc' = "intent" /\ next' = "loop" /\ Touches(mem', disk, cur) /\ Touches(mem', mem, cur)
        /\ mem'.tasks[cur].status = "pending" /\ mem'.pending.type = "task_recovery_prepared" /\ StateBody(mem')
    BY <1>4, RecoveryIntent
  <2>2. pc = "quarantine" /\ UNCHANGED <<disk, log, logs, quarantine, bundle, cur, bound>>
    BY <1>4 DEF FinishRecovery, files
  <2>3. At(mem, cur) /\ disk \in States /\ StateBody(disk) /\ disk.tasks[cur].status \in {"running", "failed"}
    BY <2>1, <2>2, Standing
  <2>4. At(mem', cur)
    <3>1. \A u \in Tasks : u < cur => u # cur
      BY SMTT(60), SuiteAssumption DEF Tasks
    <3> QED BY <2>1, <2>3, <3>1 DEF At, Completed, Touches
  <2>5. \A t \in Tasks : At(mem', t) => t = cur
    <3>1. FirstIncomplete(mem') = cur
      BY <2>1, <2>4, StandsAtFirst
    <3>2. \A t \in Tasks : At(mem', t) => FirstIncomplete(mem') = t
      BY <2>1, StandsAtFirst
    <3> QED BY <3>1, <3>2
  <2>6. Len(mem'.tasks[cur].attempts) < MaxAttemptsPerTask
    BY <2>1, <2>2, <2>3 DEF StoreInv, BudgetInv, Touches
  <2>7. \A u \in Tasks : u < cur' => Completed(mem', u)
    BY <2>2, <2>4 DEF At
  <2>8. Grows(disk, mem')
    BY <2>1, <2>3, TouchedGrows
  <2> QED BY <2>1, <2>2, <2>5, <2>6, <2>7, <2>8, StoreBegins
<1>5. CASE StartAttempt
  <2>1. /\ cur \in Tasks /\ mem = disk /\ disk.tasks[cur].status = "pending" /\ mem' # Nil
        /\ pc' = "intent" /\ next' = "launch"
        /\ \A u \in Tasks : u # cur => mem'.tasks[u] = disk.tasks[u]
        /\ Len(mem'.tasks[cur].attempts) = Len(disk.tasks[cur].attempts) + 1
        /\ \A i \in 1..Len(disk.tasks[cur].attempts) : mem'.tasks[cur].attempts[i] = disk.tasks[cur].attempts[i]
        /\ mem'.pending.type = "task_started" /\ StateBody(mem')
    BY <1>5, StartIntent
  <2>2. pc = "stderr" /\ UNCHANGED <<disk, bundle, cur>>
    BY <1>5 DEF StartAttempt
  <2>3. At(disk, cur) /\ disk \in States
    BY <2>1, <2>2, Standing
  <2>4. \A u \in Tasks : u < cur' => Completed(mem', u)
    <3>1. \A u \in Tasks : u < cur => u # cur
      BY SMTT(60), SuiteAssumption DEF Tasks
    <3> QED BY <2>1, <2>2, <2>3, <3>1 DEF At, Completed
  <2>5. Grows(disk, mem')
    BY <2>1, <2>3, ExtendedGrows
  <2> QED BY <2>1, <2>2, <2>4, <2>5, StoreBegins
<1>6. CASE CompleteAttempt
  <2>1. /\ cur \in Tasks /\ mem.tasks[cur].status = "running" /\ mem' # Nil
        /\ pc' = "intent" /\ next' = "loop" /\ Touches(mem', disk, cur)
        /\ mem'.tasks[cur].status = "completed" /\ mem'.pending.type = "task_completed" /\ StateBody(mem')
    BY <1>6, CompletionIntent
  <2>2. pc = "observe" /\ cur' = cur + 1 /\ UNCHANGED <<disk, bundle>>
    BY <1>6 DEF CompleteAttempt, files
  <2>3. At(disk, cur) /\ disk \in States /\ StateBody(disk) /\ disk.tasks[cur].status = "running"
    BY <2>1, <2>2, Standing
  <2>4. \A u \in Tasks : u < cur \/ u = cur \/ cur < u
    BY SMTT(60), <2>1, SuiteAssumption DEF Tasks
  <2>5. \A u \in Tasks : (u < cur => u # cur) /\ (cur < u => u # cur) /\ (u < cur + 1 => u < cur \/ u = cur)
    BY SMTT(60), <2>1, SuiteAssumption DEF Tasks
  <2>6. \A u \in Tasks : u < cur \/ u = cur => Completed(mem', u)
    BY <2>1, <2>3, <2>5 DEF At, Completed, Touches
  <2>7. \A u \in Tasks : u < cur' => Completed(mem', u)
    BY <2>2, <2>5, <2>6
  <2>8. ASSUME NEW t \in Tasks, At(mem', t) PROVE Len(mem'.tasks[t].attempts) < MaxAttemptsPerTask
    <3>1. cur < t /\ t # cur
      BY <2>4, <2>5, <2>6, <2>8 DEF At
    <3>2. mem'.tasks[t].attempts = << >>
      BY <2>1, <2>3, <3>1 DEF Touches, StateBody, OrderedPrefix, At
    <3> QED BY SMTT(60), <3>2, LimitAssumption
  <2>9. Grows(disk, mem')
    BY <2>1, <2>3, TouchedGrows
  <2> QED BY <2>1, <2>2, <2>7, <2>8, <2>9, StoreBegins
<1>7. CASE FailAttempt
  <2>1. /\ cur \in Tasks /\ mem.tasks[cur].status = "running" /\ mem' # Nil
        /\ pc' = "intent" /\ next' = "idle" /\ Touches(mem', disk, cur)
        /\ mem'.tasks[cur].status = "failed" /\ mem'.pending.type = "task_failed" /\ StateBody(mem')
    BY <1>7, FailureIntent
  <2>2. pc = "observe" /\ UNCHANGED <<disk, bundle, cur>>
    BY <1>7 DEF FailAttempt, files
  <2>3. At(disk, cur) /\ disk \in States /\ StateBody(disk) /\ disk.tasks[cur].status = "running"
    BY <2>1, <2>2, Standing
  <2>4. \A u \in Tasks : u < cur' => Completed(mem', u)
    <3>1. \A u \in Tasks : u < cur => u # cur
      BY SMTT(60), SuiteAssumption DEF Tasks
    <3> QED BY <2>1, <2>2, <2>3, <3>1 DEF At, Completed, Touches
  <2>5. Grows(disk, mem')
    BY <2>1, <2>3, TouchedGrows
  <2> QED BY <2>1, <2>2, <2>4, <2>5, StoreBegins
<1>8. CASE CompleteRun
  <2>1. /\ pc = "loop" /\ mem = disk /\ cur = TaskCount + 1 /\ UNCHANGED <<disk, bundle, cur>>
        /\ BeginCommit([mem EXCEPT !.status = "completed", !.error = FALSE], RunEvent("run_completed"), "seal")
    BY <1>8 DEF CompleteRun, StoreInv, CopyInv, files
  <2>2. mem \in States /\ Recorded(mem) /\ StateBody(mem) /\ mem # Nil
    BY <2>1, SameBuilt, NilAssumption DEF Working, StoreInv, ShapeInv
  <2>3. \A u \in Tasks : u < cur
    BY SMTT(60), <2>1, SuiteAssumption DEF Tasks
  <2>4. AllCompleted(mem)
    BY <2>2, <2>3 DEF StoreInv, CopyInv, AllCompleted
  <2>5. /\ mem'.tasks = disk.tasks /\ StateBody(mem') /\ mem' # Nil /\ pc' = "intent" /\ next' = "seal"
        /\ mem'.pending.type = "run_completed"
    BY <1>1, HeaderIntent, <2>1, <2>2, <2>4 DEF EventTypes
  <2>6. \A u \in Tasks : u < cur' => Completed(mem', u)
    BY <2>1, <2>4, <2>5 DEF AllCompleted, Completed
  <2> QED BY <2>1, <2>5, <2>6, SameGrows, StoreBegins
<1> QED BY <1>3, <1>4, <1>5, <1>6, <1>7, <1>8

\* A step that leaves the files and the runner alone keeps the second layer.
LEMMA StoreUnmoved ==
    ASSUME StoreInv, UNCHANGED <<disk, bundle, pc, mem, next, cur, todo, moved, outcome, bound>>,
           pc # "intent" \/ UNCHANGED <<log, logs, quarantine>>
    PROVE  StoreInv'
<1>1. CopyInv'
  BY DEF StoreInv, CopyInv, Touches, Completed, Grows
<1>2. ShapeInv'
  <2>1. (disk # Nil => StateBody(disk))' /\ (pc \in {"intent", "persist"} => StateBody(mem))'
    BY DEF StoreInv, ShapeInv
  <2>2. (pc = "observe" => Unrecorded(Latest(mem, cur)))'
    BY DEF StoreInv, ShapeInv, Unrecorded, Latest
  <2>3. (pc = "quarantine" =>
          /\ AttemptShape(Latest(mem, cur), cur) /\ Latest(mem, cur).status \in Terminal
          /\ Latest(mem, cur).quarantined = Nil
          /\ Elems(todo) \subseteq OutputSet(cur) /\ DOMAIN moved \subseteq OutputSet(cur))'
    BY DEF StoreInv, ShapeInv, Latest
  <2> QED BY <2>1, <2>2, <2>3 DEF ShapeInv
<1>3. BudgetInv'
  BY DEF StoreInv, BudgetInv, At, Completed
<1>4. ApprovalInv'
  BY DEF StoreInv, ApprovalInv
<1> QED BY <1>1, <1>2, <1>3, <1>4 DEF StoreInv

\* A step after which there is no runner keeps the second layer if the files fit.
LEMMA StoreIdle ==
    ASSUME pc' = "idle", mem' = Nil, cur' = 1, disk' # Nil => StateBody(disk')
    PROVE  StoreInv'
<1>1. CopyInv' /\ BudgetInv' /\ ApprovalInv'
  BY DEF CopyInv, BudgetInv, ApprovalInv, Committing
<1>2. ShapeInv'
  <2>1. (disk # Nil => StateBody(disk))' OBVIOUS
  <2> QED BY <2>1 DEF ShapeInv
<1> QED BY <1>1, <1>2 DEF StoreInv

\* _initial_state: no task has an attempt.
LEMMA InitialTasks ==
    ASSUME NEW t \in Tasks
    PROVE  /\ InitialState.tasks[t].status = "pending" /\ InitialState.tasks[t].attempts = << >>
           /\ InitialState.tasks[t].outputs = Nil
BY DEF InitialState

\* _initial_state is one _validate_state_shape accepts.
LEMMA InitialShape == StateBody(InitialState)
<1>2. /\ InitialState.status = "running" /\ InitialState.error = FALSE
      /\ InitialState.event_log = << >> /\ InitialState.pending = Nil
  BY DEF InitialState
<1>3. \A t \in Tasks : /\ InitialState.tasks[t].status = "pending" /\ InitialState.tasks[t].attempts = << >>
                       /\ InitialState.tasks[t].outputs = Nil
  BY InitialTasks
<1>4. ASSUME NEW t \in Tasks PROVE TaskShape(InitialState, t)
  <2>1. Len(<< >>) = 0 /\ 0 <= MaxAttemptsPerTask /\ 1..0 = {} /\ 1..(0 - 1) = {} /\ ~(0 > 0)
    BY SMTT(60), LimitAssumption
  <2>2. Len(InitialState.tasks[t].attempts) = 0
    BY <1>3, <2>1
  <2> QED BY <1>3, <2>1, <2>2 DEF TaskShape
<1>5. OrderedPrefix(InitialState)
  BY <1>3 DEF OrderedPrefix
<1>6. Len(InitialState.event_log) <= MaxEvents
  BY SMTT(60), <1>2, LimitAssumption
<1> QED BY <1>2, <1>4, <1>5, <1>6 DEF StateBody

\* start_run, inspect_resume and the load of resume_run.
LEMMA StoreOperatorSteps ==
    EngineInv /\ StoreInv /\ (StartRun \/ CreateRun \/ Inspect \/ ResumeRun \/ ResumeBound) => StoreInv'
<1> SUFFICES ASSUME EngineInv, StoreInv
             PROVE  StartRun \/ CreateRun \/ Inspect \/ ResumeRun \/ ResumeBound => StoreInv'
  OBVIOUS
<1>1. CASE StartRun
  <2>1. /\ pc = "idle" /\ pc' = "create" /\ UNCHANGED <<disk, log, logs, quarantine, bundle, mem, cur>>
    BY <1>1 DEF StartRun, locals
  <2>2. mem = Nil /\ mem' = Nil /\ cur' = 1
    BY <2>1 DEF EngineInv, TypeOK, StoreInv, CopyInv
  <2>3. CopyInv' /\ BudgetInv' /\ ApprovalInv'
    BY <2>1, <2>2 DEF StoreInv, CopyInv, BudgetInv, ApprovalInv, Completed,
                      Committing
  <2>4. ShapeInv'
    <3>1. (disk # Nil => StateBody(disk))' BY <2>1 DEF StoreInv, ShapeInv
    <3> QED BY <2>1, <3>1 DEF ShapeInv
  <2> QED BY <2>3, <2>4 DEF StoreInv
<1>2. CASE CreateRun
  <2> DEFINE e == RunEvent("run_started")
  <2>1. /\ pc = "create" /\ disk' = InitialState /\ BeginCommit(InitialState, e, "loop")
        /\ UNCHANGED <<bundle, cur>>
    BY <1>2 DEF CreateRun
  <2>2. e \in Events /\ e.type = "run_started"
    BY SMTT(60), SuiteAssumption, LimitAssumption DEF RunEvent, Event, Events, EventTypes
  <2>3. Built(InitialState, InitialState)
    BY InitialStateType DEF Built
  <2>. HIDE DEF e
  <2>4. /\ mem' \in States /\ mem'.tasks = InitialState.tasks /\ mem'.status = InitialState.status
        /\ mem'.error = InitialState.error /\ mem'.pending = e
        /\ Len(mem'.event_log) < MaxEvents /\ Len(mem'.event_log) <= MaxEvents
        /\ mem' # Nil /\ pc' = "intent" /\ next' = "loop"
    BY <2>1, <2>2, <2>3, IntentFields
  <2>5. HeaderFits(mem')
    BY <2>4 DEF HeaderFits, InitialState
  <2>6. StateBody(mem')
    BY <2>4, <2>5, InitialShape, HeaderShape
  <2>7. cur' = 1 /\ mem = Nil
    BY <2>1 DEF EngineInv, TypeOK, StoreInv, CopyInv
  <2>8. \A u \in Tasks : ~(u < 1)
    BY SMTT(60), SuiteAssumption DEF Tasks
  <2>9. \A t \in Tasks : Len(mem'.tasks[t].attempts) < MaxAttemptsPerTask
    <3>1. \A t \in Tasks : mem'.tasks[t].attempts = << >>
      BY <2>4, InitialTasks
    <3> QED BY SMTT(60), <3>1, LimitAssumption
  <2>10. CopyInv'
    BY <2>1, <2>4, <2>7, <2>8, SameGrows DEF CopyInv
  <2>11. ShapeInv'
    <3>1. StateBody(mem)' /\ StateBody(disk)' BY <2>1, <2>6, InitialShape
    <3> QED BY <2>4, <3>1 DEF ShapeInv
  <2>12. BudgetInv'
    BY <2>4, <2>9 DEF BudgetInv
  <2>13. ApprovalInv'
    BY <2>1, <2>2, <2>4 DEF StoreInv, ApprovalInv
  <2> QED BY <2>10, <2>11, <2>12, <2>13 DEF StoreInv
<1>3. CASE Inspect
  BY <1>3, StoreUnmoved DEF Inspect, files, locals
<1>4. ASSUME NEW w, Resume(w) PROVE StoreInv'
  <2>1. /\ pc = "idle" /\ mem' = disk /\ pc' \in {"admit", "reconcile"}
        /\ UNCHANGED <<disk, log, logs, quarantine, bundle, cur>>
    BY <1>4 DEF Resume, files
  <2>2. disk # Nil /\ mem = Nil /\ cur' = 1
    BY <1>4, <2>1 DEF EngineInv, TypeOK, Resume, Loadable, StoreInv, CopyInv
  <2>3. \A u \in Tasks : ~(u < 1)
    BY SMTT(60), SuiteAssumption DEF Tasks
  <2>4. CopyInv' /\ BudgetInv' /\ ApprovalInv'
    BY <2>1, <2>2, <2>3 DEF StoreInv, CopyInv, BudgetInv, ApprovalInv, Committing
  <2>5. ShapeInv'
    <3>1. (disk # Nil => StateBody(disk))' BY <2>1 DEF StoreInv, ShapeInv
    <3> QED BY <2>1, <3>1 DEF ShapeInv
  <2> QED BY <2>4, <2>5 DEF StoreInv
<1> QED BY <1>1, <1>2, <1>3, <1>4 DEF ResumeRun, ResumeBound

\* The acknowledged state is one _validate_state_shape accepts.
LEMMA AcknowledgedShape ==
    ASSUME mem \in States, Recorded(mem), StateBody(mem), mem.pending \in Events, mem.pending # Nil,
           log = Append(mem.event_log, mem.pending), log \in Seq(Events)
    PROVE  /\ StateBody(Acknowledged(mem)) /\ Acknowledged(mem).tasks = mem.tasks /\ Acknowledged(mem) # Nil
           /\ StateBody([mem EXCEPT !.pending = Nil])
<1> DEFINE s == Acknowledged(mem)
           q == [mem EXCEPT !.pending = Nil]
<1>1. /\ s \in States /\ s.tasks = mem.tasks /\ s.event_log = log /\ s.pending = Nil
      /\ s.status = mem.status /\ s.error = mem.error
  BY DEF Acknowledged, States
<1>2. /\ q.tasks = mem.tasks /\ q.event_log = mem.event_log /\ q.pending = Nil
      /\ q.status = mem.status /\ q.error = mem.error
  BY DEF States
<1>. HIDE DEF s, q
<1>3. Len(mem.event_log) < MaxEvents /\ mem.event_log \in Seq(Events)
  BY DEF StateBody, States
<1>4. Len(log) <= MaxEvents
  BY SMTT(60), <1>3, LimitAssumption
<1>5. HeaderFits(s) /\ HeaderFits(q)
  BY <1>1, <1>2, <1>4 DEF StateBody, HeaderFits, AllCompleted, Completed
<1> QED BY <1>1, <1>2, <1>5, HeaderShape, NilAssumption DEF s, q

\* _commit_transition and _reconcile_pending_event.
LEMMA StoreCommitSteps ==
    EngineInv /\ StoreInv /\ (Commit \/ ReconcileAppend \/ ReconcileAcknowledge) => StoreInv'
<1> SUFFICES ASSUME EngineInv, StoreInv PROVE Commit \/ ReconcileAppend \/ ReconcileAcknowledge => StoreInv'
  OBVIOUS
<1>1. CASE PersistIntent
  <2>1. /\ pc = "intent" /\ pc' = "append" /\ disk' = mem /\ mem' = mem /\ StateBody(mem)
        /\ UNCHANGED <<bundle, next, cur>>
    BY <1>1 DEF PersistIntent, locals, StateShape
  <2>2. mem # Nil
    BY <2>1 DEF EngineInv, TypeOK
  <2>3. CopyInv' /\ BudgetInv' /\ ApprovalInv'
    BY <2>1, <2>2 DEF StoreInv, CopyInv, BudgetInv, At, Completed, ApprovalInv,
                      Committing
  <2>4. ShapeInv'
    <3>1. StateBody(disk)' BY <2>1
    <3> QED BY <2>1, <3>1 DEF ShapeInv
  <2> QED BY <2>3, <2>4 DEF StoreInv
<1>2. CASE AppendEvent
  <2>1. /\ pc = "append" /\ pc' = "ack" /\ UNCHANGED <<disk, mem, bundle, next, cur>>
    BY <1>2 DEF AppendEvent, locals
  <2>2. mem # Nil
    BY <2>1 DEF EngineInv, TypeOK
  <2>3. CopyInv' /\ BudgetInv' /\ ApprovalInv'
    BY <2>1, <2>2 DEF StoreInv, CopyInv, BudgetInv, At, Completed, ApprovalInv,
                      Committing
  <2>4. ShapeInv'
    <3>1. (disk # Nil => StateBody(disk))' BY <2>1 DEF StoreInv, ShapeInv
    <3> QED BY <2>1, <3>1 DEF ShapeInv
  <2> QED BY <2>3, <2>4 DEF StoreInv
<1>3. ASSUME pc \in {"ack", "reconcile"}, disk' = Acknowledged(mem), UNCHANGED <<bundle, log>>,
             log = Append(mem.event_log, mem.pending),
             \/ pc' = "idle" /\ mem' = Nil /\ cur' = 1
             \/ /\ pc' \in {"loop", "launch", "seal", "admit"} /\ (pc' # "admit" => pc = "ack" /\ pc' = next)
                /\ mem' = disk' /\ UNCHANGED <<next, cur>>
      PROVE  StoreInv'
  <2>1. mem = disk /\ mem \in States /\ mem # Nil /\ Recorded(mem) /\ log \in Seq(Events) /\ mem.pending # Nil
    BY <1>3 DEF EngineInv, TypeOK, LedgerInv, RecordInv
  <2>2. mem.pending \in Events /\ StateBody(mem)
    BY <2>1 DEF States, StoreInv, ShapeInv
  <2>3. StateBody(disk') /\ disk'.tasks = mem.tasks /\ disk' # Nil
    BY <1>3, <2>1, <2>2, AcknowledgedShape
  <2>5. CASE pc' = "idle"
    BY <1>3, <2>3, <2>5, StoreIdle
  <2>6. CASE pc' # "idle"
    <3>1. /\ pc' \in {"loop", "launch", "seal", "admit"} /\ (pc' # "admit" => pc = "ack" /\ pc' = next)
          /\ mem' = disk' /\ UNCHANGED <<next, cur>>
      BY <1>3, <2>6
    <3>2. CopyInv'
      BY <2>1, <2>3, <3>1 DEF StoreInv, CopyInv, Completed
    <3>3. ShapeInv'
      <4>1. StateBody(disk)' BY <2>3
      <4> QED BY <3>1, <4>1 DEF ShapeInv
    <3>4. BudgetInv'
      <4>1. pc' = "loop" => pc \in Committing /\ next = "loop"
        BY <3>1 DEF Committing
      <4> QED BY <2>3, <3>1, <4>1 DEF StoreInv, BudgetInv, At, Completed, Committing
    <3>5. ApprovalInv'
      BY <3>1 DEF ApprovalInv
    <3> QED BY <3>2, <3>3, <3>4, <3>5 DEF StoreInv
  <2> QED BY <2>5, <2>6
<1>4. CASE Acknowledge
  <2>1. pc = "ack" /\ disk' = Acknowledged(mem) /\ UNCHANGED <<bundle, log>>
    BY <1>4 DEF Acknowledge
  <2>2. log = Append(mem.event_log, mem.pending) /\ next \in {"idle", "loop", "launch", "seal"}
    BY <2>1 DEF EngineInv, LedgerInv, TypeOK
  <2>3. \/ pc' = "idle" /\ mem' = Nil /\ cur' = 1
        \/ /\ pc' \in {"loop", "launch", "seal"} /\ pc' = next /\ mem' = disk' /\ UNCHANGED <<next, cur>>
    BY <1>4, <2>1, <2>2 DEF Acknowledge, Halt, locals
  <2> QED BY <1>3, <2>1, <2>2, <2>3
<1>5. CASE ReconcileAppend
  BY <1>5, StoreUnmoved DEF ReconcileAppend, locals
<1>6. CASE ReconcileAcknowledge
  <2>1. /\ pc = "reconcile" /\ disk' = Acknowledged(mem) /\ mem' = disk' /\ pc' = "admit"
        /\ UNCHANGED <<bundle, log, next, cur>> /\ log = Append(mem.event_log, mem.pending)
    BY <1>6 DEF ReconcileAcknowledge, locals, EventTransitionStatus
  <2> QED BY <1>3, <2>1
<1> QED BY <1>1, <1>2, <1>4, <1>5, <1>6 DEF Commit

\* The latest attempt of a task that is running or failed, in a state that _validate_state_shape accepts.
LEMMA LatestShape ==
    ASSUME NEW s \in States, StateBody(s), NEW t \in Tasks, s.tasks[t].status \in {"running", "failed"}
    PROVE  /\ AttemptShape(Latest(s, t), t) /\ Latest(s, t).quarantined = Nil
           /\ Latest(s, t).status \in Terminal \cup {"running"}
           /\ Latest(s, t).status = "running" <=> s.tasks[t].status = "running"
<1> DEFINE n == Len(s.tasks[t].attempts)
<1>1. TaskShape(s, t) /\ n \in Nat
  BY StateTypes DEF StateBody
<1>2. n > 0 BY <1>1 DEF TaskShape
<1>3. n \in 1..n BY SMTT(60), <1>1, <1>2
<1>4. AttemptShape(Latest(s, t), t)
  BY <1>1, <1>3 DEF TaskShape, Latest
<1>5. \/ s.tasks[t].status = "running" /\ Latest(s, t).status = "running"
      \/ s.tasks[t].status = "failed" /\ Latest(s, t).status \in Terminal /\ Latest(s, t).quarantined = Nil
  BY <1>1 DEF TaskShape
<1>6. Latest(s, t).status = "running" => Latest(s, t).quarantined = Nil
  BY <1>4 DEF AttemptShape
<1> QED BY <1>4, <1>5, <1>6 DEF Terminal

\* _execute_remaining and _recover_incomplete_task between the commits.
LEMMA StorePreparationSteps ==
    EngineInv /\ StoreInv /\ (PassCompletedTask \/ BeginRecovery \/ QuarantineOutput \/ PrepareStdout) => StoreInv'
<1> SUFFICES ASSUME EngineInv, StoreInv
             PROVE  PassCompletedTask \/ BeginRecovery \/ QuarantineOutput \/ PrepareStdout => StoreInv'
  OBVIOUS
<1>1. CASE PassCompletedTask
  <2>1. /\ pc = "loop" /\ pc' = "loop" /\ mem' = mem /\ cur \in Tasks /\ Completed(mem, cur) /\ cur' = cur + 1
        /\ UNCHANGED <<disk, bundle, next>> /\ mem # Nil
    BY <1>1 DEF PassCompletedTask, files, EngineInv, TypeOK
  <2>2. \A u \in Tasks : u < cur + 1 => u < cur \/ u = cur
    BY SMTT(60), <2>1, SuiteAssumption DEF Tasks
  <2>3. CopyInv'
    BY <2>1, <2>2 DEF StoreInv, CopyInv, Completed
  <2>4. ShapeInv'
    <3>1. (disk # Nil => StateBody(disk))' BY <2>1 DEF StoreInv, ShapeInv
    <3> QED BY <2>1, <3>1 DEF ShapeInv
  <2>5. BudgetInv' /\ ApprovalInv'
    BY <2>1 DEF StoreInv, BudgetInv, ApprovalInv, At, Completed, Committing
  <2> QED BY <2>3, <2>4, <2>5 DEF StoreInv
<1>2. CASE BeginRecovery
  <2> DEFINE a == Interrupted(Latest(mem, cur))
  <2>1. /\ pc = "loop" /\ cur \in Tasks /\ mem.tasks[cur].status \in {"running", "failed"} /\ RecoveryLiveness(mem)
        /\ mem' = SetLatest(mem, cur, a) /\ todo' = OutputsOf[cur] /\ moved' = << >> /\ pc' = "quarantine"
        /\ UNCHANGED <<disk, bundle, next, cur>>
    BY <1>2 DEF BeginRecovery, Recoverable, files
  <2>2. mem = disk /\ mem \in States /\ Recorded(mem) /\ StateBody(mem) /\ disk # Nil
    BY <2>1, Standing DEF StoreInv, CopyInv
  <2>3. /\ Latest(mem, cur) \in Attempts /\ AttemptShape(Latest(mem, cur), cur) /\ Latest(mem, cur).quarantined = Nil
        /\ Latest(mem, cur).status \in Terminal \cup {"running"}
        /\ Latest(mem, cur).status = "running" => LaunchResolved(Latest(mem, cur))
    BY <2>1, <2>2, LatestShape, LatestType DEF RecoveryLiveness
  <2>4. ws \in Trees
    BY DEF EngineInv, TypeOK
  <2>5. AttemptShape(a, cur) /\ a.status \in Terminal /\ a.quarantined = Nil /\ a \in Attempts
    <3>. HIDE DEF Latest
    <3> QED BY <2>3, <2>4, InterruptedShape, InterruptedType
  <2>. HIDE DEF a
  <2>6. /\ mem' \in States /\ Touches(mem', mem, cur) /\ Latest(mem', cur) = a
        /\ mem'.tasks[cur].status = mem.tasks[cur].status /\ mem'.tasks[cur].outputs = mem.tasks[cur].outputs
        /\ mem'.status = mem.status /\ mem'.error = mem.error
    BY <2>1, <2>2, <2>5, LatestReplaced
  <2>7. /\ \A u \in Tasks : mem'.tasks[u].status = mem.tasks[u].status
        /\ \A u \in Tasks : Len(mem'.tasks[u].attempts) = Len(mem.tasks[u].attempts)
    BY <2>6 DEF Touches
  <2>8. mem' # Nil
    BY <2>6, NilAssumption
  <2>9. CopyInv'
    <3>1. Touches(mem', disk', cur') BY <2>1, <2>2, <2>6
    <3>2. Touches(mem, disk, cur)' BY <3>1 DEF Touches
    <3>3. mem # Nil /\ \A u \in Tasks : u < cur => Completed(mem, u) 
      BY <2>2, NilAssumption DEF StoreInv, CopyInv
    <3>4. \A u \in Tasks : u < cur' => mem'.tasks[u].status = "completed"
      BY <2>1, <2>7, <3>3 DEF Completed
    <3> QED BY <2>1, <2>2, <2>6, <2>8, <3>2, <3>4 DEF CopyInv, Completed
  <2>10. ShapeInv'
    <3>1. (disk # Nil => StateBody(disk))' BY <2>1 DEF StoreInv, ShapeInv
    <3>2. (AttemptShape(Latest(mem, cur), cur) /\ Latest(mem, cur).status \in Terminal
             /\ Latest(mem, cur).quarantined = Nil)'
      <4>1. Latest(mem, cur)' = a BY <2>1, <2>6 DEF Latest
      <4> QED BY <2>1, <2>5, <4>1
    <3>3. (Elems(todo) \subseteq OutputSet(cur) /\ DOMAIN moved \subseteq OutputSet(cur))'
      <4>1. DOMAIN moved' = {} BY SMTT(60), <2>1
      <4> QED BY <2>1, <4>1 DEF OutputSet
    <3> QED BY <2>1, <3>1, <3>2, <3>3 DEF ShapeInv
  <2>11. BudgetInv'
    <3>1. \A t \in Tasks : At(mem, t)' => At(mem, t) BY <2>7 DEF At, Completed
    <3>2. \A t \in Tasks : At(mem, t) => Len(mem.tasks[t].attempts) < MaxAttemptsPerTask
      BY <2>1 DEF StoreInv, BudgetInv
    <3> QED BY <2>7, <3>1, <3>2 DEF BudgetInv
  <2>12. ApprovalInv'
    BY <2>1 DEF StoreInv, ApprovalInv
  <2> QED BY <2>9, <2>10, <2>11, <2>12 DEF StoreInv
<1>3. CASE QuarantineOutput
  <2>1. /\ pc = "quarantine" /\ todo # << >> /\ todo' = Tail(todo)
        /\ DOMAIN moved' \subseteq DOMAIN moved \cup {Head(todo)}
        /\ UNCHANGED <<disk, bundle, pc, mem, next, cur, outcome, bound>>
    BY <1>3 DEF QuarantineOutput
  <2>2. Head(todo) \in Elems(todo) /\ Elems(todo') \subseteq Elems(todo)
    <3>1. todo \in Seq(Paths) BY DEF EngineInv, TypeOK
    <3> QED BY SMTT(60), <2>1, <3>1 DEF Elems
  <2>3. CopyInv' /\ BudgetInv' /\ ApprovalInv'
    BY <2>1 DEF StoreInv, CopyInv, Touches, Completed, BudgetInv, At, ApprovalInv, Committing
  <2>4. ShapeInv'
    <3>1. (disk # Nil => StateBody(disk))' BY <2>1 DEF StoreInv, ShapeInv
    <3>2. (AttemptShape(Latest(mem, cur), cur) /\ Latest(mem, cur).status \in Terminal
             /\ Latest(mem, cur).quarantined = Nil)'
      BY <2>1 DEF StoreInv, ShapeInv, Latest
    <3>3. (Elems(todo) \subseteq OutputSet(cur) /\ DOMAIN moved \subseteq OutputSet(cur))'
      <4>1. Elems(todo) \subseteq OutputSet(cur) /\ DOMAIN moved \subseteq OutputSet(cur)
        BY <2>1 DEF StoreInv, ShapeInv
      <4> QED BY <2>1, <2>2, <4>1
    <3> QED BY <2>1, <3>1, <3>2, <3>3 DEF ShapeInv
  <2> QED BY <2>3, <2>4 DEF StoreInv
<1>4. CASE PrepareStdout
  <2>1. pc = "loop" /\ pc' = "stderr" /\ UNCHANGED <<disk, bundle, mem, next, cur>>
    BY <1>4 DEF PrepareStdout, locals
  <2>2. CopyInv' /\ BudgetInv' /\ ApprovalInv'
    BY <2>1 DEF StoreInv, CopyInv, Completed, BudgetInv, At, ApprovalInv, Committing
  <2>3. ShapeInv'
    <3>1. (disk # Nil => StateBody(disk))' BY <2>1 DEF StoreInv, ShapeInv
    <3> QED BY <2>1, <3>1 DEF ShapeInv
  <2> QED BY <2>2, <2>3 DEF StoreInv
<1> QED BY <1>1, <1>2, <1>3, <1>4

\* The runner's copy while it manages a child, and with a new record of the child's scope.
LEMMA ScopedRecord ==
    ASSUME EngineInv, StoreInv, pc \in Managing, NEW child \in BOOLEAN, NEW closure \in {"active", "empty"},
           mem' = Scoped(mem, child, closure)
    PROVE  /\ cur \in Tasks /\ mem \in States /\ disk \in States /\ disk # Nil /\ mem' # Nil
           /\ StateBody(mem) /\ StateBody(disk)
           /\ mem.tasks[cur].status = "running" /\ At(mem, cur) /\ disk.status # "completed"
           /\ mem' \in States /\ Touches(mem', mem, cur) /\ Touches(mem', disk, cur)
           /\ mem'.tasks[cur].status = mem.tasks[cur].status /\ mem'.tasks[cur].outputs = mem.tasks[cur].outputs
           /\ mem'.tasks[cur].status = disk.tasks[cur].status /\ mem'.tasks[cur].outputs = disk.tasks[cur].outputs
           /\ mem'.tasks[cur].outputs = Nil
           /\ mem'.status = mem.status /\ mem'.error = mem.error
           /\ mem'.status = disk.status /\ mem'.error = disk.error
           /\ mem'.event_log = mem.event_log /\ mem'.pending = mem.pending
           /\ Latest(mem, cur) \in Attempts /\ AttemptShape(Latest(mem, cur), cur) /\ Latest(mem, cur).status = "running"
           /\ Latest(mem', cur) = [Latest(mem, cur) EXCEPT !.guard = FALSE, !.child = child, !.closure = closure]
           /\ \A u \in Tasks : u < cur => Completed(mem', u)
<1> DEFINE a == [Latest(mem, cur) EXCEPT !.guard = FALSE, !.child = child, !.closure = closure]
<1>1. cur \in Tasks /\ mem.tasks[cur].status = "running" /\ mem \in States /\ Recorded(mem)
  BY ManagedChild
<1>2. /\ disk \in States /\ disk # Nil /\ StateBody(disk) /\ At(mem, cur) /\ Touches(mem, disk, cur)
      /\ mem.tasks[cur].status = disk.tasks[cur].status /\ mem.tasks[cur].outputs = disk.tasks[cur].outputs
      /\ disk.tasks[cur].outputs = Nil
      /\ mem.status = disk.status /\ mem.error = disk.error /\ disk.status # "completed"
  BY <1>1, Standing
<1>3. StateBody(mem)
  BY <1>2 DEF StoreInv, CopyInv, ShapeInv, Managing
<1>4. /\ Latest(mem, cur) \in Attempts /\ AttemptShape(Latest(mem, cur), cur) /\ Latest(mem, cur).status = "running"
  BY <1>1, <1>3, LatestShape, LatestType
<1>5. a \in Attempts
  <2>. HIDE DEF Latest
  <2> QED BY <1>4 DEF Attempts
<1>6. mem' = SetLatest(mem, cur, a)
  BY DEF Scoped
<1>. HIDE DEF a
<1>7. /\ mem' \in States /\ Touches(mem', mem, cur) /\ Latest(mem', cur) = a
      /\ mem'.tasks[cur].status = mem.tasks[cur].status /\ mem'.tasks[cur].outputs = mem.tasks[cur].outputs
      /\ mem'.status = mem.status /\ mem'.error = mem.error
      /\ mem'.event_log = mem.event_log /\ mem'.pending = mem.pending
  <2>1. mem.tasks[cur].status \in {"running", "failed"} BY <1>1
  <2> DEFINE r == SetLatest(mem, cur, a)
  <2>2. /\ r \in States /\ Touches(r, mem, cur) /\ Latest(r, cur) = a
        /\ r.tasks[cur].status = mem.tasks[cur].status /\ r.tasks[cur].outputs = mem.tasks[cur].outputs
        /\ r.status = mem.status /\ r.error = mem.error
        /\ r.event_log = mem.event_log /\ r.pending = mem.pending
    BY <1>1, <1>5, <2>1, LatestReplaced
  <2> QED BY <1>6, <2>2
<1>8. Touches(mem', disk, cur)
  BY <1>1, <1>2, <1>7, TouchesTwice
<1>9. \A u \in Tasks : u < cur => Completed(mem', u)
  <2>1. \A u \in Tasks : mem'.tasks[u].status = mem.tasks[u].status BY <1>7 DEF Touches
  <2> QED BY <1>2, <2>1 DEF At, Completed
<1>10. mem' # Nil
  BY <1>7, NilAssumption
<1> QED BY <1>1, <1>2, <1>3, <1>4, <1>7, <1>8, <1>9, <1>10 DEF a

\* A step that ends the management of the child keeps the second layer.
LEMMA StoreObserves ==
    ASSUME EngineInv, StoreInv, pc \in Managing, pc' = "observe", disk' \in {disk, mem},
           NEW child \in BOOLEAN, mem' = Scoped(mem, child, "empty"), ~child => outcome' = "failed",
           UNCHANGED <<cur, bundle>>
    PROVE  StoreInv'
<1>1. /\ cur \in Tasks /\ mem' # Nil /\ StateBody(mem) /\ StateBody(disk) /\ mem # Nil /\ disk # Nil
      /\ Touches(mem', mem, cur) /\ Touches(mem', disk, cur)
      /\ mem'.tasks[cur].status = mem.tasks[cur].status /\ mem'.tasks[cur].outputs = mem.tasks[cur].outputs
      /\ mem'.tasks[cur].status = disk.tasks[cur].status /\ mem'.tasks[cur].outputs = disk.tasks[cur].outputs
      /\ mem'.status = mem.status /\ mem'.error = mem.error
      /\ mem'.status = disk.status /\ mem'.error = disk.error
      /\ \A u \in Tasks : u < cur => Completed(mem', u)
  BY ScopedRecord, NilAssumption
<1>2. Latest(mem', cur) = [Latest(mem, cur) EXCEPT !.guard = FALSE, !.child = child, !.closure = "empty"]
  BY ScopedRecord
<1>3. Latest(mem, cur) \in Attempts /\ AttemptShape(Latest(mem, cur), cur) /\ Latest(mem, cur).status = "running"
  BY ScopedRecord
<1> DEFINE b == Latest(mem', cur)
<1>4. /\ b.status = "running" /\ ~b.guard /\ b.closure = "empty" /\ b.rc = "null" /\ b.after = Nil
      /\ b.recovered = Nil /\ b.quarantined = Nil /\ b.outputs = Nil /\ b.child = child
  <2> DEFINE a == Latest(mem, cur)
  <2>1. a \in Attempts /\ AttemptShape(a, cur) /\ a.status = "running"
    BY <1>3
  <2>2. b = [a EXCEPT !.guard = FALSE, !.child = child, !.closure = "empty"]
    BY <1>2
  <2>. HIDE DEF a, b
  <2>3. /\ b.status = "running" /\ b.guard = FALSE /\ b.child = child /\ b.closure = "empty" /\ b.rc = a.rc
        /\ b.after = a.after /\ b.recovered = a.recovered /\ b.quarantined = a.quarantined /\ b.outputs = a.outputs
    BY <2>1, <2>2 DEF Attempts
  <2> QED BY <2>1, <2>3 DEF AttemptShape
<1>5. CopyInv'
  <2>1. /\ Touches(mem', disk', cur')
        /\ mem'.tasks[cur'].status = disk'.tasks[cur'].status /\ mem'.tasks[cur'].outputs = disk'.tasks[cur'].outputs
        /\ mem'.status = disk'.status /\ mem'.error = disk'.error
    <3>1. CASE disk' = disk BY <1>1, <3>1
    <3>2. CASE disk' = mem BY <1>1, <3>2
    <3> QED BY <3>1, <3>2
  <2>2. Touches(mem, disk, cur)' BY <2>1 DEF Touches
  <2> QED BY <1>1, <2>1, <2>2 DEF CopyInv, Completed
<1>6. ShapeInv'
  <2>1. StateBody(disk')
    <3>1. CASE disk' = disk BY <1>1, <3>1
    <3>2. CASE disk' = mem BY <1>1, <3>2
    <3> QED BY <3>1, <3>2
  <2>2. (disk # Nil => StateBody(disk))' BY <2>1
  <2>3. Latest(mem, cur)' = Latest(mem', cur) BY DEF Latest
  <2>4. Unrecorded(Latest(mem, cur))'
    BY <1>4, <2>3 DEF Unrecorded
  <2> QED BY <2>2, <2>4 DEF ShapeInv
<1>7. BudgetInv' /\ ApprovalInv'
  BY DEF StoreInv, BudgetInv, ApprovalInv, Committing, Completed
<1> QED BY <1>5, <1>6, <1>7 DEF StoreInv

\* _run_task from the launch to the observation of what the child did.
LEMMA StoreChildManagementSteps ==
    EngineInv /\ StoreInv
      /\ (LaunchChild \/ LaunchFails \/ CaptureIdentity \/ IdentityUnavailable \/ PersistIdentity
            \/ PersistIdentityFails \/ AwaitExit("ok") \/ AwaitExit("failed") \/ ScopeLingers
            \/ InterruptWait("interrupted") \/ InterruptWait("failed") \/ ContextDrifts) => StoreInv'
<1> SUFFICES ASSUME EngineInv, StoreInv
             PROVE  LaunchChild \/ LaunchFails \/ CaptureIdentity \/ IdentityUnavailable \/ PersistIdentity
                    \/ PersistIdentityFails \/ AwaitExit("ok") \/ AwaitExit("failed") \/ ScopeLingers
                    \/ InterruptWait("interrupted") \/ InterruptWait("failed") \/ ContextDrifts => StoreInv'
  OBVIOUS
<1>1. CASE LaunchChild
  <2>1. pc = "launch" /\ pc' = "identify" /\ UNCHANGED <<disk, bundle, mem, next, cur>>
    BY <1>1 DEF LaunchChild, locals, files
  <2>2. CopyInv' /\ BudgetInv' /\ ApprovalInv'
    BY <2>1 DEF StoreInv, CopyInv, Completed, BudgetInv, At, ApprovalInv, Committing
  <2>3. ShapeInv'
    <3>1. (disk # Nil => StateBody(disk))' BY <2>1 DEF StoreInv, ShapeInv
    <3> QED BY <2>1, <3>1 DEF ShapeInv
  <2> QED BY <2>2, <2>3 DEF StoreInv
<1>2. CASE LaunchFails
  <2>1. /\ pc = "launch" /\ pc' = "observe" /\ mem' = Scoped(mem, FALSE, "empty") /\ outcome' = "failed"
        /\ disk' = disk /\ UNCHANGED <<cur, bundle>>
    BY <1>2 DEF LaunchFails, files
  <2> QED BY <2>1, StoreObserves DEF Managing
<1>3. CASE CaptureIdentity
  <2>1. /\ pc = "identify" /\ pc' = "persist" /\ mem' = Scoped(mem, TRUE, "active")
        /\ UNCHANGED <<disk, bundle, cur>>
    BY <1>3 DEF CaptureIdentity, files, locals
  <2>2. /\ cur \in Tasks /\ mem \in States /\ mem' \in States /\ mem' # Nil
        /\ StateBody(mem) /\ StateBody(disk) /\ disk # Nil
        /\ mem.tasks[cur].status = "running" /\ At(mem, cur) /\ disk.status # "completed"
        /\ Touches(mem', mem, cur) /\ Touches(mem', disk, cur)
        /\ mem'.tasks[cur].status = mem.tasks[cur].status
        /\ mem'.tasks[cur].status = disk.tasks[cur].status /\ mem'.tasks[cur].outputs = disk.tasks[cur].outputs
        /\ mem'.tasks[cur].outputs = Nil
        /\ mem'.status = mem.status /\ mem'.error = mem.error /\ mem'.status = disk.status /\ mem'.error = disk.error
        /\ mem'.event_log = mem.event_log /\ mem'.pending = mem.pending
        /\ \A u \in Tasks : u < cur => Completed(mem', u)
    BY <2>1, ScopedRecord DEF Managing
  <2>3. /\ Latest(mem', cur) = [Latest(mem, cur) EXCEPT !.guard = FALSE, !.child = TRUE, !.closure = "active"]
        /\ Latest(mem, cur) \in Attempts /\ AttemptShape(Latest(mem, cur), cur) /\ Latest(mem, cur).status = "running"
    BY <2>1, ScopedRecord DEF Managing
  <2>4. AttemptShape(Latest(mem', cur), cur) /\ Latest(mem', cur).status = "running"
    <3>. HIDE DEF Latest
    <3> QED BY <2>3, IdentifiedShape
  <2>5. HeaderFits(mem') /\ LatestFits(mem', cur)
    BY <2>2, <2>4 DEF HeaderFits, LatestFits, StateBody
  <2>6. StateBody(mem')
    BY <2>2, <2>4, <2>5, TouchedShape
  <2>7. CopyInv'
    <3>1. Touches(mem', disk', cur') BY <2>1, <2>2
    <3>2. Touches(mem, disk, cur)' BY <3>1 DEF Touches
    <3> QED BY <2>1, <2>2, <3>2 DEF CopyInv, Completed
  <2>8. ShapeInv'
    <3>1. (disk # Nil => StateBody(disk))' /\ StateBody(mem)' BY <2>1, <2>2, <2>6
    <3> QED BY <2>1, <3>1 DEF ShapeInv
  <2>9. BudgetInv' /\ ApprovalInv'
    BY <2>1 DEF StoreInv, BudgetInv, ApprovalInv, Committing, Completed
  <2> QED BY <2>7, <2>8, <2>9 DEF StoreInv
<1>4. ASSUME NEW how \in {"failed", "interrupted"}, StopChild(how), disk' \in {disk, mem}, pc \in Managing
      PROVE  StoreInv'
  BY <1>4, StoreObserves DEF StopChild
<1>5. CASE IdentityUnavailable \/ PersistIdentityFails \/ ScopeLingers
           \/ InterruptWait("interrupted") \/ InterruptWait("failed")
  BY <1>4, <1>5 DEF IdentityUnavailable, PersistIdentityFails, ScopeLingers, InterruptWait, Managing
<1>6. CASE PersistIdentity
  <2>1. /\ pc = "persist" /\ pc' = "wait" /\ disk' = mem /\ StateBody(mem) /\ UNCHANGED <<bundle, mem, next, cur>>
    BY <1>6 DEF PersistIdentity, locals, StateShape
  <2>2. CopyInv' /\ BudgetInv' /\ ApprovalInv'
    BY <2>1 DEF StoreInv, CopyInv, Completed, BudgetInv, At, ApprovalInv, Committing
  <2>3. ShapeInv'
    <3>1. StateBody(disk)' BY <2>1
    <3> QED BY <2>1, <3>1 DEF ShapeInv
  <2> QED BY <2>2, <2>3 DEF StoreInv
<1>7. ASSUME NEW how \in {"ok", "failed"}, AwaitExit(how) PROVE StoreInv'
  <2>1. /\ pc = "wait" /\ pc' = "observe" /\ mem' = Scoped(mem, TRUE, "empty")
        /\ disk' = disk /\ UNCHANGED <<cur, bundle>>
    BY <1>7 DEF AwaitExit, files
  <2> QED BY <2>1, StoreObserves DEF Managing
<1>8. CASE ContextDrifts
  <2>1. pc = "observe" /\ pc' = "observe" /\ outcome' = "failed" /\ UNCHANGED <<disk, bundle, mem, next, cur>>
    BY <1>8 DEF ContextDrifts, files
  <2>2. CopyInv' /\ BudgetInv' /\ ApprovalInv'
    BY <2>1 DEF StoreInv, CopyInv, Touches, Completed, BudgetInv, At, ApprovalInv, Committing
  <2>3. ShapeInv'
    <3>1. (disk # Nil => StateBody(disk))' BY <2>1 DEF StoreInv, ShapeInv
    <3>2. Unrecorded(Latest(mem, cur))' BY <2>1 DEF StoreInv, ShapeInv, Unrecorded, Latest
    <3> QED BY <2>1, <3>1, <3>2 DEF ShapeInv
  <2> QED BY <2>2, <2>3 DEF StoreInv
<1> QED BY <1>1, <1>2, <1>3, <1>5, <1>6, <1>7, <1>8

\* _build_bundle leaves state.json and the runner's copy of it alone.
LEMMA StoreBundleSteps == StoreInv /\ BuildBundle => StoreInv'
<1> SUFFICES ASSUME StoreInv, BuildBundle PROVE StoreInv'
  OBVIOUS
<1>1. pc \in {"seal", "hash", "publish"} /\ pc' \in {"hash", "publish", "verify"} /\ UNCHANGED <<disk, mem, cur>>
  BY BundleFrame
<1>2. CopyInv'
  BY <1>1 DEF StoreInv, CopyInv, Completed
<1>3. ShapeInv'
  <2>1. (disk # Nil => StateBody(disk))' BY <1>1 DEF StoreInv, ShapeInv
  <2> QED BY <1>1, <2>1 DEF ShapeInv
<1>4. BudgetInv' /\ ApprovalInv'
  BY <1>1 DEF BudgetInv, ApprovalInv, Committing
<1> QED BY <1>2, <1>3, <1>4 DEF StoreInv

\* The runner is done, refuses, crashes or raises, and is gone.
LEMMA StoreHaltingSteps ==
    EngineInv /\ StoreInv /\ (VerifySealed \/ Refuse \/ RefuseAttempt \/ Crash \/ CrashInWrite \/ RaiseWithCleanup)
        => StoreInv'
<1> SUFFICES ASSUME EngineInv, StoreInv
             PROVE  VerifySealed \/ Refuse \/ RefuseAttempt \/ Crash \/ CrashInWrite \/ RaiseWithCleanup => StoreInv'
  OBVIOUS
<1>1. disk # Nil => StateBody(disk)
  BY DEF StoreInv, ShapeInv
<1>3. Halt => pc' = "idle" /\ mem' = Nil /\ cur' = 1
  BY DEF Halt
<1>4. CASE VerifySealed \/ RefuseAttempt
  BY <1>1, <1>3, <1>4, StoreIdle DEF VerifySealed, RefuseAttempt, files
<1>5. CASE Refuse
  BY <1>1, <1>3, <1>5, StoreIdle DEF Refuse, files
<1>6. CASE Crash
  BY <1>1, <1>3, <1>6, StoreIdle DEF Crash, files
<1>7. CASE CrashInWrite
  BY <1>1, <1>3, <1>7, StoreIdle DEF CrashInWrite
<1>8. CASE RaiseWithCleanup
  <2>1. pc \in {"identify", "persist", "wait"} /\ disk' \in {disk, mem} /\ Halt
    BY <1>8 DEF RaiseWithCleanup
  <2>2. pc \in {"identify", "wait"} => mem = disk
    BY DEF StoreInv, CopyInv
  <2>3. pc = "persist" => StateBody(mem)
    BY DEF StoreInv, ShapeInv
  <2>4. disk' # Nil => StateBody(disk')
    BY <1>1, <2>1, <2>2, <2>3
  <2> QED BY <1>3, <2>1, <2>4, StoreIdle
<1> QED BY <1>4, <1>5, <1>6, <1>7, <1>8

\* Children write and exit, people edit the workspace, and nothing happens.
LEMMA StoreWorldSteps == StoreInv /\ (ChildStep \/ Edit \/ UNCHANGED vars) => StoreInv'
<1> SUFFICES ASSUME StoreInv, ChildStep \/ Edit \/ UNCHANGED vars PROVE StoreInv'
  OBVIOUS
<1>1. /\ UNCHANGED <<disk, bundle, pc, mem, next, cur, todo, moved, outcome, bound>>
      /\ UNCHANGED <<log, logs, quarantine>>
  BY DEF ChildStep, ChildWrites, LeaderExits, GroupExits, Edit, vars, files, locals
<1> QED BY <1>1, StoreUnmoved

(***************************************************************************)
(* The second layer: the runner's copy and state.json agree but for the    *)
(* latest attempt's record, and every record about to be written has the   *)
(* shape the engine loads.                                                 *)
(***************************************************************************)
THEOREM StoreInvariant == Spec => []StoreInv
<1>1. EngineInv /\ StoreInv /\ [Next]_vars => StoreInv'
  BY StoreOperatorSteps, StoreCommitSteps, StoreBeginSteps, StorePreparationSteps, StoreChildManagementSteps,
     StoreBundleSteps, StoreHaltingSteps, StoreWorldSteps
     DEF Next, Operator, RunnerStep, RunnerFault
<1> QED BY StoreInit, <1>1, EngineInvariant, PTL DEF Spec

(***************************************************************************)
(* For every suite, whatever happens between inspect_resume and the bound  *)
(* resume, run_resumed becomes durable on the evidence that was reviewed.  *)
(***************************************************************************)
THEOREM ApprovalTheorem == Spec => ApprovedEvidenceResumed
<1>1. StoreInv /\ [Next]_vars =>
        [bound # Nil /\ pc = "intent" /\ disk' # disk /\ mem.pending.type = "run_resumed" =>
           /\ bound.state = disk /\ bound.log = log
           /\ bound.logs = logs /\ bound.quarantine = quarantine]_vars
  BY DEF StoreInv, ApprovalInv
<1> QED BY <1>1, StoreInvariant, PTL DEF Spec, ApprovedEvidenceResumed

\* What a step may do to state.json.
LEMMA DiskSteps ==
    ASSUME EngineInv, Next, disk' # disk
    PROVE  \/ pc = "create" /\ disk' = InitialState
           \/ pc = "intent" /\ disk' = mem
           \/ pc \in {"ack", "reconcile"} /\ disk' = Acknowledged(mem)
           \/ pc \in Managing /\ disk' = mem
<1>1. ~Operator /\ ~ChildStep /\ ~Edit
  BY DEF Operator, StartRun, ResumeRun, ResumeBound, Resume, Inspect, ChildStep, ChildWrites, LeaderExits, GroupExits,
         Edit, files
<1>2. CASE RunnerStep
  <2>1. ~(AdmitResume \/ PassCompletedTask \/ BeginRecovery \/ QuarantineOutput \/ FinishRecovery)
    BY DEF AdmitResume, PassCompletedTask, BeginRecovery, QuarantineOutput, FinishRecovery, files
  <2>2. ~(PrepareStdout \/ StartAttempt \/ LaunchChild \/ CaptureIdentity \/ AwaitExit("ok") \/ ScopeLingers)
    BY DEF PrepareStdout, StartAttempt, LaunchChild, CaptureIdentity, AwaitExit, ScopeLingers, files
  <2>3. ~(CompleteAttempt \/ FailAttempt \/ CompleteRun \/ BuildBundle \/ VerifySealed \/ Refuse \/ RefuseAttempt)
    BY BundleFrame DEF CompleteAttempt, FailAttempt, CompleteRun, VerifySealed, Refuse, RefuseAttempt, files
  <2>4. CASE CreateRun \/ Commit
    <3>1. CreateRun => pc = "create" /\ disk' = InitialState BY DEF CreateRun
    <3>2. PersistIntent => pc = "intent" /\ disk' = mem BY DEF PersistIntent
    <3>3. ~AppendEvent BY DEF AppendEvent
    <3>4. Acknowledge => pc \in {"ack", "reconcile"} /\ disk' = Acknowledged(mem) BY DEF Acknowledge
    <3> QED BY <2>4, <3>1, <3>2, <3>3, <3>4 DEF Commit
  <2>5. CASE ReconcileAppend \/ ReconcileAcknowledge \/ PersistIdentity
    BY <2>5 DEF ReconcileAppend, ReconcileAcknowledge, PersistIdentity, Managing
  <2> QED BY <1>2, <2>1, <2>2, <2>3, <2>4, <2>5 DEF RunnerStep
<1>3. CASE RunnerFault
  BY <1>3 DEF RunnerFault, LaunchFails, IdentityUnavailable, PersistIdentityFails, AwaitExit, InterruptWait,
       ContextDrifts, Crash, CrashInWrite, RaiseWithCleanup, files, Managing
<1> QED BY <1>1, <1>2, <1>3 DEF Next

(***************************************************************************)
(* For every suite, state.json only grows: completed tasks and recovered   *)
(* attempts never change, and no write forgets an attempt.                 *)
(***************************************************************************)
THEOREM GrowthTheorem == Spec => RecordOnlyGrows
<1>1. EngineInv /\ StoreInv /\ [Next]_vars => [disk # Nil => Grows(disk, disk')]_vars
  <2> SUFFICES ASSUME EngineInv, StoreInv, Next, disk # Nil PROVE Grows(disk, disk')
    OBVIOUS
  <2>1. CASE disk' = disk
    BY <2>1, SameGrows
  <2>2. CASE disk' # disk
    <3>1. CASE pc = "create" /\ disk' = InitialState
      BY <3>1 DEF EngineInv, LedgerInv
    <3>2. CASE pc = "intent" /\ disk' = mem
      BY <3>2 DEF StoreInv, CopyInv
    <3>3. CASE pc \in {"ack", "reconcile"} /\ disk' = Acknowledged(mem)
      <4>1. mem = disk /\ disk \in States
        BY <3>3 DEF EngineInv, LedgerInv, TypeOK
      <4>2. disk'.tasks = disk.tasks
        BY <3>3, <4>1 DEF Acknowledged, States
      <4> QED BY <4>2, SameGrows
    <3>4. CASE pc \in Managing /\ disk' = mem
      <4>1. cur \in Tasks /\ mem.tasks[cur].status = "running"
        BY <3>4, ManagedChild
      <4>2. disk \in States /\ StateBody(disk) /\ Touches(mem, disk, cur) /\ disk.tasks[cur].status = "running"
        BY <3>4, <4>1, Standing
      <4> QED BY <3>4, <4>1, <4>2, TouchedGrows
    <3> QED BY <2>2, <3>1, <3>2, <3>3, <3>4, DiskSteps
  <2> QED BY <2>1, <2>2
<1> QED BY <1>1, EngineInvariant, StoreInvariant, PTL DEF Spec, RecordOnlyGrows

\* Where each step leaves the runner.
LEMMA Arrivals ==
    ASSUME EngineInv, Next, ~ChildStep, ~Edit, ~Inspect
    PROVE  /\ pc' = "create" => StartRun
           /\ pc' = "intent" => CreateRun \/ AdmitResume \/ FinishRecovery \/ StartAttempt \/ CompleteAttempt
                                  \/ FailAttempt \/ CompleteRun
           /\ pc' = "append" => PersistIntent
           /\ pc' = "ack" => AppendEvent
           /\ pc' = "loop" => Acknowledge \/ PassCompletedTask
           /\ pc' \in {"launch", "seal"} => Acknowledge
           /\ pc' = "stderr" => PrepareStdout
           /\ pc' = "quarantine" => BeginRecovery \/ QuarantineOutput
           /\ pc' \in {"reconcile", "admit"} => ResumeRun \/ ResumeBound \/ ReconcileAppend \/ ReconcileAcknowledge
           /\ pc' \in {"persist", "observe"} =>
                 CaptureIdentity \/ LaunchFails \/ IdentityUnavailable \/ PersistIdentityFails \/ AwaitExit("ok")
                   \/ AwaitExit("failed") \/ ScopeLingers \/ InterruptWait("interrupted") \/ InterruptWait("failed")
                   \/ ContextDrifts
           /\ pc' \in {"identify", "wait"} => LaunchChild \/ PersistIdentity
           /\ pc' \in {"hash", "publish", "verify"} => BuildBundle
           /\ pc' = "idle" => Acknowledge \/ VerifySealed \/ Refuse \/ RefuseAttempt \/ Crash \/ CrashInWrite
                                \/ RaiseWithCleanup
<1>1. /\ StartRun => pc' = "create"
      /\ ResumeRun \/ ResumeBound => pc' \in {"reconcile", "admit"}
    BY DEF StartRun, ResumeRun, ResumeBound, Resume
<1>2. CreateRun \/ AdmitResume \/ FinishRecovery \/ StartAttempt \/ CompleteAttempt \/ FailAttempt \/ CompleteRun
          => pc' = "intent"
    BY DEF CreateRun, AdmitResume, FinishRecovery, StartAttempt, CompleteAttempt, FailAttempt, CompleteRun, BeginCommit
<1>3. /\ PersistIntent => pc' = "append"
      /\ AppendEvent => pc' = "ack"
      /\ ReconcileAppend => pc' = "reconcile"
      /\ ReconcileAcknowledge => pc' = "admit"
    BY DEF PersistIntent, AppendEvent, ReconcileAppend, ReconcileAcknowledge
<1>4. Acknowledge => pc' \in {"idle", "loop", "launch", "seal"}
    BY DEF Acknowledge, Halt, EngineInv, TypeOK
<1>5. /\ PassCompletedTask => pc' = "loop"
      /\ BeginRecovery \/ QuarantineOutput => pc' = "quarantine"
      /\ PrepareStdout => pc' = "stderr"
    BY DEF PassCompletedTask, BeginRecovery, QuarantineOutput, PrepareStdout
<1>6. /\ VerifySealed \/ Refuse \/ RefuseAttempt \/ Crash \/ CrashInWrite \/ RaiseWithCleanup => pc' = "idle"
      /\ BuildBundle => pc' \in {"hash", "publish", "verify"}
    BY BundleFrame DEF VerifySealed, Refuse, RefuseAttempt, Crash, CrashInWrite, RaiseWithCleanup, Halt
<1>7. /\ LaunchChild => pc' = "identify"
      /\ PersistIdentity => pc' = "wait"
    BY DEF LaunchChild, PersistIdentity
<1>8. CaptureIdentity \/ LaunchFails \/ IdentityUnavailable \/ PersistIdentityFails \/ AwaitExit("ok")
          \/ AwaitExit("failed") \/ ScopeLingers \/ InterruptWait("interrupted") \/ InterruptWait("failed")
          \/ ContextDrifts => pc' \in {"persist", "observe"}
    BY DEF LaunchFails, CaptureIdentity, IdentityUnavailable, PersistIdentityFails,
         AwaitExit, ScopeLingers, InterruptWait, ContextDrifts, StopChild
<1> QED BY <1>1, <1>2, <1>3, <1>4, <1>5, <1>6, <1>7, <1>8 DEF Next, Operator, RunnerStep, RunnerFault, Commit

\* Children, editors and inspect_resume leave the run directory and the runner alone.
LEMMA WorldFrame ==
    ChildStep \/ Edit \/ Inspect =>
        UNCHANGED <<root, disk, log, logs, quarantine, bundle, pc, mem, next, cur, todo, moved, outcome, bound, draft,
                    crashes>>
BY DEF ChildStep, ChildWrites, LeaderExits, GroupExits, Edit, Inspect, files, locals, counters

(***************************************************************************)
(* What the steps leave alone, and where a run stands.                     *)
(***************************************************************************)
\* What a step may do to the workspace, the quarantine and the bundle, and to the counters.
LEMMA WorldChanges ==
    ASSUME EngineInv, Next
    PROVE  /\ ws' # ws => QuarantineOutput \/ Edit \/ \E t \in Tasks, n \in AttemptNumbers : ChildWrites(t, n)
           /\ quarantine' # quarantine => QuarantineOutput
           /\ bundle' # bundle => WriteBundle
           /\ edits' = 0 => edits = 0 /\ ~Edit
           /\ crashes' \in {crashes, crashes + 1}
<1> DEFINE Allowed ==
             /\ ws' # ws => QuarantineOutput \/ Edit \/ \E t \in Tasks, n \in AttemptNumbers : ChildWrites(t, n)
             /\ quarantine' # quarantine => QuarantineOutput
             /\ bundle' # bundle => WriteBundle
             /\ edits' = edits \/ Edit
             /\ crashes' \in {crashes, crashes + 1}
<1> SUFFICES Allowed
  <2>1. Edit => edits' # 0
    <3>1. edits \in Nat BY EngineAssumption, SMTT(60) DEF EngineInv, TypeOK
    <3>2. Edit => edits' = edits + 1 BY DEF Edit
    <3> QED BY <3>1, <3>2, SMTT(60)
  <2> QED BY <2>1
<1>1. CASE Operator
    BY <1>1 DEF Operator, StartRun, ResumeRun, ResumeBound, Resume, Inspect, files, world, counters
<1>2. CASE RunnerStep
  <2>1. CASE CreateRun \/ Commit \/ ReconcileAppend \/ ReconcileAcknowledge \/ AdmitResume \/ FinishRecovery
      BY <2>1 DEF CreateRun, Commit, PersistIntent, AppendEvent, Acknowledge, ReconcileAppend, ReconcileAcknowledge,
           AdmitResume, FinishRecovery, files, world, counters
  <2>2. CASE PassCompletedTask \/ BeginRecovery \/ PrepareStdout \/ StartAttempt \/ LaunchChild \/ CaptureIdentity
      BY <2>2 DEF PassCompletedTask, BeginRecovery, PrepareStdout, StartAttempt, LaunchChild, CaptureIdentity,
           files, world, counters
  <2>3. CASE PersistIdentity \/ AwaitExit("ok") \/ ScopeLingers \/ CompleteAttempt \/ FailAttempt \/ CompleteRun \/ Refuse
      BY <2>3 DEF PersistIdentity, AwaitExit, ScopeLingers, StopChild, CompleteAttempt, FailAttempt, CompleteRun, Refuse,
           files, world, counters
  <2>4. CASE QuarantineOutput BY <2>4 DEF QuarantineOutput, counters
  <2>5. CASE BuildBundle
      BY <2>5 DEF BuildBundle, ObserveFinal, HashArtifacts, WriteBundle, files, world, counters
  <2>6. CASE VerifySealed \/ RefuseAttempt BY <2>6 DEF VerifySealed, RefuseAttempt, files, world, counters
  <2> QED BY <1>2, <2>1, <2>2, <2>3, <2>4, <2>5, <2>6 DEF RunnerStep
<1>3. CASE RunnerFault
  <2>1. CASE Crash \/ CrashInWrite \/ RaiseWithCleanup
      BY <2>1 DEF Crash, CrashInWrite, RaiseWithCleanup, files, world
  <2>2. CASE LaunchFails \/ IdentityUnavailable \/ PersistIdentityFails \/ AwaitExit("failed")
               \/ InterruptWait("interrupted") \/ InterruptWait("failed") \/ ContextDrifts
      BY <2>2 DEF LaunchFails, IdentityUnavailable, PersistIdentityFails, AwaitExit, InterruptWait, StopChild,
           ContextDrifts, files, world, counters
  <2> QED BY <1>3, <2>1, <2>2 DEF RunnerFault
<1>4. CASE ChildStep
    BY <1>4 DEF ChildStep, ChildWrites, LeaderExits, GroupExits, files, counters
<1>5. CASE Edit BY <1>5 DEF Edit, files
<1> QED BY <1>1, <1>2, <1>3, <1>4, <1>5 DEF Next

LEMMA SamePlace ==
    ASSUME NEW s, NEW r, r.tasks = s.tasks, Placed(s) \/ AllCompleted(s)
    PROVE  Placed(r) /\ (AllCompleted(s) => AllCompleted(r))
<1>1. \A t \in Tasks : At(r, t) <=> At(s, t) BY DEF At, Completed
<1>2. AllCompleted(r) <=> AllCompleted(s) BY DEF AllCompleted, Completed
<1> QED BY <1>1, <1>2 DEF Placed

\* The place survives a change of the task the run stands at, unless that completes it.
LEMMA AtTouched ==
    ASSUME NEW s \in States, NEW r \in States, NEW t \in Tasks, At(s, t), r.tasks[t].status # "completed",
           \A u \in Tasks : u # t => r.tasks[u] = s.tasks[u]
    PROVE  At(r, t)
<1>1. ASSUME NEW u \in Tasks, u < t PROVE Completed(r, u)
  <2>1. u # t BY <1>1, SMTT(60) DEF Tasks
  <2> QED BY <1>1, <2>1 DEF At, Completed
<1> QED BY <1>1 DEF At, Completed

\* The run goes on at the next task.
LEMMA AtNext ==
    ASSUME NEW s, NEW r, NEW t \in Tasks, At(s, t), OrderedPrefix(s), r.tasks[t].status = "completed",
           \A u \in Tasks : u # t => r.tasks[u] = s.tasks[u]
    PROVE  Placed(r)
<1>1. ASSUME NEW u \in Tasks, u < t \/ u = t PROVE Completed(r, u)
  <2>1. u < t => u # t BY SMTT(60) DEF Tasks
  <2> QED BY <1>1, <2>1 DEF At, Completed
<1>2. CASE t = TaskCount
  <2>1. \A u \in Tasks : u < t \/ u = t BY <1>2, SuiteAssumption, SMTT(60) DEF Tasks
  <2> QED BY <1>1, <2>1 DEF Placed, AllCompleted
<1>3. CASE t # TaskCount
  <2>1. t + 1 \in Tasks /\ t < t + 1 /\ t + 1 # t BY <1>3, SuiteAssumption, SMTT(60) DEF Tasks
  <2>2. \A u \in Tasks : u < t + 1 => u < t \/ u = t BY SuiteAssumption, SMTT(60) DEF Tasks
  <2>3. r.tasks[t + 1].status = "pending" BY <2>1 DEF OrderedPrefix, At
  <2>4. ~Completed(r, t + 1) BY <2>3 DEF Completed
  <2>5. At(r, t + 1) BY <1>1, <2>2, <2>4 DEF At
  <2> QED BY <2>1, <2>5 DEF Placed
<1> QED BY <1>2, <1>3

\* At every point of a run there is a task to go on with, or all are completed.
THEOREM PlaceInvariant == Spec => []PlaceInv
<1>1. Init => PlaceInv BY DEF Init, PlaceInv, Committing
<1>2. ASSUME EngineInv, StoreInv, PlaceInv, Next PROVE PlaceInv'
  <2>0. ASSUME pc \in {"loop", "quarantine", "stderr", "observe"} \cup Managing, cur \in Tasks,
               mem.tasks[cur].status # "completed"
        PROVE  At(mem, cur) /\ At(disk, cur) /\ disk \in States /\ OrderedPrefix(disk) /\ Touches(mem, disk, cur)
      BY <1>2, <2>0, Standing DEF StateBody
  <2>1. (disk # Nil => Placed(disk))'
    <3>1. CASE disk' = disk BY <3>1, <1>2 DEF PlaceInv, Placed, AllCompleted, At, Completed
    <3>2. CASE pc = "create" /\ disk' = InitialState
      <4>1. 1 \in Tasks /\ \A u \in Tasks : ~(u < 1) BY SuiteAssumption, SMTT(60) DEF Tasks
      <4>2. At(InitialState, 1) BY <4>1, InitialTasks DEF At, Completed
      <4>3. Placed(InitialState) BY <4>1, <4>2 DEF Placed
      <4> QED BY <3>2, <4>3
    <3>3. CASE pc = "intent" /\ disk' = mem BY <1>2, <3>3 DEF PlaceInv
    <3>4. CASE pc \in {"ack", "reconcile"} /\ disk' = Acknowledged(mem)
      <4>1. mem = disk /\ disk \in States /\ disk # Nil BY <1>2, <3>4, NilAssumption DEF EngineInv, LedgerInv, TypeOK
      <4>2. disk'.tasks = disk.tasks BY <3>4, <4>1 DEF Acknowledged, States
      <4>3. Placed(disk') BY <1>2, <4>1, <4>2, SamePlace DEF PlaceInv
      <4> QED BY <4>3
    <3>5. CASE pc \in Managing /\ disk' = mem
      <4>1. cur \in Tasks /\ mem.tasks[cur].status = "running" BY <1>2, <3>5, ManagedChild
      <4>2. At(mem, cur) BY <2>0, <3>5, <4>1
      <4> QED BY <3>5, <4>1, <4>2 DEF Placed
    <3> QED BY <1>2, <3>1, <3>2, <3>3, <3>4, <3>5, DiskSteps
  <2>2. (pc = "intent" => Placed(mem))'
    <3> SUFFICES ASSUME pc' = "intent" PROVE Placed(mem') OBVIOUS
    <3>1. CASE ChildStep \/ Edit \/ Inspect
      <4>1. pc = "intent" /\ mem' = mem BY <3>1, WorldFrame
      <4> QED BY <1>2, <4>1 DEF PlaceInv
    <3>2. CASE CreateRun
      <4>1. mem' = [InitialState EXCEPT !.pending = RunEvent("run_started")] BY <3>2 DEF CreateRun, BeginCommit
      <4>2. mem'.tasks = InitialState.tasks BY <4>1, InitialStateType DEF States
      <4>3. 1 \in Tasks /\ \A u \in Tasks : ~(u < 1) BY SuiteAssumption, SMTT(60) DEF Tasks
      <4>4. At(InitialState, 1) BY <4>3, InitialTasks DEF At, Completed
      <4>5. Placed(InitialState) BY <4>3, <4>4 DEF Placed
      <4> QED BY <4>2, <4>5, SamePlace
    <3>3. CASE AdmitResume \/ CompleteRun
      <4>1. pc \in {"admit", "loop"} BY <3>3 DEF AdmitResume, CompleteRun
      <4>2. mem = disk /\ disk \in States /\ disk # Nil
          BY <1>2, <4>1, NilAssumption DEF StoreInv, CopyInv, EngineInv, LedgerInv, TypeOK
      <4>3. mem'.tasks = disk.tasks BY <3>3, <4>2 DEF AdmitResume, CompleteRun, BeginCommit, States
      <4> QED BY <1>2, <4>2, <4>3, SamePlace DEF PlaceInv
    <3>4. CASE FinishRecovery
      <4>1. mem' \in States /\ cur \in Tasks /\ mem.tasks[cur].status \in {"running", "failed"} /\ Touches(mem', disk, cur)
            /\ mem'.tasks[cur].status = "pending"
          BY <1>2, <3>4, RecoveryIntent
      <4>2. At(disk, cur) /\ disk \in States BY <2>0, <3>4, <4>1 DEF FinishRecovery
      <4>3. At(mem', cur)
        <5>1. mem'.tasks[cur].status # "completed" BY <4>1
        <5>2. \A u \in Tasks : u # cur => mem'.tasks[u] = disk.tasks[u] BY <4>1 DEF Touches
        <5>3. cur \in Tasks /\ mem' \in States BY <4>1
        <5> QED BY <4>2, <5>1, <5>2, <5>3, AtTouched, SMTT(60)
      <4> QED BY <4>1, <4>3 DEF Placed
    <3>5. CASE FailAttempt
      <4>1. mem' \in States /\ cur \in Tasks /\ mem.tasks[cur].status = "running" /\ Touches(mem', disk, cur)
            /\ mem'.tasks[cur].status = "failed"
          BY <1>2, <3>5, FailureIntent
      <4>2. At(disk, cur) /\ disk \in States BY <2>0, <3>5, <4>1 DEF FailAttempt
      <4>3. At(mem', cur)
        <5>1. mem'.tasks[cur].status # "completed" BY <4>1
        <5>2. \A u \in Tasks : u # cur => mem'.tasks[u] = disk.tasks[u] BY <4>1 DEF Touches
        <5>3. cur \in Tasks /\ mem' \in States BY <4>1
        <5> QED BY <4>2, <5>1, <5>2, <5>3, AtTouched, SMTT(60)
      <4> QED BY <4>1, <4>3 DEF Placed
    <3>6. CASE StartAttempt
      <4>1. mem' \in States /\ cur \in Tasks /\ mem = disk /\ disk.tasks[cur].status = "pending" /\ mem'.tasks[cur].status = "running"
            /\ \A u \in Tasks : u # cur => mem'.tasks[u] = disk.tasks[u]
          BY <1>2, <3>6, StartIntent
      <4>2. At(disk, cur) /\ disk \in States BY <2>0, <3>6, <4>1 DEF StartAttempt
      <4>3. At(mem', cur)
        <5>1. mem'.tasks[cur].status # "completed" BY <4>1
        <5>2. \A u \in Tasks : u # cur => mem'.tasks[u] = disk.tasks[u] BY <4>1
        <5>3. cur \in Tasks /\ mem' \in States BY <4>1
        <5> QED BY <4>2, <5>1, <5>2, <5>3, AtTouched, SMTT(60)
      <4> QED BY <4>1, <4>3 DEF Placed
    <3>7. CASE CompleteAttempt
      <4>1. mem' \in States /\ cur \in Tasks /\ mem.tasks[cur].status = "running" /\ Touches(mem', disk, cur)
            /\ mem'.tasks[cur].status = "completed"
          BY <1>2, <3>7, CompletionIntent
      <4>2. At(disk, cur) /\ OrderedPrefix(disk) BY <2>0, <3>7, <4>1 DEF CompleteAttempt
      <4> QED BY <4>1, <4>2, AtNext DEF Touches
    <3> QED BY <1>2, <3>1, <3>2, <3>3, <3>4, <3>5, <3>6, <3>7, Arrivals
  <2>3. (pc \in {"seal", "hash", "publish", "verify"} \/ (pc \in Committing /\ next = "seal") =>
            AllCompleted(mem) /\ mem.status = "completed")'
    <3> SUFFICES ASSUME pc' \in {"seal", "hash", "publish", "verify"} \/ (pc' \in Committing /\ next' = "seal")
                 PROVE  AllCompleted(mem') /\ mem'.status = "completed"
        BY DEF Committing
    <3>1. CASE ChildStep \/ Edit \/ Inspect \/ PersistIntent \/ AppendEvent \/ BuildBundle
      <4>1. /\ mem' = mem
            /\ pc \in {"seal", "hash", "publish", "verify"} \/ (pc \in Committing /\ next = "seal")
          BY <3>1, WorldFrame, BundleFrame DEF PersistIntent, AppendEvent, Committing, locals
      <4> QED BY <1>2, <4>1 DEF PlaceInv
    <3>2. CASE Acknowledge
      <4>1. pc = "ack" /\ next = "seal" /\ mem' = Acknowledged(mem)
          BY <1>2, <3>2 DEF Acknowledge, Halt, Committing, EngineInv, TypeOK
      <4>2. mem \in States BY <1>2, <4>1 DEF EngineInv, TypeOK
      <4>3. mem'.tasks = mem.tasks /\ mem'.status = mem.status BY <4>1, <4>2 DEF Acknowledged, States
      <4>4. AllCompleted(mem) /\ mem.status = "completed" BY <1>2, <4>1 DEF PlaceInv, Committing
      <4> QED BY <4>3, <4>4, SamePlace
    <3>3. CASE CompleteRun
      <4>1. /\ pc = "loop" /\ cur = TaskCount + 1
            /\ BeginCommit([mem EXCEPT !.status = "completed", !.error = FALSE], RunEvent("run_completed"), "seal")
          BY <3>3 DEF CompleteRun
      <4>2. mem \in States /\ mem # Nil BY <1>2, <4>1, NilAssumption DEF EngineInv, TypeOK
      <4>3. mem'.tasks = mem.tasks /\ mem'.status = "completed" BY <4>1, <4>2 DEF BeginCommit, States
      <4>4. \A u \in Tasks : u < cur BY <4>1, SuiteAssumption, SMTT(60) DEF Tasks
      <4>5. AllCompleted(mem) BY <1>2, <4>2, <4>4 DEF StoreInv, CopyInv, AllCompleted
      <4> QED BY <4>3, <4>5, SamePlace
    <3>4. CreateRun \/ AdmitResume \/ FinishRecovery \/ StartAttempt \/ CompleteAttempt \/ FailAttempt
              => next' # "seal"
        BY DEF CreateRun, AdmitResume, FinishRecovery, StartAttempt, CompleteAttempt, FailAttempt, BeginCommit
    <3>5. pc' \in {"seal", "hash", "publish", "verify", "intent", "append", "ack"} BY DEF Committing
    <3>6. CASE pc' = "intent" BY <1>2, <3>1, <3>3, <3>4, <3>6, Arrivals
    <3>7. CASE pc' = "append" BY <1>2, <3>1, <3>7, Arrivals
    <3>8. CASE pc' = "ack" BY <1>2, <3>1, <3>8, Arrivals
    <3>9. CASE pc' = "seal" BY <1>2, <3>1, <3>2, <3>9, Arrivals
    <3>10. CASE pc' \in {"hash", "publish", "verify"} BY <1>2, <3>1, <3>10, Arrivals
    <3> QED BY <3>5, <3>6, <3>7, <3>8, <3>9, <3>10
  <2> QED BY <2>1, <2>2, <2>3 DEF PlaceInv
<1>3. PlaceInv /\ UNCHANGED vars => PlaceInv'
    BY DEF PlaceInv, vars, files, locals, Placed, AllCompleted, At, Completed, Committing
<1> QED BY <1>1, <1>2, <1>3, EngineInvariant, StoreInvariant, PTL DEF Spec

\* One task at most is running or failed.
LEMMA OneOpen ==
    ASSUME NEW s, OrderedPrefix(s), NEW t \in Tasks, s.tasks[t].status \in {"running", "failed"}, NEW u \in Tasks, u # t
    PROVE  s.tasks[u].status \notin {"running", "failed"}
<1>1. u < t \/ t < u BY SMTT(60) DEF Tasks
<1>2. CASE u < t BY <1>2 DEF OrderedPrefix, Completed
<1>3. CASE t < u BY <1>3 DEF OrderedPrefix, Completed
<1> QED BY <1>1, <1>2, <1>3

\* Without a runner, or with one that only has the bundle to verify, little can happen.
LEMMA RestSteps ==
    ASSUME Next, pc \in {"idle", "verify"}
    PROVE  \/ StartRun \/ ResumeRun \/ ResumeBound \/ Inspect \/ ChildStep \/ Edit
           \/ pc = "verify" /\ (VerifySealed \/ Refuse \/ Crash)
<1>1. ~(CreateRun \/ Commit \/ ReconcileAppend \/ ReconcileAcknowledge \/ AdmitResume \/ PassCompletedTask)
    BY DEF CreateRun, Commit, PersistIntent, AppendEvent, Acknowledge, ReconcileAppend, ReconcileAcknowledge,
           AdmitResume, PassCompletedTask
<1>2. ~(BeginRecovery \/ QuarantineOutput \/ FinishRecovery \/ PrepareStdout \/ StartAttempt \/ LaunchChild)
    BY DEF BeginRecovery, QuarantineOutput, FinishRecovery, PrepareStdout, StartAttempt, LaunchChild
<1>3. ~(CaptureIdentity \/ PersistIdentity \/ AwaitExit("ok") \/ AwaitExit("failed") \/ ScopeLingers \/ CompleteAttempt)
    BY DEF CaptureIdentity, PersistIdentity, AwaitExit, ScopeLingers, CompleteAttempt
<1>4. ~(FailAttempt \/ CompleteRun \/ BuildBundle \/ RefuseAttempt \/ LaunchFails \/ IdentityUnavailable)
    BY BundleFrame DEF FailAttempt, CompleteRun, RefuseAttempt, LaunchFails, IdentityUnavailable
<1>5. ~(PersistIdentityFails \/ InterruptWait("interrupted") \/ InterruptWait("failed") \/ ContextDrifts
          \/ CrashInWrite \/ RaiseWithCleanup)
    BY DEF PersistIdentityFails, InterruptWait, ContextDrifts, CrashInWrite, RaiseWithCleanup
<1>6. VerifySealed \/ Refuse \/ Crash => pc = "verify"
    BY DEF VerifySealed, Refuse, Crash, CommitPoint
<1> QED BY <1>1, <1>2, <1>3, <1>4, <1>5, <1>6 DEF Next, Operator, RunnerStep, RunnerFault

\* Without a runner, only an operator, a child or an editor acts.
LEMMA IdleSteps == ASSUME Next, pc = "idle" PROVE StartRun \/ ResumeRun \/ ResumeBound \/ Inspect \/ ChildStep \/ Edit
BY RestSteps

(***************************************************************************)
(* The bundle: what is observed, what is hashed after it and what is       *)
(* written after that describe one state of the run directory.             *)
(***************************************************************************)
\* What the bundle has to hold depends on the files alone.
LEMMA SameAccount ==
    ASSUME UNCHANGED <<disk, log, logs, quarantine>>
    PROVE  CleanTree(disk') = CleanTree(disk) /\ Accounted(disk)' = Accounted(disk)
BY DEF Accounted, CleanTree, SealedTree, Completed

\* _build_bundle, one call after the other.
LEMMA SealSteps == EngineInv /\ StoreInv /\ PlaceInv /\ SealInv /\ BuildBundle => SealInv'
<1> SUFFICES ASSUME EngineInv, StoreInv, PlaceInv, SealInv, BuildBundle PROVE SealInv'
  OBVIOUS
<1>1. pc \in {"seal", "hash", "publish"} /\ UNCHANGED <<disk, log, logs, quarantine, mem>>
  BY BundleFrame
<1>2. mem = disk /\ mem # Nil /\ disk # Nil /\ disk.pending = Nil /\ bundle = Nil
  BY <1>1, NilAssumption DEF StoreInv, CopyInv, EngineInv, LedgerInv, TypeOK, SealInv, Committing
<1>3. AllCompleted(disk) /\ disk.status = "completed"
  BY <1>1, <1>2 DEF PlaceInv
<1>4. CleanTree(disk') = CleanTree(disk) /\ Accounted(disk)' = Accounted(disk)
  BY <1>1, SameAccount
<1>5. CASE ObserveFinal
  <2>1. draft' = [ws |-> ws] /\ pc' = "hash" /\ BoundObservation(disk, ws, {}) /\ bundle' = Nil
    BY <1>2, <1>5 DEF ObserveFinal, Sealable, files
  <2>2. \A p \in Paths : ws[p] = CleanTree(disk)[p]
    BY <2>1 DEF BoundObservation
  <2>3. CleanTree(disk) = [p \in Paths |-> CleanTree(disk)[p]]
    BY DEF CleanTree, SealedTree
  <2>4. ws = [p \in Paths |-> ws[p]]
    BY DEF EngineInv, TypeOK, Trees
  <2>5. ws = CleanTree(disk)
    BY <2>2, <2>3, <2>4
  <2> QED BY <1>4, <2>1, <2>5 DEF SealInv
<1>6. CASE HashArtifacts
  <2>1. draft = [ws |-> CleanTree(disk)] /\ draft' = [Evidence EXCEPT !.ws = draft.ws] /\ pc' = "publish" /\ bundle' = Nil
    BY <1>2, <1>6 DEF HashArtifacts, files, SealInv
  <2>2. draft' = Accounted(disk)
    BY <1>2, <2>1 DEF Accounted, Evidence
  <2> QED BY <1>4, <2>1, <2>2 DEF SealInv
<1>7. CASE WriteBundle
  <2>1. bundle' = Accounted(disk) /\ pc' = "verify"
    BY <1>7 DEF WriteBundle, SealInv
  <2>2. AllCompleted(disk')
    BY <1>1, <1>3 DEF AllCompleted, Completed
  <2> QED BY <1>1, <1>2, <1>3, <1>4, <2>1, <2>2 DEF SealInv
<1> QED BY <1>5, <1>6, <1>7 DEF BuildBundle

\* Once the bundle is written, nothing touches what it describes.
LEMMA RestingSteps ==
    ASSUME EngineInv, SealInv, Next, ~BuildBundle, bundle' # Nil
    PROVE  pc' \in {"idle", "verify"} /\ UNCHANGED <<disk, log, logs, quarantine, bundle>>
<1>1. bundle' = bundle
  BY WorldChanges DEF BuildBundle
<1>2. bundle # Nil /\ pc \in {"idle", "verify"} /\ disk # Nil
  BY <1>1 DEF SealInv
<1>3. ~StartRun /\ ~ResumeRun /\ ~ResumeBound
  BY <1>2 DEF StartRun, ResumeRun, ResumeBound, Resume, EngineInv, TypeOK
<1>4. CASE Inspect \/ ChildStep \/ Edit
  BY <1>2, <1>4, WorldFrame
<1>5. CASE VerifySealed \/ Refuse \/ Crash
  BY <1>5 DEF VerifySealed, Refuse, Crash, Halt, files
<1> QED BY <1>2, <1>3, <1>4, <1>5, RestSteps

\* The bundle under way, and the one written, hold what the records account for.
THEOREM SealInvariant == Spec => []SealInv
<1>1. Init => SealInv
  BY DEF Init, SealInv
<1>2. ASSUME EngineInv, StoreInv, PlaceInv, SealInv, Next PROVE SealInv'
  <2>1. CASE BuildBundle
    BY <1>2, <2>1, SealSteps
  <2>2. CASE ~BuildBundle
    <3>1. pc' \in {"hash", "publish"} => Inspect \/ ChildStep \/ Edit
      BY <1>2, <2>2, Arrivals
    <3>2. pc' \in {"hash", "publish"} => UNCHANGED <<disk, log, logs, quarantine, pc, draft>>
      BY <3>1, WorldFrame
    <3>3. (pc = "hash" => draft = [ws |-> CleanTree(disk)])' /\ (pc = "publish" => draft = Accounted(disk))'
      BY <1>2, <3>2, SameAccount DEF SealInv
    <3>4. CASE bundle' # Nil
      <4>1. pc' \in {"idle", "verify"} /\ UNCHANGED <<disk, log, logs, quarantine, bundle>>
        BY <1>2, <2>2, <3>4, RestingSteps
      <4>2. Accounted(disk)' = Accounted(disk) /\ (AllCompleted(disk) => AllCompleted(disk'))
        BY <4>1, SameAccount DEF AllCompleted, Completed
      <4> QED BY <1>2, <3>3, <3>4, <4>1, <4>2 DEF SealInv
    <3> QED BY <3>3, <3>4 DEF SealInv
  <2> QED BY <2>1, <2>2
<1>3. SealInv /\ UNCHANGED vars => SealInv'
  <2> SUFFICES ASSUME SealInv, UNCHANGED vars PROVE SealInv'
    OBVIOUS
  <2>1. UNCHANGED <<disk, log, logs, quarantine, bundle, pc, draft>>
    BY DEF vars, files, locals
  <2>2. CleanTree(disk') = CleanTree(disk) /\ Accounted(disk)' = Accounted(disk)
        /\ (AllCompleted(disk) => AllCompleted(disk'))
    BY <2>1, SameAccount DEF AllCompleted, Completed
  <2> QED BY <2>1, <2>2 DEF SealInv
<1> QED BY <1>1, <1>2, <1>3, EngineInvariant, StoreInvariant, PlaceInvariant, PTL DEF Spec

(***************************************************************************)
(* For every suite, whatever edits and crashes happen while _build_bundle  *)
(* observes the workspace, hashes the run directory and writes bundle.json *)
(* or after it did, the bundle describes the records and files the run     *)
(* ended with, and the tree in it is the one they account for.             *)
(***************************************************************************)
THEOREM SealedTreeTheorem == Spec => []SealedTreeExact
<1>1. SealInv => SealedTreeExact
  BY DEF SealInv, SealedTreeExact
<1> QED BY <1>1, SealInvariant, PTL

=============================================================================
