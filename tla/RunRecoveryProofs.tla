-------------------------- MODULE RunRecoveryProofs -------------------------
(***************************************************************************)
(* Proofs for every suite, continued from RunArtifactProofs: what crashes  *)
(* leave to a recovery, and that a recovery loses no output.               *)
(***************************************************************************)
EXTENDS RunArtifactProofs

USE ZenonT(60)

(***************************************************************************)
(* Fifth layer: what a crash leaves unfinished.                            *)
(***************************************************************************)
LEMMA SameStray ==
    ASSUME NEW s, NEW r, r.tasks = s.tasks, NEW moves
    PROVE  (Unfinished(r) <=> Unfinished(s)) /\ (Stray(r, moves) <=> Stray(s, moves))
BY DEF Unfinished, Stray

\* Who is not running has left nothing unfinished.
LEMMA NoneUnfinished ==
    ASSUME NEW s, OrderedPrefix(s), NEW t \in Tasks, s.tasks[t].status \in {"running", "failed"},
           NEW r, \A u \in Tasks : u # t => r.tasks[u] = s.tasks[u], NEW moves
    PROVE  /\ r.tasks[t].status # "running" => ~Unfinished(r) /\ ~Stray(r, moves)
           /\ (\A p \in OutputSet(t) : moves[p][Len(r.tasks[t].attempts)] = Absent) => ~Stray(r, moves)
<1>1. ASSUME NEW u \in Tasks, r.tasks[u].status = "running", u # t PROVE FALSE
  <2>1. s.tasks[u].status = "running" BY <1>1
  <2>2. s.tasks[u].status \notin {"running", "failed"} BY <1>1, OneOpen
  <2> QED BY <2>1, <2>2
<1> QED BY <1>1 DEF Unfinished, Stray

LEMMA PendingUnfinished ==
    ASSUME NEW s, OrderedPrefix(s), NEW t \in Tasks, At(s, t), s.tasks[t].status = "pending", NEW moves
    PROVE  ~Unfinished(s) /\ ~Stray(s, moves)
<1>1. ASSUME NEW u \in Tasks PROVE s.tasks[u].status # "running"
  <2>1. u = t \/ u < t \/ t < u BY SMTT(60) DEF Tasks
  <2>2. CASE u < t BY <2>2 DEF At, Completed
  <2>3. CASE t < u BY <2>3 DEF OrderedPrefix, At
  <2> QED BY <2>1, <2>2, <2>3
<1> QED BY <1>1 DEF Unfinished, Stray

LEMMA CompletedUnfinished == ASSUME NEW s, AllCompleted(s), NEW moves PROVE ~Unfinished(s) /\ ~Stray(s, moves)
BY DEF AllCompleted, Completed, Unfinished, Stray

LEMMA InitialUnfinished ==
    ASSUME NEW s, s.tasks = InitialState.tasks, NEW moves PROVE ~Unfinished(s) /\ ~Stray(s, moves)
<1>1. \A u \in Tasks : s.tasks[u].status = "pending" BY InitialTasks
<1> QED BY <1>1 DEF Unfinished, Stray

\* While an attempt is under way none of its outputs is in quarantine.
LEMMA AttemptingClean ==
    ASSUME EngineInv, StoreInv, ArtifactInv, Attempting, pc # "intent"
    PROVE  ~Stray(disk, quarantine) /\ ~Stray(mem, quarantine)
<1>1. \A p \in OutputSet(cur) : quarantine[p][AttemptNumber(mem, cur)] = Absent BY DEF ArtifactInv
<1>2. CASE pc \in Managing \cup {"observe"}
  <2>1. cur \in Tasks /\ mem.tasks[cur].status = "running" BY <1>2 DEF EngineInv, LaunchInv
  <2>2. StateBody(disk) /\ Touches(mem, disk, cur) /\ disk.tasks[cur].status = "running" BY <1>2, <2>1, Standing
  <2>3. OrderedPrefix(disk) BY <2>2 DEF StateBody
  <2>4. /\ \A u \in Tasks : u # cur => mem.tasks[u] = disk.tasks[u]
        /\ Len(disk.tasks[cur].attempts) = Len(mem.tasks[cur].attempts)
        /\ Len(disk.tasks[cur].attempts) = AttemptNumber(mem, cur)
      BY <2>2 DEF Touches, AttemptNumber
  <2>5. ~Stray(disk, quarantine) BY <1>1, <2>1, <2>2, <2>3, <2>4, NoneUnfinished
  <2>6. ~Stray(mem, quarantine) BY <1>1, <2>1, <2>2, <2>3, <2>4, NoneUnfinished
  <2> QED BY <2>5, <2>6
<1>3. CASE pc \in Committing /\ next = "launch"
  <2>1. pc \in {"append", "ack"} /\ mem = disk BY <1>3 DEF Committing, StoreInv, CopyInv
  <2>2. cur \in Tasks /\ disk.tasks[cur].status = "running" BY <1>3, <2>1 DEF EngineInv, LaunchInv
  <2>3. OrderedPrefix(disk) BY <2>1 DEF StoreInv, ShapeInv, StateBody, EngineInv, LedgerInv
  <2>4. \A p \in OutputSet(cur) : quarantine[p][Len(disk.tasks[cur].attempts)] = Absent BY <1>1, <2>1 DEF AttemptNumber
  <2>5. ~Stray(disk, quarantine) BY <2>2, <2>3, <2>4, NoneUnfinished
  <2> QED BY <2>1, <2>5
<1> QED BY <1>2, <1>3 DEF Attempting

LEMMA StableLog == ASSUME NEW s, s.pending = Nil, s.event_log = log PROVE EventTransitionStatus(s, log) = "stable"
BY SMTT(60) DEF EventTransitionStatus

\* Without a full event log, a runner refuses only at a check of its own.
LEMMA RefusalPlaces ==
    ASSUME EngineInv, Refuse, Len(disk.event_log) < MaxEvents
    PROVE  /\ pc \in {"admit", "loop", "quarantine", "seal", "verify"}
           /\ pc = "quarantine" =>
                 \/ /\ todo # << >>
                    /\ ws[Head(todo)] # Absent /\ quarantine[Head(todo)][AttemptNumber(mem, cur)] # Absent
                 \/ todo = << >> /\ ~BoundObservation(mem, ws, {})
<1>1. CommitPoint => CommitAllowed(mem)
  <2> SUFFICES ASSUME CommitPoint PROVE CommitAllowed(mem) OBVIOUS
  <2>1. mem.pending = Nil /\ mem.event_log = log /\ disk.event_log = log
      BY DEF CommitPoint, EngineInv, LedgerInv, Committing
  <2>2. EventTransitionStatus(mem, log) = "stable" BY <2>1, StableLog
  <2> QED BY <2>1, <2>2 DEF CommitAllowed
<1> QED BY <1>1 DEF Refuse

\* With a log pair prepared, the event log is all that can be in the way of an attempt.
LEMMA AttemptRefused == EngineInv /\ RefuseAttempt => ~(Len(disk.event_log) < MaxEvents)
<1> SUFFICES ASSUME EngineInv, RefuseAttempt PROVE ~(Len(disk.event_log) < MaxEvents) OBVIOUS
<1>1. pc = "stderr" /\ ~CommitAllowed(mem) BY DEF RefuseAttempt
<1>2. mem.pending = Nil /\ mem.event_log = log /\ disk.event_log = log BY <1>1 DEF EngineInv, LedgerInv, Committing
<1>3. EventTransitionStatus(mem, log) = "stable" BY <1>2, StableLog
<1> QED BY <1>1, <1>2, <1>3 DEF CommitAllowed

\* What a recovery has moved is gone from a workspace that is clean otherwise.
LEMMA RecoveredClean ==
    ASSUME EngineInv, TreeInv, edits = 0, pc = "quarantine", todo = << >>
    PROVE  BoundObservation(mem, ws, {})
<1>1. cur \in Tasks /\ mem.tasks[cur].status \in {"running", "failed"} BY DEF EngineInv, LaunchInv
<1>2. Elems(todo) = {} BY SMTT(60) DEF Elems
<1>3. BoundObservation(mem, ws, OutputSet(cur)) /\ \A p \in OutputSet(cur) : ws[p] = Absent BY <1>2 DEF TreeInv
<1>4. ASSUME NEW p \in OutputSet(cur) PROVE CleanTree(mem)[p] = Absent
  <2>1. p \in Paths /\ Tasks \in SUBSET Tasks BY <1>1, OutputPaths
  <2>2. ASSUME NEW t \in Tasks, Completed(mem, t) PROVE p \notin OutputSet(t)
    <3>1. t # cur BY <1>1, <2>2 DEF Completed
    <3>2. OutputSet(t) \cap OutputSet(cur) = {} BY <1>1, <3>1, SuiteAssumption
    <3> QED BY <3>2
  <2> QED BY <2>1, <2>2, SealedValue DEF CleanTree
<1> QED BY <1>3, <1>4 DEF BoundObservation

LEMMA SameOpen ==
    ASSUME EngineInv, StoreInv, pc = "quarantine"
    PROVE  /\ (Unfinished(disk) <=> Unfinished(mem)) /\ cur \in Tasks /\ OrderedPrefix(disk)
           /\ disk.tasks[cur].status = mem.tasks[cur].status /\ mem.tasks[cur].status \in {"running", "failed"}
<1>1. cur \in Tasks /\ mem.tasks[cur].status \in {"running", "failed"} BY DEF EngineInv, LaunchInv
<1>2. StateBody(disk) /\ Touches(mem, disk, cur) /\ disk.tasks[cur].status = mem.tasks[cur].status BY <1>1, Standing
<1>3. \A u \in Tasks : disk.tasks[u].status = mem.tasks[u].status BY <1>2 DEF Touches
<1> QED BY <1>1, <1>2, <1>3 DEF Unfinished, StateBody

\* A refusal leaves a task unfinished only after a crash, and half recovered only after two.
LEMMA RefusalLeaves ==
    ASSUME EngineInv, StoreInv, PlaceInv, TreeInv, CrashInv, edits = 0, Refuse, disk # Nil,
           Len(disk.event_log) < MaxEvents
    PROVE  (Unfinished(disk) => crashes >= 1) /\ (Stray(disk, quarantine) => crashes >= 2)
<1>1. /\ pc \in {"admit", "loop", "quarantine", "seal", "verify"}
      /\ pc = "quarantine" =>
             \/ /\ todo # << >>
                /\ ws[Head(todo)] # Absent /\ quarantine[Head(todo)][AttemptNumber(mem, cur)] # Absent
             \/ todo = << >> /\ ~BoundObservation(mem, ws, {})
    BY RefusalPlaces
<1>2. CASE pc = "admit" BY <1>2 DEF CrashInv
<1>3. CASE pc = "loop"
  <2>1. mem = disk BY <1>3 DEF StoreInv, CopyInv
  <2> QED BY <1>3, <2>1 DEF CrashInv
<1>4. CASE pc \in {"seal", "verify"}
  <2>1. mem = disk /\ AllCompleted(mem) BY <1>4 DEF StoreInv, CopyInv, PlaceInv
  <2> QED BY <2>1, CompletedUnfinished
<1>5. CASE pc = "quarantine"
  <2>1. /\ (Unfinished(disk) <=> Unfinished(mem)) /\ cur \in Tasks /\ OrderedPrefix(disk)
        /\ disk.tasks[cur].status = mem.tasks[cur].status /\ mem.tasks[cur].status \in {"running", "failed"}
      BY <1>5, SameOpen
  <2>2. Unfinished(disk) => crashes >= 1 BY <1>5, <2>1 DEF CrashInv
  <2>3. todo # << >> /\ ws[Head(todo)] # Absent /\ quarantine[Head(todo)][AttemptNumber(mem, cur)] # Absent
      BY <1>1, <1>5, RecoveredClean
  <2>4. Head(todo) \in OutputSet(cur)
    <3>1. Head(todo) \in Elems(todo) BY <2>3, HeadAndTail DEF EngineInv, TypeOK
    <3> QED BY <1>5, <3>1 DEF StoreInv, ShapeInv
  <2>5. CASE mem.tasks[cur].status = "running"
    <3>1. ~(crashes < 2) BY <1>5, <2>3, <2>4, <2>5 DEF CrashInv
    <3>2. crashes >= 2 BY <3>1, EngineAssumption, SMTT(60) DEF EngineInv, TypeOK
    <3> QED BY <2>2, <3>2
  <2>6. CASE mem.tasks[cur].status = "failed"
    <3>1. disk.tasks[cur].status # "running" /\ disk.tasks[cur].status \in {"running", "failed"} BY <2>1, <2>6
    <3>2. ~Stray(disk, quarantine) BY <2>1, <3>1, NoneUnfinished
    <3> QED BY <2>2, <3>2
  <2> QED BY <2>1, <2>5, <2>6
<1> QED BY <1>1, <1>2, <1>3, <1>4, <1>5

\* A runner that is there has a task half recovered only after a crash.
LEMMA StrayAfterCrash ==
    ASSUME EngineInv, StoreInv, ArtifactInv, PlaceInv, CrashInv, edits = 0, pc # "idle", disk # Nil,
           Len(disk.event_log) < MaxEvents, Stray(disk, quarantine)
    PROVE  crashes >= 1
<1>0. crashes >= 2 => crashes >= 1 BY EngineAssumption, SMTT(60) DEF EngineInv, TypeOK
<1>1. ~(Attempting /\ pc # "intent") BY AttemptingClean
<1>2. CASE pc \in {"reconcile", "admit"} BY <1>2, <1>0 DEF CrashInv
<1>3. CASE pc = "intent" BY <1>3 DEF CrashInv
<1>4. CASE pc \in {"append", "ack"}
  <2>1. mem = disk BY <1>4 DEF StoreInv, CopyInv
  <2>2. next \in {"idle", "loop", "launch", "seal"} BY DEF EngineInv, TypeOK
  <2>3. next # "launch" BY <1>1, <1>4 DEF Attempting, Committing
  <2>4. next # "idle" BY <1>4, <2>1 DEF CrashInv, Committing, Stray, Unfinished
  <2>5. next # "seal"
    <3>1. next = "seal" => AllCompleted(disk) BY <1>4, <2>1 DEF PlaceInv, Committing
    <3> QED BY <3>1, CompletedUnfinished
  <2>6. next = "loop" BY <2>2, <2>3, <2>4, <2>5
  <2> QED BY <1>0, <1>4, <2>1, <2>6 DEF CrashInv, Committing
<1>5. CASE pc = "loop"
  <2>1. mem = disk BY <1>5 DEF StoreInv, CopyInv
  <2> QED BY <1>0, <1>5, <2>1 DEF CrashInv
<1>6. CASE pc = "quarantine"
  <2>1. Unfinished(disk) BY DEF Stray, Unfinished
  <2>2. Unfinished(mem) BY <1>6, <2>1, SameOpen
  <2> QED BY <1>6, <2>2 DEF CrashInv
<1>7. CASE pc = "stderr"
  <2>1. cur \in Tasks /\ mem.tasks[cur].status = "pending" BY <1>7 DEF EngineInv, LaunchInv
  <2>2. At(disk, cur) /\ StateBody(disk) /\ disk.tasks[cur].status = "pending" BY <1>7, <2>1, Standing
  <2>3. OrderedPrefix(disk) BY <2>2 DEF StateBody
  <2> QED BY <2>1, <2>2, <2>3, PendingUnfinished
<1>8. CASE pc \in {"seal", "hash", "publish", "verify"}
  <2>1. AllCompleted(disk) BY <1>8 DEF StoreInv, CopyInv, PlaceInv
  <2> QED BY <2>1, CompletedUnfinished
<1>9. pc # "create" BY DEF EngineInv, LedgerInv
<1> QED BY <1>1, <1>2, <1>3, <1>4, <1>5, <1>6, <1>7, <1>8, <1>9 DEF EngineInv, TypeOK, PCs, Attempting, Managing

\* Between two runs, and up to the first transition of a resume.
LEMMA LeftUnfinished ==
    ASSUME EngineInv, StoreInv, ArtifactInv, PlaceInv, TreeInv, CrashInv, edits = 0, ~Edit, Next,
           pc' \in {"idle", "reconcile", "admit"}, disk' # Nil, Len(disk'.event_log) < MaxEvents
    PROVE  (Unfinished(disk') => crashes' >= 1) /\ (Stray(disk', quarantine') => crashes' >= 2)
<1>1. CASE ChildStep \/ ResumeRun \/ ResumeBound \/ ReconcileAppend \/ Inspect
  <2>1. pc \in {"idle", "reconcile", "admit"} /\ UNCHANGED <<disk, quarantine, crashes>>
      BY <1>1, WorldFrame DEF ResumeRun, ResumeBound, Resume, ReconcileAppend, Inspect, files, counters
  <2> QED BY <2>1 DEF CrashInv
<1>2. CASE ReconcileAcknowledge
  <2>1. pc = "reconcile" /\ disk' = Acknowledged(mem) /\ UNCHANGED <<quarantine, crashes>>
      BY <1>2 DEF ReconcileAcknowledge, counters
  <2>2. mem = disk /\ disk \in States /\ disk # Nil /\ disk.pending # Nil
      BY <2>1, NilAssumption DEF EngineInv, LedgerInv, TypeOK
  <2>3. disk'.tasks = disk.tasks BY <2>1, <2>2 DEF Acknowledged, States
  <2>4. Len(disk.event_log) < MaxEvents BY <2>2 DEF StoreInv, ShapeInv, StateBody
  <2>5. (Unfinished(disk) => crashes >= 1) /\ (Stray(disk, quarantine) => crashes >= 2) BY <2>1, <2>2, <2>4 DEF CrashInv
  <2> QED BY <2>1, <2>3, <2>5, SameStray
<1>3. CASE Acknowledge
  <2>1. pc = "ack" /\ next = "idle" /\ disk' = Acknowledged(mem)
      BY <1>3 DEF Acknowledge, EngineInv, TypeOK
  <2>2. mem \in States BY <2>1 DEF EngineInv, TypeOK
  <2>3. disk'.tasks = mem.tasks BY <2>1, <2>2 DEF Acknowledged, States
  <2>4. ~Unfinished(disk') BY <2>1, <2>3, SameStray DEF CrashInv, Committing
  <2> QED BY <2>4 DEF Stray, Unfinished
<1>4. CASE VerifySealed
  <2>1. pc = "verify" /\ disk' = disk BY <1>4 DEF VerifySealed, files
  <2>2. AllCompleted(disk) BY <2>1 DEF StoreInv, CopyInv, PlaceInv
  <2> QED BY <2>1, <2>2, CompletedUnfinished
<1>5. CASE Refuse
  <2>1. UNCHANGED <<disk, quarantine, crashes>> BY <1>5 DEF Refuse, files, counters
  <2> QED BY <1>5, <2>1, RefusalLeaves
<1>6. CASE Crash \/ CrashInWrite \/ RaiseWithCleanup
  <2>1. /\ pc # "idle" /\ crashes' = crashes + 1 /\ quarantine' = quarantine
        /\ disk' = disk \/ (pc \in Managing /\ disk' = mem)
      BY <1>6 DEF Crash, CrashInWrite, RaiseWithCleanup, files, Managing
  <2>2. crashes \in Nat BY EngineAssumption, SMTT(60) DEF EngineInv, TypeOK
  <2>3. crashes' >= 1 /\ (crashes >= 1 => crashes' >= 2) BY <2>1, <2>2, SMTT(60)
  <2>4. CASE disk' = disk
    <3>1. Stray(disk, quarantine) => crashes >= 1 BY <2>1, <2>4, StrayAfterCrash
    <3> QED BY <2>1, <2>3, <2>4, <3>1
  <2>5. CASE pc \in Managing /\ disk' = mem
    <3>1. Attempting /\ pc # "intent" BY <2>5 DEF Attempting, Managing
    <3>2. ~Stray(mem, quarantine) BY <3>1, AttemptingClean
    <3> QED BY <2>1, <2>3, <2>5, <3>2
  <2> QED BY <2>1, <2>4, <2>5
<1>9. ~RefuseAttempt BY AttemptRefused DEF RefuseAttempt
<1>7. CASE pc' \in {"reconcile", "admit"} BY <1>1, <1>2, <1>7, Arrivals
<1>8. CASE pc' = "idle" BY <1>1, <1>3, <1>4, <1>5, <1>6, <1>8, <1>9, Arrivals
<1> QED BY <1>7, <1>8

\* In the loop over the tasks, and in the commits that lead back to it.
LEMMA LoopUnfinished ==
    ASSUME EngineInv, StoreInv, ArtifactInv, CrashInv, edits = 0, ~Edit, Next,
           pc' = "loop" \/ (pc' \in Committing /\ next' = "loop")
    PROVE  (Unfinished(mem') => crashes >= 1) /\ (Stray(mem', quarantine') => crashes >= 2)
<1>0. quarantine' = quarantine
  <2>1. pc' # "quarantine" /\ pc' \notin {"idle", "reconcile", "admit", "identify", "persist", "wait"} BY DEF Committing
  <2>2. ~QuarantineOutput BY <2>1 DEF QuarantineOutput
  <2> QED BY <2>1, <2>2, CalmWorld
<1>1. CASE ChildStep \/ Inspect \/ PersistIntent \/ AppendEvent \/ PassCompletedTask
  <2>1. mem' = mem /\ (pc = "loop" \/ (pc \in Committing /\ next = "loop"))
      BY <1>1, WorldFrame DEF PersistIntent, AppendEvent, PassCompletedTask, Committing, locals
  <2> QED BY <1>0, <2>1 DEF CrashInv
<1>2. CASE Acknowledge
  <2>1. pc = "ack" /\ next = "loop" /\ mem' = Acknowledged(mem)
      BY <1>2 DEF Acknowledge, Halt, Committing, EngineInv, TypeOK
  <2>2. mem \in States BY <2>1 DEF EngineInv, TypeOK
  <2>3. mem'.tasks = mem.tasks BY <2>1, <2>2 DEF Acknowledged, States
  <2>4. (Unfinished(mem) => crashes >= 1) /\ (Stray(mem, quarantine) => crashes >= 2) BY <2>1 DEF CrashInv, Committing
  <2> QED BY <1>0, <2>3, <2>4, SameStray
<1>3. CASE CreateRun
  <2>1. mem' = [InitialState EXCEPT !.pending = RunEvent("run_started")] BY <1>3 DEF CreateRun, BeginCommit
  <2>2. mem'.tasks = InitialState.tasks BY <2>1, InitialStateType DEF States
  <2> QED BY <2>2, InitialUnfinished
<1>4. CASE AdmitResume
  <2>1. pc = "admit" /\ Len(mem.event_log) < MaxEvents
    <3>1. AdmitResume => pc = "admit" /\ CommitAllowed([mem EXCEPT !.status = "running", !.error = FALSE])
        BY DEF AdmitResume, BeginCommit
    <3>2. pc = "admit" => mem \in States BY DEF EngineInv, TypeOK
    <3>3. mem \in States => [mem EXCEPT !.status = "running", !.error = FALSE].event_log = mem.event_log BY DEF States
    <3> QED BY <1>4, <3>1, <3>2, <3>3 DEF CommitAllowed
  <2>2. mem = disk /\ disk \in States /\ disk # Nil BY <2>1, NilAssumption DEF StoreInv, CopyInv, EngineInv, LedgerInv, TypeOK
  <2>3. mem'.tasks = disk.tasks BY <1>4, <2>2 DEF AdmitResume, BeginCommit, States
  <2>4. (Unfinished(disk) => crashes >= 1) /\ (Stray(disk, quarantine) => crashes >= 2) BY <2>1, <2>2 DEF CrashInv
  <2> QED BY <1>0, <2>3, <2>4, SameStray
<1>5. CASE FinishRecovery \/ CompleteAttempt
  <2>1. /\ cur \in Tasks /\ mem.tasks[cur].status \in {"running", "failed"} /\ Touches(mem', disk, cur)
        /\ mem'.tasks[cur].status # "running"
    <3>1. CASE FinishRecovery BY <3>1, RecoveryIntent
    <3>2. CASE CompleteAttempt BY <3>2, CompletionIntent
    <3> QED BY <1>5, <3>1, <3>2
  <2>2. pc \in {"quarantine", "observe"} BY <1>5 DEF FinishRecovery, CompleteAttempt
  <2>3. OrderedPrefix(disk) /\ disk.tasks[cur].status = mem.tasks[cur].status BY <2>1, <2>2, Standing DEF StateBody
  <2>4. \A u \in Tasks : u # cur => mem'.tasks[u] = disk.tasks[u] BY <2>1 DEF Touches
  <2> QED BY <2>1, <2>3, <2>4, NoneUnfinished
<1>6. StartAttempt \/ FailAttempt \/ CompleteRun => next' # "loop"
    BY DEF StartAttempt, FailAttempt, CompleteRun, BeginCommit
<1>7. pc' \in {"loop", "intent", "append", "ack"} BY DEF Committing
<1>8. CASE pc' = "intent" BY <1>1, <1>3, <1>4, <1>5, <1>6, <1>8, Arrivals DEF Committing
<1>9. CASE pc' \in {"loop", "append", "ack"} BY <1>1, <1>2, <1>9, Arrivals
<1> QED BY <1>7, <1>8, <1>9

\* A commit that ends the invocation records the end of its attempt.
LEMMA LastCommit ==
    ASSUME EngineInv, StoreInv, CrashInv, edits = 0, ~Edit, Next, pc' \in Committing, next' = "idle"
    PROVE  ~Unfinished(mem')
<1>1. CASE ChildStep \/ Inspect \/ PersistIntent \/ AppendEvent
  <2>1. mem' = mem /\ pc \in Committing /\ next = "idle"
      BY <1>1, WorldFrame DEF PersistIntent, AppendEvent, Committing, locals
  <2> QED BY <2>1 DEF CrashInv
<1>2. CASE FailAttempt
  <2>1. /\ cur \in Tasks /\ mem.tasks[cur].status = "running" /\ Touches(mem', disk, cur)
        /\ mem'.tasks[cur].status # "running"
      BY <1>2, FailureIntent
  <2>2. pc = "observe" BY <1>2 DEF FailAttempt
  <2>3. OrderedPrefix(disk) /\ disk.tasks[cur].status = "running" BY <2>1, <2>2, Standing DEF StateBody
  <2>4. \A u \in Tasks : u # cur => mem'.tasks[u] = disk.tasks[u] BY <2>1 DEF Touches
  <2> QED BY <2>1, <2>3, <2>4, NoneUnfinished
<1>3. CreateRun \/ AdmitResume \/ FinishRecovery \/ StartAttempt \/ CompleteAttempt \/ CompleteRun => next' # "idle"
    BY DEF CreateRun, AdmitResume, FinishRecovery, StartAttempt, CompleteAttempt, CompleteRun, BeginCommit
<1> QED BY <1>1, <1>2, <1>3, Arrivals DEF Committing

\* Before an intent is written, state.json is as the runner found it.
LEMMA StrayIntent ==
    ASSUME EngineInv, StoreInv, ArtifactInv, PlaceInv, CrashInv, edits = 0, ~Edit, Next, pc' = "intent",
           Stray(disk', quarantine')
    PROVE  crashes >= 1
<1>0. quarantine' = quarantine
  <2>1. ~QuarantineOutput BY DEF QuarantineOutput
  <2> QED BY <2>1, CalmWorld
<1>1. CASE ChildStep \/ Inspect
  <2>1. pc = "intent" /\ disk' = disk BY <1>1, WorldFrame
  <2> QED BY <1>0, <2>1 DEF CrashInv
<1>2. CASE CreateRun
  <2>1. disk' = InitialState BY <1>2 DEF CreateRun
  <2>2. ~Stray(InitialState, quarantine) BY InitialUnfinished
  <2> QED BY <1>0, <2>1, <2>2
<1>3. CASE AdmitResume \/ FinishRecovery \/ StartAttempt \/ CompleteAttempt \/ FailAttempt \/ CompleteRun
  <2>1. disk' = disk BY <1>3 DEF AdmitResume, FinishRecovery, StartAttempt, CompleteAttempt, FailAttempt, CompleteRun, files
  <2>2. pc \in {"admit", "quarantine", "stderr", "observe", "loop"}
      BY <1>3 DEF AdmitResume, FinishRecovery, StartAttempt, CompleteAttempt, FailAttempt, CompleteRun
  <2>3. disk # Nil /\ disk.event_log = log BY <2>2 DEF EngineInv, LedgerInv, Committing
  <2>4. Len(log) < MaxEvents
    <3>1. PICK s : CommitAllowed(s)
        BY <1>3 DEF AdmitResume, FinishRecovery, StartAttempt, CompleteAttempt, FailAttempt, CompleteRun, BeginCommit
    <3>2. s.event_log = log BY <3>1, SMTT(60) DEF CommitAllowed, EventTransitionStatus
    <3> QED BY <3>1, <3>2 DEF CommitAllowed
  <2> QED BY <1>0, <2>1, <2>2, <2>3, <2>4, StrayAfterCrash
<1> QED BY <1>1, <1>2, <1>3, Arrivals

\* A recovery begun after at most one crash finds each output in one place.
LEMMA RecoveryUnambiguous ==
    ASSUME EngineInv, StoreInv, CrashInv, edits = 0, ~Edit, Next, pc' = "quarantine",
           mem'.tasks[cur'].status = "running", crashes < 2, NEW p \in OutputSet(cur')
    PROVE  ws'[p] = Absent \/ quarantine'[p][AttemptNumber(mem', cur')] = Absent
<1>1. CASE ChildStep \/ Inspect
  <2>1. pc = "quarantine" /\ UNCHANGED <<mem, cur, quarantine>> BY <1>1, WorldFrame
  <2>2. ASSUME NEW t \in Tasks, NEW n \in AttemptNumbers, ChildWrites(t, n) PROVE FALSE BY <2>1, <2>2, WritingChild
  <2>3. ws' = ws BY <1>1, <2>2 DEF ChildStep, LeaderExits, GroupExits, Inspect, world
  <2> QED BY <2>1, <2>3 DEF CrashInv
<1>2. CASE BeginRecovery
  <2>1. /\ cur \in Tasks /\ mem = disk /\ Touches(mem', disk, cur) /\ mem'.tasks[cur].status = disk.tasks[cur].status
        /\ pc = "loop" /\ UNCHANGED <<cur, quarantine>>
      BY <1>2, RecoveryBegins
  <2>2. ~(crashes >= 2) BY EngineAssumption, SMTT(60) DEF EngineInv, TypeOK
  <2>3. ~Stray(mem, quarantine) BY <2>1, <2>2 DEF CrashInv
  <2>4. quarantine[p][Len(mem.tasks[cur].attempts)] = Absent BY <2>1, <2>3 DEF Stray
  <2> QED BY <2>1, <2>4 DEF Touches, AttemptNumber
<1>3. CASE QuarantineOutput
  <2> DEFINE q == Head(todo)
             n == AttemptNumber(mem, cur)
  <2>1. /\ q \in Paths /\ cur \in Tasks /\ ws'[q] = Absent /\ UNCHANGED <<mem, cur>> /\ pc = "quarantine"
        /\ \A r \in Paths : r # q => ws'[r] = ws[r] /\ quarantine'[r][n] = quarantine[r][n]
      BY <1>3, MovedOutput
  <2>2. p \in Paths /\ p \in OutputSet(cur) BY <2>1, OutputPaths
  <2>3. ws[p] = Absent \/ quarantine[p][n] = Absent BY <2>1, <2>2 DEF CrashInv
  <2> HIDE DEF q
  <2> QED BY <2>1, <2>2, <2>3
<1> QED BY <1>1, <1>2, <1>3, Arrivals

LEMMA RecoveryUnfinished ==
    ASSUME EngineInv, StoreInv, CrashInv, edits = 0, ~Edit, Next, pc' = "quarantine", Unfinished(mem')
    PROVE  crashes >= 1
<1>1. CASE ChildStep \/ Inspect \/ QuarantineOutput
  <2>1. pc = "quarantine" /\ mem' = mem BY <1>1, WorldFrame DEF QuarantineOutput
  <2> QED BY <2>1 DEF CrashInv
<1>2. CASE BeginRecovery
  <2>1. /\ cur \in Tasks /\ mem = disk /\ Touches(mem', disk, cur) /\ mem'.tasks[cur].status = disk.tasks[cur].status
        /\ pc = "loop"
      BY <1>2, RecoveryBegins
  <2>2. \A u \in Tasks : mem'.tasks[u].status = mem.tasks[u].status BY <2>1 DEF Touches
  <2>3. Unfinished(mem) BY <2>2 DEF Unfinished
  <2> QED BY <2>1, <2>3 DEF CrashInv
<1> QED BY <1>1, <1>2, Arrivals

\* As long as nobody edits the workspace, a task is left unfinished by a crash only, and half recovered by two.
THEOREM CrashInvariant == Spec => []CrashInv
<1>1. Init => CrashInv BY DEF Init, CrashInv, Committing
<1>2. ASSUME EngineInv, StoreInv, ArtifactInv, PlaceInv, TreeInv, CrashInv, Next, edits' = 0 PROVE CrashInv'
  <2>1. edits = 0 /\ ~Edit /\ crashes' \in {crashes, crashes + 1} BY <1>2, WorldChanges
  <2>2. crashes \in Nat BY <1>2, EngineAssumption, SMTT(60) DEF EngineInv, TypeOK
  <2>3. /\ crashes >= 1 => crashes' >= 1
        /\ crashes >= 2 => crashes' >= 2
        /\ crashes' < 2 => crashes < 2
      BY <2>1, <2>2, SMTT(60)
  <2>4. pc' \in {"idle", "reconcile", "admit"} /\ disk' # Nil /\ Len(disk'.event_log) < MaxEvents =>
              (Unfinished(disk') => crashes' >= 1) /\ (Stray(disk', quarantine') => crashes' >= 2)
      BY <1>2, <2>1, LeftUnfinished
  <2>5. pc' = "loop" \/ (pc' \in Committing /\ next' = "loop") =>
              (Unfinished(mem') => crashes >= 1) /\ (Stray(mem', quarantine') => crashes >= 2)
      BY <1>2, <2>1, LoopUnfinished
  <2>6. pc' = "quarantine" => (Unfinished(mem') => crashes >= 1) BY <1>2, <2>1, RecoveryUnfinished
  <2>7. pc' \in Committing /\ next' = "idle" => ~Unfinished(mem') BY <1>2, <2>1, LastCommit
  <2>8. pc' = "intent" => (Stray(disk', quarantine') => crashes >= 1) BY <1>2, <2>1, StrayIntent
  <2>9. pc' = "quarantine" /\ mem'.tasks[cur'].status = "running" /\ crashes' < 2 =>
              \A p \in OutputSet(cur') : ws'[p] = Absent \/ quarantine'[p][AttemptNumber(mem', cur')] = Absent
      BY <1>2, <2>1, <2>3, RecoveryUnambiguous
  <2> QED BY <2>3, <2>4, <2>5, <2>6, <2>7, <2>8, <2>9 DEF CrashInv, Committing
<1>3. ASSUME EngineInv, StoreInv, ArtifactInv, PlaceInv, TreeInv, CrashInv, Next PROVE CrashInv'
  <2>1. edits' # 0 => CrashInv' BY DEF CrashInv
  <2> QED BY <1>2, <1>3, <2>1
<1>4. CrashInv /\ UNCHANGED vars => CrashInv'
    BY DEF CrashInv, vars, files, world, locals, counters, Committing
<1> QED BY <1>1, <1>3, <1>4, EngineInvariant, StoreInvariant, ArtifactInvariant, PlaceInvariant, TreeInvariant, PTL DEF Spec

(***************************************************************************)
(* Whose files the workspace holds.                                        *)
(***************************************************************************)
LEMMA OwnSame == ASSUME NEW s, NEW r, r.tasks = s.tasks, NEW tree, Own(s, tree) PROVE Own(r, tree)
BY DEF Own, AttemptNumber

\* A change of the latest attempt of the task under way.
LEMMA OwnTouched ==
    ASSUME NEW s, NEW r, NEW t \in Tasks, s.tasks[t].status \in {"running", "failed"}, Touches(r, s, t),
           NEW tree, Own(s, tree)
    PROVE  Own(r, tree)
<1> SUFFICES ASSUME NEW u \in Tasks, r.tasks[u].status \in {"running", "failed"},
                    NEW p \in OutputSet(u) \cup Undisciplined, tree[p] \in Produced
             PROVE  tree[p][1] = u /\ tree[p][2] = AttemptNumber(r, u)
    BY DEF Own
<1>1. s.tasks[u].status \in {"running", "failed"} /\ AttemptNumber(r, u) = AttemptNumber(s, u)
  <2>1. CASE u = t BY <2>1 DEF Touches, AttemptNumber
  <2>2. CASE u # t
    <3>1. r.tasks[u] = s.tasks[u] BY <2>2 DEF Touches
    <3> QED BY <3>1 DEF AttemptNumber
  <2> QED BY <2>1, <2>2
<1> QED BY <1>1 DEF Own

\* No task is under way.
LEMMA OwnPending ==
    ASSUME NEW s, \A u \in Tasks : s.tasks[u].status \notin {"running", "failed"}, NEW tree
    PROVE  Own(s, tree)
BY DEF Own

\* Before its first write, a task finds nothing where it may write.
LEMMA NothingThere ==
    ASSUME Restrained, NEW s, OrderedPrefix(s), NEW t \in Tasks, At(s, t), NEW p \in OutputSet(t) \cup Undisciplined
    PROVE  p \in Paths /\ CleanTree(s)[p] = Absent
<1>1. p \in Paths BY OutputPaths, EngineAssumption
<1>2. ASSUME NEW u \in Tasks, Completed(s, u), p \in OutputSet(u) PROVE FALSE
  <2>1. u # t BY <1>2 DEF At
  <2>2. u < t \/ t < u BY <2>1, SMTT(60) DEF Tasks
  <2>3. CASE t < u
    <3>1. s.tasks[u].status = "pending" BY <2>3 DEF OrderedPrefix, At
    <3> QED BY <1>2, <3>1 DEF Completed
  <2>4. CASE u < t
    <3>1. u < TaskCount BY <2>4, SuiteAssumption, SMTT(60) DEF Tasks
    <3>2. p \notin Undisciplined BY <1>2, <3>1 DEF Restrained
    <3>3. p \in OutputSet(u) \cap OutputSet(t) BY <1>2, <3>2
    <3> QED BY <2>1, <3>3, SuiteAssumption
  <2> QED BY <2>2, <2>3, <2>4
<1>3. Tasks \in SUBSET Tasks OBVIOUS
<1>4. SealedTree(s, Tasks)[p] = Absent BY <1>1, <1>2, <1>3, SealedValue
<1> QED BY <1>1, <1>4 DEF CleanTree

LEMMA NotProduced == Absent \notin Produced /\ Produced \subseteq Contents
BY AbsentAssumption DEF Contents, Produced

\* A new attempt starts in a workspace without files of its own.
LEMMA OwnStarted ==
    ASSUME EngineInv, StoreInv, Restrained, StartAttempt, BoundObservation(mem, ws, {})
    PROVE  Own(mem', ws)
<1>1. /\ cur \in Tasks /\ mem = disk /\ disk.tasks[cur].status = "pending"
      /\ \A u \in Tasks : u # cur => mem'.tasks[u] = disk.tasks[u]
    BY StartIntent
<1>2. pc = "stderr" BY DEF StartAttempt
<1>3. OrderedPrefix(disk) /\ At(disk, cur) BY <1>1, <1>2, Standing DEF StateBody
<1> SUFFICES ASSUME NEW u \in Tasks, mem'.tasks[u].status \in {"running", "failed"},
                    NEW p \in OutputSet(u) \cup Undisciplined
             PROVE  ws[p] \notin Produced
    BY DEF Own
<1>4. u = cur
  <2>1. SUFFICES ASSUME u # cur PROVE FALSE OBVIOUS
  <2>2. disk.tasks[u].status \in {"running", "failed"} BY <1>1, <2>1
  <2>3. u < cur \/ cur < u BY <1>1, <2>1, SMTT(60) DEF Tasks
  <2>4. CASE u < cur BY <2>2, <2>4, <1>3 DEF At, Completed
  <2>5. CASE cur < u BY <2>2, <2>5, <1>1, <1>3 DEF OrderedPrefix, At
  <2> QED BY <2>3, <2>4, <2>5
<1>5. p \in OutputSet(cur) \cup Undisciplined BY <1>4
<1>6. p \in Paths /\ CleanTree(disk)[p] = Absent BY <1>1, <1>3, <1>5, NothingThere
<1>7. ws[p] = CleanTree(mem)[p] BY <1>6 DEF BoundObservation
<1> QED BY <1>1, <1>6, <1>7, NotProduced

\* What a transition is about to record stays true of the workspace.
LEMMA OwnIntended ==
    ASSUME EngineInv, StoreInv, Restrained, Next, ~Edit, disk # Nil => Own(disk, ws),
           pc = "intent" => Own(mem, ws), pc = "stderr" => BoundObservation(mem, ws, {}), pc' = "intent"
    PROVE  Own(mem', ws')
<1>0. ws' = ws
  <2>1. ~QuarantineOutput BY DEF QuarantineOutput
  <2> QED BY <2>1, CalmWorld
<1> SUFFICES Own(mem', ws) BY <1>0
<1>1. CASE ChildStep \/ Inspect
  <2>1. pc = "intent" /\ mem' = mem BY <1>1, WorldFrame
  <2> QED BY <2>1
<1>2. CASE CreateRun
  <2>1. mem' = [InitialState EXCEPT !.pending = RunEvent("run_started")] BY <1>2 DEF CreateRun, BeginCommit
  <2>2. mem'.tasks = InitialState.tasks BY <2>1, InitialStateType DEF States
  <2>3. \A u \in Tasks : mem'.tasks[u].status = "pending" BY <2>2, InitialTasks
  <2>4. \A u \in Tasks : mem'.tasks[u].status \notin {"running", "failed"} BY <2>3
  <2> QED BY <2>4, OwnPending
<1>3. CASE AdmitResume \/ CompleteRun
  <2>1. pc \in {"admit", "loop"} BY <1>3 DEF AdmitResume, CompleteRun
  <2>2. mem = disk /\ disk \in States /\ disk # Nil
      BY <2>1, NilAssumption DEF StoreInv, CopyInv, EngineInv, LedgerInv, TypeOK
  <2>3. mem'.tasks = disk.tasks BY <1>3, <2>2 DEF AdmitResume, CompleteRun, BeginCommit, States
  <2> QED BY <2>2, <2>3, OwnSame
<1>4. CASE FinishRecovery \/ CompleteAttempt \/ FailAttempt
  <2>1. cur \in Tasks /\ mem.tasks[cur].status \in {"running", "failed"} /\ Touches(mem', disk, cur)
    <3>1. CASE FinishRecovery BY <3>1, RecoveryIntent
    <3>2. CASE CompleteAttempt BY <3>2, CompletionIntent
    <3>3. CASE FailAttempt BY <3>3, FailureIntent
    <3> QED BY <1>4, <3>1, <3>2, <3>3
  <2>2. pc \in {"quarantine", "observe"} BY <1>4 DEF FinishRecovery, CompleteAttempt, FailAttempt
  <2>3. disk # Nil /\ disk.tasks[cur].status = mem.tasks[cur].status BY <2>1, <2>2, Standing
  <2> QED BY <2>1, <2>3, OwnTouched
<1>5. CASE StartAttempt
  <2>1. BoundObservation(mem, ws, {}) BY <1>5 DEF StartAttempt
  <2> QED BY <1>5, <2>1, OwnStarted
<1> QED BY <1>1, <1>2, <1>3, <1>4, <1>5, Arrivals

\* A child writes files of its own attempt.
LEMMA OwnWritten ==
    ASSUME EngineInv, StoreInv, NEW t \in Tasks, NEW n \in AttemptNumbers, ChildWrites(t, n), Own(disk, ws)
    PROVE  Own(disk, ws')
<1>1. /\ OrderedPrefix(disk) /\ disk.tasks[t].status = "running" /\ n = AttemptNumber(disk, t) BY WritingChild
<1>2. PICK p \in OutputSet(t) \cup Undisciplined, r \in Revisions : ws' = [ws EXCEPT ![p] = <<t, n, r>>]
    BY DEF ChildWrites
<1>3. ws \in Trees BY DEF EngineInv, TypeOK
<1> SUFFICES ASSUME NEW u \in Tasks, disk.tasks[u].status \in {"running", "failed"},
                    NEW q \in OutputSet(u) \cup Undisciplined, ws'[q] \in Produced
             PROVE  ws'[q][1] = u /\ ws'[q][2] = AttemptNumber(disk, u)
    BY DEF Own
<1>4. u = t BY <1>1, OneOpen
<1>5. q \in Paths BY OutputPaths, EngineAssumption
<1>6. CASE q = p
  <2>1. ws'[q] = <<t, n, r>> BY <1>2, <1>3, <1>5, <1>6 DEF Trees
  <2>2. ws'[q][1] = t /\ ws'[q][2] = n BY <2>1, SMTT(60)
  <2> QED BY <1>1, <1>4, <2>2
<1>7. CASE q # p
  <2>1. ws'[q] = ws[q] BY <1>2, <1>3, <1>5, <1>7 DEF Trees
  <2> QED BY <2>1 DEF Own
<1> QED BY <1>6, <1>7

\* A move to the quarantine takes a file away.
LEMMA OwnMoved ==
    ASSUME EngineInv, StoreInv, QuarantineOutput, Own(disk, ws)
    PROVE  Own(disk, ws')
<1>1. PICK p : ws'[p] = Absent /\ \A q \in Paths : q # p => ws'[q] = ws[q] BY MovedOutput
<1> SUFFICES ASSUME NEW u \in Tasks, disk.tasks[u].status \in {"running", "failed"},
                    NEW q \in OutputSet(u) \cup Undisciplined, ws'[q] \in Produced
             PROVE  ws'[q][1] = u /\ ws'[q][2] = AttemptNumber(disk, u)
    BY DEF Own
<1>2. q \in Paths BY OutputPaths, EngineAssumption
<1>3. q # p BY <1>1, NotProduced
<1>4. ws'[q] = ws[q] BY <1>1, <1>2, <1>3
<1> QED BY <1>4 DEF Own

\* What state.json records stays true of the workspace.
LEMMA OwnKept ==
    ASSUME EngineInv, StoreInv, Next, ~Edit, disk # Nil => Own(disk, ws), pc = "intent" => Own(mem, ws)
    PROVE  disk' # Nil => Own(disk', ws')
<1> SUFFICES ASSUME disk' # Nil PROVE Own(disk', ws') OBVIOUS
<1>1. CASE disk' = disk /\ ws' = ws BY <1>1
<1>2. CASE QuarantineOutput
  <2>1. disk' = disk BY <1>2 DEF QuarantineOutput
  <2> QED BY <1>2, <2>1, OwnMoved
<1>3. CASE \E t \in Tasks, n \in AttemptNumbers : ChildWrites(t, n)
  <2>1. PICK t \in Tasks, n \in AttemptNumbers : ChildWrites(t, n) BY <1>3
  <2>2. disk' = disk BY <2>1 DEF ChildWrites, files
  <2> QED BY <2>1, <2>2, OwnWritten
<1>4. CASE disk' # disk /\ ws' = ws
  <2>1. CASE pc = "create" /\ disk' = InitialState
    <3>1. \A u \in Tasks : InitialState.tasks[u].status = "pending" BY InitialTasks
    <3>2. \A u \in Tasks : disk'.tasks[u].status \notin {"running", "failed"} BY <2>1, <3>1
    <3> QED BY <3>2, OwnPending
  <2>2. CASE pc = "intent" /\ disk' = mem BY <1>4, <2>2
  <2>3. CASE pc \in {"ack", "reconcile"} /\ disk' = Acknowledged(mem)
    <3>1. mem = disk /\ disk \in States /\ disk # Nil BY <2>3, NilAssumption DEF EngineInv, LedgerInv, TypeOK
    <3>2. disk'.tasks = disk.tasks BY <2>3, <3>1 DEF Acknowledged, States
    <3>3. Own(disk', ws) BY <3>1, <3>2, OwnSame
    <3> QED BY <3>3, <1>4
  <2>4. CASE pc \in Managing /\ disk' = mem
    <3>1. cur \in Tasks /\ mem.tasks[cur].status = "running" BY <2>4, ManagedChild
    <3>2. disk # Nil /\ Touches(mem, disk, cur) /\ disk.tasks[cur].status = "running" BY <2>4, <3>1, Standing
    <3>3. Own(mem, ws) BY <3>1, <3>2, OwnTouched
    <3> QED BY <1>4, <2>4, <3>3
  <2> QED BY <1>4, <2>1, <2>2, <2>3, <2>4, DiskSteps
<1> QED BY <1>1, <1>2, <1>3, <1>4, WorldChanges

\* Where a task under way writes, and nobody edits the workspace, only files of its latest attempt are found.
THEOREM OwnInvariant == ASSUME Restrained PROVE Spec => []OwnInv
<1>1. Init => OwnInv BY DEF Init, OwnInv
<1>2. ASSUME EngineInv, StoreInv, TreeInv, OwnInv, Next PROVE OwnInv'
  <2>1. SUFFICES ASSUME edits' = 0 PROVE (disk' # Nil => Own(disk', ws')) /\ (pc' = "intent" => Own(mem', ws'))
      BY DEF OwnInv, Own, AttemptNumber
  <2>2. edits = 0 /\ ~Edit BY <1>2, <2>1, WorldChanges
  <2>3. (disk # Nil => Own(disk, ws)) /\ (pc = "intent" => Own(mem, ws)) BY <1>2, <2>2 DEF OwnInv
  <2>4. disk' # Nil => Own(disk', ws') BY <1>2, <2>2, <2>3, OwnKept
  <2>5. pc = "stderr" => BoundObservation(mem, ws, {}) BY <1>2, <2>2 DEF TreeInv
  <2>6. pc' = "intent" => Own(mem', ws') BY <1>2, <2>2, <2>3, <2>5, OwnIntended
  <2> QED BY <2>4, <2>6
<1>3. OwnInv /\ UNCHANGED vars => OwnInv'
  <2>1. SUFFICES ASSUME OwnInv, UNCHANGED vars PROVE OwnInv'
      OBVIOUS
  <2>2. disk' = disk /\ ws' = ws /\ pc' = pc /\ mem' = mem /\ edits' = edits
      BY <2>1 DEF vars, files, world, locals, counters
  <2> QED BY <2>1, <2>2 DEF OwnInv, Own, AttemptNumber
<1> QED BY <1>1, <1>2, <1>3, EngineInvariant, StoreInvariant, TreeInvariant, PTL DEF Spec

\* A step keeps the files of every attempt.
LEMMA OutputsStep ==
    ASSUME EngineInv, StoreInv, Next, ~Edit, disk # Nil => Own(disk, ws)
    PROVE  /\ \A p \in Paths : ws[p] \in Produced /\ ws'[p] # ws[p] =>
                 \/ ws'[p] = Absent /\ quarantine'[p][ws[p][2]] = ws[p]
                 \/ ws'[p] # Absent /\ ws'[p][1] = ws[p][1] /\ ws'[p][2] = ws[p][2]
           /\ \A p \in Paths, n \in AttemptNumbers :
                 quarantine[p][n] # Absent => quarantine'[p][n] = quarantine[p][n]
<1>0. ws \in Trees /\ quarantine \in [Paths -> [AttemptNumbers -> Contents \cup {Absent}]] BY DEF EngineInv, TypeOK
<1>1. CASE ws' = ws /\ quarantine' = quarantine BY <1>1
<1>2. CASE \E t \in Tasks, n \in AttemptNumbers : ChildWrites(t, n)
  <2>1. PICK t \in Tasks, n \in AttemptNumbers : ChildWrites(t, n) BY <1>2
  <2>2. PICK q \in OutputSet(t) \cup Undisciplined, r \in Revisions : ws' = [ws EXCEPT ![q] = <<t, n, r>>]
      BY <2>1 DEF ChildWrites
  <2>3. disk # Nil /\ disk.tasks[t].status = "running" /\ n = AttemptNumber(disk, t) BY <2>1, WritingChild
  <2>4. quarantine' = quarantine BY <2>1 DEF ChildWrites, files
  <2>5. ASSUME NEW p \in Paths, ws[p] \in Produced, ws'[p] # ws[p]
        PROVE  ws'[p] # Absent /\ ws'[p][1] = ws[p][1] /\ ws'[p][2] = ws[p][2]
    <3>1. p = q BY <1>0, <2>2, <2>5 DEF Trees
    <3>2. ws'[p] = <<t, n, r>> BY <1>0, <2>2, <3>1 DEF Trees
    <3>3. <<t, n, r>> \in Produced BY DEF Produced
    <3>4. ws[p][1] = t /\ ws[p][2] = n BY <2>3, <2>5, <3>1 DEF Own
    <3>5. ws'[p][1] = t /\ ws'[p][2] = n BY <3>2, SMTT(60)
    <3> QED BY <3>2, <3>3, <3>4, <3>5, NotProduced
  <2> QED BY <2>4, <2>5
<1>3. CASE QuarantineOutput
  <2> DEFINE q == Head(todo)
             m == AttemptNumber(mem, cur)
             c == IF ws[q] # Absent THEN ws[q] ELSE quarantine[q][m]
  <2>1. /\ quarantine' = [quarantine EXCEPT ![q][m] = c] /\ ws' = [ws EXCEPT ![q] = Absent]
        /\ ws[q] = Absent \/ quarantine[q][m] = Absent
      BY <1>3 DEF QuarantineOutput
  <2>2. /\ cur \in Tasks /\ disk # Nil /\ disk.tasks[cur].status \in {"running", "failed"} /\ m \in AttemptNumbers
        /\ m = Len(disk.tasks[cur].attempts) /\ q \in Paths /\ q \in OutputSet(cur)
      BY <1>3, MovedOutput
  <2>3. m = AttemptNumber(disk, cur) BY <2>2 DEF AttemptNumber
  <2>4. quarantine'[q][m] = c BY <1>0, <2>1, <2>2
  <2>5. ASSUME NEW p \in Paths, NEW n \in AttemptNumbers, p # q \/ n # m PROVE quarantine'[p][n] = quarantine[p][n]
      BY <1>0, <2>1, <2>2, <2>5
  <2>6. c = IF ws[q] # Absent THEN ws[q] ELSE quarantine[q][m] OBVIOUS
  <2> HIDE DEF q, m, c
  <2>7. ASSUME NEW p \in Paths, ws[p] \in Produced, ws'[p] # ws[p]
        PROVE  ws'[p] = Absent /\ quarantine'[p][ws[p][2]] = ws[p]
    <3>1. p = q BY <1>0, <2>1, <2>7 DEF Trees
    <3>2. ws'[p] = Absent BY <1>0, <2>1, <3>1 DEF Trees
    <3>3. ws[p][2] = m BY <2>2, <2>3, <2>7, <3>1 DEF Own
    <3>4. ws[p] # Absent BY <2>7, NotProduced
    <3> QED BY <2>4, <2>6, <3>1, <3>2, <3>3, <3>4
  <2>8. ASSUME NEW p \in Paths, NEW n \in AttemptNumbers, quarantine[p][n] # Absent
        PROVE  quarantine'[p][n] = quarantine[p][n]
    <3>1. CASE p = q /\ n = m BY <2>1, <2>4, <2>6, <2>8, <3>1
    <3>2. CASE p # q \/ n # m BY <2>5, <3>2
    <3> QED BY <3>1, <3>2
  <2> QED BY <2>7, <2>8
<1> QED BY <1>1, <1>2, <1>3, WorldChanges

\* As long as nobody edits the workspace and no child writes over the sealed outputs of
\* an earlier task, no file an attempt produced is ever lost, whatever crashes: NoOutputLost.
THEOREM OutputsTheorem == ASSUME MaxEdits = 0, Restrained PROVE Spec => NoOutputLost
<1> DEFINE Kept ==
             /\ \A p \in Paths : ws[p] \in Tasks \X AttemptNumbers \X Revisions /\ ws'[p] # ws[p] =>
                   LET t == ws[p][1]
                       n == ws[p][2]
                   IN  \/ ws'[p] = Absent /\ quarantine'[p][n] = ws[p]
                       \/ ws'[p] # Absent /\ ws'[p][1] = t /\ ws'[p][2] = n
             /\ \A p \in Paths, n \in AttemptNumbers :
                   quarantine[p][n] # Absent => quarantine'[p][n] = quarantine[p][n]
<1>1. ASSUME EngineInv, StoreInv, OwnInv, Next PROVE Kept
  <2>1. edits = 0 /\ ~Edit
    <3>1. edits = 0 BY <1>1, SMTT(60) DEF EngineInv, TypeOK
    <3>2. ~(edits < MaxEdits) BY <3>1, SMTT(60)
    <3> QED BY <3>1, <3>2 DEF Edit
  <2>2. disk # Nil => Own(disk, ws) BY <1>1, <2>1 DEF OwnInv
  <2> QED BY <1>1, <2>1, <2>2, OutputsStep DEF Produced
<1>2. EngineInv /\ StoreInv /\ OwnInv /\ [Next]_vars => [Kept]_vars BY <1>1
<1>3. NoOutputLost <=> [][Kept]_vars BY DEF NoOutputLost
<1> HIDE DEF Kept
<1> QED BY <1>2, <1>3, EngineInvariant, StoreInvariant, OwnInvariant, PTL DEF Spec

=============================================================================
