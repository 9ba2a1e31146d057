-------------------------- MODULE RunHistoryProofs --------------------------
(***************************************************************************)
(* Proofs for every suite, continued from RunRecoveryProofs: the recorded  *)
(* history of the workspace, and the limits on the attempts.               *)
(***************************************************************************)
EXTENDS RunRecoveryProofs

USE ZenonT(60)

(***************************************************************************)
(* Sixth layer: the recorded history of the workspace.                     *)
(***************************************************************************)
LEMMA BeforeClean ==
    ASSUME NEW s \in States, Recorded(s), OrderedPrefix(s), NEW t \in Tasks, At(s, t),
           s.tasks[t].status \in {"running", "failed"}, WorkspaceHistory(s)
    PROVE  Latest(s, t).before = CleanTree(s)
<1>1. Len(s.tasks[t].attempts) \in DOMAIN s.tasks[t].attempts BY LatestType DEF AttemptNumber
<1>2. AttemptHistory(Latest(s, t), SealedTree(s, 1..(t - 1))) BY <1>1 DEF WorkspaceHistory, Latest
<1>3. SealedTree(s, 1..(t - 1)) = CleanTree(s) BY CleanAt
<1> QED BY <1>2, <1>3 DEF AttemptHistory

\* The history after a new record of the latest attempt.
LEMMA HistoryTouched ==
    ASSUME NEW s \in States, NEW r \in States, OrderedPrefix(s), NEW t \in Tasks, At(s, t), WorkspaceHistory(s),
           Touches(r, s, t), AttemptHistory(Latest(r, t), CleanTree(s))
    PROVE  WorkspaceHistory(r)
<1>1. \A u \in Tasks : u # t => r.tasks[u] = s.tasks[u] BY DEF Touches
<1>2. ASSUME NEW i \in DOMAIN r.tasks[t].attempts
      PROVE  \/ i = Len(r.tasks[t].attempts)
             \/ i \in DOMAIN s.tasks[t].attempts /\ r.tasks[t].attempts[i] = s.tasks[t].attempts[i]
  <2>1. /\ r.tasks[t].attempts \in Seq(Attempts) /\ s.tasks[t].attempts \in Seq(Attempts)
        /\ Len(r.tasks[t].attempts) = Len(s.tasks[t].attempts)
        /\ \A j \in 1..(Len(s.tasks[t].attempts) - 1) : r.tasks[t].attempts[j] = s.tasks[t].attempts[j]
      BY StateTypes DEF Touches
  <2>2. \A q, w \in Seq(Attempts) : Len(q) = Len(w) =>
            \A j \in DOMAIN q : j = Len(q) \/ (j \in DOMAIN w /\ j \in 1..(Len(w) - 1))
      BY SMTT(60)
  <2>3. i = Len(r.tasks[t].attempts) \/ (i \in DOMAIN s.tasks[t].attempts /\ i \in 1..(Len(s.tasks[t].attempts) - 1))
      BY <2>1, <2>2
  <2> QED BY <2>1, <2>3
<1> QED BY <1>1, <1>2, HistoryGrows, SMTT(60)

LEMMA EmptyHistory == ASSUME NEW s, s.tasks = InitialState.tasks PROVE WorkspaceHistory(s)
<1>1. DOMAIN << >> = {} BY SMTT(60)
<1>2. \A t \in Tasks : DOMAIN s.tasks[t].attempts = {} BY <1>1, InitialTasks
<1> QED BY <1>2 DEF WorkspaceHistory

\* Where a recovery or an attempt is under way, both copies agree on the workspace it started from.
LEMMA OpenAttempt ==
    ASSUME EngineInv, StoreInv, HistoryInv, edits = 0, crashes <= 1, pc \in {"quarantine", "observe"} \cup Managing
    PROVE  /\ cur \in Tasks /\ mem \in States /\ disk \in States /\ disk # Nil /\ At(disk, cur) /\ OrderedPrefix(disk)
           /\ mem.tasks[cur].status \in {"running", "failed"}
           /\ Touches(mem, disk, cur) /\ WorkspaceHistory(disk) /\ CleanTree(mem) = CleanTree(disk)
           /\ CleanTree(disk) \in Trees /\ Latest(mem, cur) \in Attempts
           /\ Latest(mem, cur).before = Latest(disk, cur).before /\ Latest(mem, cur).before = CleanTree(disk)
<1>1. cur \in Tasks /\ mem.tasks[cur].status \in {"running", "failed"} BY DEF EngineInv, LaunchInv
<1>2. /\ mem \in States /\ disk \in States /\ Recorded(mem) /\ Recorded(disk) /\ disk # Nil /\ StateBody(disk)
      /\ At(disk, cur) /\ Touches(mem, disk, cur) /\ mem.tasks[cur].status = disk.tasks[cur].status
    BY <1>1, Standing
<1>3. WorkspaceHistory(disk) /\ OrderedPrefix(disk) BY <1>2 DEF HistoryInv, StateBody
<1>4. CleanTree(mem) = CleanTree(disk)
  <2>1. ~Completed(disk, cur) /\ ~Completed(mem, cur) BY <1>1, <1>2 DEF Completed
  <2>2. \A u \in Tasks : u # cur => mem.tasks[u] = disk.tasks[u] BY <1>2 DEF Touches
  <2> QED BY <1>1, <2>1, <2>2, CleanTouched
<1>5. CleanTree(disk) \in Trees /\ Latest(mem, cur) \in Attempts BY <1>1, <1>2, CleanTreeType, LatestType
<1>6. Latest(disk, cur).before = CleanTree(disk) BY <1>1, <1>2, <1>3, BeforeClean
<1>7. Latest(mem, cur).before = Latest(disk, cur).before
  <2>1. CASE pc \in {"quarantine", "persist", "observe"} BY <2>1 DEF HistoryInv
  <2>2. CASE pc \in {"launch", "identify", "wait"} BY <2>2 DEF StoreInv, CopyInv
  <2> QED BY <2>1, <2>2 DEF Managing
<1> QED BY <1>1, <1>2, <1>3, <1>4, <1>5, <1>6, <1>7

\* Every write of state.json keeps the history derivable.
LEMMA HistoryKept ==
    ASSUME EngineInv, StoreInv, HistoryInv, edits = 0, crashes <= 1, Next, disk' # Nil
    PROVE  WorkspaceHistory(disk')
<1>1. CASE disk' = disk BY <1>1 DEF HistoryInv
<1>2. CASE pc = "create" /\ disk' = InitialState BY <1>2, EmptyHistory
<1>3. CASE pc = "intent" /\ disk' = mem BY <1>3 DEF HistoryInv
<1>4. CASE pc \in {"ack", "reconcile"} /\ disk' = Acknowledged(mem)
  <2>1. mem = disk /\ disk \in States /\ disk # Nil BY <1>4, NilAssumption DEF EngineInv, LedgerInv, TypeOK
  <2>2. disk'.tasks = disk.tasks BY <1>4, <2>1 DEF Acknowledged, States
  <2>3. WorkspaceHistory(disk) BY <2>1 DEF HistoryInv
  <2> QED BY <2>2, <2>3, HistorySame
<1>5. CASE pc \in Managing /\ disk' = mem
  <2>1. CASE pc = "persist"
    <3>1. /\ cur \in Tasks /\ mem \in States /\ disk \in States /\ At(disk, cur) /\ OrderedPrefix(disk)
          /\ Touches(mem, disk, cur) /\ WorkspaceHistory(disk) /\ Latest(mem, cur).before = CleanTree(disk)
        BY <1>5, OpenAttempt
    <3>2. mem.tasks[cur].status = "running" /\ StateBody(mem) BY <1>5, <2>1, ManagedChild DEF StoreInv, ShapeInv
    <3>3. Latest(mem, cur).quarantined = Nil /\ Latest(mem, cur).status = "running" BY <3>1, <3>2, LatestShape
    <3>4. AttemptHistory(Latest(mem, cur), CleanTree(disk)) BY <3>1, <3>3 DEF AttemptHistory
    <3>5. WorkspaceHistory(mem) BY <3>1, <3>4, HistoryTouched
    <3> QED BY <1>5, <3>5
  <2>2. CASE pc # "persist"
    <3>1. mem = disk BY <1>5, <2>2 DEF Managing, StoreInv, CopyInv
    <3> QED BY <1>5, <3>1 DEF HistoryInv
  <2> QED BY <2>1, <2>2
<1> QED BY <1>1, <1>2, <1>3, <1>4, <1>5, DiskSteps

\* The record a recovery is about to write.
LEMMA RecoveredHistory ==
    ASSUME EngineInv, StoreInv, HistoryInv, edits = 0, crashes <= 1, FinishRecovery
    PROVE  AttemptHistory(Latest(mem', cur), CleanTree(disk))
<1> DEFINE a == Latest(mem, cur)
           clean == CleanTree(disk)
<1>1. pc = "quarantine" /\ todo = << >> /\ BoundObservation(mem, ws, {}) BY DEF FinishRecovery
<1>2. /\ cur \in Tasks /\ CleanTree(mem) = clean /\ clean \in Trees /\ a \in Attempts /\ a.before = clean
    BY <1>1, OpenAttempt
<1>3. Latest(mem', cur) = [a EXCEPT !.quarantined = moved, !.recovered = ws] BY RecoveryIntent
<1>4. AttemptShape(a, cur) /\ a.status \in Terminal BY <1>1 DEF StoreInv, ShapeInv
<1>5. a.after \in Trees BY <1>2, <1>4 DEF AttemptShape, Attempts
<1>6. ws \in Trees /\ moved \in PartialTrees BY DEF EngineInv, TypeOK
<1>7. \A p \in Paths : ws[p] = clean[p] BY <1>1, <1>2 DEF BoundObservation
<1>8. ws = clean
  <2>1. ws = [p \in Paths |-> ws[p]] /\ clean = [p \in Paths |-> clean[p]] BY <1>2, <1>6 DEF Trees
  <2> HIDE DEF clean
  <2> QED BY <1>7, <2>1
<1>9. Elems(todo) = {} BY <1>1, SMTT(60) DEF Elems
<1>10. \A p \in Paths : a.after[p] = IF p \in DOMAIN moved THEN moved[p] ELSE clean[p]
    BY <1>1, <1>7, <1>9 DEF HistoryInv
<1>11. a.after = WithOutputs(clean, moved) BY <1>5, <1>10 DEF WithOutputs, Trees
<1> DEFINE b == Latest(mem', cur)
<1>12. b.before = a.before /\ b.status = a.status /\ b.after = a.after /\ b.quarantined = moved /\ b.recovered = ws
    BY <1>2, <1>3 DEF Attempts
<1>13. b.status # "completed" BY <1>4, <1>12 DEF Terminal
<1> HIDE DEF a, b, clean
<1>14. AttemptHistory(b, clean) BY <1>2, <1>8, <1>11, <1>12, <1>13 DEF AttemptHistory
<1> QED BY <1>14 DEF b, clean

\* The record a completion is about to write.
LEMMA CompletedHistory ==
    ASSUME EngineInv, StoreInv, HistoryInv, edits = 0, crashes <= 1, CompleteAttempt
    PROVE  AttemptHistory(Latest(mem', cur), CleanTree(disk))
<1> DEFINE a == Latest(mem, cur)
           clean == CleanTree(disk)
           outputs == Files(ws, OutputSet(cur))
           b == Latest(mem', cur)
<1>1. pc = "observe" /\ OutputsAcceptable(mem, cur) BY DEF CompleteAttempt
<1>2. /\ cur \in Tasks /\ CleanTree(mem) = clean /\ clean \in Trees /\ a \in Attempts /\ a.before = clean
    BY <1>1, OpenAttempt
<1>3. /\ b = [a EXCEPT !.status = "completed", !.rc = "known", !.after = ws, !.outputs = outputs]
      /\ outputs \in [OutputSet(cur) -> Contents]
    BY CompletionIntent
<1>4. a.quarantined = Nil BY <1>1 DEF StoreInv, ShapeInv, Unrecorded
<1>5. b.before = a.before /\ b.after = ws /\ b.quarantined = a.quarantined /\ b.outputs = outputs BY <1>2, <1>3 DEF Attempts
<1>6. ws \in Trees BY DEF EngineInv, TypeOK
<1>7. ASSUME NEW p \in Paths PROVE ws[p] = IF p \in DOMAIN outputs THEN outputs[p] ELSE clean[p]
  <2>1. CASE p \in OutputSet(cur)
    <3>1. ws[p] # Absent BY <1>1, <2>1 DEF OutputsAcceptable
    <3>2. outputs[p] = ws[p] BY <2>1, <3>1 DEF Files
    <3> QED BY <1>3, <2>1, <3>2
  <2>2. CASE p \notin OutputSet(cur)
    <3>1. ws[p] = clean[p] BY <1>1, <1>2, <2>2 DEF OutputsAcceptable, BoundObservation
    <3> QED BY <1>3, <2>2, <3>1
  <2> QED BY <2>1, <2>2
<1> HIDE DEF a, b, clean, outputs
<1>8. ws = WithOutputs(clean, outputs) BY <1>6, <1>7 DEF WithOutputs, Trees
<1>9. AttemptHistory(b, clean) BY <1>2, <1>4, <1>5, <1>8 DEF AttemptHistory
<1> QED BY <1>9 DEF b, clean

\* The record about to be written has a derivable history.
LEMMA HistoryIntended ==
    ASSUME EngineInv, StoreInv, HistoryInv, edits = 0, crashes <= 1, Next, ~Edit, pc' = "intent"
    PROVE  WorkspaceHistory(mem')
<1>1. CASE ChildStep \/ Inspect
  <2>1. pc = "intent" /\ mem' = mem BY <1>1, WorldFrame
  <2> QED BY <2>1 DEF HistoryInv
<1>2. CASE CreateRun
  <2>1. mem' = [InitialState EXCEPT !.pending = RunEvent("run_started")] BY <1>2 DEF CreateRun, BeginCommit
  <2>2. mem'.tasks = InitialState.tasks BY <2>1, InitialStateType DEF States
  <2> QED BY <2>2, EmptyHistory
<1>3. CASE AdmitResume \/ CompleteRun
  <2>1. pc \in {"admit", "loop"} BY <1>3 DEF AdmitResume, CompleteRun
  <2>2. mem = disk /\ disk \in States /\ disk # Nil
      BY <2>1, NilAssumption DEF StoreInv, CopyInv, EngineInv, LedgerInv, TypeOK
  <2>3. mem'.tasks = disk.tasks BY <1>3, <2>2 DEF AdmitResume, CompleteRun, BeginCommit, States
  <2>4. WorkspaceHistory(disk) BY <2>2 DEF HistoryInv
  <2> QED BY <2>3, <2>4, HistorySame
<1>4. CASE FinishRecovery \/ CompleteAttempt \/ FailAttempt
  <2>1. pc \in {"quarantine", "observe"} BY <1>4 DEF FinishRecovery, CompleteAttempt, FailAttempt
  <2>2. /\ cur \in Tasks /\ disk \in States /\ At(disk, cur) /\ OrderedPrefix(disk) /\ WorkspaceHistory(disk)
        /\ Latest(mem, cur).before = CleanTree(disk)
      BY <2>1, OpenAttempt
  <2>3. mem' \in States /\ Touches(mem', disk, cur)
    <3>1. CASE FinishRecovery BY <3>1, RecoveryIntent
    <3>2. CASE CompleteAttempt BY <3>2, CompletionIntent
    <3>3. CASE FailAttempt BY <3>3, FailureIntent
    <3> QED BY <1>4, <3>1, <3>2, <3>3
  <2>4. AttemptHistory(Latest(mem', cur), CleanTree(disk))
    <3>1. CASE FailAttempt
      <4>1. /\ Latest(mem', cur).before = Latest(mem, cur).before /\ Latest(mem', cur).status \in Terminal
            /\ Latest(mem', cur).quarantined = Nil
          BY <3>1, FailureIntent
      <4> QED BY <2>2, <4>1 DEF AttemptHistory, Terminal
    <3> QED BY <1>4, <3>1, RecoveredHistory, CompletedHistory
  <2> QED BY <2>2, <2>3, <2>4, HistoryTouched
<1>5. CASE StartAttempt
  <2>1. /\ cur \in Tasks /\ mem = disk /\ disk.tasks[cur].status = "pending" /\ mem' \in States
        /\ \A u \in Tasks : u # cur => mem'.tasks[u] = disk.tasks[u]
        /\ Len(mem'.tasks[cur].attempts) = Len(disk.tasks[cur].attempts) + 1
        /\ \A i \in 1..Len(disk.tasks[cur].attempts) : mem'.tasks[cur].attempts[i] = disk.tasks[cur].attempts[i]
        /\ Latest(mem', cur) = NewAttempt(CleanTree(disk))
      BY <1>5, StartIntent
  <2>2. pc = "stderr" BY <1>5 DEF StartAttempt
  <2>3. disk \in States /\ disk # Nil /\ OrderedPrefix(disk) /\ At(disk, cur) BY <2>1, <2>2, Standing DEF StateBody
  <2>4. WorkspaceHistory(disk) BY <2>3 DEF HistoryInv
  <2>5. AttemptHistory(Latest(mem', cur), CleanTree(disk))
    <3>1. ASSUME NEW before PROVE AttemptHistory(NewAttempt(before), before) BY SMTT(60) DEF AttemptHistory, NewAttempt
    <3> QED BY <2>1, <3>1
  <2>6. ASSUME NEW i \in DOMAIN mem'.tasks[cur].attempts
        PROVE  \/ i = Len(mem'.tasks[cur].attempts)
               \/ i \in DOMAIN disk.tasks[cur].attempts /\ mem'.tasks[cur].attempts[i] = disk.tasks[cur].attempts[i]
    <3>1. mem'.tasks[cur].attempts \in Seq(Attempts) /\ disk.tasks[cur].attempts \in Seq(Attempts)
        BY <2>1, <2>3, StateTypes
    <3>2. \A q, w \in Seq(Attempts) : Len(q) = Len(w) + 1 =>
              \A j \in DOMAIN q : j = Len(q) \/ (j \in DOMAIN w /\ j \in 1..Len(w))
        BY SMTT(60)
    <3>3. i = Len(mem'.tasks[cur].attempts) \/ (i \in DOMAIN disk.tasks[cur].attempts /\ i \in 1..Len(disk.tasks[cur].attempts))
        BY <2>1, <3>1, <3>2
    <3> QED BY <2>1, <3>3
  <2>7. cur \in Tasks /\ mem' \in States /\ \A u \in Tasks : u # cur => mem'.tasks[u] = disk.tasks[u] BY <2>1
  <2> QED BY <2>3, <2>4, <2>5, <2>6, <2>7, HistoryGrows, SMTT(60)
<1> QED BY <1>1, <1>2, <1>3, <1>4, <1>5, Arrivals

\* A new record of the latest attempt starts from the same workspace.
LEMMA BeforeKept ==
    ASSUME EngineInv, StoreInv, HistoryInv, edits = 0, crashes <= 1, Next, ~Edit,
           pc' \in {"quarantine", "persist", "observe"}
    PROVE  Latest(mem', cur').before = Latest(disk', cur').before
<1>1. CASE ChildStep \/ Inspect
  <2>1. UNCHANGED <<pc, mem, disk, cur>> BY <1>1, WorldFrame
  <2> QED BY <2>1 DEF HistoryInv
<1>2. CASE BeginRecovery
  <2>1. Latest(disk, cur) \in Attempts /\ Latest(mem', cur) = Interrupted(Latest(disk, cur)) /\ UNCHANGED <<disk, cur>>
      BY <1>2, RecoveryBegins
  <2>2. \A a \in Attempts : Interrupted(a).before = a.before BY DEF Interrupted, Attempts
  <2> QED BY <2>1, <2>2
<1>3. CASE QuarantineOutput \/ ContextDrifts
  <2>1. pc \in {"quarantine", "observe"} /\ UNCHANGED <<mem, disk, cur>>
      BY <1>3 DEF QuarantineOutput, ContextDrifts, files
  <2> QED BY <2>1 DEF HistoryInv
<1>4. CASE CaptureIdentity \/ LaunchFails \/ IdentityUnavailable \/ PersistIdentityFails \/ AwaitExit("ok")
             \/ AwaitExit("failed") \/ ScopeLingers \/ InterruptWait("interrupted") \/ InterruptWait("failed")
  <2>1. /\ pc \in Managing /\ disk' \in {disk, mem} /\ cur' = cur
        /\ \E child \in BOOLEAN, closure \in {"active", "empty"} : mem' = Scoped(mem, child, closure)
      BY <1>4 DEF CaptureIdentity, LaunchFails, IdentityUnavailable, PersistIdentityFails, AwaitExit, ScopeLingers,
           InterruptWait, StopChild, Managing, files, locals
  <2>2. PICK child \in BOOLEAN, closure \in {"active", "empty"} : mem' = Scoped(mem, child, closure) BY <2>1
  <2>3. /\ Latest(mem, cur) \in Attempts
        /\ Latest(mem', cur) = [Latest(mem, cur) EXCEPT !.guard = FALSE, !.child = child, !.closure = closure]
      BY <2>1, <2>2, ScopedRecord
  <2>4. Latest(mem', cur).before = Latest(mem, cur).before BY <2>3 DEF Attempts
  <2>5. Latest(mem, cur).before = Latest(disk, cur).before BY <2>1, OpenAttempt
  <2> QED BY <2>1, <2>4, <2>5
<1>5. CASE pc' = "quarantine" BY <1>1, <1>2, <1>3, <1>5, Arrivals
<1>6. CASE pc' \in {"persist", "observe"} BY <1>1, <1>3, <1>4, <1>6, Arrivals
<1> QED BY <1>5, <1>6

\* The files of the interrupted attempt: moved, in one of the two places still, or never there.
Traced(after, taken, left, tree, moves, p, n) ==
    after[p] = IF p \in DOMAIN taken THEN taken[p]
               ELSE IF p \in left /\ tree[p] = Absent THEN moves[p][n]
               ELSE tree[p]

LEMMA RecoveryTraced ==
    ASSUME EngineInv, StoreInv, TreeInv, CrashInv, edits = 0, crashes <= 1, BeginRecovery, NEW p \in Paths
    PROVE  Traced(Latest(mem', cur).after, moved', Elems(todo'), ws, quarantine, p, AttemptNumber(mem', cur))
<1> DEFINE a == Latest(disk, cur)
           n == AttemptNumber(disk, cur)
<1>1. /\ cur \in Tasks /\ mem = disk /\ disk # Nil /\ disk \in States /\ StateBody(disk)
      /\ disk.tasks[cur].status \in {"running", "failed"}
      /\ Touches(mem', disk, cur) /\ a \in Attempts /\ Latest(mem', cur) = Interrupted(a) /\ pc = "loop"
      /\ Elems(todo') = OutputSet(cur) /\ DOMAIN moved' = {}
    BY RecoveryBegins
<1>2. AttemptNumber(mem', cur) = n BY <1>1 DEF Touches, AttemptNumber
<1>3. AttemptShape(a, cur) /\ a.status \in Terminal \cup {"running"} /\ (a.status = "running" <=> disk.tasks[cur].status = "running")
    BY <1>1, LatestShape
<1>4. Interrupted(a).after = IF a.after = Nil THEN ws ELSE a.after BY <1>1 DEF Interrupted, Attempts
<1> SUFFICES Interrupted(a).after[p] = IF p \in OutputSet(cur) /\ ws[p] = Absent THEN quarantine[p][n] ELSE ws[p]
    BY <1>1, <1>2 DEF Traced
<1>5. CASE disk.tasks[cur].status = "running"
  <2>1. a.after = Nil BY <1>3, <1>5 DEF AttemptShape
  <2>2. ~(crashes >= 2) BY EngineAssumption, SMTT(60) DEF EngineInv, TypeOK
  <2>3. ~Stray(disk, quarantine) BY <1>1, <2>2 DEF CrashInv
  <2>4. p \in OutputSet(cur) => quarantine[p][n] = Absent BY <1>1, <1>5, <2>3 DEF Stray, AttemptNumber
  <2> QED BY <1>4, <2>1, <2>4
<1>6. CASE disk.tasks[cur].status = "failed"
  <2>1. a.after # Nil BY <1>3, <1>6 DEF AttemptShape, Terminal
  <2>2. FailedTree(disk, cur, ws, quarantine) BY <1>1, <1>6 DEF TreeInv, FailedTrees
  <2>3. a.after[p] = IF p \in OutputSet(cur) /\ ws[p] = Absent THEN quarantine[p][n] ELSE ws[p]
      BY <2>2 DEF FailedTree, AttemptNumber
  <2> QED BY <1>4, <2>1, <2>3
<1> QED BY <1>1, <1>5, <1>6

LEMMA MoveTraced ==
    ASSUME EngineInv, StoreInv, ArtifactInv, TreeInv, edits = 0, QuarantineOutput, NEW q \in Paths, NEW after,
           Traced(after, moved, Elems(todo), ws, quarantine, q, AttemptNumber(mem, cur))
    PROVE  Traced(after, moved', Elems(todo'), ws', quarantine', q, AttemptNumber(mem, cur))
<1> DEFINE p == Head(todo)
           n == AttemptNumber(mem, cur)
           c == IF ws[p] = Absent THEN quarantine[p][n] ELSE ws[p]
<1>1. /\ p \in OutputSet(cur) /\ Elems(todo) = {p} \cup Elems(todo') /\ pc = "quarantine"
      /\ ws'[p] = Absent /\ quarantine'[p][n] = c
      /\ \A r \in Paths : r # p => ws'[r] = ws[r] /\ quarantine'[r][n] = quarantine[r][n]
      /\ c = Absent => moved' = moved
      /\ c # Absent => moved' = [r \in DOMAIN moved \cup {p} |-> IF r = p THEN c ELSE moved[r]]
    BY MovedOutput
<1>2. /\ p \in DOMAIN moved => moved[p] = quarantine[p][n]
      /\ ws[p] = Absent \/ p \notin DOMAIN moved
    BY <1>1 DEF ArtifactInv, TreeInv
<1> HIDE DEF p, n
<1>3. CASE q = p
  <2>1. after[p] = c BY <1>1, <1>2, <1>3 DEF Traced, n
  <2>2. CASE c = Absent
    <3>1. moved' = moved BY <1>1, <2>2
    <3>2. p \in DOMAIN moved => moved[p] = c BY <1>2
    <3>3. ws'[p] = Absent /\ quarantine'[p][n] = c BY <1>1
    <3> HIDE DEF c
    <3> QED BY <1>3, <2>1, <2>2, <3>1, <3>2, <3>3 DEF Traced, n
  <2>3. CASE c # Absent
    <3>1. p \in DOMAIN moved' /\ moved'[p] = c BY <1>1, <2>3
    <3> QED BY <1>3, <2>1, <3>1 DEF Traced
  <2> QED BY <2>2, <2>3
<1>4. CASE q # p
  <2>1. (q \in DOMAIN moved' <=> q \in DOMAIN moved) /\ (q \in DOMAIN moved => moved'[q] = moved[q]) BY <1>1, <1>4
  <2>2. q \in Elems(todo') <=> q \in Elems(todo) BY <1>1, <1>4
  <2>3. ws'[q] = ws[q] /\ quarantine'[q][n] = quarantine[q][n] BY <1>1, <1>4
  <2> QED BY <2>1, <2>2, <2>3 DEF Traced, n
<1> QED BY <1>3, <1>4

\* As long as nobody edits the workspace, one crash leaves every recorded workspace derivable.
THEOREM HistoryInvariant == Spec => []HistoryInv
<1>1. Init => HistoryInv BY DEF Init, HistoryInv
<1>2. ASSUME EngineInv, StoreInv, ArtifactInv, TreeInv, CrashInv, HistoryInv, Next, edits' = 0, crashes' <= 1
      PROVE  HistoryInv'
  <2>1. edits = 0 /\ ~Edit /\ crashes' \in {crashes, crashes + 1} BY <1>2, WorldChanges
  <2>2. crashes <= 1 BY <1>2, <2>1, EngineAssumption, SMTT(60) DEF EngineInv, TypeOK
  <2>3. disk' # Nil => WorkspaceHistory(disk') BY <1>2, <2>1, <2>2, HistoryKept
  <2>4. pc' = "intent" => WorkspaceHistory(mem') BY <1>2, <2>1, <2>2, HistoryIntended
  <2>5. pc' \in {"quarantine", "persist", "observe"} => Latest(mem', cur').before = Latest(disk', cur').before
      BY <1>2, <2>1, <2>2, BeforeKept
  <2>6. ASSUME pc' = "quarantine", NEW p \in Paths
        PROVE  Traced(Latest(mem', cur').after, moved', Elems(todo'), ws', quarantine', p, AttemptNumber(mem', cur'))
    <3>0. pc = "quarantine" =>
              Traced(Latest(mem, cur).after, moved, Elems(todo), ws, quarantine, p, AttemptNumber(mem, cur))
        BY <1>2, <2>1, <2>2 DEF HistoryInv, Traced
    <3>1. CASE ChildStep \/ Inspect
      <4>1. pc = "quarantine" /\ UNCHANGED <<mem, cur, quarantine, moved, todo>> BY <2>6, <3>1, WorldFrame
      <4>2. ASSUME NEW t \in Tasks, NEW n \in AttemptNumbers, ChildWrites(t, n) PROVE FALSE
          BY <1>2, <4>1, <4>2, WritingChild
      <4>3. ws' = ws BY <3>1, <4>2 DEF ChildStep, LeaderExits, GroupExits, Inspect, world
      <4> QED BY <3>0, <4>1, <4>3
    <3>2. CASE BeginRecovery
      <4>1. UNCHANGED <<cur, ws, quarantine>> BY <1>2, <3>2, RecoveryBegins
      <4>2. Traced(Latest(mem', cur).after, moved', Elems(todo'), ws, quarantine, p, AttemptNumber(mem', cur))
          BY <1>2, <2>1, <2>2, <3>2, RecoveryTraced
      <4> QED BY <4>1, <4>2
    <3>3. CASE QuarantineOutput
      <4>1. pc = "quarantine" /\ UNCHANGED <<mem, cur>> BY <3>3 DEF QuarantineOutput
      <4>2. Traced(Latest(mem, cur).after, moved', Elems(todo'), ws', quarantine', p, AttemptNumber(mem, cur))
          BY <1>2, <2>1, <3>0, <3>3, <4>1, MoveTraced
      <4> QED BY <4>1, <4>2
    <3> QED BY <1>2, <2>1, <2>6, <3>1, <3>2, <3>3, Arrivals
  <2> QED BY <2>3, <2>4, <2>5, <2>6 DEF HistoryInv, Traced
<1>3. ASSUME EngineInv, StoreInv, ArtifactInv, TreeInv, CrashInv, HistoryInv, Next PROVE HistoryInv'
  <2>1. ~(edits' = 0 /\ crashes' <= 1) => HistoryInv' BY DEF HistoryInv
  <2> QED BY <1>2, <1>3, <2>1
<1>4. HistoryInv /\ UNCHANGED vars => HistoryInv'
    BY DEF HistoryInv, vars, files, world, locals, counters
<1> QED BY <1>1, <1>3, <1>4, EngineInvariant, StoreInvariant, ArtifactInvariant, TreeInvariant, CrashInvariant, PTL DEF Spec

(***************************************************************************)
(* For every suite, as long as nobody but the children writes to the       *)
(* workspace, one crash wherever it falls leaves a state.json whose        *)
(* workspace summaries _validate_workspace_history can derive again.       *)
(***************************************************************************)
THEOREM DerivableTheorem == Spec => [](edits = 0 => DerivableAfterOneCrash)
<1>1. HistoryInv => (edits = 0 => DerivableAfterOneCrash) BY DEF HistoryInv, DerivableAfterOneCrash, HistoryDerivable
<1> QED BY <1>1, HistoryInvariant, PTL

\* A tree that agrees with the clean one everywhere is the clean one.
LEMMA CleanExactly ==
    ASSUME NEW s \in States, Recorded(s), NEW tree \in Trees, BoundObservation(s, tree, {})
    PROVE  tree = CleanTree(s)
<1>1. CleanTree(s) \in Trees BY CleanTreeType
<1>2. \A p \in Paths : tree[p] = CleanTree(s)[p] BY DEF BoundObservation
<1>3. tree = [p \in Paths |-> tree[p]] /\ CleanTree(s) = [p \in Paths |-> CleanTree(s)[p]] BY <1>1 DEF Trees
<1> QED BY <1>2, <1>3

\* What a failed attempt recorded is derived again from where its files are now.
LEMMA FailureDerived ==
    ASSUME NEW s \in States, Recorded(s), StateBody(s), NEW t \in Tasks, s.tasks[t].status = "failed",
           FailedTree(s, t, ws, quarantine), BoundObservation(s, ws, OutputSet(t))
    PROVE  RecoveryObservation(s, t, ws, quarantine)
<1> DEFINE n == Len(s.tasks[t].attempts)
           after == Latest(s, t).after
           seen == Unverified(t, n, ws, quarantine)
<1>1. AttemptShape(Latest(s, t), t) /\ Latest(s, t).status \in Terminal /\ Latest(s, t) \in Attempts
  <2>1. Latest(s, t) \in Attempts BY LatestType
  <2>2. AttemptShape(Latest(s, t), t) /\ Latest(s, t).status \in Terminal \cup {"running"} /\ Latest(s, t).status # "running"
      BY LatestShape
  <2> QED BY <2>1, <2>2
<1>2. after # Nil /\ after \in Trees BY <1>1 DEF AttemptShape, Attempts
<1>3. /\ \A p \in OutputSet(t) : ws[p] = Absent \/ quarantine[p][n] = Absent
      /\ \A p \in Paths : after[p] = IF p \in OutputSet(t) /\ ws[p] = Absent THEN quarantine[p][n] ELSE ws[p]
    BY DEF FailedTree
<1>4. ASSUME NEW p \in Paths PROVE after[p] = IF p \in DOMAIN seen THEN seen[p] ELSE CleanTree(s)[p]
  <2>1. CASE p \notin OutputSet(t)
    <3>1. p \notin DOMAIN seen BY <2>1 DEF Unverified
    <3>2. ws[p] = CleanTree(s)[p] BY <2>1 DEF BoundObservation
    <3> QED BY <1>3, <2>1, <3>1, <3>2
  <2>2. CASE p \in OutputSet(t) /\ (ws[p] # Absent \/ quarantine[p][n] # Absent)
    <3>1. p \in DOMAIN seen /\ seen[p] = IF ws[p] # Absent THEN ws[p] ELSE quarantine[p][n] BY <2>2 DEF Unverified
    <3> HIDE DEF seen, n, after
    <3> QED BY <1>3, <2>2, <3>1
  <2>3. CASE p \in OutputSet(t) /\ ws[p] = Absent /\ quarantine[p][n] = Absent
    <3>1. p \notin DOMAIN seen BY <2>3 DEF Unverified
    <3>2. CleanTree(s)[p] = Absent
      <4>1. Tasks \in SUBSET Tasks OBVIOUS
      <4>2. ASSUME NEW u \in Tasks, Completed(s, u) PROVE p \notin OutputSet(u)
        <5>1. u # t BY <4>2 DEF Completed
        <5>2. OutputSet(u) \cap OutputSet(t) = {} BY <5>1, SuiteAssumption
        <5> QED BY <2>3, <5>2
      <4> QED BY <4>1, <4>2, SealedValue DEF CleanTree
    <3> QED BY <1>3, <2>3, <3>1, <3>2
  <2> QED BY <2>1, <2>2, <2>3
<1>5. after = WithOutputs(CleanTree(s), seen)
  <2>1. after = [p \in Paths |-> after[p]] BY <1>2 DEF Trees
  <2> HIDE DEF after, seen
  <2> QED BY <1>4, <2>1 DEF WithOutputs
<1> QED BY <1>2, <1>3, <1>5 DEF RecoveryObservation

LEMMA ThroughFirst == ASSUME NEW s, AllCompleted(s) PROVE FirstIncomplete(s) = TaskCount + 1 /\ TaskCount + 1 \notin Tasks
<1>1. TaskCount + 1 \notin Tasks BY SuiteAssumption, SMTT(60) DEF Tasks
<1> QED BY <1>1 DEF FirstIncomplete

\* Without drift, the workspace is one that _current_workspace_observation accepts.
LEMMA NoDriftAccepted ==
    ASSUME EngineInv, StoreInv, PlaceInv, TreeInv, HistoryInv, edits = 0, crashes <= 1, disk # Nil, ~WorkspaceDrift
    PROVE  CurrentWorkspace(disk, ws, quarantine) /\ VerifiedPrefix(disk)
<1>1. disk \in States /\ Recorded(disk) /\ StateBody(disk) /\ OrderedPrefix(disk) /\ ws \in Trees /\ WorkspaceHistory(disk)
    BY DEF EngineInv, TypeOK, RecordInv, StoreInv, ShapeInv, StateBody, HistoryInv
<1>2. ASSUME NEW S, BoundObservation(disk, ws, S), \A u \in Tasks : Completed(disk, u) => OutputSet(u) \cap S = {}
      PROVE  VerifiedPrefix(disk)
  <2> SUFFICES ASSUME NEW u \in Tasks, Completed(disk, u), NEW p \in OutputSet(u)
               PROVE  ws[p] = disk.tasks[u].outputs[p]
      BY DEF VerifiedPrefix, VerifiedTask
  <2>1. p \in Paths /\ p \notin S /\ Tasks \in SUBSET Tasks BY <1>2, OutputPaths
  <2>2. CleanTree(disk)[p] = disk.tasks[u].outputs[p] BY <2>1, SealedValue DEF CleanTree
  <2> QED BY <1>2, <2>1, <2>2 DEF BoundObservation
<1>0. \A u \in Tasks : Completed(disk, u) => OutputSet(u) \cap {} = {} OBVIOUS
<1>3. CASE AllCompleted(disk)
  <2>1. FirstIncomplete(disk) \notin Tasks BY <1>3, ThroughFirst
  <2>2. BoundObservation(disk, ws, {}) BY <2>1 DEF WorkspaceDrift
  <2>3. CurrentWorkspace(disk, ws, quarantine) BY <2>1, <2>2 DEF CurrentWorkspace
  <2>4. VerifiedPrefix(disk) BY <1>0, <1>2, <2>2
  <2> QED BY <2>3, <2>4
<1>4. ASSUME NEW t \in Tasks, At(disk, t) PROVE CurrentWorkspace(disk, ws, quarantine) /\ VerifiedPrefix(disk)
  <2>1. FirstIncomplete(disk) = t BY <1>1, <1>4, StandsAtFirst
  <2>2. disk.tasks[t].status \in {"pending", "running", "failed"}
      BY <1>1, <1>4 DEF At, Completed, States, TaskRecords
  <2>3. CASE disk.tasks[t].status = "pending"
    <3>1. BoundObservation(disk, ws, {}) BY <2>1, <2>3 DEF WorkspaceDrift
    <3>2. VerifiedPrefix(disk) BY <1>0, <1>2, <3>1
    <3>3. ASSUME disk.tasks[t].attempts # << >> PROVE ws = Latest(disk, t).recovered
      <4>1. Len(disk.tasks[t].attempts) > 0 /\ Len(disk.tasks[t].attempts) \in DOMAIN disk.tasks[t].attempts
        <5>1. disk.tasks[t].attempts \in Seq(Attempts) BY <1>1, StateTypes
        <5>2. \A q \in Seq(Attempts) : q # << >> => Len(q) > 0 /\ Len(q) \in DOMAIN q BY SMTT(60)
        <5> QED BY <3>3, <5>1, <5>2
      <4>2. Latest(disk, t).quarantined # Nil BY <1>1, <2>3, <4>1 DEF StateBody, TaskShape
      <4>3. AttemptHistory(Latest(disk, t), SealedTree(disk, 1..(t - 1))) BY <1>1, <4>1 DEF WorkspaceHistory, Latest
      <4>4. SealedTree(disk, 1..(t - 1)) = CleanTree(disk) BY <1>1, <1>4, CleanAt
      <4>5. ws = CleanTree(disk) BY <1>1, <3>1, CleanExactly
      <4> QED BY <4>2, <4>3, <4>4, <4>5 DEF AttemptHistory
    <3>4. CurrentWorkspace(disk, ws, quarantine) BY <2>1, <2>3, <3>1, <3>3 DEF CurrentWorkspace
    <3> QED BY <3>2, <3>4
  <2>4. CASE disk.tasks[t].status \in {"running", "failed"}
    <3>1. BoundObservation(disk, ws, OutputSet(t)) BY <2>1, <2>4 DEF WorkspaceDrift
    <3>2. \A u \in Tasks : Completed(disk, u) => OutputSet(u) \cap OutputSet(t) = {}
        BY <2>4, SuiteAssumption DEF Completed
    <3>3. VerifiedPrefix(disk) BY <1>2, <3>1, <3>2
    <3>4. RecoveryObservation(disk, t, ws, quarantine)
      <4>1. CASE disk.tasks[t].status = "running"
        <5>1. AttemptShape(Latest(disk, t), t) /\ Latest(disk, t).status = "running" BY <1>1, <4>1, LatestShape
        <5>2. Latest(disk, t).after = Nil BY <5>1 DEF AttemptShape
        <5> QED BY <3>1, <5>1, <5>2 DEF RecoveryObservation
      <4>2. CASE disk.tasks[t].status = "failed"
        <5>1. FailedTree(disk, t, ws, quarantine) BY <4>2 DEF TreeInv, FailedTrees
        <5> QED BY <1>1, <3>1, <4>2, <5>1, FailureDerived
      <4> QED BY <2>4, <4>1, <4>2
    <3>5. CurrentWorkspace(disk, ws, quarantine) BY <2>1, <2>4, <3>4 DEF CurrentWorkspace
    <3> QED BY <3>3, <3>5
  <2> QED BY <2>2, <2>3, <2>4
<1> QED BY <1>3, <1>4 DEF PlaceInv, Placed

\* What _load_context checks, for a state.json of the right shape.
LEMMA LoadedAgain ==
    ASSUME EngineInv, ArtifactsAccountedFor, HistoryInv, edits = 0, crashes <= 1, disk # Nil, root = "ready",
           StateShape(disk), CurrentWorkspace(disk, ws, quarantine)
    PROVE  Loadable
BY DEF Loadable, EngineInv, LedgerInv, LogNeverDiverges, ArtifactsAccountedFor, HistoryInv

LEMMA SealedVerifies ==
    ASSUME EngineInv, StoreInv, SealInv, ArtifactsAccountedFor, TreeInv, HistoryInv, edits = 0, StateShape(disk),
           bundle # Nil, root = "ready", crashes <= 1
    PROVE  BundleVerified
<1>0. /\ disk # Nil /\ AllCompleted(disk) /\ disk.status = "completed" /\ disk.pending = Nil
      /\ bundle = Accounted(disk) /\ BoundObservation(disk, ws, {})
    BY DEF SealInv, TreeInv
<1>1. /\ disk # Nil /\ AllCompleted(disk) /\ disk.status = "completed" /\ disk.pending = Nil
      /\ BoundObservation(disk, ws, {}) /\ bundle = [Evidence EXCEPT !.bundle = Nil]
  <2>1. \A p \in Paths : ws[p] = CleanTree(disk)[p] BY <1>0 DEF BoundObservation
  <2>2. CleanTree(disk) = [p \in Paths |-> CleanTree(disk)[p]] BY DEF CleanTree, SealedTree
  <2>3. ws = [p \in Paths |-> ws[p]] BY DEF EngineInv, TypeOK, Trees
  <2>4. ws = CleanTree(disk) BY <2>1, <2>2, <2>3
  <2>5. [Evidence EXCEPT !.bundle = Nil] = Accounted(disk) BY <2>4, SMTT(60) DEF Evidence, Accounted
  <2> QED BY <1>0, <2>5
<1>2. FirstIncomplete(disk) \notin Tasks BY <1>1, ThroughFirst
<1>3. CurrentWorkspace(disk, ws, quarantine) BY <1>1, <1>2 DEF CurrentWorkspace
<1>4. Loadable BY <1>1, <1>3, LoadedAgain
<1> QED BY <1>1, <1>4 DEF BundleVerified

LEMMA ResumePossible ==
    ASSUME EngineInv, StoreInv, ArtifactsAccountedFor, PlaceInv, TreeInv, HistoryInv, edits = 0, StateShape(disk),
           disk # Nil, ~DeadEnd, crashes <= 1
    PROVE  /\ Loadable /\ VerifiedPrefix(disk)
           /\ \/ RecoveryLiveness(disk)
              \/ \E t \in Tasks : ~FamilyGone(t, AttemptNumber(disk, t))
<1>1. root = "ready" /\ ~UnresolvedLaunch /\ ~WorkspaceDrift BY DEF DeadEnd
<1>2. CurrentWorkspace(disk, ws, quarantine) /\ VerifiedPrefix(disk) BY <1>1, NoDriftAccepted
<1>3. Loadable BY <1>1, <1>2, LoadedAgain
<1>4. ASSUME NEW t \in Tasks, disk.tasks[t].status = "running" PROVE LaunchResolved(Latest(disk, t))
  <2>1. disk \in States /\ StateBody(disk) BY DEF EngineInv, TypeOK, StoreInv, ShapeInv
  <2>2. AttemptShape(Latest(disk, t), t) /\ Latest(disk, t).status = "running" BY <1>4, <2>1, LatestShape
  <2>3. ~Latest(disk, t).guard BY <1>1, <1>4 DEF UnresolvedLaunch
  <2> QED BY <2>2, <2>3 DEF AttemptShape, LaunchResolved
<1> QED BY <1>2, <1>3, <1>4 DEF RecoveryLiveness

(***************************************************************************)
(* The limit on the attempts of all tasks together.                        *)
(***************************************************************************)
INSTANCE FiniteSetTheorems

\* The attempts of all tasks are within the total limit, strictly if one task has an attempt left.
LEMMA TotalBound ==
    ASSUME NEW s \in States
    PROVE  /\ TotalAttempts(s) <= MaxTotalAttempts
           /\ \A t \in Tasks : Len(s.tasks[t].attempts) < MaxAttemptsPerTask => TotalAttempts(s) < MaxTotalAttempts
<1> DEFINE All == Tasks \X AttemptNumbers
           Made == {k \in Tasks \X AttemptNumbers : k[2] <= Len(s.tasks[k[1]].attempts)}
<1>1. IsFiniteSet(Tasks) /\ Cardinality(Tasks) = TaskCount
  <2>1. TaskCount \in Int /\ 1 \in Int /\ ~(1 > TaskCount) /\ TaskCount - 1 + 1 = TaskCount
    BY SMTT(60), SuiteAssumption
  <2> QED BY SMTT(60), <2>1, FS_Interval DEF Tasks
<1>2. IsFiniteSet(AttemptNumbers) /\ Cardinality(AttemptNumbers) = MaxAttemptsPerTask
  <2>1. MaxAttemptsPerTask \in Int /\ 1 \in Int /\ ~(1 > MaxAttemptsPerTask)
        /\ MaxAttemptsPerTask - 1 + 1 = MaxAttemptsPerTask
    BY SMTT(60), LimitAssumption
  <2> QED BY SMTT(60), <2>1, FS_Interval DEF AttemptNumbers
<1>3. IsFiniteSet(All) /\ Cardinality(All) = TaskCount * MaxAttemptsPerTask
  BY <1>1, <1>2, FS_Product
<1>4. Made \in SUBSET All
  OBVIOUS
<1>. HIDE DEF All
<1>5. /\ IsFiniteSet(Made) /\ Cardinality(Made) <= Cardinality(All)
      /\ Cardinality(All) = Cardinality(Made) => All = Made
  <2>. HIDE DEF Made
  <2> QED BY <1>3, <1>4, FS_Subset
<1>6. ASSUME NEW t \in Tasks, Len(s.tasks[t].attempts) < MaxAttemptsPerTask
      PROVE  All # Made
  <2>1. s.tasks[t].attempts \in Seq(Attempts)
    BY DEF States, TaskRecords
  <2>2. MaxAttemptsPerTask \in AttemptNumbers /\ ~(MaxAttemptsPerTask <= Len(s.tasks[t].attempts))
    BY SMTT(60), <1>6, <2>1, LimitAssumption DEF AttemptNumbers
  <2>3. <<t, MaxAttemptsPerTask>> \in All
    BY <2>2 DEF All
  <2>4. <<t, MaxAttemptsPerTask>> \notin Made
    BY <2>2
  <2> QED BY <2>3, <2>4
<1>7. TotalAttempts(s) = Cardinality(Made)
  BY DEF TotalAttempts
<1>. HIDE DEF Made
<1>8. Cardinality(Made) \in Nat /\ Cardinality(All) \in Nat
  BY <1>3, <1>5, FS_CardinalityType
<1> QED BY SMTT(60), <1>3, <1>5, <1>6, <1>7, <1>8, LimitAssumption

\* What the second layer says of the records.
LEMMA StoreShapes == EngineInv /\ StoreInv => PersistedShapeValid /\ BudgetCheckSuffices
<1> SUFFICES ASSUME EngineInv, StoreInv PROVE PersistedShapeValid /\ BudgetCheckSuffices
  OBVIOUS
<1>0. /\ disk # Nil => disk \in States /\ StateBody(disk)
      /\ pc \in {"intent", "persist"} => mem \in States /\ StateBody(mem)
      /\ pc \in {"ack", "reconcile"} => mem \in States /\ StateBody(mem)
  BY DEF EngineInv, LedgerInv, TypeOK, StoreInv, ShapeInv
<1>1. ASSUME pc \in {"ack", "reconcile"} PROVE StateShape([mem EXCEPT !.pending = Nil])
  <2> DEFINE q == [mem EXCEPT !.pending = Nil]
  <2>1. mem \in States /\ StateBody(mem)
    BY <1>0, <1>1
  <2>2. /\ q \in States /\ q.tasks = mem.tasks /\ q.event_log = mem.event_log /\ q.pending = Nil
        /\ q.status = mem.status /\ q.error = mem.error
    BY <2>1 DEF States
  <2>. HIDE DEF q
  <2>3. HeaderFits(q)
    BY <2>1, <2>2 DEF StateBody, HeaderFits, AllCompleted, Completed
  <2>4. StateBody(q) BY <2>1, <2>2, <2>3, HeaderShape
  <2>5. StateShape(q) BY <2>2, <2>4, TotalBound DEF StateShape
  <2> QED BY <2>5 DEF q
<1>2. PersistedShapeValid
  BY <1>0, <1>1, TotalBound DEF PersistedShapeValid, StateShape
<1>3. ASSUME pc = "loop", cur \in Tasks, mem.tasks[cur].status # "completed"
      PROVE  AttemptNumber(mem, cur) < MaxAttemptsPerTask /\ TotalAttempts(mem) < MaxTotalAttempts
  <2>1. mem \in States /\ At(mem, cur)
    BY <1>3, Standing
  <2>2. Len(mem.tasks[cur].attempts) < MaxAttemptsPerTask
    BY <1>3, <2>1 DEF StoreInv, BudgetInv
  <2> QED BY <1>3, <2>1, <2>2, TotalBound DEF AttemptNumber
<1>4. BudgetCheckSuffices
  BY <1>3 DEF BudgetCheckSuffices
<1> QED BY <1>2, <1>4

(***************************************************************************)
(* For every suite, the engine never leaves, nor tries to persist, a       *)
(* state.json that its own _validate_state_shape rejects.                  *)
(***************************************************************************)
THEOREM ShapeTheorem == Spec => []PersistedShapeValid
BY StoreShapes, EngineInvariant, StoreInvariant, PTL

(***************************************************************************)
(* For every suite and all limits, a resume that _assert_resume_attempt_   *)
(* budget admits does not meet the limits of _run_task afterwards.         *)
(***************************************************************************)
THEOREM BudgetTheorem == Spec => []BudgetCheckSuffices
BY StoreShapes, EngineInvariant, StoreInvariant, PTL

(***************************************************************************)
(* For every suite, as long as nobody but the children writes to the       *)
(* workspace, the bundle of a sealed run verifies: verify_run finds the    *)
(* evidence it was written from, after one crash wherever it falls.        *)
(***************************************************************************)
THEOREM VerifiedTheorem == Spec => [](edits = 0 => SealedRunVerifies)
<1>1. EngineInv /\ StoreInv /\ SealInv /\ ArtifactsAccountedFor /\ TreeInv /\ HistoryInv /\ PersistedShapeValid =>
          (edits = 0 => SealedRunVerifies)
  <2>1. SealInv /\ bundle # Nil => disk # Nil BY DEF SealInv
  <2> QED BY <2>1, SealedVerifies DEF SealedRunVerifies, PersistedShapeValid
<1> QED BY <1>1, EngineInvariant, StoreInvariant, SealInvariant, ArtifactsTheorem, TreeInvariant, HistoryInvariant,
           ShapeTheorem, PTL

(***************************************************************************)
(* For every suite, as long as nobody but the children writes to the       *)
(* workspace, an unsealed run outside the announced dead ends can always   *)
(* be resumed: _load_context accepts what one crash wherever it falls left *)
(* behind, and the recovery refuses it only while its children live.       *)
(***************************************************************************)
THEOREM ResumableTheorem == Spec => [](edits = 0 => ResumeStaysPossible)
<1>1. EngineInv /\ StoreInv /\ ArtifactsAccountedFor /\ PlaceInv /\ TreeInv /\ HistoryInv /\ PersistedShapeValid =>
          (edits = 0 => ResumeStaysPossible)
  BY ResumePossible DEF ResumeStaysPossible, PersistedShapeValid
<1> QED BY <1>1, EngineInvariant, StoreInvariant, ArtifactsTheorem, PlaceInvariant, TreeInvariant, HistoryInvariant,
           ShapeTheorem, PTL

=============================================================================
