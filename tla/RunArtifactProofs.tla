------------------------- MODULE RunArtifactProofs --------------------------
(***************************************************************************)
(* Proofs for every suite, continued from RunProofs: the files beside      *)
(* state.json, that is the logs and the quarantine, and the workspace.     *)
(***************************************************************************)
EXTENDS RunProofs

USE ZenonT(60)

(***************************************************************************)
(* Third layer: logs and quarantine.                                       *)
(***************************************************************************)
\* A run stands at one task.
LEMMA OneStanding ==
    ASSUME NEW s \in States, NEW t \in Tasks, NEW u \in Tasks, At(s, t), At(s, u)
    PROVE  t = u
<1>1. FirstIncomplete(s) = t BY StandsAtFirst
<1>2. FirstIncomplete(s) = u BY StandsAtFirst
<1> QED BY <1>1, <1>2

LEMMA OutputPaths == \A t \in Tasks : OutputSet(t) \subseteq Paths
<1> SUFFICES ASSUME NEW t \in Tasks, NEW i \in DOMAIN OutputsOf[t] PROVE OutputsOf[t][i] \in Paths
    BY DEF OutputSet, Elems
<1>1. OutputsOf[t] \in Seq(Paths) BY SuiteAssumption
<1> QED BY <1>1, SMTT(60)

\* A change of the latest attempt of the task a run stands at leaves the log pairs accounted for.
LEMMA LogsTouched ==
    ASSUME NEW s \in States, NEW t \in Tasks, At(s, t), s.tasks[t].status \in {"running", "failed"},
           NEW pairs, NEW families, LogsFit(s, pairs, families), NEW r, Touches(r, s, t)
    PROVE  LogsFit(r, pairs, families)
<1> SUFFICES ASSUME NEW u \in Tasks, NEW n \in AttemptNumbers
             PROVE  /\ n <= Len(r.tasks[u].attempts) => pairs[u][n] = "both"
                    /\ n > Len(r.tasks[u].attempts) => families[u][n] = "unborn"
                    /\ n > Len(r.tasks[u].attempts) => pairs[u][n] = "none"
    BY DEF LogsFit
<1>1. Len(r.tasks[u].attempts) = Len(s.tasks[u].attempts) BY DEF Touches
<1>2. /\ n <= Len(s.tasks[u].attempts) => pairs[u][n] = "both"
      /\ n > Len(s.tasks[u].attempts) => families[u][n] = "unborn"
      /\ n > Len(s.tasks[u].attempts) /\ pairs[u][n] # "none" => At(s, u) /\ s.tasks[u].status = "pending"
    BY DEF LogsFit
<1>3. At(s, u) => u = t BY OneStanding
<1> QED BY <1>1, <1>2, <1>3

\* The same for the quarantined files, when the changed record accounts for its own.
LEMMA QuarantineTouched ==
    ASSUME NEW s \in States, NEW t \in Tasks, At(s, t), s.tasks[t].status \in {"running", "failed"},
           NEW moves, QuarantineFits(s, moves), NEW r, Touches(r, s, t),
           LET a == Latest(r, t)
               n == Len(s.tasks[t].attempts)
           IN  \A p \in OutputSet(t) :
                  \/ a.quarantined # Nil /\ p \in DOMAIN a.quarantined /\ moves[p][n] = a.quarantined[p]
                  \/ (a.quarantined # Nil => p \notin DOMAIN a.quarantined) /\ moves[p][n] = Absent
                  \/ a.quarantined = Nil /\ At(r, t) /\ r.tasks[t].status \in {"running", "failed"}
    PROVE  QuarantineFits(r, moves)
<1> DEFINE N == Len(s.tasks[t].attempts)
           RefR(u, n, p) == QuarantineKnown(r, u, n) /\ p \in DOMAIN r.tasks[u].attempts[n].quarantined
           RefS(u, n, p) == QuarantineKnown(s, u, n) /\ p \in DOMAIN s.tasks[u].attempts[n].quarantined
<1> SUFFICES ASSUME NEW u \in Tasks, NEW n \in AttemptNumbers, NEW p \in OutputSet(u)
             PROVE  /\ RefR(u, n, p) => moves[p][n] = r.tasks[u].attempts[n].quarantined[p]
                    /\ ~RefR(u, n, p) /\ moves[p][n] # Absent =>
                          /\ At(r, u) /\ r.tasks[u].status \in {"running", "failed"}
                          /\ n = Len(r.tasks[u].attempts) /\ ~QuarantineKnown(r, u, n)
    BY DEF QuarantineFits
<1>1. /\ RefS(u, n, p) => moves[p][n] = s.tasks[u].attempts[n].quarantined[p]
      /\ ~RefS(u, n, p) /\ moves[p][n] # Absent => At(s, u) /\ n = Len(s.tasks[u].attempts)
    BY DEF QuarantineFits
<1>2. At(s, u) => u = t BY OneStanding
<1>3. N \in Nat /\ n \in Nat /\ Len(r.tasks[t].attempts) = N
  <2>1. n \in Nat BY SMTT(60) DEF AttemptNumbers
  <2> QED BY <2>1, StateTypes DEF Touches
<1>4. CASE u # t
  <2>1. r.tasks[u] = s.tasks[u] BY <1>4 DEF Touches
  <2>2. RefR(u, n, p) <=> RefS(u, n, p) BY <2>1 DEF QuarantineKnown
  <2> QED BY <2>1, <2>2, <1>1, <1>2, <1>4
<1>5. CASE u = t /\ n # N
  <2>1. n <= N <=> n \in 1..(N - 1) BY <1>3, <1>5, SMTT(60) DEF AttemptNumbers
  <2>2. n <= N => r.tasks[t].attempts[n] = s.tasks[t].attempts[n] BY <2>1 DEF Touches
  <2>3. RefR(u, n, p) <=> RefS(u, n, p) BY <1>3, <1>5, <2>2 DEF QuarantineKnown
  <2>4. RefR(u, n, p) => n <= N BY <1>3, <1>5 DEF QuarantineKnown
  <2> QED BY <2>2, <2>3, <2>4, <1>1, <1>5
<1>6. CASE u = t /\ n = N
  <2>1. n <= Len(r.tasks[t].attempts) BY <1>3, <1>6, SMTT(60)
  <2>2. r.tasks[t].attempts[n] = Latest(r, t) BY <1>3, <1>6 DEF Latest
  <2>3. QuarantineKnown(r, u, n) <=> Latest(r, t).quarantined # Nil BY <2>1, <2>2, <1>6 DEF QuarantineKnown
  <2> QED BY <2>2, <2>3, <1>3, <1>6
<1> QED BY <1>4, <1>5, <1>6

\* The files fit a record with the same tasks.
LEMMA SameFits ==
    ASSUME NEW s, NEW r, r.tasks = s.tasks, NEW pairs, NEW families, NEW moves,
           LogsFit(s, pairs, families), QuarantineFits(s, moves)
    PROVE  LogsFit(r, pairs, families) /\ QuarantineFits(r, moves)
<1>1. \A t \in Tasks : At(r, t) <=> At(s, t) BY DEF At, Completed
<1>2. LogsFit(r, pairs, families)
  <2> SUFFICES ASSUME NEW t \in Tasks, NEW n \in AttemptNumbers
               PROVE  LET count == Len(r.tasks[t].attempts)
                      IN  /\ n <= count => pairs[t][n] = "both"
                          /\ n > count => families[t][n] = "unborn"
                          /\ n > count /\ pairs[t][n] # "none" =>
                                At(r, t) /\ r.tasks[t].status = "pending" /\ n = count + 1
      BY DEF LogsFit
  <2>1. LET count == Len(s.tasks[t].attempts)
       IN  /\ n <= count => pairs[t][n] = "both"
           /\ n > count => families[t][n] = "unborn"
           /\ n > count /\ pairs[t][n] # "none" =>
                 At(s, t) /\ s.tasks[t].status = "pending" /\ n = count + 1
      BY DEF LogsFit
  <2> QED BY <1>1, <2>1
<1>3. QuarantineFits(r, moves)
  <2> SUFFICES ASSUME NEW t \in Tasks, NEW n \in AttemptNumbers, NEW p \in OutputSet(t)
               PROVE  LET referenced == QuarantineKnown(r, t, n) /\ p \in DOMAIN r.tasks[t].attempts[n].quarantined
                      IN  /\ referenced => moves[p][n] = r.tasks[t].attempts[n].quarantined[p]
                          /\ ~referenced /\ moves[p][n] # Absent =>
                                /\ At(r, t) /\ r.tasks[t].status \in {"running", "failed"}
                                /\ n = Len(r.tasks[t].attempts) /\ ~QuarantineKnown(r, t, n)
      BY DEF QuarantineFits
  <2>1. LET referenced == QuarantineKnown(s, t, n) /\ p \in DOMAIN s.tasks[t].attempts[n].quarantined
       IN  /\ referenced => moves[p][n] = s.tasks[t].attempts[n].quarantined[p]
           /\ ~referenced /\ moves[p][n] # Absent =>
                 /\ At(s, t) /\ s.tasks[t].status \in {"running", "failed"}
                 /\ n = Len(s.tasks[t].attempts) /\ ~QuarantineKnown(s, t, n)
      BY DEF QuarantineFits
  <2>2. QuarantineKnown(r, t, n) <=> QuarantineKnown(s, t, n) BY DEF QuarantineKnown
  <2> QED BY <1>1, <2>1, <2>2
<1> QED BY <1>2, <1>3

\* A change of the family of an attempt that is on record.
LEMMA FamilyFits ==
    ASSUME NEW s, NEW pairs, NEW families, LogsFit(s, pairs, families),
           NEW t \in Tasks, NEW n \in AttemptNumbers, n <= Len(s.tasks[t].attempts),
           Len(s.tasks[t].attempts) \in Nat,
           NEW new, \A u \in Tasks, m \in AttemptNumbers : new[u][m] = families[u][m] \/ (u = t /\ m = n)
    PROVE  LogsFit(s, pairs, new)
<1>1. ~(n > Len(s.tasks[t].attempts)) BY SMTT(60) DEF AttemptNumbers
<1> SUFFICES ASSUME NEW u \in Tasks, NEW m \in AttemptNumbers
             PROVE  LET count == Len(s.tasks[u].attempts)
                    IN  /\ m <= count => pairs[u][m] = "both"
                        /\ m > count => new[u][m] = "unborn"
                        /\ m > count /\ pairs[u][m] # "none" =>
                              At(s, u) /\ s.tasks[u].status = "pending" /\ m = count + 1
    BY DEF LogsFit
<1>2. LET count == Len(s.tasks[u].attempts)
      IN  /\ m <= count => pairs[u][m] = "both"
          /\ m > count => families[u][m] = "unborn"
          /\ m > count /\ pairs[u][m] # "none" =>
                At(s, u) /\ s.tasks[u].status = "pending" /\ m = count + 1
    BY DEF LogsFit
<1> QED BY <1>1, <1>2

\* A step that moves no log or quarantine file, and begins neither a commit nor a recovery.
LEMMA ArtifactsKept ==
    ASSUME ArtifactInv, UNCHANGED <<logs, quarantine>>,
           disk' = Nil => disk = Nil /\ family' = family,
           disk' # Nil => LogsFit(disk', logs, family') /\ QuarantineFits(disk', quarantine),
           pc' = "intent" => LogsFit(mem', logs, family') /\ QuarantineFits(mem', quarantine),
           pc' = "quarantine" => pc = "quarantine" /\ UNCHANGED <<mem, cur, todo, moved>>,
           Attempting' => Attempting /\ cur' = cur /\ AttemptNumber(mem', cur) = AttemptNumber(mem, cur)
    PROVE  ArtifactInv'
<1>1. (disk = Nil => /\ \A t \in Tasks, n \in AttemptNumbers : logs[t][n] = "none" /\ family[t][n] = "unborn"
                     /\ \A p \in Paths, n \in AttemptNumbers : quarantine[p][n] = Absent)'
    BY DEF ArtifactInv
<1>2. (disk # Nil => LogsFit(disk, logs, family) /\ QuarantineFits(disk, quarantine))' OBVIOUS
<1>3. (pc = "intent" => LogsFit(mem, logs, family) /\ QuarantineFits(mem, quarantine))' OBVIOUS
<1>4. (pc = "quarantine" =>
          \A p \in OutputSet(cur) :
             LET n == AttemptNumber(mem, cur)
             IN  /\ p \in DOMAIN moved => moved[p] = quarantine[p][n]
                 /\ quarantine[p][n] # Absent => p \in DOMAIN moved \cup Elems(todo))'
    BY DEF ArtifactInv, AttemptNumber
<1>5. (Attempting => \A p \in OutputSet(cur) : quarantine[p][AttemptNumber(mem, cur)] = Absent)'
    BY DEF ArtifactInv, AttemptNumber
<1> QED BY <1>1, <1>2, <1>3, <1>4, <1>5 DEF ArtifactInv

\* A commit begins from a record that fits the files.
LEMMA ArtifactsBegin ==
    ASSUME disk' # Nil, pc' = "intent",
           LogsFit(disk', logs', family') /\ QuarantineFits(disk', quarantine'),
           LogsFit(mem', logs', family') /\ QuarantineFits(mem', quarantine'),
           next' = "launch" => \A p \in OutputSet(cur') : quarantine'[p][AttemptNumber(mem', cur')] = Absent
    PROVE  ArtifactInv'
BY DEF ArtifactInv, Attempting, Managing, AttemptNumber

LEMMA ArtifactInit == Init => ArtifactInv
<1> SUFFICES ASSUME Init PROVE ArtifactInv OBVIOUS
<1>1. \A t \in Tasks, n \in AttemptNumbers : logs[t][n] = "none" /\ family[t][n] = "unborn" BY DEF Init
<1>2. \A p \in Paths, n \in AttemptNumbers : quarantine[p][n] = Absent BY DEF Init
<1> QED BY <1>1, <1>2 DEF Init, ArtifactInv, Attempting, Managing, Committing

\* The intents.
LEMMA ArtifactBeginSteps ==
    EngineInv /\ StoreInv /\ ArtifactInv
        /\ (AdmitResume \/ FinishRecovery \/ StartAttempt \/ CompleteAttempt \/ FailAttempt \/ CompleteRun) => ArtifactInv'
<1> SUFFICES ASSUME EngineInv, StoreInv, ArtifactInv
             PROVE  AdmitResume \/ FinishRecovery \/ StartAttempt \/ CompleteAttempt \/ FailAttempt \/ CompleteRun
                        => ArtifactInv'
    OBVIOUS
<1>0. pc \in {"admit", "quarantine", "stderr", "observe", "loop"} =>
          disk \in States /\ disk # Nil /\ LogsFit(disk, logs, family) /\ QuarantineFits(disk, quarantine)
    BY NilAssumption DEF EngineInv, TypeOK, LedgerInv, ArtifactInv
<1>1. ASSUME AdmitResume PROVE ArtifactInv'
  <2> DEFINE r == [mem EXCEPT !.status = "running", !.error = FALSE]
  <2>1. BeginCommit(r, RunEvent("run_resumed"), "loop") /\ pc = "admit" /\ UNCHANGED <<disk, logs, family, quarantine>>
      BY <1>1 DEF AdmitResume, files, world
  <2>2. mem = disk /\ mem \in States BY <2>1, <1>0 DEF StoreInv, CopyInv
  <2>3. mem'.tasks = disk.tasks /\ pc' = "intent" /\ next' = "loop" BY <2>1, <2>2 DEF BeginCommit, States
  <2>4. LogsFit(mem', logs, family) /\ QuarantineFits(mem', quarantine) BY <2>1, <2>3, <1>0, SameFits
  <2> QED BY <2>1, <2>3, <2>4, <1>0, ArtifactsBegin
<1>2. ASSUME CompleteRun PROVE ArtifactInv'
  <2> DEFINE r == [mem EXCEPT !.status = "completed", !.error = FALSE]
  <2>1. BeginCommit(r, RunEvent("run_completed"), "seal") /\ pc = "loop" /\ UNCHANGED <<disk, logs, family, quarantine>>
      BY <1>2 DEF CompleteRun, files, world
  <2>2. mem = disk /\ mem \in States BY <2>1, <1>0 DEF StoreInv, CopyInv
  <2>3. mem'.tasks = disk.tasks /\ pc' = "intent" /\ next' = "seal" BY <2>1, <2>2 DEF BeginCommit, States
  <2>4. LogsFit(mem', logs, family) /\ QuarantineFits(mem', quarantine) BY <2>1, <2>3, <1>0, SameFits
  <2> QED BY <2>1, <2>3, <2>4, <1>0, ArtifactsBegin
<1>3. ASSUME FinishRecovery PROVE ArtifactInv'
  <2>1. /\ cur \in Tasks /\ mem.tasks[cur].status \in {"running", "failed"} /\ mem' # Nil
        /\ pc' = "intent" /\ next' = "loop" /\ Touches(mem', disk, cur) /\ Touches(mem', mem, cur)
        /\ Latest(mem, cur) \in Attempts
        /\ Latest(mem', cur) = [Latest(mem, cur) EXCEPT !.quarantined = moved, !.recovered = ws]
      BY <1>3, RecoveryIntent
  <2>2. pc = "quarantine" /\ todo = << >> /\ UNCHANGED <<disk, logs, family, quarantine>>
      BY <1>3 DEF FinishRecovery, files, world
  <2>3. At(disk, cur) /\ disk.tasks[cur].status \in {"running", "failed"} /\ Touches(mem, disk, cur)
      BY <2>1, <2>2, Standing
  <2>4. LogsFit(mem', logs, family) BY <1>0, <2>1, <2>2, <2>3, LogsTouched
  <2>5. Latest(mem', cur).quarantined = moved BY <2>1 DEF Attempts
  <2>6. moved # Nil BY NilAssumption DEF EngineInv, TypeOK
  <2>7. Elems(todo) = {} BY <2>2, SMTT(60) DEF Elems
  <2>8. AttemptNumber(mem, cur) = Len(disk.tasks[cur].attempts) BY <2>3 DEF Touches, AttemptNumber
  <2>9. ASSUME NEW p \in OutputSet(cur)
        PROVE  /\ p \in DOMAIN moved => moved[p] = quarantine[p][Len(disk.tasks[cur].attempts)]
               /\ p \notin DOMAIN moved => quarantine[p][Len(disk.tasks[cur].attempts)] = Absent
      BY <2>2, <2>7, <2>8 DEF ArtifactInv
  <2>10. QuarantineFits(mem', quarantine)
    <3>1. cur \in Tasks /\ Touches(mem', disk, cur) BY <2>1
    <3>2. \A p \in OutputSet(cur) :
             LET a == Latest(mem', cur)
                 n == Len(disk.tasks[cur].attempts)
             IN  \/ a.quarantined # Nil /\ p \in DOMAIN a.quarantined /\ quarantine[p][n] = a.quarantined[p]
                 \/ (a.quarantined # Nil => p \notin DOMAIN a.quarantined) /\ quarantine[p][n] = Absent
        BY <2>5, <2>6, <2>9
    <3> QED BY <1>0, <2>2, <2>3, <3>1, <3>2, QuarantineTouched
  <2> QED BY <2>1, <2>2, <2>4, <2>10, <1>0, ArtifactsBegin
<1>4. ASSUME CompleteAttempt PROVE ArtifactInv'
  <2>1. /\ cur \in Tasks /\ mem.tasks[cur].status = "running" /\ mem' # Nil
        /\ pc' = "intent" /\ next' = "loop" /\ Touches(mem', disk, cur) /\ Touches(mem', mem, cur)
        /\ Latest(mem, cur) \in Attempts
        /\ Latest(mem', cur) = [Latest(mem, cur) EXCEPT !.status = "completed", !.rc = "known", !.after = ws,
                                                        !.outputs = Files(ws, OutputSet(cur))]
      BY <1>4, CompletionIntent
  <2>2. pc = "observe" /\ UNCHANGED <<disk, logs, family, quarantine>>
      BY <1>4 DEF CompleteAttempt, files, world
  <2>3. At(disk, cur) /\ disk.tasks[cur].status \in {"running", "failed"} /\ Touches(mem, disk, cur)
      BY <2>1, <2>2, Standing
  <2>4. LogsFit(mem', logs, family) BY <1>0, <2>1, <2>2, <2>3, LogsTouched
  <2>5. Latest(mem', cur).quarantined = Latest(mem, cur).quarantined BY <2>1 DEF Attempts
  <2>6. Latest(mem', cur).quarantined = Nil BY <2>2, <2>5 DEF StoreInv, ShapeInv, Unrecorded
  <2>8. AttemptNumber(mem, cur) = Len(disk.tasks[cur].attempts) BY <2>3 DEF Touches, AttemptNumber
  <2>9. ASSUME NEW p \in OutputSet(cur) PROVE quarantine[p][Len(disk.tasks[cur].attempts)] = Absent
      BY <2>2, <2>8 DEF ArtifactInv, Attempting
  <2>10. QuarantineFits(mem', quarantine)
    <3>1. cur \in Tasks /\ Touches(mem', disk, cur) BY <2>1
    <3> QED BY <1>0, <2>2, <2>3, <2>6, <2>9, <3>1, QuarantineTouched
  <2> QED BY <2>1, <2>2, <2>4, <2>10, <1>0, ArtifactsBegin
<1>5. ASSUME FailAttempt PROVE ArtifactInv'
  <2>1. /\ cur \in Tasks /\ mem.tasks[cur].status = "running" /\ mem' # Nil
        /\ pc' = "intent" /\ next' = "idle" /\ Touches(mem', disk, cur) /\ Touches(mem', mem, cur)
        /\ mem'.tasks[cur].status = "failed" /\ Latest(mem', cur).quarantined = Nil
      BY <1>5, FailureIntent
  <2>2. pc = "observe" /\ UNCHANGED <<disk, logs, family, quarantine>>
      BY <1>5 DEF FailAttempt, files, world
  <2>3. At(disk, cur) /\ disk.tasks[cur].status \in {"running", "failed"} /\ Touches(mem, disk, cur)
      BY <2>1, <2>2, Standing
  <2>4. LogsFit(mem', logs, family) BY <1>0, <2>1, <2>2, <2>3, LogsTouched
  <2>5. At(mem', cur)
    <3>1. ~Completed(mem', cur) BY <2>1 DEF Completed
    <3>2. ASSUME NEW u \in Tasks, u < cur PROVE Completed(mem', u)
      <4>1. u # cur BY <3>2, <2>1, SMTT(60) DEF Tasks
      <4>2. mem'.tasks[u] = disk.tasks[u] BY <4>1, <2>1 DEF Touches
      <4> QED BY <4>2, <3>2, <2>3 DEF At, Completed
    <3> QED BY <3>1, <3>2 DEF At
  <2>10. QuarantineFits(mem', quarantine) BY <1>0, <2>1, <2>2, <2>3, <2>5, QuarantineTouched
  <2> QED BY <2>1, <2>2, <2>4, <2>10, <1>0, ArtifactsBegin
<1>6. ASSUME StartAttempt PROVE ArtifactInv'
  <2> DEFINE n == Len(disk.tasks[cur].attempts)
  <2>1. /\ cur \in Tasks /\ mem = disk /\ disk.tasks[cur].status = "pending" /\ mem' # Nil
        /\ pc' = "intent" /\ next' = "launch" /\ n < MaxAttemptsPerTask
        /\ \A u \in Tasks : u # cur => mem'.tasks[u] = disk.tasks[u]
        /\ Len(mem'.tasks[cur].attempts) = n + 1
        /\ \A i \in 1..n : mem'.tasks[cur].attempts[i] = disk.tasks[cur].attempts[i]
        /\ Latest(mem', cur) = NewAttempt(CleanTree(disk)) /\ mem'.tasks[cur].status = "running"
      BY <1>6, StartIntent
  <2>2. /\ pc = "stderr" /\ UNCHANGED <<disk, family, quarantine, cur>>
        /\ logs' = [logs EXCEPT ![cur][AttemptNumber(mem, cur) + 1] = "both"]
      BY <1>6 DEF StartAttempt, world
  <2>3. At(disk, cur) BY <2>1, <2>2, Standing
  <2>4. n \in Nat /\ n + 1 \in AttemptNumbers
    <3>1. n \in Nat BY <1>0, <2>1, <2>2, StateTypes
    <3> QED BY <3>1, <2>1, LimitAssumption, SMTT(60) DEF AttemptNumbers
  <2>5. /\ logs'[cur][n + 1] = "both"
        /\ \A u \in Tasks, m \in AttemptNumbers : logs'[u][m] = logs[u][m] \/ (u = cur /\ m = n + 1)
      BY <2>1, <2>2, <2>4 DEF EngineInv, TypeOK, AttemptNumber
  <2>6. ASSUME NEW u \in Tasks, NEW m \in AttemptNumbers
        PROVE  /\ m <= Len(disk.tasks[u].attempts) => logs[u][m] = "both"
               /\ m > Len(disk.tasks[u].attempts) => family[u][m] = "unborn"
               /\ m > Len(disk.tasks[u].attempts) /\ logs[u][m] # "none" =>
                     u = cur /\ At(disk, u) /\ disk.tasks[u].status = "pending" /\ m = Len(disk.tasks[u].attempts) + 1
    <3>1. At(disk, u) => u = cur BY <1>0, <2>1, <2>2, <2>3, OneStanding
    <3> QED BY <1>0, <2>2, <3>1 DEF LogsFit
  <2>7. LogsFit(disk, logs', family)
    <3> SUFFICES ASSUME NEW u \in Tasks, NEW m \in AttemptNumbers
                 PROVE  LET count == Len(disk.tasks[u].attempts)
                        IN  /\ m <= count => logs'[u][m] = "both"
                            /\ m > count => family[u][m] = "unborn"
                            /\ m > count /\ logs'[u][m] # "none" =>
                                  At(disk, u) /\ disk.tasks[u].status = "pending" /\ m = count + 1
        BY DEF LogsFit
    <3>1. CASE u = cur /\ m = n + 1
      <4>1. logs'[u][m] = "both" /\ At(disk, u) /\ disk.tasks[u].status = "pending" BY <3>1, <2>1, <2>3, <2>5
      <4> QED BY <4>1, <3>1, <2>6
    <3>2. CASE ~(u = cur /\ m = n + 1)
      <4>1. logs'[u][m] = logs[u][m] BY <3>2, <2>5
      <4> QED BY <4>1, <2>6
    <3> QED BY <3>1, <3>2
  <2>8. LogsFit(mem', logs', family)
    <3> SUFFICES ASSUME NEW u \in Tasks, NEW m \in AttemptNumbers
                 PROVE  LET count == Len(mem'.tasks[u].attempts)
                        IN  /\ m <= count => logs'[u][m] = "both"
                            /\ m > count => family[u][m] = "unborn"
                            /\ m > count => logs'[u][m] = "none"
        BY DEF LogsFit
    <3>1. CASE u # cur
      <4>1. logs'[u][m] = logs[u][m] /\ mem'.tasks[u] = disk.tasks[u] BY <3>1, <2>1, <2>5
      <4> QED BY <4>1, <3>1, <2>6
    <3>2. CASE u = cur
      <4>1. /\ m <= n + 1 => m <= n \/ m = n + 1
            /\ m > n + 1 => m > n /\ m # n + 1
          BY <2>4, SMTT(60) DEF AttemptNumbers
      <4>2. Len(mem'.tasks[u].attempts) = n + 1 /\ Len(disk.tasks[u].attempts) = n BY <3>2, <2>1
      <4>3. m = n + 1 => logs'[u][m] = "both" BY <3>2, <2>5
      <4>4. m # n + 1 => logs'[u][m] = logs[u][m] BY <2>5
      <4>5. /\ m <= n => logs[u][m] = "both"
            /\ m > n => family[u][m] = "unborn"
            /\ m > n /\ m # n + 1 => logs[u][m] = "none"
          BY <4>2, <2>6
      <4> QED BY <4>1, <4>2, <4>3, <4>4, <4>5
    <3> QED BY <3>1, <3>2
  <2>9. ASSUME NEW p \in OutputSet(cur) PROVE quarantine[p][n + 1] = Absent
    <3>1. ~(n + 1 <= n) /\ n + 1 # n BY <2>4, SMTT(60)
    <3>2. ~QuarantineKnown(disk, cur, n + 1) BY <3>1 DEF QuarantineKnown
    <3> QED BY <3>1, <3>2, <1>0, <2>1, <2>2, <2>4 DEF QuarantineFits
  <2>10. QuarantineFits(mem', quarantine)
    <3> SUFFICES ASSUME NEW u \in Tasks, NEW m \in AttemptNumbers, NEW p \in OutputSet(u)
                 PROVE  LET referenced == QuarantineKnown(mem', u, m) /\ p \in DOMAIN mem'.tasks[u].attempts[m].quarantined
                        IN  /\ referenced => quarantine[p][m] = mem'.tasks[u].attempts[m].quarantined[p]
                            /\ ~referenced => quarantine[p][m] = Absent
        BY DEF QuarantineFits
    <3>0. At(disk, u) => u = cur BY <1>0, <2>1, <2>2, <2>3, OneStanding
    <3>1. LET referenced == QuarantineKnown(disk, u, m) /\ p \in DOMAIN disk.tasks[u].attempts[m].quarantined
          IN  /\ referenced => quarantine[p][m] = disk.tasks[u].attempts[m].quarantined[p]
              /\ ~referenced => quarantine[p][m] = Absent
        BY <3>0, <1>0, <2>1, <2>2 DEF QuarantineFits
    <3>2. CASE u # cur
      <4>1. mem'.tasks[u] = disk.tasks[u] BY <3>2, <2>1
      <4>2. QuarantineKnown(mem', u, m) <=> QuarantineKnown(disk, u, m) BY <4>1 DEF QuarantineKnown
      <4> QED BY <4>1, <4>2, <3>1
    <3>3. CASE u = cur /\ m = n + 1
      <4>1. mem'.tasks[u].attempts[m] = NewAttempt(CleanTree(disk)) BY <3>3, <2>1 DEF Latest
      <4>0. NewAttempt(CleanTree(disk)).quarantined = Nil BY DEF NewAttempt
      <4>2. ~QuarantineKnown(mem', u, m) BY <4>0, <4>1 DEF QuarantineKnown
      <4> QED BY <4>2, <3>3, <2>9
    <3>4. CASE u = cur /\ m # n + 1
      <4>1. m <= n + 1 <=> m \in 1..n BY <3>4, <2>4, SMTT(60) DEF AttemptNumbers
      <4>2. m <= n <=> m \in 1..n BY <2>4, SMTT(60) DEF AttemptNumbers
      <4>3. m \in 1..n => mem'.tasks[u].attempts[m] = disk.tasks[u].attempts[m] BY <3>4, <2>1
      <4>4. QuarantineKnown(mem', u, m) <=> QuarantineKnown(disk, u, m)
          BY <4>1, <4>2, <4>3, <3>4, <2>1 DEF QuarantineKnown
      <4>5. QuarantineKnown(disk, u, m) => m \in 1..n BY <4>2, <3>4 DEF QuarantineKnown
      <4> QED BY <4>3, <4>4, <4>5, <3>1
    <3> QED BY <3>2, <3>3, <3>4
  <2>11. \A p \in OutputSet(cur') : quarantine'[p][AttemptNumber(mem', cur')] = Absent
      BY <2>1, <2>2, <2>9 DEF AttemptNumber
  <2> QED BY <2>1, <2>2, <2>7, <2>8, <2>10, <2>11, <1>0, ArtifactsBegin
<1> QED BY <1>1, <1>2, <1>3, <1>4, <1>5, <1>6

\* Both ends of a run: start_run, resume_run and _build_bundle.
LEMMA ArtifactEndSteps ==
    EngineInv /\ StoreInv /\ ArtifactInv /\ (StartRun \/ CreateRun \/ ResumeRun \/ ResumeBound \/ BuildBundle)
        => ArtifactInv'
<1> SUFFICES ASSUME EngineInv, StoreInv, ArtifactInv
             PROVE  StartRun \/ CreateRun \/ ResumeRun \/ ResumeBound \/ BuildBundle => ArtifactInv'
    OBVIOUS
<1>1. ASSUME StartRun \/ ResumeRun \/ ResumeBound \/ BuildBundle PROVE ArtifactInv'
  <2>1. /\ UNCHANGED <<disk, logs, family, quarantine>>
        /\ pc' \in {"create", "admit", "reconcile", "hash", "publish", "verify"}
      BY <1>1, BundleFrame DEF StartRun, ResumeRun, ResumeBound, Resume, files, world
  <2>2. ~Attempting' BY <2>1 DEF Attempting, Managing, Committing
  <2>3. disk # Nil => LogsFit(disk, logs, family) /\ QuarantineFits(disk, quarantine) BY DEF ArtifactInv
  <2> QED BY <2>1, <2>2, <2>3, ArtifactsKept
<1>2. ASSUME CreateRun PROVE ArtifactInv'
  <2>1. /\ disk' = InitialState /\ UNCHANGED <<logs, family, quarantine>> /\ pc = "create"
        /\ mem' = [InitialState EXCEPT !.pending = RunEvent("run_started")] /\ pc' = "intent" /\ next' = "loop"
      BY <1>2 DEF CreateRun, BeginCommit, world
  <2>2. /\ \A t \in Tasks, n \in AttemptNumbers : logs[t][n] = "none" /\ family[t][n] = "unborn"
        /\ \A p \in Paths, n \in AttemptNumbers : quarantine[p][n] = Absent
      BY <2>1 DEF EngineInv, LedgerInv, ArtifactInv
  <2>3. mem'.tasks = InitialState.tasks /\ InitialState # Nil
      BY <2>1, InitialStateType, NilAssumption DEF States
  <2>4. LogsFit(InitialState, logs, family)
    <3> SUFFICES ASSUME NEW t \in Tasks, NEW n \in AttemptNumbers PROVE ~(n <= Len(InitialState.tasks[t].attempts))
        BY <2>2 DEF LogsFit
    <3>1. InitialState.tasks[t].attempts = << >> BY InitialTasks
    <3> QED BY <3>1, SMTT(60) DEF AttemptNumbers
  <2>5. QuarantineFits(InitialState, quarantine)
    <3> SUFFICES ASSUME NEW t \in Tasks, NEW n \in AttemptNumbers, NEW p \in OutputSet(t)
                 PROVE  ~(n <= Len(InitialState.tasks[t].attempts)) /\ quarantine[p][n] = Absent
        BY DEF QuarantineFits, QuarantineKnown
    <3>1. InitialState.tasks[t].attempts = << >> BY InitialTasks
    <3>2. p \in Paths BY OutputPaths
    <3>3. quarantine[p][n] = Absent BY <2>2, <3>2
    <3> QED BY <3>1, <3>3, SMTT(60) DEF AttemptNumbers
  <2>6. LogsFit(mem', logs, family) /\ QuarantineFits(mem', quarantine) BY <2>3, <2>4, <2>5, SameFits
  <2> QED BY <2>1, <2>3, <2>4, <2>5, <2>6, ArtifactsBegin
<1> QED BY <1>1, <1>2

\* The commit protocol and its reconciliation.
LEMMA ArtifactCommitSteps ==
    EngineInv /\ StoreInv /\ ArtifactInv /\ (Commit \/ ReconcileAppend \/ ReconcileAcknowledge) => ArtifactInv'
<1> SUFFICES ASSUME EngineInv, StoreInv, ArtifactInv
             PROVE  Commit \/ ReconcileAppend \/ ReconcileAcknowledge => ArtifactInv'
    OBVIOUS
<1>0. disk # Nil => LogsFit(disk, logs, family) /\ QuarantineFits(disk, quarantine) BY DEF ArtifactInv
<1>1. ASSUME PersistIntent PROVE ArtifactInv'
  <2>1. disk' = mem /\ pc = "intent" /\ pc' = "append" /\ UNCHANGED <<logs, family, quarantine, mem, next, cur>>
      BY <1>1 DEF PersistIntent, world, locals
  <2>2. LogsFit(mem, logs, family) /\ QuarantineFits(mem, quarantine) /\ mem # Nil
      BY <2>1 DEF ArtifactInv, EngineInv, TypeOK
  <2>3. Attempting' => Attempting BY <2>1 DEF Attempting, Managing, Committing
  <2> QED BY <2>1, <2>2, <2>3, ArtifactsKept
<1>2. ASSUME AppendEvent \/ ReconcileAppend PROVE ArtifactInv'
  <2>1. /\ UNCHANGED <<disk, logs, family, quarantine, mem, next, cur>>
        /\ \/ pc = "append" /\ pc' = "ack"
           \/ pc = "reconcile" /\ pc' = "reconcile"
      BY <1>2 DEF AppendEvent, ReconcileAppend, world, locals
  <2>3. Attempting' => Attempting BY <2>1 DEF Attempting, Managing, Committing
  <2> QED BY <1>0, <2>1, <2>3, ArtifactsKept
<1>3. ASSUME Acknowledge \/ ReconcileAcknowledge PROVE ArtifactInv'
  <2>1. /\ disk' = Acknowledged(mem) /\ UNCHANGED <<logs, family, quarantine>>
        /\ pc \in {"ack", "reconcile"}
        /\ \/ pc' \in {"idle", "admit"}
           \/ pc = "ack" /\ pc' = next /\ next # "idle" /\ mem' = Acknowledged(mem) /\ cur' = cur
      BY <1>3 DEF Acknowledge, ReconcileAcknowledge, Halt, world, locals
  <2>2. mem = disk /\ mem \in States /\ disk # Nil BY <2>1 DEF StoreInv, CopyInv, EngineInv, TypeOK
  <2>3. disk'.tasks = disk.tasks /\ disk' # Nil
    <3>1. Acknowledged(mem).tasks = mem.tasks BY <2>2 DEF Acknowledged, States
    <3>2. log \in Seq(Events) BY DEF EngineInv, TypeOK
    <3>3. Acknowledged(mem) \in States BY <2>2, <3>2 DEF Acknowledged, States
    <3> QED BY <2>1, <2>2, <3>1, <3>3, NilAssumption
  <2>4. LogsFit(disk', logs, family) /\ QuarantineFits(disk', quarantine) BY <1>0, <2>2, <2>3, SameFits
  <2>5. pc' \notin {"intent", "quarantine"} BY <2>1 DEF EngineInv, TypeOK
  <2>6. Attempting' => Attempting /\ cur' = cur /\ AttemptNumber(mem', cur) = AttemptNumber(mem, cur)
    <3>1. ASSUME Attempting'
          PROVE  pc = "ack" /\ next = "launch" /\ mem' = Acknowledged(mem) /\ cur' = cur
        BY <2>1, <3>1 DEF Attempting, Managing, Committing, EngineInv, TypeOK
    <3>2. ASSUME Attempting' PROVE mem'.tasks = mem.tasks BY <2>1, <2>2, <2>3, <3>1, <3>2
    <3> QED BY <3>1, <3>2 DEF Attempting, Committing, AttemptNumber
  <2> QED BY <2>1, <2>3, <2>4, <2>5, <2>6, ArtifactsKept
<1> QED BY <1>1, <1>2, <1>3 DEF Commit

LEMMA HeadAndTail ==
    ASSUME NEW s \in Seq(Paths), s # << >>
    PROVE  Elems(s) = {Head(s)} \cup Elems(Tail(s))
<1>1. Len(s) \in Nat \ {0} /\ Head(s) = s[1] /\ Len(Tail(s)) = Len(s) - 1 BY SMTT(60)
<1>2. DOMAIN s = 1..Len(s) /\ DOMAIN Tail(s) = 1..(Len(s) - 1) BY SMTT(60)
<1>3. \A i \in 1..(Len(s) - 1) : Tail(s)[i] = s[i + 1] /\ i + 1 \in 1..Len(s) BY <1>1, SMTT(60)
<1>4. \A i \in 1..Len(s) : i = 1 \/ (i - 1 \in 1..(Len(s) - 1) /\ Tail(s)[i - 1] = s[i]) BY <1>1, <1>3, SMTT(60)
<1>5. 1 \in 1..Len(s) BY <1>1, SMTT(60)
<1>6. ASSUME NEW x \in Elems(s) PROVE x \in {Head(s)} \cup Elems(Tail(s))
  <2>1. PICK i \in 1..Len(s) : x = s[i] BY <1>2 DEF Elems
  <2>2. CASE i = 1 BY <1>1, <2>1, <2>2
  <2>3. CASE i - 1 \in DOMAIN Tail(s) /\ Tail(s)[i - 1] = s[i] BY <2>1, <2>3 DEF Elems
  <2> QED BY <1>2, <1>4, <2>2, <2>3
<1>7. ASSUME NEW x \in Elems(Tail(s)) PROVE x \in Elems(s)
  <2>1. PICK i \in 1..(Len(s) - 1) : x = Tail(s)[i] BY <1>2 DEF Elems
  <2>2. i + 1 \in DOMAIN s /\ x = s[i + 1] BY <1>2, <1>3, <2>1
  <2> QED BY <2>2 DEF Elems
<1>8. Head(s) \in Elems(s) BY <1>1, <1>2, <1>5 DEF Elems
<1> QED BY <1>6, <1>7, <1>8

\* A halt leaves the log and quarantine files as they are.
LEMMA ArtifactsIdle ==
    ASSUME ArtifactInv, UNCHANGED <<logs, quarantine>>, pc' = "idle",
           disk' = Nil => disk = Nil /\ family' = family,
           disk' # Nil => LogsFit(disk', logs, family') /\ QuarantineFits(disk', quarantine)
    PROVE  ArtifactInv'
<1>1. ~Attempting' BY DEF Attempting, Managing, Committing
<1> QED BY <1>1, ArtifactsKept

\* The log pair of the next attempt of the task a run stands at.
LEMMA PairBegins ==
    ASSUME NEW s, NEW t \in Tasks, At(s, t), s.tasks[t].status = "pending", Len(s.tasks[t].attempts) \in Nat,
           NEW pairs, NEW families, LogsFit(s, pairs, families), NEW new,
           \A u \in Tasks, m \in AttemptNumbers :
              new[u][m] = pairs[u][m] \/ (u = t /\ m = Len(s.tasks[t].attempts) + 1)
    PROVE  LogsFit(s, new, families)
<1> SUFFICES ASSUME NEW u \in Tasks, NEW m \in AttemptNumbers
             PROVE  LET count == Len(s.tasks[u].attempts)
                    IN  /\ m <= count => new[u][m] = "both"
                        /\ m > count => families[u][m] = "unborn"
                        /\ m > count /\ new[u][m] # "none" =>
                              At(s, u) /\ s.tasks[u].status = "pending" /\ m = count + 1
    BY DEF LogsFit
<1>1. LET count == Len(s.tasks[u].attempts)
      IN  /\ m <= count => pairs[u][m] = "both"
          /\ m > count => families[u][m] = "unborn"
          /\ m > count /\ pairs[u][m] # "none" => At(s, u) /\ s.tasks[u].status = "pending" /\ m = count + 1
    BY DEF LogsFit
<1>2. CASE new[u][m] = pairs[u][m] BY <1>1, <1>2
<1>3. CASE u = t /\ m = Len(s.tasks[t].attempts) + 1
  <2>1. ~(Len(s.tasks[t].attempts) + 1 <= Len(s.tasks[t].attempts)) BY SMTT(60)
  <2> QED BY <2>1, <1>1, <1>3
<1> QED BY <1>2, <1>3

\* The runner between two commits, before an attempt.
LEMMA ArtifactPreparationSteps ==
    EngineInv /\ StoreInv /\ ArtifactInv /\ (PassCompletedTask \/ BeginRecovery \/ QuarantineOutput \/ PrepareStdout)
        => ArtifactInv'
<1> SUFFICES ASSUME EngineInv, StoreInv, ArtifactInv
             PROVE  PassCompletedTask \/ BeginRecovery \/ QuarantineOutput \/ PrepareStdout => ArtifactInv'
    OBVIOUS
<1>0. pc \in {"quarantine", "loop"} =>
          disk \in States /\ disk # Nil /\ LogsFit(disk, logs, family) /\ QuarantineFits(disk, quarantine)
    BY NilAssumption DEF EngineInv, TypeOK, LedgerInv, ArtifactInv
<1>1. ASSUME PassCompletedTask PROVE ArtifactInv'
  <2>1. UNCHANGED <<disk, logs, family, quarantine>> /\ pc = "loop" /\ pc' = "loop"
      BY <1>1 DEF PassCompletedTask, files, world
  <2>2. ~Attempting' BY <2>1 DEF Attempting, Managing, Committing
  <2> QED BY <1>0, <2>1, <2>2, ArtifactsKept
<1>2. ASSUME BeginRecovery PROVE ArtifactInv'
  <2>1. /\ UNCHANGED <<disk, logs, family, quarantine, cur>> /\ pc = "loop" /\ pc' = "quarantine"
        /\ todo' = OutputsOf[cur] /\ moved' = << >>
      BY <1>2 DEF BeginRecovery, files, world
  <2>2. ~Attempting' BY <2>1 DEF Attempting, Managing, Committing
  <2>3. DOMAIN moved' = {} /\ Elems(todo') = OutputSet(cur)
    <3>1. DOMAIN moved' = {} BY <2>1, SMTT(60)
    <3> QED BY <3>1, <2>1 DEF OutputSet
  <2>4. \A p \in OutputSet(cur') : p \notin DOMAIN moved' /\ p \in DOMAIN moved' \cup Elems(todo')
      BY <2>1, <2>3
  <2>5. disk' # Nil /\ LogsFit(disk', logs', family') /\ QuarantineFits(disk', quarantine') BY <1>0, <2>1
  <2> QED BY <2>1, <2>2, <2>4, <2>5 DEF ArtifactInv
<1>3. ASSUME QuarantineOutput PROVE ArtifactInv'
  <2> DEFINE p == Head(todo)
             n == AttemptNumber(mem, cur)
             c == IF ws[p] # Absent THEN ws[p] ELSE quarantine[p][n]
  <2>1. /\ UNCHANGED <<disk, logs, family, cur, mem>> /\ pc = "quarantine" /\ pc' = "quarantine" /\ todo # << >>
        /\ quarantine' = [quarantine EXCEPT ![p][n] = c] /\ todo' = Tail(todo)
        /\ moved' = IF c = Absent THEN moved ELSE [q \in DOMAIN moved \cup {p} |-> IF q = p THEN c ELSE moved[q]]
      BY <1>3 DEF QuarantineOutput
  <2>2. /\ cur \in Tasks /\ mem.tasks[cur].status \in {"running", "failed"} /\ Recorded(mem) /\ mem \in States
        /\ todo \in Seq(Paths) /\ quarantine \in [Paths -> [AttemptNumbers -> Contents \cup {Absent}]]
      BY <2>1 DEF EngineInv, LaunchInv, RecordInv, TypeOK
  <2>3. /\ At(disk, cur) /\ disk.tasks[cur].status \in {"running", "failed"} /\ Touches(mem, disk, cur)
        /\ StateBody(disk)
      BY <2>1, <2>2, Standing
  <2>4. Latest(disk, cur).quarantined = Nil BY <1>0, <2>1, <2>2, <2>3, LatestShape
  <2>5. n \in AttemptNumbers /\ n = Len(disk.tasks[cur].attempts)
    <3>1. n \in AttemptNumbers BY <2>2, LatestType
    <3> QED BY <3>1, <2>3 DEF Touches, AttemptNumber
  <2>6. p \in Paths /\ Elems(todo) = {p} \cup Elems(Tail(todo))
    <3>1. p \in Paths BY <2>1, <2>2, SMTT(60)
    <3>2. Elems(todo) = {p} \cup Elems(Tail(todo)) BY <2>1, <2>2, HeadAndTail
    <3> QED BY <3>1, <3>2
  <2>7. /\ quarantine'[p][n] = c
        /\ \A q \in Paths, m \in AttemptNumbers : quarantine'[q][m] = quarantine[q][m] \/ (q = p /\ m = n)
      BY <2>1, <2>2, <2>5, <2>6
  <2>8. QuarantineFits(disk, quarantine')
    <3> SUFFICES ASSUME NEW u \in Tasks, NEW m \in AttemptNumbers, NEW q \in OutputSet(u)
                 PROVE  LET referenced == QuarantineKnown(disk, u, m) /\ q \in DOMAIN disk.tasks[u].attempts[m].quarantined
                        IN  /\ referenced => quarantine'[q][m] = disk.tasks[u].attempts[m].quarantined[q]
                            /\ ~referenced /\ quarantine'[q][m] # Absent =>
                                  /\ At(disk, u) /\ disk.tasks[u].status \in {"running", "failed"}
                                  /\ m = Len(disk.tasks[u].attempts) /\ ~QuarantineKnown(disk, u, m)
        BY DEF QuarantineFits
    <3>1. q \in Paths BY OutputPaths
    <3>2. CASE quarantine'[q][m] = quarantine[q][m] BY <3>2, <1>0, <2>1 DEF QuarantineFits
    <3>3. CASE q = p /\ m = n
      <4>1. p \in OutputSet(cur)
        <5>1. p \in Elems(todo) BY <2>6
        <5> QED BY <5>1, <2>1 DEF StoreInv, ShapeInv
      <4>2. u = cur BY <4>1, <3>3, <2>2, SuiteAssumption
      <4>3. ~QuarantineKnown(disk, u, m) BY <4>2, <3>3, <2>4, <2>5 DEF QuarantineKnown, Latest
      <4> QED BY <4>2, <4>3, <3>3, <2>3, <2>5
    <3> QED BY <3>1, <3>2, <3>3, <2>7
  <2>9. ASSUME NEW q \in OutputSet(cur)
        PROVE  /\ q \in DOMAIN moved' => moved'[q] = quarantine'[q][n]
               /\ quarantine'[q][n] # Absent => q \in DOMAIN moved' \cup Elems(todo')
    <3>0. q \in Paths BY <2>2, OutputPaths
    <3>1. /\ q \in DOMAIN moved => moved[q] = quarantine[q][n]
          /\ quarantine[q][n] # Absent => q \in DOMAIN moved \cup Elems(todo)
        BY <2>1 DEF ArtifactInv
    <3>2. CASE c = Absent
      <4>1. moved' = moved /\ quarantine[p][n] = Absent BY <2>1, <3>2
      <4>2. quarantine'[q][n] = quarantine[q][n] BY <4>1, <3>0, <3>2, <2>5, <2>7
      <4>3. q = p => quarantine[q][n] = Absent BY <4>1
      <4> QED BY <4>1, <4>2, <4>3, <3>1, <2>1, <2>6
    <3>3. CASE c # Absent
      <4>1. moved' = [x \in DOMAIN moved \cup {p} |-> IF x = p THEN c ELSE moved[x]] BY <2>1, <3>3
      <4>2. CASE q = p BY <4>1, <4>2, <2>7
      <4>3. CASE q # p
        <5>1. quarantine'[q][n] = quarantine[q][n] BY <4>3, <3>0, <2>5, <2>7
        <5>2. q \in DOMAIN moved' <=> q \in DOMAIN moved BY <4>1, <4>3
        <5>3. q \in DOMAIN moved => moved'[q] = moved[q] BY <4>1, <4>3
        <5> QED BY <5>1, <5>2, <5>3, <4>3, <3>1, <2>1, <2>6
      <4> QED BY <4>2, <4>3
    <3> QED BY <3>2, <3>3
  <2>10. ~Attempting' BY <2>1 DEF Attempting, Managing, Committing
  <2>11. disk' # Nil /\ LogsFit(disk', logs', family') /\ QuarantineFits(disk', quarantine') BY <1>0, <2>1, <2>8
  <2>12. AttemptNumber(mem', cur') = n /\ cur' = cur /\ pc' = "quarantine" BY <2>1 DEF AttemptNumber
  <2> QED BY <2>9, <2>10, <2>11, <2>12 DEF ArtifactInv
<1>4. ASSUME PrepareStdout PROVE ArtifactInv'
  <2> DEFINE n == Len(disk.tasks[cur].attempts)
  <2>1. /\ UNCHANGED <<disk, family, quarantine>> /\ pc = "loop" /\ pc' = "stderr" /\ cur \in Tasks
        /\ mem.tasks[cur].status = "pending" /\ LaunchReady(mem, cur)
        /\ logs' = [logs EXCEPT ![cur][AttemptNumber(mem, cur) + 1] = IF @ = "none" THEN "stdout" ELSE @]
      BY <1>4 DEF PrepareStdout, world
  <2>2. mem = disk /\ At(disk, cur) /\ disk.tasks[cur].status = "pending"
    <3>1. mem = disk BY <2>1 DEF StoreInv, CopyInv
    <3>2. At(disk, cur) BY <2>1, Standing
    <3> QED BY <3>1, <3>2, <2>1
  <2>3. n \in Nat /\ n + 1 \in AttemptNumbers
    <3>1. n \in Nat BY <1>0, <2>1, StateTypes
    <3>2. n + 1 <= MaxAttemptsPerTask BY <2>1, <2>2 DEF LaunchReady, AttemptNumber
    <3> QED BY <3>1, <3>2, LimitAssumption, SMTT(60) DEF AttemptNumbers
  <2>4. \A u \in Tasks, m \in AttemptNumbers : logs'[u][m] = logs[u][m] \/ (u = cur /\ m = n + 1)
      BY <2>1, <2>2, <2>3 DEF EngineInv, TypeOK, AttemptNumber
  <2>5. LogsFit(disk, logs', family)
    <3>1. LogsFit(disk, logs, family) /\ cur \in Tasks /\ n \in Nat BY <1>0, <2>1, <2>3
    <3> QED BY <3>1, <2>2, <2>4, PairBegins, SMTT(60)
  <2>6. ~Attempting' BY <2>1 DEF Attempting, Managing, Committing
  <2>7. disk' # Nil /\ LogsFit(disk', logs', family') /\ QuarantineFits(disk', quarantine') BY <1>0, <2>1, <2>5
  <2> QED BY <2>1, <2>6, <2>7 DEF ArtifactInv
<1> QED BY <1>1, <1>2, <1>3, <1>4

\* While a child is managed: the runner's copy fits the files as state.json does.
LEMMA ManagedArtifacts ==
    ASSUME EngineInv, StoreInv, ArtifactInv, pc \in Managing
    PROVE  /\ disk \in States /\ disk # Nil /\ mem # Nil /\ cur \in Tasks /\ Attempting
           /\ Touches(mem, disk, cur) /\ At(disk, cur) /\ disk.tasks[cur].status = "running"
           /\ AttemptNumber(mem, cur) \in AttemptNumbers
           /\ LogsFit(disk, logs, family) /\ QuarantineFits(disk, quarantine)
           /\ LogsFit(mem, logs, family) /\ QuarantineFits(mem, quarantine)
           /\ (\A u \in Tasks, m \in AttemptNumbers :
                 family'[u][m] = family[u][m] \/ (u = cur /\ m = AttemptNumber(mem, cur)))
              => LogsFit(disk, logs, family') /\ LogsFit(mem, logs, family')
<1>1. /\ cur \in Tasks /\ mem.tasks[cur].status = "running" /\ mem \in States
      /\ AttemptNumber(mem, cur) \in AttemptNumbers /\ AttemptNumber(disk, cur) = AttemptNumber(mem, cur)
    BY ManagedChild
<1>2. /\ disk \in States /\ disk # Nil /\ At(disk, cur) /\ Touches(mem, disk, cur) /\ disk.tasks[cur].status = "running"
      /\ At(mem, cur) /\ StateBody(disk)
    BY <1>1, Standing
<1>3. LogsFit(disk, logs, family) /\ QuarantineFits(disk, quarantine) BY <1>2 DEF ArtifactInv
<1>4. LogsFit(mem, logs, family) BY <1>1, <1>2, <1>3, LogsTouched
<1>5. QuarantineFits(mem, quarantine)
  <2>1. Attempting BY DEF Attempting
  <2>2. \A p \in OutputSet(cur) : quarantine[p][Len(disk.tasks[cur].attempts)] = Absent
      BY <1>1, <2>1 DEF ArtifactInv, AttemptNumber
  <2>3. Latest(mem, cur).quarantined = Nil
    <3>1. CASE pc = "persist"
      <4>1. StateBody(mem) BY <3>1 DEF StoreInv, ShapeInv
      <4> QED BY <4>1, <1>1, LatestShape
    <3>2. CASE pc # "persist"
      <4>1. mem = disk BY <3>2 DEF Managing, StoreInv, CopyInv
      <4> QED BY <4>1, <1>1, <1>2, LatestShape
    <3> QED BY <3>1, <3>2
  <2> QED BY <1>1, <1>2, <1>3, <2>2, <2>3, QuarantineTouched
<1>6. ASSUME \A u \in Tasks, m \in AttemptNumbers :
                family'[u][m] = family[u][m] \/ (u = cur /\ m = AttemptNumber(mem, cur))
      PROVE  LogsFit(disk, logs, family') /\ LogsFit(mem, logs, family')
  <2>1. /\ Len(disk.tasks[cur].attempts) \in Nat /\ Len(mem.tasks[cur].attempts) = Len(disk.tasks[cur].attempts)
        /\ AttemptNumber(mem, cur) = Len(disk.tasks[cur].attempts)
      BY <1>1, <1>2, StateTypes DEF AttemptNumber
  <2>2. AttemptNumber(mem, cur) <= Len(disk.tasks[cur].attempts) BY <2>1, SMTT(60)
  <2> DEFINE n == AttemptNumber(mem, cur)
  <2>3. /\ cur \in Tasks /\ n \in AttemptNumbers /\ n <= Len(disk.tasks[cur].attempts) /\ n <= Len(mem.tasks[cur].attempts)
        /\ Len(disk.tasks[cur].attempts) \in Nat /\ Len(mem.tasks[cur].attempts) \in Nat
        /\ \A u \in Tasks, m \in AttemptNumbers : family'[u][m] = family[u][m] \/ (u = cur /\ m = n)
      BY <1>1, <1>6, <2>1, <2>2
  <2> HIDE DEF n
  <2>4. LogsFit(disk, logs, family') BY <1>3, <2>3, FamilyFits
  <2>5. LogsFit(mem, logs, family') BY <1>4, <2>3, FamilyFits
  <2> QED BY <2>4, <2>5
<1> QED BY <1>1, <1>2, <1>3, <1>4, <1>5, <1>6 DEF Attempting, EngineInv, TypeOK, Managing

\* A step of the runner that manages a child, with a new record of the child's scope or with the old one.
LEMMA ManagedStep ==
    ASSUME EngineInv, StoreInv, ArtifactInv, pc \in Managing, pc' \in Managing \cup {"observe"}, disk' \in {disk, mem},
           \/ mem' = mem
           \/ \E child \in BOOLEAN, closure \in {"active", "empty"} : mem' = Scoped(mem, child, closure),
           \/ family' = family
           \/ \E value \in Families : ChildBecomes(value),
           UNCHANGED <<logs, quarantine, cur>>
    PROVE  ArtifactInv'
<1>1. /\ disk # Nil /\ mem # Nil /\ cur \in Tasks /\ Attempting /\ AttemptNumber(mem, cur) \in AttemptNumbers
      /\ QuarantineFits(disk, quarantine) /\ QuarantineFits(mem, quarantine)
      /\ (\A u \in Tasks, m \in AttemptNumbers :
                 family'[u][m] = family[u][m] \/ (u = cur /\ m = AttemptNumber(mem, cur)))
              => LogsFit(disk, logs, family') /\ LogsFit(mem, logs, family')
    BY ManagedArtifacts
<1>2. \A u \in Tasks, m \in AttemptNumbers : family'[u][m] = family[u][m] \/ (u = cur /\ m = AttemptNumber(mem, cur))
  <2>1. CASE family' = family BY <2>1
  <2>2. ASSUME NEW value \in Families, ChildBecomes(value)
        PROVE  \A u \in Tasks, m \in AttemptNumbers :
                  family'[u][m] = family[u][m] \/ (u = cur /\ m = AttemptNumber(mem, cur))
      BY <2>2, <1>1 DEF ChildBecomes, EngineInv, TypeOK
  <2> QED BY <2>1, <2>2
<1>3. LogsFit(disk', logs, family') /\ QuarantineFits(disk', quarantine) /\ disk' # Nil BY <1>1, <1>2
<1>4. AttemptNumber(mem', cur) = AttemptNumber(mem, cur)
  <2>1. ASSUME NEW child \in BOOLEAN, NEW closure \in {"active", "empty"}, mem' = Scoped(mem, child, closure)
        PROVE  Touches(mem', mem, cur)
      BY <2>1, ScopedRecord
  <2> QED BY <2>1 DEF Touches, AttemptNumber
<1>5. pc' \notin {"intent", "quarantine"} BY DEF Managing
<1> QED BY <1>1, <1>3, <1>4, <1>5, ArtifactsKept

\* Launching, identifying and waiting for a child.
LEMMA ArtifactChildSteps ==
    EngineInv /\ StoreInv /\ ArtifactInv
      /\ (LaunchChild \/ LaunchFails \/ CaptureIdentity \/ IdentityUnavailable \/ PersistIdentity
            \/ PersistIdentityFails \/ AwaitExit("ok") \/ AwaitExit("failed") \/ ScopeLingers
            \/ InterruptWait("interrupted") \/ InterruptWait("failed") \/ ContextDrifts) => ArtifactInv'
<1> SUFFICES ASSUME EngineInv, StoreInv, ArtifactInv
             PROVE  LaunchChild \/ LaunchFails \/ CaptureIdentity \/ IdentityUnavailable \/ PersistIdentity
                      \/ PersistIdentityFails \/ AwaitExit("ok") \/ AwaitExit("failed") \/ ScopeLingers
                      \/ InterruptWait("interrupted") \/ InterruptWait("failed") \/ ContextDrifts => ArtifactInv'
    OBVIOUS
<1>1. CASE LaunchChild
  <2>1. pc = "launch" /\ pc' = "identify" /\ ChildBecomes("leader") /\ UNCHANGED <<disk, mem, logs, quarantine, cur>>
      BY <1>1 DEF LaunchChild, files, locals
  <2> QED BY <2>1, ManagedStep DEF Managing, Families
<1>2. CASE LaunchFails
  <2>1. /\ pc = "launch" /\ pc' = "observe" /\ mem' = Scoped(mem, FALSE, "empty")
        /\ UNCHANGED <<disk, family, logs, quarantine, cur>>
      BY <1>2 DEF LaunchFails, files, world
  <2> QED BY <2>1, ManagedStep DEF Managing
<1>3. CASE CaptureIdentity
  <2>1. /\ pc = "identify" /\ pc' = "persist" /\ mem' = Scoped(mem, TRUE, "active")
        /\ UNCHANGED <<disk, family, logs, quarantine, cur>>
      BY <1>3 DEF CaptureIdentity, files, world, locals
  <2> QED BY <2>1, ManagedStep DEF Managing
<1>4. CASE PersistIdentity
  <2>1. pc = "persist" /\ pc' = "wait" /\ disk' = mem /\ UNCHANGED <<mem, family, logs, quarantine, cur>>
      BY <1>4 DEF PersistIdentity, world, locals
  <2> QED BY <2>1, ManagedStep DEF Managing
<1>5. CASE IdentityUnavailable \/ PersistIdentityFails \/ ScopeLingers \/ InterruptWait("interrupted") \/ InterruptWait("failed")
  <2>1. /\ pc \in Managing /\ pc' = "observe" /\ disk' \in {disk, mem} /\ mem' = Scoped(mem, TRUE, "empty")
        /\ ChildBecomes("gone") /\ UNCHANGED <<logs, quarantine, cur>>
      BY <1>5 DEF IdentityUnavailable, PersistIdentityFails, ScopeLingers, InterruptWait, StopChild, Managing
  <2> QED BY <2>1, ManagedStep DEF Managing, Families
<1>6. CASE AwaitExit("ok") \/ AwaitExit("failed")
  <2>1. /\ pc = "wait" /\ pc' = "observe" /\ mem' = Scoped(mem, TRUE, "empty")
        /\ UNCHANGED <<disk, family, logs, quarantine, cur>>
      BY <1>6 DEF AwaitExit, files, world
  <2> QED BY <2>1, ManagedStep DEF Managing
<1>7. CASE ContextDrifts
  <2>1. pc = "observe" /\ UNCHANGED <<pc, disk, mem, family, logs, quarantine, cur, next>>
      BY <1>7 DEF ContextDrifts, files, world
  <2>2. Attempting' => Attempting BY <2>1 DEF Attempting
  <2>3. disk # Nil => LogsFit(disk, logs, family) /\ QuarantineFits(disk, quarantine) BY DEF ArtifactInv
  <2> QED BY <2>1, <2>2, <2>3, ArtifactsKept
<1> QED BY <1>1, <1>2, <1>3, <1>4, <1>5, <1>6, <1>7

\* The ways a runner ends.
LEMMA ArtifactHaltingSteps ==
    EngineInv /\ StoreInv /\ ArtifactInv 
      /\ (VerifySealed \/ Refuse \/ RefuseAttempt \/ Crash \/ CrashInWrite \/ RaiseWithCleanup) => ArtifactInv'
<1> SUFFICES ASSUME EngineInv, StoreInv, ArtifactInv
             PROVE  VerifySealed \/ Refuse \/ RefuseAttempt \/ Crash \/ CrashInWrite \/ RaiseWithCleanup => ArtifactInv'
    OBVIOUS
<1>1. ASSUME VerifySealed \/ Refuse \/ Crash \/ CrashInWrite PROVE ArtifactInv'
  <2>1. pc' = "idle" /\ UNCHANGED <<disk, family, logs, quarantine>>
      BY <1>1 DEF VerifySealed, Refuse, Crash, CrashInWrite, Halt, files, world
  <2>2. disk # Nil => LogsFit(disk, logs, family) /\ QuarantineFits(disk, quarantine) BY DEF ArtifactInv
  <2> QED BY <2>1, <2>2, ArtifactsIdle
<1>2. ASSUME RaiseWithCleanup PROVE ArtifactInv'
  <2>1. /\ pc \in Managing /\ pc' = "idle" /\ disk' \in {disk, mem} /\ ChildBecomes("gone")
        /\ UNCHANGED <<logs, quarantine>>
      BY <1>2 DEF RaiseWithCleanup, Halt, Managing
  <2>2. /\ disk # Nil /\ mem # Nil /\ cur \in Tasks /\ AttemptNumber(mem, cur) \in AttemptNumbers
        /\ QuarantineFits(disk, quarantine) /\ QuarantineFits(mem, quarantine)
        /\ (\A u \in Tasks, m \in AttemptNumbers :
                   family'[u][m] = family[u][m] \/ (u = cur /\ m = AttemptNumber(mem, cur)))
                => LogsFit(disk, logs, family') /\ LogsFit(mem, logs, family')
      BY <2>1, ManagedArtifacts
  <2>3. \A u \in Tasks, m \in AttemptNumbers : family'[u][m] = family[u][m] \/ (u = cur /\ m = AttemptNumber(mem, cur))
      BY <2>1, <2>2 DEF ChildBecomes, EngineInv, TypeOK
  <2>4. LogsFit(disk', logs, family') /\ QuarantineFits(disk', quarantine) /\ disk' # Nil BY <2>1, <2>2, <2>3
  <2> QED BY <2>1, <2>4, ArtifactsIdle
<1>3. ASSUME RefuseAttempt PROVE ArtifactInv'
  <2> DEFINE n == Len(disk.tasks[cur].attempts)
  <2>1. /\ pc = "stderr" /\ pc' = "idle" /\ UNCHANGED <<disk, family, quarantine>>
        /\ logs' = [logs EXCEPT ![cur][AttemptNumber(mem, cur) + 1] = "both"]
      BY <1>3 DEF RefuseAttempt, Halt, world
  <2>2. /\ mem = disk /\ cur \in Tasks /\ disk.tasks[cur].status = "pending" /\ n < MaxAttemptsPerTask
        /\ mem.tasks[cur].status # "completed"
      BY <2>1 DEF StoreInv, CopyInv, EngineInv, LaunchInv
  <2>3. disk \in States /\ disk # Nil /\ At(disk, cur) BY <2>1, <2>2, Standing
  <2>4. n \in Nat BY <2>2, <2>3, StateTypes
  <2>5. n + 1 \in AttemptNumbers BY <2>2, <2>4, LimitAssumption, SMTT(60) DEF AttemptNumbers
  <2>6. \A u \in Tasks, m \in AttemptNumbers : logs'[u][m] = logs[u][m] \/ (u = cur /\ m = n + 1)
      BY <2>1, <2>2, <2>5 DEF EngineInv, TypeOK, AttemptNumber
  <2>7. LogsFit(disk, logs, family) /\ QuarantineFits(disk, quarantine) BY <2>3 DEF ArtifactInv
  <2>8. LogsFit(disk, logs', family)
    <3>1. cur \in Tasks /\ At(disk, cur) /\ disk.tasks[cur].status = "pending" BY <2>2, <2>3
    <3> QED BY <3>1, <2>4, <2>6, <2>7, PairBegins, SMTT(60)
  <2>9. ~Attempting' BY <2>1 DEF Attempting, Managing, Committing
  <2>10. disk' # Nil /\ LogsFit(disk', logs', family') /\ QuarantineFits(disk', quarantine')
      BY <2>1, <2>3, <2>7, <2>8
  <2> QED BY <2>1, <2>9, <2>10 DEF ArtifactInv
<1> QED BY <1>1, <1>2, <1>3

\* Children, editors and inspect_resume.
LEMMA ArtifactWorldSteps == EngineInv /\ ArtifactInv /\ (ChildStep \/ Edit \/ Inspect \/ UNCHANGED vars) => ArtifactInv'
<1> SUFFICES ASSUME EngineInv, ArtifactInv PROVE ChildStep \/ Edit \/ Inspect \/ UNCHANGED vars => ArtifactInv'
    OBVIOUS
<1>0. disk # Nil => LogsFit(disk, logs, family) /\ QuarantineFits(disk, quarantine) BY DEF ArtifactInv
<1>00. pc = "intent" => LogsFit(mem, logs, family) /\ QuarantineFits(mem, quarantine) BY DEF ArtifactInv
<1>1. ASSUME UNCHANGED <<disk, logs, quarantine, family, pc, mem, next, cur, todo, moved>> PROVE ArtifactInv'
  <2>1. Attempting' => Attempting BY <1>1 DEF Attempting
  <2> QED BY <1>0, <1>00, <1>1, <2>1, ArtifactsKept
<1>2. ASSUME NEW t \in Tasks, NEW n \in AttemptNumbers, LeaderExits(t, n) \/ GroupExits(t, n) PROVE ArtifactInv'
  <2>1. /\ UNCHANGED <<disk, logs, quarantine, pc, mem, next, cur, todo, moved>> /\ family[t][n] \in Alive
        /\ \E left \in {"group", "gone"} : family' = [family EXCEPT ![t][n] = left]
      BY <1>2 DEF LeaderExits, GroupExits, files, locals, Alive
  <2>2. disk # Nil /\ n = AttemptNumber(disk, t) /\ pc # "intent" /\ disk \in States
      BY <2>1 DEF EngineInv, LiveFamilyBlocksResume, TypeOK
  <2>3. Len(disk.tasks[t].attempts) \in Nat BY <2>2, StateTypes
  <2>4. n <= Len(disk.tasks[t].attempts) BY <2>2, <2>3, SMTT(60) DEF AttemptNumber
  <2>5. \A u \in Tasks, m \in AttemptNumbers : family'[u][m] = family[u][m] \/ (u = t /\ m = n)
      BY <2>1 DEF EngineInv, TypeOK
  <2>6. LogsFit(disk, logs, family') BY <1>0, <2>2, <2>3, <2>4, <2>5, FamilyFits
  <2>7. Attempting' => Attempting BY <2>1 DEF Attempting
  <2> QED BY <1>0, <2>1, <2>2, <2>6, <2>7, ArtifactsKept
<1>3. ASSUME NEW t \in Tasks, NEW n \in AttemptNumbers, ChildWrites(t, n) PROVE ArtifactInv'
    BY <1>1, <1>3 DEF ChildWrites, files, locals
<1>4. CASE Edit BY <1>1, <1>4 DEF Edit, files, locals
<1>5. CASE UNCHANGED vars BY <1>1, <1>5 DEF vars, files, world, locals
<1>6. CASE Inspect BY <1>1, <1>6 DEF Inspect, files, world, locals
<1> QED BY <1>2, <1>3, <1>4, <1>5, <1>6 DEF ChildStep

\* The log and quarantine files fit state.json in every reachable state.
THEOREM ArtifactInvariant == Spec => []ArtifactInv
<1>1. EngineInv /\ StoreInv /\ ArtifactInv /\ [Next]_vars => ArtifactInv'
    BY ArtifactEndSteps, ArtifactCommitSteps, ArtifactBeginSteps, ArtifactPreparationSteps, ArtifactChildSteps,
       ArtifactHaltingSteps, ArtifactWorldSteps DEF Next, Operator, RunnerStep, RunnerFault
<1> QED BY ArtifactInit, <1>1, EngineInvariant, StoreInvariant, PTL DEF Spec

(***************************************************************************)
(* For every suite, _validate_attempt_artifacts accepts the log and        *)
(* quarantine files that the engine left, wherever it was interrupted.     *)
(***************************************************************************)
THEOREM ArtifactsTheorem == Spec => []ArtifactsAccountedFor
<1>1. ASSUME EngineInv, ArtifactInv PROVE ArtifactsAccountedFor
  <2> SUFFICES ASSUME disk # Nil
               PROVE  LogArtifacts(disk, logs, Launched) /\ QuarantineArtifacts(disk, quarantine)
      BY DEF ArtifactsAccountedFor
  <2>1. disk \in States /\ LogsFit(disk, logs, family) /\ QuarantineFits(disk, quarantine)
      BY <1>1 DEF EngineInv, TypeOK, ArtifactInv
  <2>2. \A t \in Tasks : At(disk, t) => t = FirstIncomplete(disk) BY <2>1, StandsAtFirst
  <2>3. LogArtifacts(disk, logs, Launched)
    <3> SUFFICES ASSUME NEW t \in Tasks, NEW n \in AttemptNumbers
                 PROVE  LET count == Len(disk.tasks[t].attempts)
                        IN  /\ n <= count => logs[t][n] = "both"
                            /\ n > count /\ logs[t][n] # "none" =>
                                  /\ t = FirstIncomplete(disk) /\ disk.tasks[t].status = "pending"
                                  /\ n = count + 1 /\ ~Launched[t][n]
        BY DEF LogArtifacts
    <3>1. LET count == Len(disk.tasks[t].attempts)
          IN  /\ n <= count => logs[t][n] = "both"
              /\ n > count => family[t][n] = "unborn"
              /\ n > count /\ logs[t][n] # "none" =>
                    At(disk, t) /\ disk.tasks[t].status = "pending" /\ n = count + 1
        BY <2>1 DEF LogsFit
    <3>2. Launched[t][n] <=> family[t][n] # "unborn" BY DEF Launched
    <3> QED BY <2>2, <3>1, <3>2
  <2>4. QuarantineArtifacts(disk, quarantine)
    <3> SUFFICES ASSUME NEW t \in Tasks, NEW n \in AttemptNumbers, NEW p \in OutputSet(t)
                 PROVE  LET referenced == QuarantineKnown(disk, t, n) /\ p \in DOMAIN disk.tasks[t].attempts[n].quarantined
                        IN  /\ referenced => quarantine[p][n] = disk.tasks[t].attempts[n].quarantined[p]
                            /\ ~referenced /\ quarantine[p][n] # Absent =>
                                  /\ t = FirstIncomplete(disk) /\ disk.tasks[t].status \in {"running", "failed"}
                                  /\ n = Len(disk.tasks[t].attempts) /\ ~QuarantineKnown(disk, t, n)
        BY DEF QuarantineArtifacts, QuarantineKnown
    <3> QED BY <2>1, <2>2 DEF QuarantineFits
  <2> QED BY <2>3, <2>4
<1> QED BY <1>1, EngineInvariant, ArtifactInvariant, PTL

(***************************************************************************)
(* Fourth layer: the workspace.                                            *)
(***************************************************************************)
\* Outputs are declared by one task, so the sealed tree has what that task sealed.
LEMMA SealedValue ==
    ASSUME NEW s, NEW T \in SUBSET Tasks, NEW p \in Paths
    PROVE  /\ \A t \in T : Completed(s, t) /\ p \in OutputSet(t) => SealedTree(s, T)[p] = s.tasks[t].outputs[p]
           /\ (\A t \in T : Completed(s, t) => p \notin OutputSet(t)) => SealedTree(s, T)[p] = Absent
<1> DEFINE P(t) == Completed(s, t) /\ p \in OutputSet(t)
           c == CHOOSE u \in T : P(u)
<1>1. SealedTree(s, T)[p] = IF \E t \in T : P(t) THEN s.tasks[c].outputs[p] ELSE Absent
    BY DEF SealedTree
<1>2. ASSUME NEW t \in T, P(t) PROVE SealedTree(s, T)[p] = s.tasks[t].outputs[p]
  <2>1. c \in T /\ P(c) BY <1>2
  <2>2. p \in OutputSet(t) \cap OutputSet(c) /\ t \in Tasks /\ c \in Tasks BY <1>2, <2>1
  <2> HIDE DEF c
  <2>3. t = c BY <2>2, SuiteAssumption
  <2> QED BY <1>1, <1>2, <2>3
<1> QED BY <1>1, <1>2

\* A sealed tree depends on the completed tasks only.
LEMMA SealedSame ==
    ASSUME NEW s, NEW r, NEW T \in SUBSET Tasks, NEW U \in SUBSET Tasks, U \subseteq T,
           \A u \in U : Completed(r, u) <=> Completed(s, u),
           \A u \in U : Completed(s, u) => r.tasks[u].outputs = s.tasks[u].outputs,
           \A u \in T : u \in U \/ ~Completed(s, u)
    PROVE  SealedTree(r, U) = SealedTree(s, T)
<1>1. ASSUME NEW p \in Paths PROVE SealedTree(r, U)[p] = SealedTree(s, T)[p]
  <2>1. CASE \E u \in U : Completed(r, u) /\ p \in OutputSet(u)
    <3>1. PICK u \in U : Completed(r, u) /\ p \in OutputSet(u) BY <2>1
    <3>2. SealedTree(r, U)[p] = r.tasks[u].outputs[p] BY <3>1, SealedValue
    <3>3. SealedTree(s, T)[p] = s.tasks[u].outputs[p] BY <3>1, SealedValue
    <3> QED BY <3>1, <3>2, <3>3
  <2>2. CASE \A u \in U : Completed(r, u) => p \notin OutputSet(u)
    <3>1. \A u \in T : Completed(s, u) => p \notin OutputSet(u) BY <2>2
    <3>2. SealedTree(r, U)[p] = Absent BY <2>2, SealedValue
    <3>3. SealedTree(s, T)[p] = Absent BY <3>1, SealedValue
    <3> QED BY <3>2, <3>3
  <2> QED BY <2>1, <2>2
<1>2. SealedTree(r, U) = [p \in Paths |-> SealedTree(r, U)[p]] /\ SealedTree(s, T) = [p \in Paths |-> SealedTree(s, T)[p]]
    BY DEF SealedTree
<1> QED BY <1>1, <1>2

LEMMA SealedEqual ==
    ASSUME NEW s, NEW r, NEW T \in SUBSET Tasks,
           \A u \in T : Completed(r, u) <=> Completed(s, u),
           \A u \in T : Completed(s, u) => r.tasks[u].outputs = s.tasks[u].outputs
    PROVE  SealedTree(r, T) = SealedTree(s, T)
<1>1. PICK U \in SUBSET Tasks : U = T OBVIOUS
<1>2. SealedTree(r, U) = SealedTree(s, T) BY <1>1, SealedSame, SMTT(60)
<1> QED BY <1>1, <1>2

LEMMA SameClean == ASSUME NEW s, NEW r, r.tasks = s.tasks PROVE CleanTree(r) = CleanTree(s)
<1>1. Tasks \in SUBSET Tasks OBVIOUS
<1>2. \A u \in Tasks : Completed(r, u) <=> Completed(s, u) BY DEF Completed
<1> QED BY <1>1, <1>2, SealedEqual DEF CleanTree

\* A change of a task that is completed neither before nor after.
LEMMA CleanTouched ==
    ASSUME NEW s, NEW r, NEW t \in Tasks, ~Completed(s, t), ~Completed(r, t),
           \A u \in Tasks : u # t => r.tasks[u] = s.tasks[u]
    PROVE  CleanTree(r) = CleanTree(s)
<1>1. Tasks \in SUBSET Tasks OBVIOUS
<1>2. \A u \in Tasks : Completed(r, u) <=> Completed(s, u) BY DEF Completed
<1>3. \A u \in Tasks : Completed(s, u) => r.tasks[u].outputs = s.tasks[u].outputs OBVIOUS
<1> QED BY <1>1, <1>2, <1>3, SealedEqual DEF CleanTree

\* Where a run stands, the completed outputs are those of the tasks before.
LEMMA CleanAt ==
    ASSUME NEW s, OrderedPrefix(s), NEW t \in Tasks, At(s, t)
    PROVE  SealedTree(s, 1..(t - 1)) = CleanTree(s)
<1> DEFINE U == 1..(t - 1)
<1>1. U \in SUBSET Tasks /\ Tasks \in SUBSET Tasks
  <2>1. U \in SUBSET Tasks BY SuiteAssumption, SMTT(60) DEF Tasks
  <2> QED BY <2>1
<1>2. ASSUME NEW u \in Tasks, u \notin U PROVE ~Completed(s, u)
  <2>1. u = t \/ t < u BY <1>2, SuiteAssumption, SMTT(60) DEF Tasks
  <2>2. CASE u = t BY <2>2 DEF At
  <2>3. CASE t < u
    <3>1. s.tasks[u].status = "pending" BY <2>3 DEF OrderedPrefix, At
    <3> QED BY <3>1 DEF Completed
  <2> QED BY <2>1, <2>2, <2>3
<1> HIDE DEF U
<1>3. U \subseteq Tasks /\ \A u \in Tasks : u \in U \/ ~Completed(s, u) BY <1>1, <1>2
<1>4. SealedTree(s, U) = SealedTree(s, Tasks) BY <1>1, <1>3, SealedSame, SMTT(60)
<1> QED BY <1>4 DEF CleanTree, U

\* The history stays derivable when the task the run stands at changes its latest attempt or has a new one.
LEMMA HistoryGrows ==
    ASSUME NEW s \in States, NEW r \in States, OrderedPrefix(s), NEW t \in Tasks, At(s, t), WorkspaceHistory(s),
           \A u \in Tasks : u # t => r.tasks[u] = s.tasks[u],
           \A i \in DOMAIN r.tasks[t].attempts :
               \/ i = Len(r.tasks[t].attempts)
               \/ i \in DOMAIN s.tasks[t].attempts /\ r.tasks[t].attempts[i] = s.tasks[t].attempts[i],
           AttemptHistory(Latest(r, t), CleanTree(s))
    PROVE  WorkspaceHistory(r)
<1> SUFFICES ASSUME NEW u \in Tasks, NEW i \in DOMAIN r.tasks[u].attempts
             PROVE  AttemptHistory(r.tasks[u].attempts[i], SealedTree(r, 1..(u - 1)))
    BY DEF WorkspaceHistory
<1>0. u = t \/ u < t \/ t < u BY SMTT(60) DEF Tasks
<1>1. ASSUME u = t \/ u < t PROVE SealedTree(r, 1..(u - 1)) = SealedTree(s, 1..(u - 1))
  <2>1. 1..(u - 1) \in SUBSET Tasks BY SuiteAssumption, SMTT(60) DEF Tasks
  <2>2. t \notin 1..(u - 1) BY <1>1, SMTT(60) DEF Tasks
  <2>3. \A v \in 1..(u - 1) : r.tasks[v] = s.tasks[v] BY <2>1, <2>2
  <2>4. \A v \in 1..(u - 1) : Completed(r, v) <=> Completed(s, v) BY <2>3 DEF Completed
  <2>5. \A v \in 1..(u - 1) : Completed(s, v) => r.tasks[v].outputs = s.tasks[v].outputs BY <2>3
  <2> QED BY <2>1, <2>4, <2>5, SealedEqual
<1>2. CASE t < u
  <2>1. s.tasks[u].attempts = << >> BY <1>2 DEF OrderedPrefix, At
  <2>2. u # t BY <1>2, SMTT(60) DEF Tasks
  <2>3. r.tasks[u].attempts = << >> BY <2>1, <2>2
  <2>4. DOMAIN << >> = {} BY SMTT(60)
  <2> QED BY <2>3, <2>4
<1>3. CASE u < t
  <2>1. u # t BY <1>3, SMTT(60) DEF Tasks
  <2>2. r.tasks[u] = s.tasks[u] BY <2>1
  <2>3. AttemptHistory(s.tasks[u].attempts[i], SealedTree(s, 1..(u - 1))) BY <2>2 DEF WorkspaceHistory
  <2> QED BY <2>2, <2>3, <1>1, <1>3
<1>4. CASE u = t
  <2>1. SealedTree(r, 1..(u - 1)) = CleanTree(s) BY <1>1, <1>4, CleanAt
  <2>2. CASE i = Len(r.tasks[t].attempts) BY <2>1, <2>2, <1>4 DEF Latest
  <2>3. CASE i \in DOMAIN s.tasks[t].attempts /\ r.tasks[t].attempts[i] = s.tasks[t].attempts[i]
    <3>1. AttemptHistory(s.tasks[t].attempts[i], SealedTree(s, 1..(t - 1))) BY <2>3 DEF WorkspaceHistory
    <3> QED BY <3>1, <2>3, <1>1, <1>4
  <2> QED BY <2>2, <2>3, <1>4
<1> QED BY <1>0, <1>2, <1>3, <1>4

LEMMA HistorySame == ASSUME NEW s, NEW r, r.tasks = s.tasks, WorkspaceHistory(s) PROVE WorkspaceHistory(r)
<1> SUFFICES ASSUME NEW u \in Tasks, NEW i \in DOMAIN r.tasks[u].attempts
             PROVE  AttemptHistory(r.tasks[u].attempts[i], SealedTree(r, 1..(u - 1)))
    BY DEF WorkspaceHistory
<1>1. 1..(u - 1) \in SUBSET Tasks BY SuiteAssumption, SMTT(60) DEF Tasks
<1>2. \A v \in 1..(u - 1) : Completed(r, v) <=> Completed(s, v) BY DEF Completed
<1>3. SealedTree(r, 1..(u - 1)) = SealedTree(s, 1..(u - 1)) BY <1>1, <1>2, SealedEqual
<1> QED BY <1>3 DEF WorkspaceHistory

\* A child that writes is the one of the running task.
LEMMA WritingChild ==
    ASSUME EngineInv, StoreInv, NEW t \in Tasks, NEW n \in AttemptNumbers, ChildWrites(t, n)
    PROVE  /\ disk # Nil /\ disk \in States /\ OrderedPrefix(disk) /\ disk.tasks[t].status = "running"
           /\ n = AttemptNumber(disk, t)
           /\ pc \in {"idle", "reconcile", "admit", "identify", "persist", "wait"}
<1>1. family[t][n] \in Alive BY DEF ChildWrites
<1>2. /\ disk # Nil /\ disk.tasks[t].status = "running" /\ n = AttemptNumber(disk, t)
      /\ pc \in {"idle", "reconcile", "admit", "identify", "persist", "wait"}
    BY <1>1 DEF EngineInv, LiveFamilyBlocksResume
<1> QED BY <1>2 DEF EngineInv, TypeOK, StoreInv, ShapeInv, StateBody

\* A move to the quarantine, output by output.
LEMMA MovedOutput ==
    ASSUME EngineInv, StoreInv, QuarantineOutput
    PROVE  LET p == Head(todo)
               n == AttemptNumber(mem, cur)
               c == IF ws[p] = Absent THEN quarantine[p][n] ELSE ws[p]
           IN  /\ cur \in Tasks /\ mem.tasks[cur].status \in {"running", "failed"} /\ n \in AttemptNumbers
               /\ n = Len(disk.tasks[cur].attempts)
               /\ disk.tasks[cur].status = mem.tasks[cur].status /\ disk # Nil /\ OrderedPrefix(disk)
               /\ p \in Paths /\ p \in OutputSet(cur) /\ Elems(todo) = {p} \cup Elems(todo')
               /\ ws'[p] = Absent /\ quarantine'[p][n] = c
               /\ \A q \in Paths : q # p => ws'[q] = ws[q] /\ quarantine'[q][n] = quarantine[q][n]
               /\ c = Absent => moved' = moved
               /\ c # Absent => moved' = [q \in DOMAIN moved \cup {p} |-> IF q = p THEN c ELSE moved[q]]
               /\ ws[p] = Absent \/ quarantine[p][n] = Absent
               /\ UNCHANGED <<disk, mem, cur, pc, bundle, crashes, next>> /\ pc = "quarantine"
<1> DEFINE p == Head(todo)
           n == AttemptNumber(mem, cur)
           c == IF ws[p] = Absent THEN quarantine[p][n] ELSE ws[p]
<1>1. /\ UNCHANGED <<disk, mem, cur, pc, bundle, crashes, next>> /\ pc = "quarantine" /\ todo # << >> /\ todo' = Tail(todo)
      /\ quarantine' = [quarantine EXCEPT ![p][n] = c] /\ ws' = [ws EXCEPT ![p] = Absent]
      /\ c = Absent => moved' = moved
      /\ c # Absent => moved' = [q \in DOMAIN moved \cup {p} |-> IF q = p THEN c ELSE moved[q]]
      /\ ws[p] = Absent \/ quarantine[p][n] = Absent
    BY DEF QuarantineOutput, counters
<1>2. /\ cur \in Tasks /\ mem.tasks[cur].status \in {"running", "failed"} /\ Recorded(mem) /\ mem \in States
      /\ todo \in Seq(Paths) /\ quarantine \in [Paths -> [AttemptNumbers -> Contents \cup {Absent}]]
      /\ ws \in Trees
    BY <1>1 DEF EngineInv, LaunchInv, RecordInv, TypeOK
<1>3. /\ disk.tasks[cur].status = mem.tasks[cur].status /\ Touches(mem, disk, cur) /\ StateBody(disk) /\ disk # Nil
    BY <1>1, <1>2, Standing
<1>4. n \in AttemptNumbers /\ n = Len(disk.tasks[cur].attempts)
  <2>1. n \in AttemptNumbers BY <1>2, LatestType
  <2> QED BY <2>1, <1>3 DEF Touches, AttemptNumber
<1>5. p \in Paths BY <1>1, <1>2, SMTT(60)
<1>6. Elems(todo) = {p} \cup Elems(todo') BY <1>1, <1>2, HeadAndTail
<1>7. p \in OutputSet(cur) BY <1>1, <1>6 DEF StoreInv, ShapeInv
<1>8. ws'[p] = Absent /\ \A q \in Paths : q # p => ws'[q] = ws[q] BY <1>1, <1>2, <1>5 DEF Trees
<1>9. quarantine'[p][n] = c /\ \A q \in Paths : q # p => quarantine'[q][n] = quarantine[q][n] BY <1>1, <1>2, <1>4, <1>5
<1> QED BY <1>1, <1>2, <1>3, <1>4, <1>5, <1>6, <1>7, <1>8, <1>9 DEF StateBody

LEMMA FailedSame ==
    ASSUME NEW s, NEW r, r.tasks = s.tasks, NEW tree, NEW moves, FailedTrees(s, tree, moves)
    PROVE  FailedTrees(r, tree, moves)
BY DEF FailedTrees, FailedTree, Latest

\* Without a failed task there is nothing to say.
LEMMA NoneFailed ==
    ASSUME NEW s, OrderedPrefix(s), NEW t \in Tasks, s.tasks[t].status \in {"running", "failed"},
           NEW r, \A u \in Tasks : u # t => r.tasks[u] = s.tasks[u], NEW tree, NEW moves,
           r.tasks[t].status = "failed" => FailedTree(r, t, tree, moves)
    PROVE  FailedTrees(r, tree, moves)
<1> SUFFICES ASSUME NEW u \in Tasks, r.tasks[u].status = "failed" PROVE u = t BY DEF FailedTrees
<1> SUFFICES ASSUME u # t PROVE FALSE OBVIOUS
<1>1. s.tasks[u].status = "failed" OBVIOUS
<1>2. s.tasks[u].status \notin {"running", "failed"} BY OneOpen
<1> QED BY <1>1, <1>2

\* A pending task to go on with, and no failed one.
LEMMA PendingNext ==
    ASSUME NEW s, OrderedPrefix(s), NEW t \in Tasks, At(s, t), s.tasks[t].status = "pending",
           NEW r, \A u \in Tasks : u # t => r.tasks[u] = s.tasks[u], r.tasks[t].status # "failed",
           NEW tree, NEW moves
    PROVE  FailedTrees(r, tree, moves)
<1> SUFFICES ASSUME NEW u \in Tasks PROVE r.tasks[u].status # "failed" BY DEF FailedTrees
<1>1. u = t \/ u < t \/ t < u BY SMTT(60) DEF Tasks
<1>2. u < t \/ t < u => u # t BY SMTT(60) DEF Tasks
<1>3. CASE u < t BY <1>2, <1>3 DEF At, Completed
<1>4. CASE t < u BY <1>2, <1>4 DEF OrderedPrefix, At
<1> QED BY <1>1, <1>3, <1>4

\* A move takes the output of the failed attempt to its place in quarantine.
LEMMA MovedFailure ==
    ASSUME EngineInv, StoreInv, QuarantineOutput, FailedTrees(disk, ws, quarantine)
    PROVE  FailedTrees(disk, ws', quarantine')
<1> DEFINE p == Head(todo)
           n == AttemptNumber(mem, cur)
           c == IF ws[p] = Absent THEN quarantine[p][n] ELSE ws[p]
<1>1. /\ cur \in Tasks /\ n = Len(disk.tasks[cur].attempts)
      /\ disk.tasks[cur].status \in {"running", "failed"} /\ OrderedPrefix(disk)
      /\ p \in Paths /\ p \in OutputSet(cur) /\ ws'[p] = Absent /\ quarantine'[p][n] = c
      /\ \A q \in Paths : q # p => ws'[q] = ws[q] /\ quarantine'[q][n] = quarantine[q][n]
      /\ ws[p] = Absent \/ quarantine[p][n] = Absent
    BY MovedOutput
<1>2. OutputSet(cur) \subseteq Paths BY <1>1, OutputPaths
<1> HIDE DEF p, n
<1>3. ASSUME disk.tasks[cur].status = "failed" PROVE FailedTree(disk, cur, ws', quarantine')
  <2>1. /\ \A q \in OutputSet(cur) : ws[q] = Absent \/ quarantine[q][n] = Absent
        /\ \A q \in Paths :
              Latest(disk, cur).after[q] = IF q \in OutputSet(cur) /\ ws[q] = Absent THEN quarantine[q][n] ELSE ws[q]
      BY <1>1, <1>3 DEF FailedTrees, FailedTree
  <2>2. \A q \in OutputSet(cur) : ws'[q] = Absent \/ quarantine'[q][n] = Absent BY <1>1, <1>2, <2>1
  <2>3. ASSUME NEW q \in Paths
        PROVE  Latest(disk, cur).after[q] = IF q \in OutputSet(cur) /\ ws'[q] = Absent THEN quarantine'[q][n] ELSE ws'[q]
    <3>1. CASE q = p BY <3>1, <1>1, <2>1
    <3>2. CASE q # p BY <3>2, <1>1, <2>1
    <3> QED BY <3>1, <3>2
  <2> QED BY <1>1, <2>2, <2>3 DEF FailedTree
<1> QED BY <1>1, <1>3, NoneFailed

\* The files of a failed attempt are all there: what its record says of them stays true.
LEMMA FailureKept ==
    ASSUME EngineInv, StoreInv, Next, ~Edit, disk # Nil => FailedTrees(disk, ws, quarantine),
           pc = "intent" => FailedTrees(mem, ws, quarantine)
    PROVE  disk' # Nil => FailedTrees(disk', ws', quarantine')
<1> SUFFICES ASSUME disk' # Nil PROVE FailedTrees(disk', ws', quarantine') OBVIOUS
<1>1. CASE disk' = disk /\ ws' = ws /\ quarantine' = quarantine BY <1>1
<1>2. CASE QuarantineOutput
  <2>1. disk' = disk BY <1>2 DEF QuarantineOutput
  <2> QED BY <1>2, <2>1, MovedFailure
<1>3. CASE \E t \in Tasks, n \in AttemptNumbers : ChildWrites(t, n)
  <2>1. PICK t \in Tasks, n \in AttemptNumbers : ChildWrites(t, n) BY <1>3
  <2>2. OrderedPrefix(disk) /\ disk.tasks[t].status = "running" BY <2>1, WritingChild
  <2>3. disk' = disk BY <2>1 DEF ChildWrites, files
  <2> QED BY <2>2, <2>3, NoneFailed
<1>4. CASE disk' # disk /\ ws' = ws /\ quarantine' = quarantine
  <2>1. CASE pc = "create" /\ disk' = InitialState
    <3>1. \A u \in Tasks : InitialState.tasks[u].status # "failed" BY InitialTasks
    <3> QED BY <2>1, <3>1 DEF FailedTrees
  <2>2. CASE pc = "intent" /\ disk' = mem BY <1>4, <2>2
  <2>3. CASE pc \in {"ack", "reconcile"} /\ disk' = Acknowledged(mem)
    <3>1. mem = disk /\ disk \in States /\ disk # Nil BY <2>3, NilAssumption DEF EngineInv, LedgerInv, TypeOK
    <3>2. disk'.tasks = disk.tasks BY <2>3, <3>1 DEF Acknowledged, States
    <3>3. FailedTrees(disk', ws, quarantine) BY <3>1, <3>2, FailedSame
    <3> QED BY <3>3, <1>4
  <2>4. CASE pc \in Managing /\ disk' = mem
    <3>1. cur \in Tasks /\ mem.tasks[cur].status = "running" BY <2>4, ManagedChild
    <3>2. StateBody(disk) /\ Touches(mem, disk, cur) /\ disk.tasks[cur].status = "running" BY <2>4, <3>1, Standing
    <3>3. OrderedPrefix(disk) /\ \A u \in Tasks : u # cur => mem.tasks[u] = disk.tasks[u] BY <3>2 DEF StateBody, Touches
    <3>4. FailedTrees(mem, ws', quarantine') BY <3>1, <3>2, <3>3, NoneFailed
    <3> QED BY <2>4, <3>4
  <2> QED BY <1>4, <2>1, <2>2, <2>3, <2>4, DiskSteps
<1> QED BY <1>1, <1>2, <1>3, <1>4, WorldChanges

\* Where no child is alive and nothing is moved, the files stay as they are.
LEMMA CalmWorld ==
    ASSUME EngineInv, StoreInv, Next, ~Edit, ~QuarantineOutput,
           pc' \notin {"idle", "reconcile", "admit", "identify", "persist", "wait"}
    PROVE  ws' = ws /\ quarantine' = quarantine
<1>1. ASSUME NEW t \in Tasks, NEW n \in AttemptNumbers, ChildWrites(t, n) PROVE FALSE
  <2>1. pc' = pc BY <1>1 DEF ChildWrites
  <2> QED BY <1>1, <2>1, WritingChild
<1> QED BY <1>1, WorldChanges

LEMMA FailureIntended ==
    ASSUME EngineInv, StoreInv, ArtifactInv, Next, ~Edit, disk # Nil => FailedTrees(disk, ws, quarantine),
           pc = "intent" => FailedTrees(mem, ws, quarantine), pc' = "intent"
    PROVE  FailedTrees(mem', ws', quarantine')
<1>0. ws' = ws /\ quarantine' = quarantine
  <2>1. ~QuarantineOutput BY DEF QuarantineOutput
  <2> QED BY <2>1, CalmWorld
<1> SUFFICES FailedTrees(mem', ws, quarantine) BY <1>0
<1>1. CASE ChildStep \/ Inspect
  <2>1. pc = "intent" /\ mem' = mem BY <1>1, WorldFrame
  <2> QED BY <2>1
<1>2. CASE CreateRun
  <2>1. mem' = [InitialState EXCEPT !.pending = RunEvent("run_started")] BY <1>2 DEF CreateRun, BeginCommit
  <2>2. mem'.tasks = InitialState.tasks BY <2>1, InitialStateType DEF States
  <2>3. \A u \in Tasks : mem'.tasks[u].status # "failed" BY <2>2, InitialTasks
  <2> QED BY <2>3 DEF FailedTrees
<1>3. CASE AdmitResume \/ CompleteRun
  <2>1. pc \in {"admit", "loop"} BY <1>3 DEF AdmitResume, CompleteRun
  <2>2. mem = disk /\ disk \in States /\ disk # Nil
      BY <2>1, NilAssumption DEF StoreInv, CopyInv, EngineInv, LedgerInv, TypeOK
  <2>3. mem'.tasks = disk.tasks BY <1>3, <2>2 DEF AdmitResume, CompleteRun, BeginCommit, States
  <2> QED BY <2>2, <2>3, FailedSame
<1>4. CASE FinishRecovery \/ CompleteAttempt
  <2>1. /\ cur \in Tasks /\ mem.tasks[cur].status \in {"running", "failed"} /\ Touches(mem', disk, cur)
        /\ mem'.tasks[cur].status # "failed"
    <3>1. CASE FinishRecovery BY <3>1, RecoveryIntent
    <3>2. CASE CompleteAttempt BY <3>2, CompletionIntent
    <3> QED BY <1>4, <3>1, <3>2
  <2>2. pc \in {"quarantine", "observe"} BY <1>4 DEF FinishRecovery, CompleteAttempt
  <2>3. OrderedPrefix(disk) /\ disk.tasks[cur].status = mem.tasks[cur].status BY <2>1, <2>2, Standing DEF StateBody
  <2>4. \A u \in Tasks : u # cur => mem'.tasks[u] = disk.tasks[u] BY <2>1 DEF Touches
  <2> QED BY <2>1, <2>3, <2>4, NoneFailed
<1>5. CASE FailAttempt
  <2>1. /\ cur \in Tasks /\ mem.tasks[cur].status = "running" /\ Touches(mem', disk, cur) /\ Touches(mem', mem, cur)
        /\ Latest(mem', cur).after = ws
      BY <1>5, FailureIntent
  <2>2. pc = "observe" BY <1>5 DEF FailAttempt
  <2>3. OrderedPrefix(disk) /\ disk.tasks[cur].status = "running" BY <2>1, <2>2, Standing DEF StateBody
  <2>4. \A u \in Tasks : u # cur => mem'.tasks[u] = disk.tasks[u] BY <2>1 DEF Touches
  <2>5. \A p \in OutputSet(cur) : quarantine[p][Len(mem'.tasks[cur].attempts)] = Absent
    <3>1. Len(mem'.tasks[cur].attempts) = AttemptNumber(mem, cur) BY <2>1 DEF Touches, AttemptNumber
    <3> QED BY <2>2, <3>1 DEF ArtifactInv, Attempting
  <2>6. FailedTree(mem', cur, ws, quarantine) BY <2>1, <2>5 DEF FailedTree
  <2> QED BY <2>1, <2>3, <2>4, <2>6, NoneFailed
<1>6. CASE StartAttempt
  <2>1. cur \in Tasks /\ mem = disk /\ disk.tasks[cur].status = "pending" /\ mem'.tasks[cur].status = "running"
        /\ \A u \in Tasks : u # cur => mem'.tasks[u] = disk.tasks[u]
      BY <1>6, StartIntent
  <2>2. pc = "stderr" BY <1>6 DEF StartAttempt
  <2>3. OrderedPrefix(disk) /\ At(disk, cur) BY <2>1, <2>2, Standing DEF StateBody
  <2>4. mem'.tasks[cur].status # "failed" BY <2>1
  <2> QED BY <2>1, <2>3, <2>4, PendingNext
<1> QED BY <1>1, <1>2, <1>3, <1>4, <1>5, <1>6, Arrivals

LEMMA SameBound ==
    ASSUME NEW s, NEW r, CleanTree(r) = CleanTree(s), NEW tree, NEW S, BoundObservation(s, tree, S)
    PROVE  BoundObservation(r, tree, S)
BY DEF BoundObservation

\* From the check before the launch to the launch, the workspace is the clean tree.
LEMMA LaunchTree ==
    ASSUME EngineInv, StoreInv, Next, ~Edit,
           pc \in {"stderr", "launch"} \/ (pc \in Committing /\ next = "launch") => BoundObservation(mem, ws, {}),
           pc' \in {"stderr", "launch"} \/ (pc' \in Committing /\ next' = "launch")
    PROVE  BoundObservation(mem', ws', {})
<1>0. ws' = ws
  <2>1. pc' # "quarantine" /\ pc' \notin {"idle", "reconcile", "admit", "identify", "persist", "wait"} BY DEF Committing
  <2>2. ~QuarantineOutput BY <2>1 DEF QuarantineOutput
  <2> QED BY <2>1, <2>2, CalmWorld
<1> SUFFICES BoundObservation(mem', ws, {}) BY <1>0
<1>1. CASE ChildStep \/ Inspect \/ PersistIntent \/ AppendEvent
  <2>1. mem' = mem /\ (pc \in {"stderr", "launch"} \/ (pc \in Committing /\ next = "launch"))
      BY <1>1, WorldFrame DEF PersistIntent, AppendEvent, Committing, locals
  <2> QED BY <2>1
<1>2. CASE Acknowledge
  <2>1. pc = "ack" /\ next = "launch" /\ mem' = Acknowledged(mem)
      BY <1>2 DEF Acknowledge, Halt, Committing, EngineInv, TypeOK
  <2>2. mem \in States BY <2>1 DEF EngineInv, TypeOK
  <2>3. mem'.tasks = mem.tasks BY <2>1, <2>2 DEF Acknowledged, States
  <2>4. CleanTree(mem') = CleanTree(mem) BY <2>3, SameClean
  <2>5. BoundObservation(mem, ws, {}) BY <2>1 DEF Committing
  <2> QED BY <2>4, <2>5, SameBound
<1>3. CASE PrepareStdout
  <2>1. mem' = mem /\ BoundObservation(mem, ws, {}) BY <1>3 DEF PrepareStdout, LaunchReady
  <2> QED BY <2>1
<1>4. CASE StartAttempt
  <2>1. cur \in Tasks /\ mem = disk /\ disk.tasks[cur].status = "pending" /\ mem'.tasks[cur].status = "running"
        /\ \A u \in Tasks : u # cur => mem'.tasks[u] = disk.tasks[u]
      BY <1>4, StartIntent
  <2>2. ~Completed(mem, cur) /\ ~Completed(mem', cur) BY <2>1 DEF Completed
  <2>3. CleanTree(mem') = CleanTree(mem) BY <2>1, <2>2, CleanTouched
  <2>4. BoundObservation(mem, ws, {}) BY <1>4 DEF StartAttempt
  <2> QED BY <2>3, <2>4, SameBound
<1>5. CreateRun \/ AdmitResume \/ FinishRecovery \/ CompleteAttempt \/ FailAttempt \/ CompleteRun => next' # "launch"
    BY DEF CreateRun, AdmitResume, FinishRecovery, CompleteAttempt, FailAttempt, CompleteRun, BeginCommit
<1>6. pc' \in {"stderr", "launch", "intent", "append", "ack"} BY DEF Committing
<1>7. CASE pc' = "intent" BY <1>1, <1>4, <1>5, <1>7, Arrivals
<1>8. CASE pc' \in {"append", "ack"} BY <1>1, <1>8, Arrivals
<1>9. CASE pc' \in {"stderr", "launch"} BY <1>1, <1>2, <1>3, <1>9, Arrivals
<1> QED BY <1>6, <1>7, <1>8, <1>9

LEMMA RecoveryBegins ==
    ASSUME EngineInv, StoreInv, BeginRecovery
    PROVE  /\ cur \in Tasks /\ mem = disk /\ disk # Nil /\ disk \in States /\ Recorded(disk) /\ StateBody(disk)
           /\ disk.tasks[cur].status \in {"running", "failed"} /\ At(disk, cur)
           /\ RecoveryObservation(disk, cur, ws, quarantine)
           /\ mem' \in States /\ Touches(mem', disk, cur) /\ Latest(disk, cur) \in Attempts
           /\ Latest(mem', cur) = Interrupted(Latest(disk, cur)) /\ mem'.tasks[cur].status = disk.tasks[cur].status
           /\ CleanTree(mem') = CleanTree(disk)
           /\ pc = "loop" /\ pc' = "quarantine" /\ UNCHANGED <<disk, cur, ws, quarantine, crashes>>
           /\ Elems(todo') = OutputSet(cur) /\ DOMAIN moved' = {}
<1>1. /\ pc = "loop" /\ cur \in Tasks /\ mem.tasks[cur].status \in {"running", "failed"} /\ Recoverable(mem, cur)
      /\ mem' = SetLatest(mem, cur, Interrupted(Latest(mem, cur)))
      /\ todo' = OutputsOf[cur] /\ moved' = << >> /\ pc' = "quarantine"
      /\ UNCHANGED <<disk, cur, ws, quarantine, crashes>>
    BY DEF BeginRecovery, files, world, counters
<1>2. mem = disk /\ ws \in Trees BY <1>1 DEF StoreInv, CopyInv, EngineInv, TypeOK
<1>3. disk # Nil /\ disk \in States /\ Recorded(disk) /\ StateBody(disk) /\ At(disk, cur) BY <1>1, Standing
<1>4. Latest(disk, cur) \in Attempts BY <1>1, <1>2, <1>3, LatestType
<1>5. Interrupted(Latest(disk, cur)) \in Attempts BY <1>2, <1>4, InterruptedType
<1>6. mem' \in States /\ Touches(mem', disk, cur) /\ Latest(mem', cur) = Interrupted(Latest(disk, cur))
      /\ mem'.tasks[cur].status = disk.tasks[cur].status
    BY <1>1, <1>2, <1>3, <1>5, LatestReplaced
<1>7. CleanTree(mem') = CleanTree(disk)
  <2>1. ~Completed(disk, cur) /\ ~Completed(mem', cur) BY <1>1, <1>2, <1>6 DEF Completed
  <2>2. \A u \in Tasks : u # cur => mem'.tasks[u] = disk.tasks[u] BY <1>6 DEF Touches
  <2>3. cur \in Tasks BY <1>1
  <2> QED BY <2>1, <2>2, <2>3, CleanTouched
<1>8. DOMAIN moved' = {}
  <2>1. DOMAIN << >> = {} BY SMTT(60)
  <2> QED BY <1>1, <2>1
<1>9. Elems(todo') = OutputSet(cur) /\ RecoveryObservation(disk, cur, ws, quarantine)
    BY <1>1, <1>2 DEF OutputSet, Recoverable
<1> QED BY <1>1, <1>2, <1>3, <1>4, <1>6, <1>7, <1>8, <1>9

\* A recovery looks at a workspace that is clean but for the outputs it moves.
LEMMA RecoveryTree ==
    ASSUME EngineInv, StoreInv, Next, ~Edit, pc' = "quarantine",
           pc = "quarantine" =>
              /\ BoundObservation(mem, ws, OutputSet(cur))
              /\ \A p \in OutputSet(cur) : ws[p] = Absent \/ (p \in Elems(todo) /\ p \notin DOMAIN moved)
    PROVE  /\ BoundObservation(mem', ws', OutputSet(cur'))
           /\ \A p \in OutputSet(cur') : ws'[p] = Absent \/ (p \in Elems(todo') /\ p \notin DOMAIN moved')
<1>1. CASE ChildStep \/ Inspect
  <2>1. pc = "quarantine" /\ UNCHANGED <<mem, cur, todo, moved>> BY <1>1, WorldFrame
  <2>2. ASSUME NEW t \in Tasks, NEW n \in AttemptNumbers, ChildWrites(t, n) PROVE FALSE BY <2>1, <2>2, WritingChild
  <2>3. ws' = ws BY <1>1, <2>2 DEF ChildStep, LeaderExits, GroupExits, Inspect, world
  <2> QED BY <2>1, <2>3
<1>2. CASE BeginRecovery
  <2>1. /\ RecoveryObservation(disk, cur, ws, quarantine) /\ CleanTree(mem') = CleanTree(disk)
        /\ UNCHANGED <<cur, ws>> /\ Elems(todo') = OutputSet(cur) /\ DOMAIN moved' = {}
      BY <1>2, RecoveryBegins
  <2>2. BoundObservation(disk, ws, OutputSet(cur)) BY <2>1 DEF RecoveryObservation
  <2>3. BoundObservation(mem', ws, OutputSet(cur)) BY <2>1, <2>2, SameBound
  <2> QED BY <2>1, <2>3
<1>3. CASE QuarantineOutput
  <2> DEFINE p == Head(todo)
             n == AttemptNumber(mem, cur)
             c == IF ws[p] = Absent THEN quarantine[p][n] ELSE ws[p]
  <2>1. /\ p \in OutputSet(cur) /\ Elems(todo) = {p} \cup Elems(todo') /\ cur \in Tasks
        /\ ws'[p] = Absent /\ \A q \in Paths : q # p => ws'[q] = ws[q]
        /\ c = Absent => moved' = moved
        /\ c # Absent => moved' = [q \in DOMAIN moved \cup {p} |-> IF q = p THEN c ELSE moved[q]]
        /\ UNCHANGED <<mem, cur>> /\ pc = "quarantine"
      BY <1>3, MovedOutput
  <2>2. OutputSet(cur) \subseteq Paths BY <2>1, OutputPaths
  <2>3. DOMAIN moved' \subseteq DOMAIN moved \cup {p} BY <2>1
  <2> HIDE DEF p, n, c
  <2>4. ASSUME NEW q \in OutputSet(cur) PROVE ws'[q] = Absent \/ (q \in Elems(todo') /\ q \notin DOMAIN moved')
    <3>1. CASE q = p BY <3>1, <2>1
    <3>2. CASE q # p BY <3>2, <2>1, <2>2, <2>3
    <3> QED BY <3>1, <3>2
  <2>5. \A q \in Paths \ OutputSet(cur) : ws'[q] = CleanTree(mem)[q] BY <2>1 DEF BoundObservation
  <2> QED BY <2>1, <2>4, <2>5 DEF BoundObservation
<1> QED BY <1>1, <1>2, <1>3, Arrivals

\* From the last look at the workspace on, it stays as it was.
LEMMA SealedStays ==
    ASSUME EngineInv, StoreInv, PlaceInv, SealInv, Next, ~Edit, pc' \in {"hash", "publish"} \/ bundle' # Nil,
           pc \in {"hash", "publish"} \/ bundle # Nil => BoundObservation(disk, ws, {})
    PROVE  BoundObservation(disk', ws', {})
<1>1. CASE BuildBundle
  <2>1. pc \in {"seal", "hash", "publish"} /\ UNCHANGED <<disk, ws>> BY <1>1, BundleFrame
  <2>2. mem = disk BY <2>1 DEF StoreInv, CopyInv
  <2>3. ObserveFinal => BoundObservation(disk, ws, {}) BY <2>2 DEF ObserveFinal, Sealable
  <2>4. BoundObservation(disk, ws, {}) BY <1>1, <2>3 DEF BuildBundle, HashArtifacts, WriteBundle
  <2> QED BY <2>1, <2>4
<1>2. CASE ~BuildBundle
  <2>1. CASE pc' \in {"hash", "publish"}
    <3>1. Inspect \/ ChildStep BY <1>2, <2>1, Arrivals
    <3>2. pc' = pc /\ disk' = disk BY <3>1, WorldFrame
    <3>3. ASSUME NEW t \in Tasks, NEW n \in AttemptNumbers, ChildWrites(t, n) PROVE FALSE
        BY <2>1, <3>2, <3>3, WritingChild
    <3>4. ws' = ws BY <3>1, <3>3 DEF ChildStep, LeaderExits, GroupExits, Inspect, world
    <3> QED BY <2>1, <3>2, <3>4
  <2>2. CASE bundle' # Nil
    <3>1. UNCHANGED <<disk, bundle>> BY <1>2, <2>2, RestingSteps
    <3>2. pc \in {"idle", "verify"} /\ AllCompleted(disk) BY <2>2, <3>1 DEF SealInv
    <3>3. ASSUME NEW t \in Tasks, NEW n \in AttemptNumbers, ChildWrites(t, n) PROVE FALSE
        BY <3>2, <3>3, WritingChild DEF AllCompleted, Completed
    <3>4. ~QuarantineOutput BY <3>2 DEF QuarantineOutput
    <3>5. ws' = ws BY <3>3, <3>4, WorldChanges
    <3> QED BY <2>2, <3>1, <3>5
  <2> QED BY <2>1, <2>2
<1> QED BY <1>1, <1>2

\* As long as nobody edits the workspace, its files are those the records account for.
THEOREM TreeInvariant == Spec => []TreeInv
<1>1. Init => TreeInv BY DEF Init, TreeInv, Committing
<1>2. ASSUME EngineInv, StoreInv, ArtifactInv, PlaceInv, SealInv, TreeInv, Next, edits' = 0 PROVE TreeInv'
  <2>1. edits = 0 /\ ~Edit BY <1>2, WorldChanges
  <2>2. pc \in {"stderr", "launch"} \/ (pc \in Committing /\ next = "launch") => BoundObservation(mem, ws, {})
      BY <1>2, <2>1 DEF TreeInv
  <2>3. (disk # Nil => FailedTrees(disk, ws, quarantine)) /\ (pc = "intent" => FailedTrees(mem, ws, quarantine))
      BY <1>2, <2>1 DEF TreeInv
  <2>4. pc = "quarantine" =>
              /\ BoundObservation(mem, ws, OutputSet(cur))
              /\ \A p \in OutputSet(cur) : ws[p] = Absent \/ (p \in Elems(todo) /\ p \notin DOMAIN moved)
      BY <1>2, <2>1 DEF TreeInv
  <2>5. pc \in {"hash", "publish"} \/ bundle # Nil => BoundObservation(disk, ws, {})
      BY <1>2, <2>1 DEF TreeInv
  <2>6. pc' \in {"stderr", "launch"} \/ (pc' \in Committing /\ next' = "launch") => BoundObservation(mem', ws', {})
      BY <1>2, <2>1, <2>2, LaunchTree
  <2>7. disk' # Nil => FailedTrees(disk', ws', quarantine') BY <1>2, <2>1, <2>3, FailureKept
  <2>8. pc' = "intent" => FailedTrees(mem', ws', quarantine') BY <1>2, <2>1, <2>3, FailureIntended
  <2>9. pc' = "quarantine" =>
              /\ BoundObservation(mem', ws', OutputSet(cur'))
              /\ \A p \in OutputSet(cur') : ws'[p] = Absent \/ (p \in Elems(todo') /\ p \notin DOMAIN moved')
      BY <1>2, <2>1, <2>4, RecoveryTree
  <2>10. pc' \in {"hash", "publish"} \/ bundle' # Nil => BoundObservation(disk', ws', {})
      BY <1>2, <2>1, <2>5, SealedStays
  <2> QED BY <2>6, <2>7, <2>8, <2>9, <2>10 DEF TreeInv, Committing
<1>3. ASSUME EngineInv, StoreInv, ArtifactInv, PlaceInv, SealInv, TreeInv, Next PROVE TreeInv'
  <2>1. edits' # 0 => TreeInv' BY DEF TreeInv
  <2> QED BY <1>2, <1>3, <2>1
<1>4. TreeInv /\ UNCHANGED vars => TreeInv'
    BY DEF TreeInv, vars, files, world, locals, counters, Committing
<1> QED BY <1>1, <1>3, <1>4, EngineInvariant, StoreInvariant, ArtifactInvariant, PlaceInvariant, SealInvariant, PTL DEF Spec

=============================================================================
