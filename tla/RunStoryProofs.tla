--------------------------- MODULE RunStoryProofs ---------------------------
(***************************************************************************)
(* Proofs for every suite, continued from RunProofs: the event log tells   *)
(* the run, and the run follows its lifecycle.                             *)
(***************************************************************************)
EXTENDS RunProofs, RunProperties

USE ZenonT(60)

(***************************************************************************)
(* The story the event log tells.  What a log with one event more tells is *)
(* the story of the log continued: induction over the length of the log,   *)
(* by the least length, or place, at which it fails.                       *)
(***************************************************************************)
LOCAL INSTANCE WellFoundedInduction

\* Every set of numbers that has an element has a least one.
LEMMA LeastNumber == ASSUME NEW T \in SUBSET Nat, T # {} PROVE \E n \in T : \A m \in T : n <= m
<1> DEFINE R == {ss \in Nat \X Nat : ss[1] < ss[2]}
<1>1. IsWellFoundedOn(R, Nat) BY NatLessThanWellFounded DEF OpToRel
<1> HIDE DEF R
<1>2. PICK n \in T : \A m \in T : ~(<<m, n>> \in R) BY <1>1, WFMin
<1>3. ASSUME NEW m \in T PROVE ~(m < n)
  <2>1. m \in Nat /\ n \in Nat OBVIOUS
  <2>2. <<m, n>> \in Nat \X Nat /\ <<m, n>>[1] = m /\ <<m, n>>[2] = n BY <2>1
  <2>3. m < n => <<m, n>> \in R BY <2>2 DEF R
  <2> QED BY <1>2, <2>3
<1> QED BY <1>3, SMTT(60)

\* told lists the stories of the beginnings of s.
Tells(told, s) == told = [i \in 0..Len(s) |-> IF i = 0 THEN Untold ELSE Tell(told[i - 1], s[i])]

\* Every log has such a list.
LEMMA ToldExists == \A s \in Seq(Events) : \E told : Tells(told, s)
<1> DEFINE Bad == {n \in Nat : \E s \in Seq(Events) : Len(s) = n /\ ~\E told : Tells(told, s)}
<1> SUFFICES ASSUME Bad # {} PROVE FALSE
  <2>1. \A s \in Seq(Events) : Len(s) \in Nat BY SMTT(60)
  <2> QED BY <2>1
<1>1. PICK n \in Bad : \A m \in Bad : n <= m BY LeastNumber
<1>2. PICK s \in Seq(Events) : Len(s) = n /\ ~\E told : Tells(told, s) BY <1>1
<1>3. CASE n = 0
  <2>1. Tells([i \in 0..Len(s) |-> Untold], s) BY <1>2, <1>3, SMTT(60) DEF Tells
  <2> QED BY <1>2, <2>1
<1>4. CASE n # 0
  <2> DEFINE r == SubSeq(s, 1, n - 1)
  <2>1. r \in Seq(Events) /\ Len(r) = n - 1 /\ n - 1 \in Nat /\ ~(n <= n - 1) /\ \A i \in 1..(n - 1) : r[i] = s[i]
      BY <1>2, <1>4, SMTT(60)
  <2>2. n - 1 \notin Bad BY <1>1, <2>1
  <2> HIDE DEF r
  <2>3. PICK g : Tells(g, r) BY <2>1, <2>2
  <2> DEFINE h == [i \in 0..Len(s) |-> IF i = n THEN Tell(g[n - 1], s[n]) ELSE g[i]]
  <2>4. g = [i \in 0..(n - 1) |-> IF i = 0 THEN Untold ELSE Tell(g[i - 1], r[i])] BY <2>1, <2>3 DEF Tells
  <2>5. ASSUME NEW i \in 0..(n - 1) PROVE g[i] = IF i = 0 THEN Untold ELSE Tell(g[i - 1], s[i])
    <3>1. i = 0 \/ i \in 1..(n - 1) BY <2>1, SMTT(60)
    <3>2. g[i] = IF i = 0 THEN Untold ELSE Tell(g[i - 1], r[i]) BY <2>4
    <3> QED BY <2>1, <3>1, <3>2
  <2>6. ASSUME NEW i \in 0..n PROVE h[i] = IF i = 0 THEN Untold ELSE Tell(h[i - 1], s[i])
    <3>1. CASE i = n
      <4>1. n - 1 \in 0..Len(s) /\ n - 1 # n /\ i \in 0..Len(s) BY <1>2, <2>1, SMTT(60)
      <4>2. h[i] = Tell(g[n - 1], s[n]) /\ h[n - 1] = g[n - 1] BY <3>1, <4>1
      <4> QED BY <3>1, <4>2, <1>4
    <3>2. CASE i # n
      <4>1. i \in 0..(n - 1) /\ i \in 0..Len(s) /\ (i # 0 => i - 1 \in 0..Len(s) /\ i - 1 # n)
          BY <1>2, <2>1, <3>2, SMTT(60)
      <4>2. h[i] = g[i] /\ (i # 0 => h[i - 1] = g[i - 1]) BY <3>2, <4>1
      <4> QED BY <2>5, <4>1, <4>2
    <3> QED BY <3>1, <3>2
  <2>7. Tells(h, s) BY <1>2, <2>6 DEF Tells
  <2> QED BY <1>2, <2>7
<1> QED BY <1>3, <1>4

\* The story of a log is the last of them.
LEMMA ToldLast == ASSUME NEW s \in Seq(Events) PROVE \E told : Tells(told, s) /\ StoryOf(s) = told[Len(s)]
<1>1. \E h : h = [i \in 0..Len(s) |-> IF i = 0 THEN Untold ELSE Tell(h[i - 1], s[i])] BY ToldExists DEF Tells
<1> DEFINE g == CHOOSE h : h = [i \in 0..Len(s) |-> IF i = 0 THEN Untold ELSE Tell(h[i - 1], s[i])]
<1>2. g = [i \in 0..Len(s) |-> IF i = 0 THEN Untold ELSE Tell(g[i - 1], s[i])] BY <1>1
<1>3. StoryOf(s) = g[Len(s)] BY DEF StoryOf
<1> HIDE DEF g
<1> QED BY <1>2, <1>3 DEF Tells

\* The stories of the beginnings do not depend on what follows.
LEMMA ToldSame ==
    ASSUME NEW s \in Seq(Events), NEW e \in Events, NEW h, NEW g, Tells(h, s), Tells(g, Append(s, e))
    PROVE  g[Len(s)] = h[Len(s)]
<1> DEFINE T == {i \in 0..Len(s) : g[i] # h[i]}
<1>0. Len(s) \in Nat /\ Len(Append(s, e)) = Len(s) + 1 /\ Len(s) \in 0..Len(s) BY SMTT(60)
<1> SUFFICES ASSUME T # {} PROVE FALSE BY <1>0
<1>1. T \in SUBSET Nat BY <1>0, SMTT(60)
<1> HIDE DEF T
<1>2. PICK n \in T : \A m \in T : n <= m BY <1>1, LeastNumber
<1> USE DEF T
<1>3. n \in 0..Len(s) /\ n \in 0..Len(Append(s, e)) BY <1>0, SMTT(60)
<1>4. g[n] = IF n = 0 THEN Untold ELSE Tell(g[n - 1], Append(s, e)[n]) BY <1>3 DEF Tells
<1>5. h[n] = IF n = 0 THEN Untold ELSE Tell(h[n - 1], s[n]) BY <1>3 DEF Tells
<1>6. n # 0 => n - 1 \in 0..Len(s) /\ ~(n <= n - 1) /\ Append(s, e)[n] = s[n] BY <1>0, <1>3, SMTT(60)
<1>7. n # 0 => g[n - 1] = h[n - 1] BY <1>2, <1>6
<1> QED BY <1>4, <1>5, <1>6, <1>7

\* A log with one event more.
LEMMA StoryGoesOn == ASSUME NEW s \in Seq(Events), NEW e \in Events PROVE StoryOf(Append(s, e)) = Tell(StoryOf(s), e)
<1>1. PICK h : Tells(h, s) /\ StoryOf(s) = h[Len(s)] BY ToldLast
<1>2. /\ Append(s, e) \in Seq(Events) /\ Len(Append(s, e)) = Len(s) + 1 /\ Append(s, e)[Len(s) + 1] = e
      /\ Len(s) + 1 \in 0..(Len(s) + 1) /\ Len(s) + 1 # 0 /\ (Len(s) + 1) - 1 = Len(s)
    BY SMTT(60)
<1>3. PICK g : Tells(g, Append(s, e)) /\ StoryOf(Append(s, e)) = g[Len(Append(s, e))] BY <1>2, ToldLast
<1>4. g[Len(s)] = h[Len(s)] BY <1>1, <1>3, ToldSame
<1>5. g[Len(s) + 1] = Tell(g[Len(s)], e) BY <1>2, <1>3 DEF Tells
<1> QED BY <1>1, <1>2, <1>3, <1>4, <1>5

\* The empty log.
LEMMA StoryBegins == StoryOf(<< >>) = Untold
<1>1. << >> \in Seq(Events) /\ Len(<< >>) = 0 BY SMTT(60)
<1>2. PICK h : Tells(h, << >>) /\ StoryOf(<< >>) = h[Len(<< >>)] BY <1>1, ToldLast
<1>3. 0 \in 0..0 BY SMTT(60)
<1> QED BY <1>1, <1>2, <1>3 DEF Tells

\* Stories that agree but for the status and one task.
LEMMA StoryPatched ==
    ASSUME NEW s, NEW r, NEW t \in Tasks, \A u \in Tasks : u # t => r.tasks[u] = s.tasks[u]
    PROVE  StoryIn(r) = [status |-> r.status,
                         tasks |-> [StoryIn(s).tasks EXCEPT
                                        ![t] = [status |-> r.tasks[t].status, attempts |-> AttemptNumber(r, t)]]]
<1> DEFINE new == [status |-> r.tasks[t].status, attempts |-> AttemptNumber(r, t)]
           f == [u \in Tasks |-> [status |-> s.tasks[u].status, attempts |-> AttemptNumber(s, u)]]
           g == [u \in Tasks |-> [status |-> r.tasks[u].status, attempts |-> AttemptNumber(r, u)]]
<1>1. \A u \in Tasks : u # t => g[u] = f[u]
  BY DEF AttemptNumber
<1>2. g[t] = new
  OBVIOUS
<1>3. g = [f EXCEPT ![t] = new]
  <2>. HIDE DEF new
  <2>1. g = [u \in Tasks |-> g[u]] /\ DOMAIN f = Tasks OBVIOUS
  <2>. HIDE DEF f, g
  <2> QED BY <1>1, <1>2, <2>1
<1>4. StoryIn(s).tasks = f /\ StoryIn(r) = [status |-> r.status, tasks |-> g]
  BY DEF StoryIn
<1> QED BY <1>3, <1>4

\* When the events of task t continue a story.
LEMMA TaskContinues ==
    ASSUME NEW story, NEW e, story.status = "running",
           \A u \in 1..(e.task - 1) : story.tasks[u].status = "completed"
    PROVE  /\ e.type = "task_started" /\ story.tasks[e.task].status = "pending"
                 /\ e.attempt = story.tasks[e.task].attempts + 1 => Continues(story, e)
           /\ e.type = "task_failed" /\ story.tasks[e.task].status = "running"
                 /\ e.attempt = story.tasks[e.task].attempts => Continues(story, e)
           /\ e.type = "task_completed" /\ story.tasks[e.task].status = "running"
                 /\ e.attempt = story.tasks[e.task].attempts => Continues(story, e)
           /\ e.type = "task_recovery_prepared" /\ story.tasks[e.task].status \in {"running", "failed"}
                 /\ e.attempt = story.tasks[e.task].attempts => Continues(story, e)
<1>1. ASSUME e.type = "task_started", story.tasks[e.task].status = "pending",
             e.attempt = story.tasks[e.task].attempts + 1
      PROVE  Continues(story, e)
  BY SMTT(60), <1>1 DEF Continues
<1>2. ASSUME e.type = "task_failed", story.tasks[e.task].status = "running",
             e.attempt = story.tasks[e.task].attempts
      PROVE  Continues(story, e)
  BY SMTT(60), <1>2 DEF Continues
<1>3. ASSUME e.type = "task_completed", story.tasks[e.task].status = "running",
             e.attempt = story.tasks[e.task].attempts
      PROVE  Continues(story, e)
  BY SMTT(60), <1>3 DEF Continues
<1>4. ASSUME e.type = "task_recovery_prepared", story.tasks[e.task].status \in {"running", "failed"},
             e.attempt = story.tasks[e.task].attempts
      PROVE  Continues(story, e)
  BY SMTT(60), <1>4 DEF Continues
<1> QED BY <1>1, <1>2, <1>3, <1>4

\* The events of task t continue the story of a run that stands at t.
LEMMA TellTask ==
    ASSUME NEW s, NEW r, NEW t \in Tasks, s.status = "running", At(s, t),
           \A u \in Tasks : u # t => r.tasks[u] = s.tasks[u], NEW n, AttemptNumber(r, t) = n
    PROVE  /\ s.tasks[t].status = "pending" /\ n = AttemptNumber(s, t) + 1 /\ r.tasks[t].status = "running"
                 /\ r.status = "running" => Tell(StoryIn(s), Event("task_started", t, n)) = StoryIn(r)
           /\ s.tasks[t].status = "running" /\ n = AttemptNumber(s, t) /\ r.tasks[t].status = "failed"
                 /\ r.status = "failed" => Tell(StoryIn(s), Event("task_failed", t, n)) = StoryIn(r)
           /\ s.tasks[t].status = "running" /\ n = AttemptNumber(s, t) /\ r.tasks[t].status = "completed"
                 /\ r.status = "running" => Tell(StoryIn(s), Event("task_completed", t, n)) = StoryIn(r)
           /\ s.tasks[t].status \in {"running", "failed"} /\ n = AttemptNumber(s, t) /\ r.tasks[t].status = "pending"
                 /\ r.status = "running" => Tell(StoryIn(s), Event("task_recovery_prepared", t, n)) = StoryIn(r)
<1> DEFINE f == StoryIn(s).tasks
<1>1. StoryIn(s) = [status |-> "running", tasks |-> f] /\ StoryIn(s).status = "running" /\ StoryIn(s).tasks = f
  BY DEF StoryIn
<1>2. /\ f = [u \in Tasks |-> f[u]] /\ f[t] = [status |-> s.tasks[t].status, attempts |-> AttemptNumber(s, t)]
      /\ \A u \in Tasks : f[u].status = s.tasks[u].status
  BY DEF StoryIn
<1>3. \A u \in 1..(t - 1) : f[u].status = "completed"
  <2>1. \A u \in 1..(t - 1) : u \in Tasks /\ u < t BY SMTT(60), SuiteAssumption DEF Tasks
  <2> QED BY <1>2, <2>1 DEF At, Completed
<1>4. StoryIn(r) = [status |-> r.status, tasks |-> [f EXCEPT ![t] = [status |-> r.tasks[t].status, attempts |-> n]]]
  BY StoryPatched
<1>. HIDE DEF f
<1>5. ASSUME NEW type, NEW old, s.tasks[t].status = old
      PROVE  /\ Event(type, t, n).type = type /\ Event(type, t, n).task = t /\ Event(type, t, n).attempt = n
             /\ StoryIn(s).status = "running" /\ StoryIn(s).tasks = f
             /\ \A u \in 1..(Event(type, t, n).task - 1) : StoryIn(s).tasks[u].status = "completed"
             /\ StoryIn(s).tasks[t].status = old /\ StoryIn(s).tasks[t].attempts = AttemptNumber(s, t)
             /\ StoryIn(s).tasks[t] = [status |-> old, attempts |-> AttemptNumber(s, t)]
  <2>1. Event(type, t, n).type = type /\ Event(type, t, n).task = t /\ Event(type, t, n).attempt = n
    BY DEF Event
  <2>2. StoryIn(s).status = "running" /\ StoryIn(s).tasks = f
    BY <1>1
  <2> DEFINE e == Event(type, t, n)
  <2>. HIDE DEF e
  <2>3. \A u \in 1..(e.task - 1) : StoryIn(s).tasks[u].status = "completed"
    BY <1>3, <2>1, <2>2 DEF e
  <2>4. /\ StoryIn(s).tasks[t].status = old /\ StoryIn(s).tasks[t].attempts = AttemptNumber(s, t)
        /\ StoryIn(s).tasks[t] = [status |-> old, attempts |-> AttemptNumber(s, t)]
    BY SMTT(60), <1>2, <1>5, <2>2
  <2> QED BY <2>1, <2>2, <2>3, <2>4 DEF e
<1>6. ASSUME s.tasks[t].status = "pending", n = AttemptNumber(s, t) + 1, r.tasks[t].status = "running", r.status = "running"
      PROVE  Tell(StoryIn(s), Event("task_started", t, n)) = StoryIn(r)
  <2> DEFINE e == Event("task_started", t, n)
             story == StoryIn(s)
             new == [status |-> "running", attempts |-> n]
  <2>1. /\ e.type = "task_started" /\ e.task = t /\ e.attempt = n /\ story.status = "running" /\ story.tasks = f
        /\ \A u \in 1..(e.task - 1) : story.tasks[u].status = "completed"
        /\ story.tasks[t].status = "pending" /\ story.tasks[t].attempts = AttemptNumber(s, t)
        /\ f[t] = [status |-> "pending", attempts |-> AttemptNumber(s, t)]
    BY <1>5, <1>6
  <2>2. story = [status |-> "running", tasks |-> f] /\ StoryIn(r) = [status |-> "running", tasks |-> [f EXCEPT ![t] = new]]
    BY <1>1, <1>4, <1>6
  <2>. HIDE DEF e, story, new
  <2>3. Continues(story, e)
    BY SMTT(60), <1>6, <2>1, TaskContinues
  <2>4. Tell(story, e) = [story EXCEPT !.tasks[t] = new]
    BY <2>1, <2>3 DEF Tell, new
  <2>5. [story EXCEPT !.tasks[t] = new] = [status |-> "running", tasks |-> [f EXCEPT ![t] = new]]
    <3>1. [[status |-> "running", tasks |-> f] EXCEPT !.tasks[t] = new]
            = [status |-> "running", tasks |-> [f EXCEPT ![t] = new]]
      BY SMTT(60)
    <3> QED BY <2>2, <3>1
  <2> QED BY <2>2, <2>4, <2>5 DEF e, story
<1>7. ASSUME s.tasks[t].status = "running", n = AttemptNumber(s, t), r.tasks[t].status = "failed", r.status = "failed"
      PROVE  Tell(StoryIn(s), Event("task_failed", t, n)) = StoryIn(r)
  <2> DEFINE e == Event("task_failed", t, n)
             story == StoryIn(s)
             new == [status |-> "failed", attempts |-> n]
  <2>1. /\ e.type = "task_failed" /\ e.task = t /\ e.attempt = n /\ story.status = "running" /\ story.tasks = f
        /\ \A u \in 1..(e.task - 1) : story.tasks[u].status = "completed"
        /\ story.tasks[t].status = "running" /\ story.tasks[t].attempts = AttemptNumber(s, t)
        /\ f[t] = [status |-> "running", attempts |-> AttemptNumber(s, t)]
    BY <1>5, <1>7
  <2>2. story = [status |-> "running", tasks |-> f] /\ StoryIn(r) = [status |-> "failed", tasks |-> [f EXCEPT ![t] = new]]
    BY <1>1, <1>4, <1>7
  <2>. HIDE DEF e, story, new
  <2>3. Continues(story, e)
    BY SMTT(60), <1>7, <2>1, TaskContinues
  <2>4. Tell(story, e) = [status |-> "failed", tasks |-> [f EXCEPT ![t].status = "failed"]]
    BY <2>1, <2>3 DEF Tell
  <2>5. [f EXCEPT ![t].status = "failed"] = [f EXCEPT ![t] = new]
    <3>1. [f[t] EXCEPT !.status = "failed"] = new BY SMTT(60), <1>7, <2>1 DEF new
    <3>2. [f EXCEPT ![t].status = "failed"] = [f EXCEPT ![t] = [f[t] EXCEPT !.status = "failed"]] BY SMTT(60)
    <3> QED BY <3>1, <3>2
  <2> QED BY <2>2, <2>4, <2>5 DEF e, story
<1>8. ASSUME s.tasks[t].status = "running", n = AttemptNumber(s, t), r.tasks[t].status = "completed", r.status = "running"
      PROVE  Tell(StoryIn(s), Event("task_completed", t, n)) = StoryIn(r)
  <2> DEFINE e == Event("task_completed", t, n)
             story == StoryIn(s)
             new == [status |-> "completed", attempts |-> n]
  <2>1. /\ e.type = "task_completed" /\ e.task = t /\ e.attempt = n /\ story.status = "running" /\ story.tasks = f
        /\ \A u \in 1..(e.task - 1) : story.tasks[u].status = "completed"
        /\ story.tasks[t].status = "running" /\ story.tasks[t].attempts = AttemptNumber(s, t)
        /\ f[t] = [status |-> "running", attempts |-> AttemptNumber(s, t)]
    BY <1>5, <1>8
  <2>2. story = [status |-> "running", tasks |-> f] /\ StoryIn(r) = [status |-> "running", tasks |-> [f EXCEPT ![t] = new]]
    BY <1>1, <1>4, <1>8
  <2>. HIDE DEF e, story, new
  <2>3. Continues(story, e)
    BY SMTT(60), <1>8, <2>1, TaskContinues
  <2>4. Tell(story, e) = [story EXCEPT !.tasks[t].status = "completed"]
    BY <2>1, <2>3 DEF Tell
  <2>5. [f EXCEPT ![t].status = "completed"] = [f EXCEPT ![t] = new]
    <3>1. [f[t] EXCEPT !.status = "completed"] = new BY SMTT(60), <1>8, <2>1 DEF new
    <3>2. [f EXCEPT ![t].status = "completed"] = [f EXCEPT ![t] = [f[t] EXCEPT !.status = "completed"]] BY SMTT(60)
    <3> QED BY <3>1, <3>2
  <2>6. [story EXCEPT !.tasks[t].status = "completed"] = [status |-> "running", tasks |-> [f EXCEPT ![t] = new]]
    <3>1. [[status |-> "running", tasks |-> f] EXCEPT !.tasks[t].status = "completed"]
            = [status |-> "running", tasks |-> [f EXCEPT ![t].status = "completed"]]
      BY SMTT(60)
    <3> QED BY <2>2, <2>5, <3>1
  <2> QED BY <2>2, <2>4, <2>6 DEF e, story
<1>9. ASSUME s.tasks[t].status \in {"running", "failed"}, n = AttemptNumber(s, t), r.tasks[t].status = "pending", r.status = "running"
      PROVE  Tell(StoryIn(s), Event("task_recovery_prepared", t, n)) = StoryIn(r)
  <2> DEFINE e == Event("task_recovery_prepared", t, n)
             story == StoryIn(s)
             new == [status |-> "pending", attempts |-> n]
  <2>1. /\ e.type = "task_recovery_prepared" /\ e.task = t /\ e.attempt = n /\ story.status = "running" /\ story.tasks = f
        /\ \A u \in 1..(e.task - 1) : story.tasks[u].status = "completed"
        /\ story.tasks[t].status = s.tasks[t].status /\ story.tasks[t].attempts = AttemptNumber(s, t)
        /\ f[t] = [status |-> s.tasks[t].status, attempts |-> AttemptNumber(s, t)]
    BY <1>5, <1>9
  <2>2. story = [status |-> "running", tasks |-> f] /\ StoryIn(r) = [status |-> "running", tasks |-> [f EXCEPT ![t] = new]]
    BY <1>1, <1>4, <1>9
  <2>. HIDE DEF e, story, new
  <2>3. Continues(story, e)
    BY SMTT(60), <1>9, <2>1, TaskContinues
  <2>4. Tell(story, e) = [story EXCEPT !.tasks[t].status = "pending"]
    BY <2>1, <2>3 DEF Tell
  <2>5. [f EXCEPT ![t].status = "pending"] = [f EXCEPT ![t] = new]
    <3>1. [f[t] EXCEPT !.status = "pending"] = new BY SMTT(60), <1>9, <2>1 DEF new
    <3>2. [f EXCEPT ![t].status = "pending"] = [f EXCEPT ![t] = [f[t] EXCEPT !.status = "pending"]] BY SMTT(60)
    <3> QED BY <3>1, <3>2
  <2>6. [story EXCEPT !.tasks[t].status = "pending"] = [status |-> "running", tasks |-> [f EXCEPT ![t] = new]]
    <3>1. [[status |-> "running", tasks |-> f] EXCEPT !.tasks[t].status = "pending"]
            = [status |-> "running", tasks |-> [f EXCEPT ![t].status = "pending"]]
      BY SMTT(60)
    <3> QED BY <2>2, <2>5, <3>1
  <2> QED BY <2>2, <2>4, <2>6 DEF e, story
<1> QED BY <1>6, <1>7, <1>8, <1>9

\* The events of the run continue the story of a run with the same tasks.
LEMMA TellRun ==
    ASSUME NEW s, NEW r, r.tasks = s.tasks, s.status # "broken"
    PROVE  /\ r.status = "running" => Tell(StoryIn(s), RunEvent("run_resumed")) = StoryIn(r)
           /\ r.status = "completed" /\ s.status = "running" /\ AllCompleted(s) =>
                 Tell(StoryIn(s), RunEvent("run_completed")) = StoryIn(r)
           /\ r.status = "running" /\ StoryIn(s) = Untold => Tell(StoryIn(s), RunEvent("run_started")) = StoryIn(r)
<1> DEFINE story == StoryIn(s)
           f == StoryIn(s).tasks
<1>1. story = [status |-> s.status, tasks |-> f] /\ story.status = s.status /\ story.tasks = f
  BY DEF StoryIn
<1>2. StoryIn(r) = [status |-> r.status, tasks |-> f]
  BY DEF StoryIn, AttemptNumber
<1>3. AllCompleted(s) => \A t \in Tasks : story.tasks[t].status = "completed"
  BY DEF StoryIn, AllCompleted, Completed
<1>4. ASSUME NEW type PROVE RunEvent(type).type = type
  BY DEF RunEvent, Event
<1>. HIDE DEF story, f
<1>5. \A v : [story EXCEPT !.status = v] = [status |-> v, tasks |-> f]
  BY SMTT(60), <1>1
<1>6. ASSUME r.status = "running"
      PROVE  Tell(story, RunEvent("run_resumed")) = StoryIn(r)
  <2> DEFINE e == RunEvent("run_resumed")
  <2>1. e.type = "run_resumed" BY <1>4
  <2>. HIDE DEF e
  <2>2. Continues(story, e) BY SMTT(60), <1>1, <2>1 DEF Continues
  <2>3. Tell(story, e) = [story EXCEPT !.status = "running"] BY <2>1, <2>2 DEF Tell
  <2> QED BY <1>2, <1>5, <1>6, <2>3 DEF e
<1>7. ASSUME r.status = "completed", s.status = "running", AllCompleted(s)
      PROVE  Tell(story, RunEvent("run_completed")) = StoryIn(r)
  <2> DEFINE e == RunEvent("run_completed")
  <2>1. e.type = "run_completed" BY <1>4
  <2>. HIDE DEF e
  <2>2. Continues(story, e) BY SMTT(60), <1>1, <1>3, <1>7, <2>1 DEF Continues
  <2>3. Tell(story, e) = [story EXCEPT !.status = "completed"] BY <2>1, <2>2 DEF Tell
  <2> QED BY <1>2, <1>5, <1>7, <2>3 DEF e
<1>8. ASSUME r.status = "running", story = Untold
      PROVE  Tell(story, RunEvent("run_started")) = StoryIn(r)
  <2> DEFINE e == RunEvent("run_started")
  <2>1. e.type = "run_started" BY <1>4
  <2>. HIDE DEF e
  <2>2. Continues(story, e) BY SMTT(60), <1>1, <1>8, <2>1 DEF Continues
  <2>3. Tell(story, e) = [story EXCEPT !.status = "running"] BY <2>1, <2>2 DEF Tell
  <2> QED BY <1>2, <1>5, <1>8, <2>3 DEF e
<1> QED BY <1>6, <1>7, <1>8 DEF story

\* Before the first event.
LEMMA StoryInitially == StoryIn(InitialState) = Untold
<1>1. InitialState.status = "running"
  BY DEF InitialState
<1>2. \A t \in Tasks : InitialState.tasks[t].status = "pending" /\ AttemptNumber(InitialState, t) = 0
  <2>1. Len(<< >>) = 0 BY SMTT(60)
  <2> QED BY <2>1, InitialTasks DEF AttemptNumber
<1> QED BY <1>1, <1>2 DEF StoryIn, Untold

\* What the story of a record depends on.
LEMMA SameStory ==
    ASSUME NEW s, NEW r, r.status = s.status,
           \A t \in Tasks : /\ r.tasks[t].status = s.tasks[t].status
                            /\ Len(r.tasks[t].attempts) = Len(s.tasks[t].attempts)
    PROVE  StoryIn(r) = StoryIn(s)
BY DEF StoryIn, AttemptNumber

\* An event a transition of task cur is about to commit.
LEMMA TaskIntentTold ==
    ASSUME EngineInv, StoreInv, StoryInv, FinishRecovery \/ CompleteAttempt \/ FailAttempt
    PROVE  /\ Tell(StoryIn(disk), mem'.pending) = StoryIn(mem') /\ disk' = disk
           /\ next' \in {"loop", "launch"} => mem'.status = "running"
<1>1. pc \in {"quarantine", "observe"} /\ disk' = disk
  BY DEF FinishRecovery, CompleteAttempt, FailAttempt, files
<1>2. /\ cur \in Tasks /\ mem.tasks[cur].status \in {"running", "failed"}
      /\ (CompleteAttempt \/ FailAttempt => mem.tasks[cur].status = "running")
      /\ Touches(mem', disk, cur) /\ Touches(mem', mem, cur) /\ mem.tasks[cur].status # "completed"
  BY RecoveryIntent, CompletionIntent, FailureIntent
<1>3. /\ disk.status = "running" /\ At(disk, cur) /\ Touches(mem, disk, cur) /\ mem.status = "running"
      /\ mem.tasks[cur].status = disk.tasks[cur].status
  BY <1>1, <1>2, Standing DEF StoryInv
<1> DEFINE n == AttemptNumber(disk, cur)
<1>4. /\ AttemptNumber(mem, cur) = n /\ AttemptNumber(mem', cur) = n /\ AttemptNumber(disk, cur) = n
      /\ \A u \in Tasks : u # cur => mem'.tasks[u] = disk.tasks[u]
  BY <1>2, <1>3 DEF Touches, AttemptNumber
<1>. HIDE DEF n
<1>5. /\ disk.tasks[cur].status \in {"running", "failed"} /\ mem'.tasks[cur].status = "pending" /\ mem'.status = "running"
            => Tell(StoryIn(disk), Event("task_recovery_prepared", cur, n)) = StoryIn(mem')
      /\ disk.tasks[cur].status = "running" /\ mem'.tasks[cur].status = "completed" /\ mem'.status = "running"
            => Tell(StoryIn(disk), Event("task_completed", cur, n)) = StoryIn(mem')
      /\ disk.tasks[cur].status = "running" /\ mem'.tasks[cur].status = "failed" /\ mem'.status = "failed"
            => Tell(StoryIn(disk), Event("task_failed", cur, n)) = StoryIn(mem')
  BY SMTT(60), <1>2, <1>3, <1>4, TellTask
<1>6. CASE FinishRecovery
  <2>1. /\ mem'.pending = Event("task_recovery_prepared", cur, n) /\ mem'.status = "running"
        /\ mem'.tasks[cur].status = "pending"
    BY <1>3, <1>4, <1>6, RecoveryIntent
  <2> QED BY <1>1, <1>2, <1>3, <1>5, <2>1
<1>7. CASE CompleteAttempt
  <2>1. /\ mem'.pending = Event("task_completed", cur, n) /\ mem'.status = "running"
        /\ mem'.tasks[cur].status = "completed"
    BY <1>3, <1>4, <1>7, CompletionIntent
  <2> QED BY <1>1, <1>2, <1>3, <1>5, <1>7, <2>1
<1>8. CASE FailAttempt
  <2>1. /\ mem'.pending = Event("task_failed", cur, n) /\ mem'.status = "failed" /\ next' = "idle"
        /\ mem'.tasks[cur].status = "failed"
    BY <1>3, <1>4, <1>8, FailureIntent
  <2> QED BY <1>1, <1>2, <1>3, <1>5, <1>8, <2>1
<1> QED BY <1>7, <1>8, <1>6

\* The same for the other events.
LEMMA RunIntentTold ==
    ASSUME EngineInv, StoreInv, StoryInv, CreateRun \/ AdmitResume \/ StartAttempt \/ CompleteRun
    PROVE  /\ Tell(StoryIn(disk'), mem'.pending) = StoryIn(mem')
           /\ next' \in {"loop", "launch"} => mem'.status = "running"
<1>1. \A type \in EventTypes : RunEvent(type) \in Events
  BY SMTT(60), SuiteAssumption, LimitAssumption DEF RunEvent, Event, Events
<1>2. CASE CreateRun
  <2>1. disk' = InitialState /\ BeginCommit(InitialState, RunEvent("run_started"), "loop")
    BY <1>2 DEF CreateRun
  <2>2. InitialState.status = "running"
    BY DEF InitialState
  <2>3. mem'.tasks = InitialState.tasks /\ mem'.status = "running" /\ mem'.pending = RunEvent("run_started")
    <3>1. Built(InitialState, InitialState) BY InitialStateType DEF Built
    <3> QED BY <1>1, <2>1, <2>2, <3>1, IntentFields DEF EventTypes
  <2> QED BY SMTT(60), <2>1, <2>2, <2>3, TellRun, StoryInitially
<1>3. CASE AdmitResume
  <2>1. /\ pc = "admit" /\ disk' = disk /\ mem = disk
        /\ BeginCommit([mem EXCEPT !.status = "running", !.error = FALSE], RunEvent("run_resumed"), "loop")
    BY <1>3 DEF AdmitResume, StoreInv, CopyInv, files
  <2>2. mem \in States /\ Recorded(mem) /\ StateBody(mem) /\ mem.status # "broken"
    <3>1. mem \in States /\ Recorded(mem) /\ StateBody(mem)
      BY <2>1, SameBuilt, NilAssumption DEF Working, StoreInv, ShapeInv
    <3> QED BY <3>1 DEF States
  <2>3. mem'.tasks = disk.tasks /\ mem'.status = "running" /\ mem'.pending = RunEvent("run_resumed")
    BY <1>1, <2>1, <2>2, HeaderIntent DEF EventTypes
  <2> QED BY SMTT(60), <2>1, <2>2, <2>3, TellRun
<1>4. CASE CompleteRun
  <2>1. /\ pc = "loop" /\ disk' = disk /\ mem = disk /\ cur = TaskCount + 1 /\ disk.status = "running"
        /\ BeginCommit([mem EXCEPT !.status = "completed", !.error = FALSE], RunEvent("run_completed"), "seal")
    BY <1>4 DEF CompleteRun, StoreInv, CopyInv, StoryInv, files
  <2>2. mem \in States /\ Recorded(mem) /\ StateBody(mem) /\ mem # Nil
    BY <2>1, SameBuilt, NilAssumption DEF Working, StoreInv, ShapeInv
  <2>3. AllCompleted(mem)
    <3>1. \A u \in Tasks : u < cur BY SMTT(60), <2>1, SuiteAssumption DEF Tasks
    <3> QED BY <2>2, <3>1 DEF StoreInv, CopyInv, AllCompleted
  <2>4. mem'.tasks = disk.tasks /\ mem'.status = "completed" /\ mem'.pending = RunEvent("run_completed") /\ next' = "seal"
    BY <1>1, <2>1, <2>2, <2>3, HeaderIntent DEF EventTypes
  <2> QED BY SMTT(60), <2>1, <2>3, <2>4, TellRun
<1>5. CASE StartAttempt
  <2>1. /\ cur \in Tasks /\ mem = disk /\ disk.tasks[cur].status = "pending" /\ mem'.tasks[cur].status = "running"
        /\ \A u \in Tasks : u # cur => mem'.tasks[u] = disk.tasks[u]
        /\ AttemptNumber(mem', cur) = AttemptNumber(disk, cur) + 1
        /\ mem'.pending = Event("task_started", cur, AttemptNumber(disk, cur) + 1) /\ mem'.status = "running"
    BY <1>5, StartIntent DEF AttemptNumber
  <2>2. pc = "stderr" /\ disk' = disk /\ disk.status = "running"
    BY <1>5 DEF StartAttempt, StoryInv, files
  <2>3. At(disk, cur)
    BY <2>1, <2>2, Standing
  <2> QED BY SMTT(60), <2>1, <2>2, <2>3, TellTask
<1> QED BY <1>2, <1>3, <1>4, <1>5

\* Reconciliation writes state.json only to acknowledge.
LEMMA DiskAtReconcile ==
    ASSUME EngineInv, Next, pc = "reconcile", disk' # disk
    PROVE  ReconcileAcknowledge
<1>1. ~Operator /\ ~ChildStep /\ ~Edit
  BY WorldFrame DEF Operator, StartRun, ResumeRun, ResumeBound, Resume, Inspect
<1>2. ~RunnerFault
  BY DEF RunnerFault, LaunchFails, IdentityUnavailable, PersistIdentityFails, AwaitExit, InterruptWait, ContextDrifts,
         StopChild, Crash, CrashInWrite, RaiseWithCleanup, files, Managing
<1>3. ~(CreateRun \/ Commit \/ ReconcileAppend \/ AdmitResume \/ PassCompletedTask \/ BeginRecovery)
  BY DEF CreateRun, Commit, PersistIntent, AppendEvent, Acknowledge, ReconcileAppend, AdmitResume, PassCompletedTask,
         BeginRecovery
<1>4. ~(QuarantineOutput \/ FinishRecovery \/ PrepareStdout \/ StartAttempt \/ LaunchChild \/ CaptureIdentity)
  BY DEF QuarantineOutput, FinishRecovery, PrepareStdout, StartAttempt, LaunchChild, CaptureIdentity
<1>5. ~(PersistIdentity \/ AwaitExit("ok") \/ ScopeLingers \/ CompleteAttempt \/ FailAttempt \/ CompleteRun
          \/ BuildBundle \/ VerifySealed \/ Refuse \/ RefuseAttempt)
  BY BundleFrame DEF PersistIdentity, AwaitExit, ScopeLingers, StopChild, CompleteAttempt, FailAttempt, CompleteRun,
                     VerifySealed, Refuse, RefuseAttempt, files
<1> QED BY <1>1, <1>2, <1>3, <1>4, <1>5 DEF Next, RunnerStep

\* What is written to state.json is the story its event log tells.
LEMMA StoryWritten ==
    ASSUME EngineInv, StoreInv, StoryInv, Next
    PROVE  LogTellsState'
<1> SUFFICES ASSUME disk' # Nil, disk' # disk PROVE StoryOf(Intended(disk')) = StoryIn(disk')
  BY DEF LogTellsState, StoryInv
<1>1. CASE pc = "create" /\ disk' = InitialState
  BY <1>1, InitialStateType, StoryBegins, StoryInitially DEF Intended
<1>2. CASE pc = "intent" /\ disk' = mem
  <2>1. /\ mem.pending # Nil /\ disk.pending = Nil /\ mem.event_log = log /\ disk.event_log = log
        /\ disk # Nil /\ mem \in States /\ log \in Seq(Events)
    BY <1>2 DEF EngineInv, LedgerInv, TypeOK
  <2>2. mem.pending \in Events
    BY <2>1 DEF States
  <2>3. Intended(disk) = log /\ Intended(mem) = Append(log, mem.pending)
    BY <2>1 DEF Intended
  <2>4. StoryOf(log) = StoryIn(disk)
    BY <2>1, <2>3 DEF StoryInv, LogTellsState
  <2>5. StoryOf(Append(log, mem.pending)) = Tell(StoryOf(log), mem.pending)
    BY <2>1, <2>2, StoryGoesOn
  <2>6. Tell(StoryIn(disk), mem.pending) = StoryIn(mem)
    BY <1>2 DEF StoryInv
  <2> QED BY <1>2, <2>3, <2>4, <2>5, <2>6
<1>3. CASE pc \in {"ack", "reconcile"} /\ disk' = Acknowledged(mem)
  <2>1. mem = disk /\ mem.pending # Nil /\ disk # Nil /\ disk \in States /\ log \in Seq(Events)
    BY <1>3 DEF EngineInv, LedgerInv, TypeOK
  <2>2. log = Append(mem.event_log, mem.pending)
    <3>1. CASE pc = "ack" BY <3>1 DEF EngineInv, LedgerInv
    <3>2. CASE pc = "reconcile"
      <4>1. ReconcileAcknowledge
        BY <1>3, <3>2, DiskAtReconcile
      <4>2. EventTransitionStatus(mem, log) = "pending_after_log"
        BY <4>1 DEF ReconcileAcknowledge
      <4> QED BY <2>1, <4>2 DEF EventTransitionStatus
    <3> QED BY <1>3, <3>1, <3>2
  <2>3. disk'.event_log = log /\ disk'.pending = Nil /\ disk'.tasks = disk.tasks /\ disk'.status = disk.status
    BY <1>3, <2>1 DEF Acknowledged, States
  <2>4. Intended(disk') = Intended(disk)
    BY <2>1, <2>2, <2>3 DEF Intended
  <2>5. StoryIn(disk') = StoryIn(disk)
    BY <2>3, SameStory
  <2> QED BY <2>1, <2>4, <2>5 DEF StoryInv, LogTellsState
<1>4. CASE pc \in Managing /\ disk' = mem
  <2>1. cur \in Tasks /\ mem.tasks[cur].status = "running"
    BY <1>4, ManagedChild
  <2>2. /\ disk # Nil /\ Touches(mem, disk, cur) /\ mem.tasks[cur].status = disk.tasks[cur].status
        /\ mem.status = disk.status /\ mem.pending = Nil /\ disk.pending = Nil
        /\ mem.event_log = log /\ disk.event_log = log
    BY <1>4, <2>1, Standing
  <2>3. Intended(disk') = Intended(disk)
    BY <1>4, <2>2 DEF Intended
  <2>4. StoryIn(disk') = StoryIn(disk)
    BY <1>4, <2>2, SameStory DEF Touches
  <2> QED BY <2>2, <2>3, <2>4 DEF StoryInv, LogTellsState
<1> QED BY <1>1, <1>2, <1>3, <1>4, DiskSteps

\* A run with a task under way is running.
LEMMA RunningWhileStanding ==
    ASSUME EngineInv, StoreInv, StoryInv, Next, ~ChildStep, ~Edit, ~Inspect,
           pc' \in {"loop", "quarantine", "stderr", "observe"} \cup Managing
    PROVE  disk'.status = "running"
<1>1. CASE Acknowledge
  <2>1. pc = "ack" /\ next = pc' /\ disk' = Acknowledged(mem)
    BY <1>1 DEF Acknowledge, Halt, Managing
  <2>2. next \in {"loop", "launch"}
    BY <2>1 DEF EngineInv, TypeOK, Managing
  <2>3. mem.status = "running" /\ mem \in States
    BY <2>1, <2>2 DEF StoryInv, Committing, EngineInv, TypeOK
  <2> QED BY <2>1, <2>3 DEF Acknowledged, States
<1>2. CASE ~Acknowledge
  <2>1. \/ PassCompletedTask \/ PrepareStdout \/ BeginRecovery \/ QuarantineOutput
        \/ CaptureIdentity \/ LaunchFails \/ IdentityUnavailable \/ PersistIdentityFails \/ AwaitExit("ok")
        \/ AwaitExit("failed") \/ ScopeLingers \/ InterruptWait("interrupted") \/ InterruptWait("failed")
        \/ ContextDrifts \/ LaunchChild \/ PersistIdentity
    BY <1>2, Arrivals DEF Managing
  <2>2. pc \in {"loop", "quarantine", "observe"} \cup Managing
    BY <2>1 DEF PassCompletedTask, PrepareStdout, BeginRecovery, QuarantineOutput, CaptureIdentity, LaunchFails,
                IdentityUnavailable, PersistIdentityFails, AwaitExit, ScopeLingers, InterruptWait, ContextDrifts,
                LaunchChild, PersistIdentity, StopChild, Managing
  <2>3. disk.status = "running"
    BY <2>2 DEF StoryInv
  <2>4. CASE disk' = disk
    BY <2>3, <2>4
  <2>5. CASE disk' # disk
    <3>1. pc \in Managing /\ disk' = mem
      BY <2>2, <2>5, DiskSteps DEF Managing
    <3>2. cur \in Tasks /\ mem.tasks[cur].status = "running"
      BY <3>1, ManagedChild
    <3> QED BY <2>3, <3>1, <3>2, Standing
  <2> QED BY <2>4, <2>5
<1> QED BY <1>1, <1>2

(***************************************************************************)
(* The event log, acknowledged and intended, tells the run that state.json *)
(* records.                                                                *)
(***************************************************************************)
THEOREM StoryInvariant == Spec => []StoryInv
<1>1. Init => StoryInv
  BY DEF Init, StoryInv, LogTellsState, Managing, Committing
<1>2. EngineInv /\ StoreInv /\ StoryInv /\ [Next]_vars => StoryInv'
  <2> SUFFICES ASSUME EngineInv, StoreInv, StoryInv, [Next]_vars PROVE StoryInv'
    OBVIOUS
  <2>1. CASE ChildStep \/ Edit \/ Inspect
    BY <2>1, WorldFrame DEF StoryInv, LogTellsState
  <2>2. CASE UNCHANGED vars
    BY <2>2 DEF StoryInv, LogTellsState, vars, files, locals
  <2>3. CASE Next /\ ~ChildStep /\ ~Edit /\ ~Inspect
    <3>1. LogTellsState'
      BY <2>3, StoryWritten
    <3>2. pc' \in {"loop", "quarantine", "stderr", "observe"} \cup Managing => disk'.status = "running"
      BY <2>3, RunningWhileStanding
    <3>3. pc' = "intent" => /\ Tell(StoryIn(disk'), mem'.pending) = StoryIn(mem')
                            /\ next' \in {"loop", "launch"} => mem'.status = "running"
      BY <2>3, Arrivals, TaskIntentTold, RunIntentTold
    <3>4. pc' \in {"append", "ack"} => pc \in Committing /\ mem' = mem /\ next' = next
      BY <2>3, Arrivals DEF PersistIntent, AppendEvent, Committing, locals
    <3> QED BY <3>1, <3>2, <3>3, <3>4 DEF StoryInv, Committing
  <2> QED BY <2>1, <2>2, <2>3
<1> QED BY <1>1, <1>2, EngineInvariant, StoreInvariant, PTL DEF Spec

(***************************************************************************)
(* LogTellsState for every suite, limit and number of crashes: replaying   *)
(* events.jsonl and the pending event gives the statuses and attempt       *)
(* counts of state.json.                                                   *)
(***************************************************************************)
THEOREM StoryTheorem == Spec => []LogTellsState
<1>1. StoryInv => LogTellsState
  BY DEF StoryInv
<1> QED BY <1>1, StoryInvariant, PTL

(***************************************************************************)
(* The lifecycle.  The transition about to be written leads from the       *)
(* record on disk to the next one of the lifecycle, so the write that      *)
(* makes it durable is a step of RunLifecycle and every other a stutter.   *)
(***************************************************************************)
LEMMA TaskIntentLeads ==
    ASSUME EngineInv, StoreInv, StoryInv, FinishRecovery \/ CompleteAttempt \/ FailAttempt
    PROVE  Leads(disk, mem') /\ disk' = disk
<1>1. pc \in {"quarantine", "observe"} /\ disk' = disk
  BY DEF FinishRecovery, CompleteAttempt, FailAttempt, files
<1>2. /\ cur \in Tasks /\ mem.tasks[cur].status \in {"running", "failed"}
      /\ (CompleteAttempt \/ FailAttempt => mem.tasks[cur].status = "running")
      /\ Touches(mem', disk, cur) /\ mem.tasks[cur].status # "completed"
  BY RecoveryIntent, CompletionIntent, FailureIntent
<1>3. /\ disk.status = "running" /\ At(disk, cur) /\ mem.status = "running"
      /\ mem.tasks[cur].status = disk.tasks[cur].status
  BY <1>1, <1>2, Standing DEF StoryInv
<1>4. /\ AttemptNumber(mem', cur) = AttemptNumber(disk, cur)
      /\ \A u \in Tasks : u # cur => mem'.tasks[u] = disk.tasks[u]
  BY <1>2 DEF Touches, AttemptNumber
<1>5. \/ disk.tasks[cur].status = "running" /\ mem'.tasks[cur].status = "completed" /\ mem'.status = "running"
      \/ disk.tasks[cur].status = "running" /\ mem'.tasks[cur].status = "failed" /\ mem'.status = "failed"
      \/ /\ disk.tasks[cur].status \in {"running", "failed"}
         /\ mem'.tasks[cur].status = "pending" /\ mem'.status = "running"
  <2>1. CASE FinishRecovery BY <1>2, <1>3, <2>1, RecoveryIntent
  <2>2. CASE CompleteAttempt BY <1>2, <1>3, <2>2, CompletionIntent
  <2>3. CASE FailAttempt BY <1>2, <1>3, <2>3, FailureIntent
  <2> QED BY <2>1, <2>2, <2>3
<1> QED BY <1>1, <1>2, <1>3, <1>4, <1>5 DEF Leads

LEMMA RunIntentLeads ==
    ASSUME EngineInv, StoreInv, StoryInv, CreateRun \/ AdmitResume \/ StartAttempt \/ CompleteRun
    PROVE  Leads(disk', mem')
<1>1. CASE CreateRun
  <2>1. disk' = InitialState /\ mem' = [InitialState EXCEPT !.pending = RunEvent("run_started")]
    BY <1>1 DEF CreateRun, BeginCommit
  <2>2. mem'.tasks = InitialState.tasks /\ mem'.status = InitialState.status
    BY <2>1, InitialStateType DEF States
  <2>3. InitialState.status = "running" BY DEF InitialState
  <2> QED BY <2>1, <2>2, <2>3 DEF Leads
<1>2. CASE AdmitResume
  <2>1. /\ pc = "admit" /\ disk' = disk /\ mem = disk /\ disk # Nil
        /\ mem' = [[mem EXCEPT !.status = "running", !.error = FALSE] EXCEPT !.pending = RunEvent("run_resumed")]
    BY <1>2 DEF AdmitResume, BeginCommit, EngineInv, LaunchInv, LedgerInv, Committing, files
  <2>2. disk \in States BY <2>1 DEF EngineInv, TypeOK
  <2>3. mem'.tasks = disk.tasks /\ mem'.status = "running" BY <2>1, <2>2, SMTT(60) DEF States
  <2> QED BY <2>1, <2>3 DEF Leads
<1>3. CASE CompleteRun
  <2>1. /\ pc = "loop" /\ disk' = disk /\ mem = disk /\ cur = TaskCount + 1 /\ disk.status = "running" /\ disk # Nil
        /\ mem' = [[mem EXCEPT !.status = "completed", !.error = FALSE] EXCEPT !.pending = RunEvent("run_completed")]
    BY <1>3 DEF CompleteRun, BeginCommit, StoreInv, CopyInv, StoryInv, EngineInv, LedgerInv, Committing, files
  <2>2. disk \in States BY <2>1 DEF EngineInv, TypeOK
  <2>3. AllCompleted(disk)
    <3>1. \A u \in Tasks : u < cur BY SMTT(60), <2>1, SuiteAssumption DEF Tasks
    <3> QED BY <2>1, <3>1 DEF StoreInv, CopyInv, AllCompleted
  <2>4. mem'.tasks = disk.tasks /\ mem'.status = "completed" BY <2>1, <2>2, SMTT(60) DEF States
  <2> QED BY <2>1, <2>3, <2>4 DEF Leads
<1>4. CASE StartAttempt
  <2>1. /\ cur \in Tasks /\ mem = disk /\ disk.tasks[cur].status = "pending" /\ mem'.tasks[cur].status = "running"
        /\ \A u \in Tasks : u # cur => mem'.tasks[u] = disk.tasks[u]
        /\ AttemptNumber(mem', cur) = AttemptNumber(disk, cur) + 1 /\ mem'.status = "running"
    BY <1>4, StartIntent DEF AttemptNumber
  <2>2. pc = "stderr" /\ disk' = disk /\ disk.status = "running"
    BY <1>4 DEF StartAttempt, StoryInv, files
  <2>3. At(disk, cur)
    BY <2>1, <2>2, Standing
  <2> QED BY <2>1, <2>2, <2>3 DEF Leads
<1> QED BY <1>1, <1>2, <1>3, <1>4

\* Every transition the engine is about to write is one of the lifecycle.
THEOREM StepsInvariant == Spec => []StepsInv
<1>1. Init => StepsInv
  BY DEF Init, StepsInv
<1>2. EngineInv /\ StoreInv /\ StoryInv /\ StepsInv /\ [Next]_vars => StepsInv'
  <2> SUFFICES ASSUME EngineInv, StoreInv, StoryInv, StepsInv, [Next]_vars PROVE StepsInv'
    OBVIOUS
  <2>1. CASE UNCHANGED vars
    BY <2>1 DEF StepsInv, vars, files, locals
  <2>2. CASE Next
    <3> SUFFICES ASSUME pc' = "intent" PROVE Leads(disk', mem') BY DEF StepsInv
    <3>1. CASE ChildStep \/ Edit \/ Inspect BY <3>1, WorldFrame DEF StepsInv
    <3>2. CASE ~ChildStep /\ ~Edit /\ ~Inspect BY <2>2, <3>2, Arrivals, TaskIntentLeads, RunIntentLeads
    <3> QED BY <3>1, <3>2
  <2> QED BY <2>1, <2>2
<1> QED BY <1>1, <1>2, EngineInvariant, StoreInvariant, StoryInvariant, PTL DEF Spec

\* The story of a run of which one task has changed.
LEMMA TaskLeads ==
    ASSUME NEW s \in States, NEW r \in States, Recorded(r), NEW t \in Tasks, At(s, t),
           \A u \in Tasks : u # t => r.tasks[u] = s.tasks[u],
           Story = StoryIn(s), Story' = StoryIn(r), bundle = Nil, bundle' = Nil, s.status = "running"
    PROVE  /\ Story.status = "running" /\ Lifecycle!Reached(t)
           /\ Story.tasks[t].status = s.tasks[t].status /\ Story.tasks[t].attempts = AttemptNumber(s, t)
           /\ Lifecycle!Becomes(t, r.tasks[t].status, AttemptNumber(r, t)) /\ Story'.status = r.status
           /\ AttemptNumber(r, t) = AttemptNumber(s, t) + 1 => AttemptNumber(s, t) < MaxAttemptsPerTask
<1>1. Story.status = "running" /\ \A u \in Tasks : Story.tasks[u].status = s.tasks[u].status
      /\ Story.tasks[t].attempts = AttemptNumber(s, t) /\ Story'.status = r.status
  BY DEF StoryIn
<1>2. \A u \in 1..(t - 1) : u \in Tasks /\ u < t BY SMTT(60), SuiteAssumption DEF Tasks
<1>3. Lifecycle!Reached(t) BY <1>1, <1>2 DEF Lifecycle!Reached, At, Completed
<1> DEFINE patched == [StoryIn(s).tasks EXCEPT ![t] = [status |-> r.tasks[t].status, attempts |-> AttemptNumber(r, t)]]
<1>4. StoryIn(r) = [status |-> r.status, tasks |-> patched] BY StoryPatched
<1>5. Story'.tasks = patched
  <2> HIDE DEF patched
  <2>1. StoryIn(r).tasks = patched BY <1>4, SMTT(60)
  <2> QED BY <2>1
<1>6. Lifecycle!Becomes(t, r.tasks[t].status, AttemptNumber(r, t)) BY <1>5 DEF Lifecycle!Becomes
<1>7. AttemptNumber(r, t) = AttemptNumber(s, t) + 1 => AttemptNumber(s, t) < MaxAttemptsPerTask
  <2>1. AttemptNumber(s, t) \in Nat /\ AttemptNumber(r, t) <= MaxAttemptsPerTask
    <3>1. s.tasks[t].attempts \in Seq(Attempts) BY DEF States, TaskRecords
    <3>2. Len(s.tasks[t].attempts) \in Nat BY <3>1, SMTT(60)
    <3> QED BY <3>2 DEF Recorded, AttemptNumber
  <2> QED BY <2>1, LimitAssumption, SMTT(60)
<1> QED BY <1>1, <1>3, <1>6, <1>7

\* The write of a transition is a step of the lifecycle.
LEMMA LeadsStep ==
    ASSUME NEW s \in States, NEW r \in States, Recorded(r), Leads(s, r),
           Story = StoryIn(s), Story' = StoryIn(r), bundle = Nil, bundle' = Nil
    PROVE  [Lifecycle!Next]_(Lifecycle!vars)
<1>1. CASE /\ r.tasks = s.tasks
           /\ r.status = "running" \/ (r.status = "completed" /\ s.status = "running" /\ AllCompleted(s))
  <2>1. /\ Story'.tasks = Story.tasks /\ Story.status = s.status /\ Story'.status = r.status
        /\ \A u \in Tasks : Story.tasks[u].status = s.tasks[u].status
    BY <1>1 DEF StoryIn, AttemptNumber
  <2>2. CASE r.status = s.status BY <2>1, <2>2 DEF Lifecycle!vars
  <2>3. CASE r.status = "running" /\ s.status # "running"
    <3>1. Lifecycle!Resume BY <2>1, <2>3 DEF Lifecycle!Resume
    <3> QED BY <3>1 DEF Lifecycle!Next
  <2>4. CASE r.status = "completed" /\ s.status = "running" /\ AllCompleted(s)
    <3>1. \A u \in 1..TaskCount : Story.tasks[u].status = "completed" BY <2>1, <2>4 DEF AllCompleted, Completed, Tasks
    <3>2. Lifecycle!Finish BY <2>1, <2>4, <3>1 DEF Lifecycle!Finish
    <3> QED BY <3>2 DEF Lifecycle!Next
  <2> QED BY <1>1, <2>2, <2>3, <2>4
<1>2. ASSUME NEW t \in Tasks, s.status = "running", At(s, t), \A u \in Tasks : u # t => r.tasks[u] = s.tasks[u],
             \/ /\ s.tasks[t].status = "pending" /\ r.tasks[t].status = "running" /\ r.status = "running"
                /\ AttemptNumber(r, t) = AttemptNumber(s, t) + 1
             \/ /\ AttemptNumber(r, t) = AttemptNumber(s, t)
                /\ \/ s.tasks[t].status = "running" /\ r.tasks[t].status = "completed" /\ r.status = "running"
                   \/ s.tasks[t].status = "running" /\ r.tasks[t].status = "failed" /\ r.status = "failed"
                   \/ /\ s.tasks[t].status \in {"running", "failed"}
                      /\ r.tasks[t].status = "pending" /\ r.status = "running"
      PROVE  Lifecycle!Next
  <2>1. /\ Story.status = "running" /\ Lifecycle!Reached(t)
        /\ Story.tasks[t].status = s.tasks[t].status /\ Story.tasks[t].attempts = AttemptNumber(s, t)
        /\ Lifecycle!Becomes(t, r.tasks[t].status, AttemptNumber(r, t)) /\ Story'.status = r.status
        /\ AttemptNumber(r, t) = AttemptNumber(s, t) + 1 => AttemptNumber(s, t) < MaxAttemptsPerTask
    BY <1>2, TaskLeads
  <2>2. CASE s.tasks[t].status = "pending"
    <3>1. Lifecycle!Attempt(t) BY <1>2, <2>1, <2>2 DEF Lifecycle!Attempt
    <3> QED BY <3>1 DEF Lifecycle!Next, Tasks
  <2>3. CASE r.tasks[t].status = "completed"
    <3>1. Lifecycle!Complete(t) BY <1>2, <2>1, <2>3 DEF Lifecycle!Complete
    <3> QED BY <3>1 DEF Lifecycle!Next, Tasks
  <2>4. CASE r.tasks[t].status = "failed"
    <3>1. Lifecycle!Fail(t) BY <1>2, <2>1, <2>4 DEF Lifecycle!Fail
    <3> QED BY <3>1 DEF Lifecycle!Next, Tasks
  <2>5. CASE r.tasks[t].status = "pending"
    <3>1. Lifecycle!Recover(t) BY <1>2, <2>1, <2>5 DEF Lifecycle!Recover
    <3> QED BY <3>1 DEF Lifecycle!Next, Tasks
  <2> QED BY <1>2, <2>2, <2>3, <2>4, <2>5
<1> QED BY <1>1, <1>2 DEF Leads

\* A write that is not a transition leaves the story as it was.
LEMMA StorySteps ==
    ASSUME EngineInv, StoreInv, Next, disk' # disk, pc # "intent"
    PROVE  Story' = Story
<1>1. CASE pc = "create" /\ disk' = InitialState
  <2>1. disk = Nil BY <1>1 DEF EngineInv, LedgerInv
  <2> QED BY <1>1, <2>1, StoryInitially, InitialStateType, NilAssumption DEF Story
<1>2. CASE pc \in {"ack", "reconcile"} /\ disk' = Acknowledged(mem)
  <2>1. mem = disk /\ disk # Nil /\ disk \in States BY <1>2 DEF EngineInv, LedgerInv, TypeOK
  <2>2. disk' # Nil /\ disk'.tasks = disk.tasks /\ disk'.status = disk.status
    <3>0. log \in Seq(Events) BY DEF EngineInv, TypeOK
    <3>1. disk' \in States BY <1>2, <2>1, <3>0 DEF Acknowledged, States
    <3>2. disk'.tasks = disk.tasks /\ disk'.status = disk.status BY <1>2, <2>1 DEF Acknowledged, States
    <3> QED BY <3>1, <3>2, NilAssumption
  <2>3. StoryIn(disk') = StoryIn(disk) BY <2>2, SameStory
  <2> QED BY <2>1, <2>2, <2>3 DEF Story
<1>3. CASE pc \in Managing /\ disk' = mem
  <2>1. cur \in Tasks /\ mem.tasks[cur].status = "running" BY <1>3, ManagedChild
  <2>2. /\ disk # Nil /\ Touches(mem, disk, cur) /\ mem.tasks[cur].status = disk.tasks[cur].status
        /\ mem.status = disk.status /\ mem \in States
    BY <1>3, <2>1, Standing
  <2>3. StoryIn(disk') = StoryIn(disk) BY <1>3, <2>2, SameStory DEF Touches
  <2> QED BY <1>3, <2>2, <2>3, NilAssumption DEF Story
<1> QED BY <1>1, <1>2, <1>3, DiskSteps

(***************************************************************************)
(* FollowsRunLifecycle: for every suite, limit and number of crashes and   *)
(* edits, the engine implements RunLifecycle.                              *)
(***************************************************************************)
THEOREM RunLifecycleTheorem == Spec => FollowsRunLifecycle
<1>1. Init => Lifecycle!Init
  <2> SUFFICES ASSUME Init PROVE Lifecycle!Init OBVIOUS
  <2>1. disk = Nil /\ bundle = Nil BY DEF Init
  <2>2. Story = Untold BY <2>1 DEF Story
  <2>3. Untold.status = "running" /\ Untold.tasks = [t \in Tasks |-> [status |-> "pending", attempts |-> 0]]
    BY DEF Untold
  <2> QED BY <2>1, <2>2, <2>3 DEF Lifecycle!Init, Tasks
<1>2. ASSUME EngineInv, StoreInv, PlaceInv, SealInv, StepsInv, Next PROVE [Lifecycle!Next]_(Lifecycle!vars)
  <2>1. CASE WriteBundle
    <3>1. pc = "publish" /\ disk' = disk BY <2>1 DEF WriteBundle
    <3>2. mem = disk /\ disk # Nil BY <1>2, <3>1 DEF StoreInv, CopyInv, EngineInv, LedgerInv
    <3>3. AllCompleted(disk) /\ disk.status = "completed" BY <1>2, <3>1, <3>2 DEF PlaceInv
    <3>4. Story = StoryIn(disk) /\ Story' = Story BY <3>1, <3>2 DEF Story
    <3>5. Story.status = "completed" /\ \A t \in 1..TaskCount : Story.tasks[t].status = "completed"
      BY <3>3, <3>4 DEF StoryIn, AllCompleted, Completed, Tasks
    <3>6. bundle = Nil BY <1>2, <3>1 DEF SealInv
    <3>7. CASE bundle' # Nil
      <4>1. Lifecycle!Seal BY <3>4, <3>5, <3>6, <3>7 DEF Lifecycle!Seal
      <4> QED BY <4>1 DEF Lifecycle!Next
    <3>8. CASE bundle' = Nil BY <3>4, <3>6, <3>8 DEF Lifecycle!vars
    <3> QED BY <3>7, <3>8
  <2>2. CASE ~WriteBundle
    <3>1. bundle' = bundle BY <1>2, <2>2, WorldChanges
    <3>2. CASE disk' = disk
      <4>1. Story' = Story BY <3>2 DEF Story
      <4> QED BY <3>1, <4>1 DEF Lifecycle!vars
    <3>3. CASE disk' # disk /\ pc # "intent"
      <4>1. Story' = Story BY <1>2, <3>3, StorySteps
      <4> QED BY <3>1, <4>1 DEF Lifecycle!vars
    <3>4. CASE disk' # disk /\ pc = "intent"
      <4>1. disk' = mem BY <1>2, <3>4, DiskSteps DEF Managing
      <4>2. disk # Nil /\ disk \in States /\ mem # Nil /\ mem \in States /\ Recorded(mem)
        BY <1>2, <3>4 DEF EngineInv, LedgerInv, TypeOK, RecordInv
      <4>3. Leads(disk, mem) /\ bundle = Nil BY <1>2, <3>4 DEF StepsInv, SealInv
      <4>4. Story = StoryIn(disk) /\ Story' = StoryIn(mem) BY <4>1, <4>2 DEF Story
      <4> QED BY <3>1, <4>2, <4>3, <4>4, LeadsStep
    <3> QED BY <3>2, <3>3, <3>4
  <2> QED BY <2>1, <2>2
<1>3. UNCHANGED vars => UNCHANGED Lifecycle!vars
  BY DEF vars, files, Lifecycle!vars, Story
<1>4. EngineInv /\ StoreInv /\ PlaceInv /\ SealInv /\ StepsInv /\ [Next]_vars => [Lifecycle!Next]_(Lifecycle!vars)
  BY <1>2, <1>3
<1> QED BY <1>1, <1>4, EngineInvariant, StoreInvariant, PlaceInvariant, SealInvariant, StepsInvariant, PTL
        DEF Spec, FollowsRunLifecycle, Lifecycle!Spec

=============================================================================
