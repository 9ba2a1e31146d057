--------------------------- MODULE PlatformProofs ---------------------------
(***************************************************************************)
(* Proofs about what a runner asks of its platform: the Windows Job around *)
(* a task, JobScope, for a family of any size and any number of failures,  *)
(* and the observation of the workspace, WorkspaceScan, for every tree,    *)
(* every set of keys and contents and any number of edits.                 *)
(***************************************************************************)
EXTENDS JobScope, WorkspaceScan, FiniteSetTheorems, TLAPS

USE ZenonT(60)

(***************************************************************************)
(* The inductive invariant follows the launch: nobody exists before Popen, *)
(* the leader alone and suspended until it is resumed, the members of the  *)
(* Job from then on; a cleanup without errors has stopped all but a        *)
(* leader that it does not know of.                                        *)
(***************************************************************************)
OnlyLeader == \A p \in Procs : p # JobLeader => proc[p] = "none"

SuspendedInv ==
  /\ \A p \in Procs : proc[p] = "suspended" => p = JobLeader
  /\ proc[JobLeader] = "suspended" => launchGuard

MemberInv == \A p \in members : proc[p] \in {"live", "suspended"} => job = "open"

LaunchInv ==
  /\ pc = "create" => job = "none"
  /\ pc \in {"create", "popen"} => launchGuard /\ members = {} /\ \A p \in Procs : proc[p] = "none"
  /\ pc \in {"assign", "resume"} => OnlyLeader /\ proc[JobLeader] = "suspended"
  /\ pc \in {"create", "popen", "assign", "resume"} => ~errors
  /\ pc \in {"popen", "assign", "resume"} => job = "open"
  /\ pc \in {"resume", "cleanupTerminate", "cleanupWait"} => JobLeader \in members
  /\ pc \in {"cleanupTerminate", "cleanupWait"} =>
       /\ ~errors
       /\ \A p \in Procs : Exists(p) => p \in members

CleanupInv ==
  /\ pc \in {"cleanupKill", "cleanupReap"} /\ ~errors =>
       \A p \in Procs : Exists(p) => p = JobLeader /\ proc[p] # "live"
  /\ pc \in {"cleanupReap"} => proc[JobLeader] # "suspended"
  /\ pc = "cleanupJob" /\ ~errors =>
       \A p \in Procs : Exists(p) => stray /\ p = JobLeader /\ proc[p] = "suspended" /\ p \notin members

RunInv ==
  /\ pc \in {"launched", "waiting", "settle", "terminate", "await", "close", "closeHandle"} =>
       /\ job = "open" /\ JobLeader \in members /\ proc[JobLeader] # "suspended"
       /\ \A p \in Procs : Exists(p) => p \in members
  /\ pc = "closeHandle" => Listed = {}
  /\ pc \in {"gone", "liveness", "admitted"} => job # "open"
  /\ pc \in {"liveness", "admitted"} => ~launchGuard

JobInv == JobTypeOK /\ RunsOnlyInJob /\ EndsQuiet /\ SuspendedInv /\ MemberInv
          /\ LaunchInv /\ CleanupInv /\ RunInv

LEMMA InitJob == JobInit => JobInv
<1> SUFFICES ASSUME JobInit PROVE JobInv
  OBVIOUS
<1> USE JobConstants DEF JobInit, Exists, Listed
<1>1. JobTypeOK
  <2>1. /\ proc \in [Procs -> {"none", "suspended", "live", "doomed", "exited"}]
        /\ members \subseteq Procs
    BY DEF JobTypeOK, JobPlaces
  <2>2. /\ job \in {"none", "open", "closed"} /\ pc \in JobPlaces
        /\ after \in {"none", "hash", "failed", "raise"} /\ faults \in 0..MaxJobFailures
    BY SMTT(60) DEF JobTypeOK, JobPlaces
  <2>3. /\ stranger \in BOOLEAN /\ errors \in BOOLEAN /\ inJobClose \in BOOLEAN
        /\ inFinally \in BOOLEAN /\ launchGuard \in BOOLEAN /\ otherToken \in BOOLEAN
        /\ stray \in BOOLEAN
    BY DEF JobTypeOK, JobPlaces
  <2> QED BY <2>1, <2>2, <2>3 DEF JobTypeOK
<1>2. RunsOnlyInJob /\ EndsQuiet /\ SuspendedInv /\ MemberInv
  BY DEF RunsOnlyInJob, EndsQuiet, SuspendedInv, MemberInv
<1>3. LaunchInv /\ CleanupInv /\ RunInv
  BY DEF LaunchInv, CleanupInv, RunInv, OnlyLeader
<1> QED BY <1>1, <1>2, <1>3 DEF JobInv

\* A live process forks.
LEMMA ForkStep ==
  ASSUME JobInv, NEW p \in Procs, JobFork(p)
  PROVE  JobInv'
<1>0. JobTypeOK /\ RunsOnlyInJob /\ EndsQuiet /\ SuspendedInv
      /\ MemberInv /\ LaunchInv /\ CleanupInv /\ RunInv
  BY DEF JobInv
<1> USE JobConstants DEF JobFork, system, attempt, Exists, Listed, KillMembers, Fails, JobRaise
<1>1. JobTypeOK'
  BY SMTT(60), <1>0 DEF JobTypeOK, JobPlaces
<1>2. RunsOnlyInJob'
  BY <1>0 DEF RunsOnlyInJob, MemberInv, LaunchInv, RunInv, CleanupInv, JobTypeOK, OnlyLeader
<1>3. EndsQuiet'
  BY <1>0 DEF EndsQuiet, CleanupInv, RunInv, LaunchInv, SuspendedInv, JobTypeOK, OnlyLeader
<1>4. SuspendedInv'
  BY <1>0 DEF SuspendedInv, LaunchInv, RunInv, CleanupInv, JobTypeOK, OnlyLeader
<1>5. MemberInv'
  BY <1>0 DEF MemberInv, LaunchInv, RunsOnlyInJob, RunInv, JobTypeOK, OnlyLeader
<1>6. LaunchInv'
  BY <1>0 DEF LaunchInv, OnlyLeader, RunsOnlyInJob, CleanupInv, JobTypeOK
<1>7. CleanupInv'
  BY <1>0 DEF CleanupInv, LaunchInv, RunsOnlyInJob, SuspendedInv, RunInv, JobTypeOK, OnlyLeader
<1>8. RunInv'
  BY <1>0 DEF RunInv, LaunchInv, RunsOnlyInJob, SuspendedInv, CleanupInv, MemberInv, JobTypeOK,
     OnlyLeader
<1> QED BY <1>1, <1>2, <1>3, <1>4, <1>5, <1>6, <1>7, <1>8 DEF JobInv

\* A process exits.
LEMMA ExitStep ==
  ASSUME JobInv, NEW p \in Procs, JobExit(p)
  PROVE  JobInv'
<1>0. JobTypeOK /\ RunsOnlyInJob /\ EndsQuiet /\ SuspendedInv
      /\ MemberInv /\ LaunchInv /\ CleanupInv /\ RunInv
  BY DEF JobInv
<1> USE JobConstants DEF JobExit, system, attempt, Exists, Listed, KillMembers, Fails, JobRaise
<1>1. JobTypeOK'
  BY SMTT(60), <1>0 DEF JobTypeOK, JobPlaces
<1>2. RunsOnlyInJob'
  BY <1>0 DEF RunsOnlyInJob, MemberInv, LaunchInv, RunInv, CleanupInv, JobTypeOK, OnlyLeader
<1>3. EndsQuiet'
  BY <1>0 DEF EndsQuiet, CleanupInv, RunInv, LaunchInv, SuspendedInv, JobTypeOK, OnlyLeader
<1>4. SuspendedInv'
  BY <1>0 DEF SuspendedInv, LaunchInv, RunInv, CleanupInv, JobTypeOK, OnlyLeader
<1>5. MemberInv'
  BY <1>0 DEF MemberInv, LaunchInv, RunsOnlyInJob, RunInv, JobTypeOK, OnlyLeader
<1>6. LaunchInv'
  BY <1>0 DEF LaunchInv, OnlyLeader, RunsOnlyInJob, CleanupInv, JobTypeOK
<1>7. CleanupInv'
  BY <1>0 DEF CleanupInv, LaunchInv, RunsOnlyInJob, SuspendedInv, RunInv, JobTypeOK, OnlyLeader
<1>8. RunInv'
  BY <1>0 DEF RunInv, LaunchInv, RunsOnlyInJob, SuspendedInv, CleanupInv, MemberInv, JobTypeOK,
     OnlyLeader
<1> QED BY <1>1, <1>2, <1>3, <1>4, <1>5, <1>6, <1>7, <1>8 DEF JobInv

\* The leader's id is given to a stranger.
LEMMA ReuseStep ==
  ASSUME JobInv, JobReuse
  PROVE  JobInv'
<1>0. JobTypeOK /\ RunsOnlyInJob /\ EndsQuiet /\ SuspendedInv
      /\ MemberInv /\ LaunchInv /\ CleanupInv /\ RunInv
  BY DEF JobInv
<1> USE JobConstants DEF JobReuse, system, attempt, Exists, Listed, KillMembers, Fails, JobRaise
<1>1. JobTypeOK'
  BY SMTT(60), <1>0 DEF JobTypeOK, JobPlaces
<1>2. RunsOnlyInJob'
  BY <1>0 DEF RunsOnlyInJob, MemberInv, LaunchInv, RunInv, CleanupInv, JobTypeOK, OnlyLeader
<1>3. EndsQuiet'
  BY <1>0 DEF EndsQuiet, CleanupInv, RunInv, LaunchInv, SuspendedInv, JobTypeOK, OnlyLeader
<1>4. SuspendedInv'
  BY <1>0 DEF SuspendedInv, LaunchInv, RunInv, CleanupInv, JobTypeOK, OnlyLeader
<1>5. MemberInv'
  BY <1>0 DEF MemberInv, LaunchInv, RunsOnlyInJob, RunInv, JobTypeOK, OnlyLeader
<1>6. LaunchInv'
  BY <1>0 DEF LaunchInv, OnlyLeader, RunsOnlyInJob, CleanupInv, JobTypeOK
<1>7. CleanupInv'
  BY <1>0 DEF CleanupInv, LaunchInv, RunsOnlyInJob, SuspendedInv, RunInv, JobTypeOK, OnlyLeader
<1>8. RunInv'
  BY <1>0 DEF RunInv, LaunchInv, RunsOnlyInJob, SuspendedInv, CleanupInv, MemberInv, JobTypeOK,
     OnlyLeader
<1> QED BY <1>1, <1>2, <1>3, <1>4, <1>5, <1>6, <1>7, <1>8 DEF JobInv

\* The Job is created.
LEMMA CreateJobStep ==
  ASSUME JobInv, CreateJob
  PROVE  JobInv'
<1>0. JobTypeOK /\ RunsOnlyInJob /\ EndsQuiet /\ SuspendedInv
      /\ MemberInv /\ LaunchInv /\ CleanupInv /\ RunInv
  BY DEF JobInv
<1> USE JobConstants DEF CreateJob, system, attempt, Exists, Listed, KillMembers, Fails, JobRaise
<1>1. JobTypeOK'
  BY SMTT(60), <1>0 DEF JobTypeOK, JobPlaces
<1>2. RunsOnlyInJob'
  BY <1>0 DEF RunsOnlyInJob, MemberInv, LaunchInv, RunInv, CleanupInv, JobTypeOK, OnlyLeader
<1>3. EndsQuiet'
  BY <1>0 DEF EndsQuiet, CleanupInv, RunInv, LaunchInv, SuspendedInv, JobTypeOK, OnlyLeader
<1>4. SuspendedInv'
  BY <1>0 DEF SuspendedInv, LaunchInv, RunInv, CleanupInv, JobTypeOK, OnlyLeader
<1>5. MemberInv'
  BY <1>0 DEF MemberInv, LaunchInv, RunsOnlyInJob, RunInv, JobTypeOK, OnlyLeader
<1>6. LaunchInv'
  BY <1>0 DEF LaunchInv, OnlyLeader, RunsOnlyInJob, CleanupInv, JobTypeOK
<1>7. CleanupInv'
  BY <1>0 DEF CleanupInv, LaunchInv, RunsOnlyInJob, SuspendedInv, RunInv, JobTypeOK, OnlyLeader
<1>8. RunInv'
  BY <1>0 DEF RunInv, LaunchInv, RunsOnlyInJob, SuspendedInv, CleanupInv, MemberInv, JobTypeOK,
     OnlyLeader
<1> QED BY <1>1, <1>2, <1>3, <1>4, <1>5, <1>6, <1>7, <1>8 DEF JobInv

\* The Job cannot be created.
LEMMA CreateJobFailsStep ==
  ASSUME JobInv, CreateJobFails
  PROVE  JobInv'
<1>0. JobTypeOK /\ RunsOnlyInJob /\ EndsQuiet /\ SuspendedInv
      /\ MemberInv /\ LaunchInv /\ CleanupInv /\ RunInv
  BY DEF JobInv
<1> USE JobConstants DEF CreateJobFails, system, attempt, Exists, Listed, KillMembers, Fails, JobRaise
<1>1. JobTypeOK'
  BY SMTT(60), <1>0 DEF JobTypeOK, JobPlaces
<1>2. RunsOnlyInJob'
  BY <1>0 DEF RunsOnlyInJob, MemberInv, LaunchInv, RunInv, CleanupInv, JobTypeOK, OnlyLeader
<1>3. EndsQuiet'
  BY <1>0 DEF EndsQuiet, CleanupInv, RunInv, LaunchInv, SuspendedInv, JobTypeOK, OnlyLeader
<1>4. SuspendedInv'
  BY <1>0 DEF SuspendedInv, LaunchInv, RunInv, CleanupInv, JobTypeOK, OnlyLeader
<1>5. MemberInv'
  BY <1>0 DEF MemberInv, LaunchInv, RunsOnlyInJob, RunInv, JobTypeOK, OnlyLeader
<1>6. LaunchInv'
  BY <1>0 DEF LaunchInv, OnlyLeader, RunsOnlyInJob, CleanupInv, JobTypeOK
<1>7. CleanupInv'
  BY <1>0 DEF CleanupInv, LaunchInv, RunsOnlyInJob, SuspendedInv, RunInv, JobTypeOK, OnlyLeader
<1>8. RunInv'
  BY <1>0 DEF RunInv, LaunchInv, RunsOnlyInJob, SuspendedInv, CleanupInv, MemberInv, JobTypeOK,
     OnlyLeader
<1> QED BY <1>1, <1>2, <1>3, <1>4, <1>5, <1>6, <1>7, <1>8 DEF JobInv

\* The leader is created suspended.
LEMMA PopenStep ==
  ASSUME JobInv, Popen
  PROVE  JobInv'
<1>0. JobTypeOK /\ RunsOnlyInJob /\ EndsQuiet /\ SuspendedInv
      /\ MemberInv /\ LaunchInv /\ CleanupInv /\ RunInv
  BY DEF JobInv
<1> USE JobConstants DEF Popen, system, attempt, Exists, Listed, KillMembers, Fails, JobRaise
<1>1. JobTypeOK'
  BY SMTT(60), <1>0 DEF JobTypeOK, JobPlaces
<1>2. RunsOnlyInJob'
  BY <1>0 DEF RunsOnlyInJob, MemberInv, LaunchInv, RunInv, CleanupInv, JobTypeOK, OnlyLeader
<1>3. EndsQuiet'
  BY <1>0 DEF EndsQuiet, CleanupInv, RunInv, LaunchInv, SuspendedInv, JobTypeOK, OnlyLeader
<1>4. SuspendedInv'
  BY <1>0 DEF SuspendedInv, LaunchInv, RunInv, CleanupInv, JobTypeOK, OnlyLeader
<1>5. MemberInv'
  BY <1>0 DEF MemberInv, LaunchInv, RunsOnlyInJob, RunInv, JobTypeOK, OnlyLeader
<1>6. LaunchInv'
  BY <1>0 DEF LaunchInv, OnlyLeader, RunsOnlyInJob, CleanupInv, JobTypeOK
<1>7. CleanupInv'
  BY <1>0 DEF CleanupInv, LaunchInv, RunsOnlyInJob, SuspendedInv, RunInv, JobTypeOK, OnlyLeader
<1>8. RunInv'
  BY <1>0 DEF RunInv, LaunchInv, RunsOnlyInJob, SuspendedInv, CleanupInv, MemberInv, JobTypeOK,
     OnlyLeader
<1> QED BY <1>1, <1>2, <1>3, <1>4, <1>5, <1>6, <1>7, <1>8 DEF JobInv

\* Popen raises, perhaps after the process was created.
LEMMA PopenFailsStep ==
  ASSUME JobInv, PopenFails
  PROVE  JobInv'
<1>0. JobTypeOK /\ RunsOnlyInJob /\ EndsQuiet /\ SuspendedInv
      /\ MemberInv /\ LaunchInv /\ CleanupInv /\ RunInv
  BY DEF JobInv
<1> USE JobConstants DEF PopenFails, system, attempt, Exists, Listed, KillMembers, Fails, JobRaise
<1>1. JobTypeOK'
  <2>1. /\ proc' \in [Procs -> {"none", "suspended", "live", "doomed", "exited"}]
        /\ members' \subseteq Procs
    BY <1>0 DEF JobTypeOK, JobPlaces
  <2>2. /\ job' \in {"none", "open", "closed"} /\ pc' \in JobPlaces
        /\ after' \in {"none", "hash", "failed", "raise"} /\ faults' \in 0..MaxJobFailures
    BY SMTT(60), <1>0 DEF JobTypeOK, JobPlaces
  <2>3. /\ stranger' \in BOOLEAN /\ errors' \in BOOLEAN /\ inJobClose' \in BOOLEAN
        /\ inFinally' \in BOOLEAN /\ launchGuard' \in BOOLEAN /\ otherToken' \in BOOLEAN
        /\ stray' \in BOOLEAN
    BY <1>0 DEF JobTypeOK, JobPlaces
  <2> QED BY <2>1, <2>2, <2>3 DEF JobTypeOK
<1>2. RunsOnlyInJob'
  BY <1>0 DEF RunsOnlyInJob, MemberInv, LaunchInv, RunInv, CleanupInv, JobTypeOK, OnlyLeader
<1>3. EndsQuiet'
  BY <1>0 DEF EndsQuiet, CleanupInv, RunInv, LaunchInv, SuspendedInv, JobTypeOK, OnlyLeader
<1>4. SuspendedInv'
  BY <1>0 DEF SuspendedInv, LaunchInv, RunInv, CleanupInv, JobTypeOK, OnlyLeader
<1>5. MemberInv'
  BY <1>0 DEF MemberInv, LaunchInv, RunsOnlyInJob, RunInv, JobTypeOK, OnlyLeader
<1>6. LaunchInv'
  BY <1>0 DEF LaunchInv, OnlyLeader, RunsOnlyInJob, CleanupInv, JobTypeOK
<1>7. CleanupInv'
  BY <1>0 DEF CleanupInv, LaunchInv, RunsOnlyInJob, SuspendedInv, RunInv, JobTypeOK, OnlyLeader
<1>8. RunInv'
  BY <1>0 DEF RunInv, LaunchInv, RunsOnlyInJob, SuspendedInv, CleanupInv, MemberInv, JobTypeOK,
     OnlyLeader
<1> QED BY <1>1, <1>2, <1>3, <1>4, <1>5, <1>6, <1>7, <1>8 DEF JobInv

\* The leader is assigned to the Job.
LEMMA AssignStep ==
  ASSUME JobInv, Assign
  PROVE  JobInv'
<1>0. JobTypeOK /\ RunsOnlyInJob /\ EndsQuiet /\ SuspendedInv
      /\ MemberInv /\ LaunchInv /\ CleanupInv /\ RunInv
  BY DEF JobInv
<1> USE JobConstants DEF Assign, system, attempt, Exists, Listed, KillMembers, Fails, JobRaise
<1>1. JobTypeOK'
  BY SMTT(60), <1>0 DEF JobTypeOK, JobPlaces
<1>2. RunsOnlyInJob'
  BY <1>0 DEF RunsOnlyInJob, MemberInv, LaunchInv, RunInv, CleanupInv, JobTypeOK, OnlyLeader
<1>3. EndsQuiet'
  BY <1>0 DEF EndsQuiet, CleanupInv, RunInv, LaunchInv, SuspendedInv, JobTypeOK, OnlyLeader
<1>4. SuspendedInv'
  BY <1>0 DEF SuspendedInv, LaunchInv, RunInv, CleanupInv, JobTypeOK, OnlyLeader
<1>5. MemberInv'
  BY <1>0 DEF MemberInv, LaunchInv, RunsOnlyInJob, RunInv, JobTypeOK, OnlyLeader
<1>6. LaunchInv'
  BY <1>0 DEF LaunchInv, OnlyLeader, RunsOnlyInJob, CleanupInv, JobTypeOK
<1>7. CleanupInv'
  BY <1>0 DEF CleanupInv, LaunchInv, RunsOnlyInJob, SuspendedInv, RunInv, JobTypeOK, OnlyLeader
<1>8. RunInv'
  BY <1>0 DEF RunInv, LaunchInv, RunsOnlyInJob, SuspendedInv, CleanupInv, MemberInv, JobTypeOK,
     OnlyLeader
<1> QED BY <1>1, <1>2, <1>3, <1>4, <1>5, <1>6, <1>7, <1>8 DEF JobInv

\* The assignment raises.
LEMMA AssignFailsStep ==
  ASSUME JobInv, AssignFails
  PROVE  JobInv'
<1>0. JobTypeOK /\ RunsOnlyInJob /\ EndsQuiet /\ SuspendedInv
      /\ MemberInv /\ LaunchInv /\ CleanupInv /\ RunInv
  BY DEF JobInv
<1> USE JobConstants DEF AssignFails, system, attempt, Exists, Listed, KillMembers, Fails, JobRaise
<1>1. JobTypeOK'
  BY SMTT(60), <1>0 DEF JobTypeOK, JobPlaces
<1>2. RunsOnlyInJob'
  BY <1>0 DEF RunsOnlyInJob, MemberInv, LaunchInv, RunInv, CleanupInv, JobTypeOK, OnlyLeader
<1>3. EndsQuiet'
  BY <1>0 DEF EndsQuiet, CleanupInv, RunInv, LaunchInv, SuspendedInv, JobTypeOK, OnlyLeader
<1>4. SuspendedInv'
  BY <1>0 DEF SuspendedInv, LaunchInv, RunInv, CleanupInv, JobTypeOK, OnlyLeader
<1>5. MemberInv'
  BY <1>0 DEF MemberInv, LaunchInv, RunsOnlyInJob, RunInv, JobTypeOK, OnlyLeader
<1>6. LaunchInv'
  BY <1>0 DEF LaunchInv, OnlyLeader, RunsOnlyInJob, CleanupInv, JobTypeOK
<1>7. CleanupInv'
  BY <1>0 DEF CleanupInv, LaunchInv, RunsOnlyInJob, SuspendedInv, RunInv, JobTypeOK, OnlyLeader
<1>8. RunInv'
  BY <1>0 DEF RunInv, LaunchInv, RunsOnlyInJob, SuspendedInv, CleanupInv, MemberInv, JobTypeOK,
     OnlyLeader
<1> QED BY <1>1, <1>2, <1>3, <1>4, <1>5, <1>6, <1>7, <1>8 DEF JobInv

\* The leader is resumed inside the Job.
LEMMA ResumeThreadStep ==
  ASSUME JobInv, ResumeThread
  PROVE  JobInv'
<1>0. JobTypeOK /\ RunsOnlyInJob /\ EndsQuiet /\ SuspendedInv
      /\ MemberInv /\ LaunchInv /\ CleanupInv /\ RunInv
  BY DEF JobInv
<1> USE JobConstants DEF ResumeThread, system, attempt, Exists, Listed, KillMembers, Fails, JobRaise
<1>1. JobTypeOK'
  BY SMTT(60), <1>0 DEF JobTypeOK, JobPlaces
<1>2. RunsOnlyInJob'
  BY <1>0 DEF RunsOnlyInJob, MemberInv, LaunchInv, RunInv, CleanupInv, JobTypeOK, OnlyLeader
<1>3. EndsQuiet'
  BY <1>0 DEF EndsQuiet, CleanupInv, RunInv, LaunchInv, SuspendedInv, JobTypeOK, OnlyLeader
<1>4. SuspendedInv'
  BY <1>0 DEF SuspendedInv, LaunchInv, RunInv, CleanupInv, JobTypeOK, OnlyLeader
<1>5. MemberInv'
  BY <1>0 DEF MemberInv, LaunchInv, RunsOnlyInJob, RunInv, JobTypeOK, OnlyLeader
<1>6. LaunchInv'
  BY <1>0 DEF LaunchInv, OnlyLeader, RunsOnlyInJob, CleanupInv, JobTypeOK
<1>7. CleanupInv'
  BY <1>0 DEF CleanupInv, LaunchInv, RunsOnlyInJob, SuspendedInv, RunInv, JobTypeOK, OnlyLeader
<1>8. RunInv'
  BY <1>0 DEF RunInv, LaunchInv, RunsOnlyInJob, SuspendedInv, CleanupInv, MemberInv, JobTypeOK,
     OnlyLeader
<1> QED BY <1>1, <1>2, <1>3, <1>4, <1>5, <1>6, <1>7, <1>8 DEF JobInv

\* The resumption raises.
LEMMA ResumeThreadFailsStep ==
  ASSUME JobInv, ResumeThreadFails
  PROVE  JobInv'
<1>0. JobTypeOK /\ RunsOnlyInJob /\ EndsQuiet /\ SuspendedInv
      /\ MemberInv /\ LaunchInv /\ CleanupInv /\ RunInv
  BY DEF JobInv
<1> USE JobConstants DEF ResumeThreadFails, system, attempt, Exists, Listed, KillMembers, Fails, JobRaise
<1>1. JobTypeOK'
  BY SMTT(60), <1>0 DEF JobTypeOK, JobPlaces
<1>2. RunsOnlyInJob'
  BY <1>0 DEF RunsOnlyInJob, MemberInv, LaunchInv, RunInv, CleanupInv, JobTypeOK, OnlyLeader
<1>3. EndsQuiet'
  BY <1>0 DEF EndsQuiet, CleanupInv, RunInv, LaunchInv, SuspendedInv, JobTypeOK, OnlyLeader
<1>4. SuspendedInv'
  BY <1>0 DEF SuspendedInv, LaunchInv, RunInv, CleanupInv, JobTypeOK, OnlyLeader
<1>5. MemberInv'
  BY <1>0 DEF MemberInv, LaunchInv, RunsOnlyInJob, RunInv, JobTypeOK, OnlyLeader
<1>6. LaunchInv'
  BY <1>0 DEF LaunchInv, OnlyLeader, RunsOnlyInJob, CleanupInv, JobTypeOK
<1>7. CleanupInv'
  BY <1>0 DEF CleanupInv, LaunchInv, RunsOnlyInJob, SuspendedInv, RunInv, JobTypeOK, OnlyLeader
<1>8. RunInv'
  BY <1>0 DEF RunInv, LaunchInv, RunsOnlyInJob, SuspendedInv, CleanupInv, MemberInv, JobTypeOK,
     OnlyLeader
<1> QED BY <1>1, <1>2, <1>3, <1>4, <1>5, <1>6, <1>7, <1>8 DEF JobInv

\* The members are terminated.
LEMMA CleanupTerminateStep ==
  ASSUME JobInv, CleanupTerminate
  PROVE  JobInv'
<1>0. JobTypeOK /\ RunsOnlyInJob /\ EndsQuiet /\ SuspendedInv
      /\ MemberInv /\ LaunchInv /\ CleanupInv /\ RunInv
  BY DEF JobInv
<1> USE JobConstants DEF CleanupTerminate, system, attempt, Exists, Listed, KillMembers, Fails, JobRaise
<1>1. JobTypeOK'
  BY SMTT(60), <1>0 DEF JobTypeOK, JobPlaces
<1>2. RunsOnlyInJob'
  BY <1>0 DEF RunsOnlyInJob, MemberInv, LaunchInv, RunInv, CleanupInv, JobTypeOK, OnlyLeader
<1>3. EndsQuiet'
  BY <1>0 DEF EndsQuiet, CleanupInv, RunInv, LaunchInv, SuspendedInv, JobTypeOK, OnlyLeader
<1>4. SuspendedInv'
  BY <1>0 DEF SuspendedInv, LaunchInv, RunInv, CleanupInv, JobTypeOK, OnlyLeader
<1>5. MemberInv'
  BY <1>0 DEF MemberInv, LaunchInv, RunsOnlyInJob, RunInv, JobTypeOK, OnlyLeader
<1>6. LaunchInv'
  BY <1>0 DEF LaunchInv, OnlyLeader, RunsOnlyInJob, CleanupInv, JobTypeOK
<1>7. CleanupInv'
  BY <1>0 DEF CleanupInv, LaunchInv, RunsOnlyInJob, SuspendedInv, RunInv, JobTypeOK, OnlyLeader
<1>8. RunInv'
  BY <1>0 DEF RunInv, LaunchInv, RunsOnlyInJob, SuspendedInv, CleanupInv, MemberInv, JobTypeOK,
     OnlyLeader
<1> QED BY <1>1, <1>2, <1>3, <1>4, <1>5, <1>6, <1>7, <1>8 DEF JobInv

\* The Job has become empty.
LEMMA CleanupWaitStep ==
  ASSUME JobInv, CleanupWait
  PROVE  JobInv'
<1>0. JobTypeOK /\ RunsOnlyInJob /\ EndsQuiet /\ SuspendedInv
      /\ MemberInv /\ LaunchInv /\ CleanupInv /\ RunInv
  BY DEF JobInv
<1> USE JobConstants DEF CleanupWait, system, attempt, Exists, Listed, KillMembers, Fails, JobRaise
<1>1. JobTypeOK'
  BY SMTT(60), <1>0 DEF JobTypeOK, JobPlaces
<1>2. RunsOnlyInJob'
  BY <1>0 DEF RunsOnlyInJob, MemberInv, LaunchInv, RunInv, CleanupInv, JobTypeOK, OnlyLeader
<1>3. EndsQuiet'
  BY <1>0 DEF EndsQuiet, CleanupInv, RunInv, LaunchInv, SuspendedInv, JobTypeOK, OnlyLeader
<1>4. SuspendedInv'
  BY <1>0 DEF SuspendedInv, LaunchInv, RunInv, CleanupInv, JobTypeOK, OnlyLeader
<1>5. MemberInv'
  BY <1>0 DEF MemberInv, LaunchInv, RunsOnlyInJob, RunInv, JobTypeOK, OnlyLeader
<1>6. LaunchInv'
  BY <1>0 DEF LaunchInv, OnlyLeader, RunsOnlyInJob, CleanupInv, JobTypeOK
<1>7. CleanupInv'
  BY <1>0 DEF CleanupInv, LaunchInv, RunsOnlyInJob, SuspendedInv, RunInv, JobTypeOK, OnlyLeader
<1>8. RunInv'
  BY <1>0 DEF RunInv, LaunchInv, RunsOnlyInJob, SuspendedInv, CleanupInv, MemberInv, JobTypeOK,
     OnlyLeader
<1> QED BY <1>1, <1>2, <1>3, <1>4, <1>5, <1>6, <1>7, <1>8 DEF JobInv

\* The termination is not confirmed.
LEMMA CleanupTerminateFailsStep ==
  ASSUME JobInv, CleanupTerminateFails
  PROVE  JobInv'
<1>0. JobTypeOK /\ RunsOnlyInJob /\ EndsQuiet /\ SuspendedInv
      /\ MemberInv /\ LaunchInv /\ CleanupInv /\ RunInv
  BY DEF JobInv
<1> USE JobConstants DEF CleanupTerminateFails, system, attempt, Exists, Listed, KillMembers, Fails, JobRaise
<1>1. JobTypeOK'
  BY SMTT(60), <1>0 DEF JobTypeOK, JobPlaces
<1>2. RunsOnlyInJob'
  BY <1>0 DEF RunsOnlyInJob, MemberInv, LaunchInv, RunInv, CleanupInv, JobTypeOK, OnlyLeader
<1>3. EndsQuiet'
  BY <1>0 DEF EndsQuiet, CleanupInv, RunInv, LaunchInv, SuspendedInv, JobTypeOK, OnlyLeader
<1>4. SuspendedInv'
  BY <1>0 DEF SuspendedInv, LaunchInv, RunInv, CleanupInv, JobTypeOK, OnlyLeader
<1>5. MemberInv'
  BY <1>0 DEF MemberInv, LaunchInv, RunsOnlyInJob, RunInv, JobTypeOK, OnlyLeader
<1>6. LaunchInv'
  BY <1>0 DEF LaunchInv, OnlyLeader, RunsOnlyInJob, CleanupInv, JobTypeOK
<1>7. CleanupInv'
  BY <1>0 DEF CleanupInv, LaunchInv, RunsOnlyInJob, SuspendedInv, RunInv, JobTypeOK, OnlyLeader
<1>8. RunInv'
  BY <1>0 DEF RunInv, LaunchInv, RunsOnlyInJob, SuspendedInv, CleanupInv, MemberInv, JobTypeOK,
     OnlyLeader
<1> QED BY <1>1, <1>2, <1>3, <1>4, <1>5, <1>6, <1>7, <1>8 DEF JobInv

\* The leader is killed.
LEMMA CleanupKillStep ==
  ASSUME JobInv, CleanupKill
  PROVE  JobInv'
<1>0. JobTypeOK /\ RunsOnlyInJob /\ EndsQuiet /\ SuspendedInv
      /\ MemberInv /\ LaunchInv /\ CleanupInv /\ RunInv
  BY DEF JobInv
<1> USE JobConstants DEF CleanupKill, system, attempt, Exists, Listed, KillMembers, Fails, JobRaise
<1>1. JobTypeOK'
  BY SMTT(60), <1>0 DEF JobTypeOK, JobPlaces
<1>2. RunsOnlyInJob'
  BY <1>0 DEF RunsOnlyInJob, MemberInv, LaunchInv, RunInv, CleanupInv, JobTypeOK, OnlyLeader
<1>3. EndsQuiet'
  BY <1>0 DEF EndsQuiet, CleanupInv, RunInv, LaunchInv, SuspendedInv, JobTypeOK, OnlyLeader
<1>4. SuspendedInv'
  BY <1>0 DEF SuspendedInv, LaunchInv, RunInv, CleanupInv, JobTypeOK, OnlyLeader
<1>5. MemberInv'
  BY <1>0 DEF MemberInv, LaunchInv, RunsOnlyInJob, RunInv, JobTypeOK, OnlyLeader
<1>6. LaunchInv'
  BY <1>0 DEF LaunchInv, OnlyLeader, RunsOnlyInJob, CleanupInv, JobTypeOK
<1>7. CleanupInv'
  BY <1>0 DEF CleanupInv, LaunchInv, RunsOnlyInJob, SuspendedInv, RunInv, JobTypeOK, OnlyLeader
<1>8. RunInv'
  BY <1>0 DEF RunInv, LaunchInv, RunsOnlyInJob, SuspendedInv, CleanupInv, MemberInv, JobTypeOK,
     OnlyLeader
<1> QED BY <1>1, <1>2, <1>3, <1>4, <1>5, <1>6, <1>7, <1>8 DEF JobInv

\* The leader has exited.
LEMMA CleanupReapStep ==
  ASSUME JobInv, CleanupReap
  PROVE  JobInv'
<1>0. JobTypeOK /\ RunsOnlyInJob /\ EndsQuiet /\ SuspendedInv
      /\ MemberInv /\ LaunchInv /\ CleanupInv /\ RunInv
  BY DEF JobInv
<1> USE JobConstants DEF CleanupReap, system, attempt, Exists, Listed, KillMembers, Fails, JobRaise
<1>1. JobTypeOK'
  BY SMTT(60), <1>0 DEF JobTypeOK, JobPlaces
<1>2. RunsOnlyInJob'
  BY <1>0 DEF RunsOnlyInJob, MemberInv, LaunchInv, RunInv, CleanupInv, JobTypeOK, OnlyLeader
<1>3. EndsQuiet'
  BY <1>0 DEF EndsQuiet, CleanupInv, RunInv, LaunchInv, SuspendedInv, JobTypeOK, OnlyLeader
<1>4. SuspendedInv'
  BY <1>0 DEF SuspendedInv, LaunchInv, RunInv, CleanupInv, JobTypeOK, OnlyLeader
<1>5. MemberInv'
  BY <1>0 DEF MemberInv, LaunchInv, RunsOnlyInJob, RunInv, JobTypeOK, OnlyLeader
<1>6. LaunchInv'
  BY <1>0 DEF LaunchInv, OnlyLeader, RunsOnlyInJob, CleanupInv, JobTypeOK
<1>7. CleanupInv'
  BY <1>0 DEF CleanupInv, LaunchInv, RunsOnlyInJob, SuspendedInv, RunInv, JobTypeOK, OnlyLeader
<1>8. RunInv'
  BY <1>0 DEF RunInv, LaunchInv, RunsOnlyInJob, SuspendedInv, CleanupInv, MemberInv, JobTypeOK,
     OnlyLeader
<1> QED BY <1>1, <1>2, <1>3, <1>4, <1>5, <1>6, <1>7, <1>8 DEF JobInv

\* The exit of the leader is not confirmed.
LEMMA CleanupKillFailsStep ==
  ASSUME JobInv, CleanupKillFails
  PROVE  JobInv'
<1>0. JobTypeOK /\ RunsOnlyInJob /\ EndsQuiet /\ SuspendedInv
      /\ MemberInv /\ LaunchInv /\ CleanupInv /\ RunInv
  BY DEF JobInv
<1> USE JobConstants DEF CleanupKillFails, system, attempt, Exists, Listed, KillMembers, Fails, JobRaise
<1>1. JobTypeOK'
  BY SMTT(60), <1>0 DEF JobTypeOK, JobPlaces
<1>2. RunsOnlyInJob'
  BY <1>0 DEF RunsOnlyInJob, MemberInv, LaunchInv, RunInv, CleanupInv, JobTypeOK, OnlyLeader
<1>3. EndsQuiet'
  BY <1>0 DEF EndsQuiet, CleanupInv, RunInv, LaunchInv, SuspendedInv, JobTypeOK, OnlyLeader
<1>4. SuspendedInv'
  BY <1>0 DEF SuspendedInv, LaunchInv, RunInv, CleanupInv, JobTypeOK, OnlyLeader
<1>5. MemberInv'
  BY <1>0 DEF MemberInv, LaunchInv, RunsOnlyInJob, RunInv, JobTypeOK, OnlyLeader
<1>6. LaunchInv'
  BY <1>0 DEF LaunchInv, OnlyLeader, RunsOnlyInJob, CleanupInv, JobTypeOK
<1>7. CleanupInv'
  BY <1>0 DEF CleanupInv, LaunchInv, RunsOnlyInJob, SuspendedInv, RunInv, JobTypeOK, OnlyLeader
<1>8. RunInv'
  BY <1>0 DEF RunInv, LaunchInv, RunsOnlyInJob, SuspendedInv, CleanupInv, MemberInv, JobTypeOK,
     OnlyLeader
<1> QED BY <1>1, <1>2, <1>3, <1>4, <1>5, <1>6, <1>7, <1>8 DEF JobInv

\* The handle is closed and the failure reported.
LEMMA CleanupJobStep ==
  ASSUME JobInv, CleanupJob
  PROVE  JobInv'
<1>0. JobTypeOK /\ RunsOnlyInJob /\ EndsQuiet /\ SuspendedInv
      /\ MemberInv /\ LaunchInv /\ CleanupInv /\ RunInv
  BY DEF JobInv
<1> USE JobConstants DEF CleanupJob, system, attempt, Exists, Listed, KillMembers, Fails, JobRaise
<1>1. JobTypeOK'
  BY SMTT(60), <1>0 DEF JobTypeOK, JobPlaces
<1>2. RunsOnlyInJob'
  BY <1>0 DEF RunsOnlyInJob, MemberInv, LaunchInv, RunInv, CleanupInv, JobTypeOK, OnlyLeader
<1>3. EndsQuiet'
  BY <1>0 DEF EndsQuiet, CleanupInv, RunInv, LaunchInv, SuspendedInv, JobTypeOK, OnlyLeader
<1>4. SuspendedInv'
  BY <1>0 DEF SuspendedInv, LaunchInv, RunInv, CleanupInv, JobTypeOK, OnlyLeader
<1>5. MemberInv'
  BY <1>0 DEF MemberInv, LaunchInv, RunsOnlyInJob, RunInv, JobTypeOK, OnlyLeader
<1>6. LaunchInv'
  BY <1>0 DEF LaunchInv, OnlyLeader, RunsOnlyInJob, CleanupInv, JobTypeOK
<1>7. CleanupInv'
  BY <1>0 DEF CleanupInv, LaunchInv, RunsOnlyInJob, SuspendedInv, RunInv, JobTypeOK, OnlyLeader
<1>8. RunInv'
  BY <1>0 DEF RunInv, LaunchInv, RunsOnlyInJob, SuspendedInv, CleanupInv, MemberInv, JobTypeOK,
     OnlyLeader
<1> QED BY <1>1, <1>2, <1>3, <1>4, <1>5, <1>6, <1>7, <1>8 DEF JobInv

\* The handle cannot be closed.
LEMMA CleanupJobFailsStep ==
  ASSUME JobInv, CleanupJobFails
  PROVE  JobInv'
<1>0. JobTypeOK /\ RunsOnlyInJob /\ EndsQuiet /\ SuspendedInv
      /\ MemberInv /\ LaunchInv /\ CleanupInv /\ RunInv
  BY DEF JobInv
<1> USE JobConstants DEF CleanupJobFails, system, attempt, Exists, Listed, KillMembers, Fails, JobRaise
<1>1. JobTypeOK'
  BY SMTT(60), <1>0 DEF JobTypeOK, JobPlaces
<1>2. RunsOnlyInJob'
  BY <1>0 DEF RunsOnlyInJob, MemberInv, LaunchInv, RunInv, CleanupInv, JobTypeOK, OnlyLeader
<1>3. EndsQuiet'
  BY <1>0 DEF EndsQuiet, CleanupInv, RunInv, LaunchInv, SuspendedInv, JobTypeOK, OnlyLeader
<1>4. SuspendedInv'
  BY <1>0 DEF SuspendedInv, LaunchInv, RunInv, CleanupInv, JobTypeOK, OnlyLeader
<1>5. MemberInv'
  BY <1>0 DEF MemberInv, LaunchInv, RunsOnlyInJob, RunInv, JobTypeOK, OnlyLeader
<1>6. LaunchInv'
  BY <1>0 DEF LaunchInv, OnlyLeader, RunsOnlyInJob, CleanupInv, JobTypeOK
<1>7. CleanupInv'
  BY <1>0 DEF CleanupInv, LaunchInv, RunsOnlyInJob, SuspendedInv, RunInv, JobTypeOK, OnlyLeader
<1>8. RunInv'
  BY <1>0 DEF RunInv, LaunchInv, RunsOnlyInJob, SuspendedInv, CleanupInv, MemberInv, JobTypeOK,
     OnlyLeader
<1> QED BY <1>1, <1>2, <1>3, <1>4, <1>5, <1>6, <1>7, <1>8 DEF JobInv

\* The identity is on disk and the guard cleared.
LEMMA PersistIdentityStep ==
  ASSUME JobInv, JobPersistIdentity
  PROVE  JobInv'
<1>0. JobTypeOK /\ RunsOnlyInJob /\ EndsQuiet /\ SuspendedInv
      /\ MemberInv /\ LaunchInv /\ CleanupInv /\ RunInv
  BY DEF JobInv
<1> USE JobConstants DEF JobPersistIdentity, system, attempt, Exists, Listed, KillMembers, Fails, JobRaise
<1>1. JobTypeOK'
  BY <1>0 DEF JobTypeOK, JobPlaces
<1>2. RunsOnlyInJob'
  BY <1>0 DEF RunsOnlyInJob, MemberInv, LaunchInv, RunInv, CleanupInv, JobTypeOK, OnlyLeader
<1>3. EndsQuiet'
  BY <1>0 DEF EndsQuiet, CleanupInv, RunInv, LaunchInv, SuspendedInv, JobTypeOK, OnlyLeader
<1>4. SuspendedInv'
  BY <1>0 DEF SuspendedInv, LaunchInv, RunInv, CleanupInv, JobTypeOK, OnlyLeader
<1>5. MemberInv'
  BY <1>0 DEF MemberInv, LaunchInv, RunsOnlyInJob, RunInv, JobTypeOK, OnlyLeader
<1>6. LaunchInv'
  BY <1>0 DEF LaunchInv, OnlyLeader, RunsOnlyInJob, CleanupInv, JobTypeOK
<1>7. CleanupInv'
  BY <1>0 DEF CleanupInv, LaunchInv, RunsOnlyInJob, SuspendedInv, RunInv, JobTypeOK, OnlyLeader
<1>8. RunInv'
  BY <1>0 DEF RunInv, LaunchInv, RunsOnlyInJob, SuspendedInv, CleanupInv, MemberInv, JobTypeOK,
     OnlyLeader
<1> QED BY <1>1, <1>2, <1>3, <1>4, <1>5, <1>6, <1>7, <1>8 DEF JobInv

\* The identity is not recorded.
LEMMA IdentityFailsStep ==
  ASSUME JobInv, JobIdentityFails
  PROVE  JobInv'
<1>0. JobTypeOK /\ RunsOnlyInJob /\ EndsQuiet /\ SuspendedInv
      /\ MemberInv /\ LaunchInv /\ CleanupInv /\ RunInv
  BY DEF JobInv
<1> USE JobConstants DEF JobIdentityFails, system, attempt, Exists, Listed, KillMembers, Fails, JobRaise
<1>1. JobTypeOK'
  BY SMTT(60), <1>0 DEF JobTypeOK, JobPlaces
<1>2. RunsOnlyInJob'
  BY <1>0 DEF RunsOnlyInJob, MemberInv, LaunchInv, RunInv, CleanupInv, JobTypeOK, OnlyLeader
<1>3. EndsQuiet'
  BY <1>0 DEF EndsQuiet, CleanupInv, RunInv, LaunchInv, SuspendedInv, JobTypeOK, OnlyLeader
<1>4. SuspendedInv'
  BY <1>0 DEF SuspendedInv, LaunchInv, RunInv, CleanupInv, JobTypeOK, OnlyLeader
<1>5. MemberInv'
  BY <1>0 DEF MemberInv, LaunchInv, RunsOnlyInJob, RunInv, JobTypeOK, OnlyLeader
<1>6. LaunchInv'
  BY <1>0 DEF LaunchInv, OnlyLeader, RunsOnlyInJob, CleanupInv, JobTypeOK
<1>7. CleanupInv'
  BY <1>0 DEF CleanupInv, LaunchInv, RunsOnlyInJob, SuspendedInv, RunInv, JobTypeOK, OnlyLeader
<1>8. RunInv'
  BY <1>0 DEF RunInv, LaunchInv, RunsOnlyInJob, SuspendedInv, CleanupInv, MemberInv, JobTypeOK,
     OnlyLeader
<1> QED BY <1>1, <1>2, <1>3, <1>4, <1>5, <1>6, <1>7, <1>8 DEF JobInv

\* The leader has exited.
LEMMA LeaderReturnsStep ==
  ASSUME JobInv, JobLeaderReturns
  PROVE  JobInv'
<1>0. JobTypeOK /\ RunsOnlyInJob /\ EndsQuiet /\ SuspendedInv
      /\ MemberInv /\ LaunchInv /\ CleanupInv /\ RunInv
  BY DEF JobInv
<1> USE JobConstants DEF JobLeaderReturns, system, attempt, Exists, Listed, KillMembers, Fails, JobRaise
<1>1. JobTypeOK'
  BY SMTT(60), <1>0 DEF JobTypeOK, JobPlaces
<1>2. RunsOnlyInJob'
  BY <1>0 DEF RunsOnlyInJob, MemberInv, LaunchInv, RunInv, CleanupInv, JobTypeOK, OnlyLeader
<1>3. EndsQuiet'
  BY <1>0 DEF EndsQuiet, CleanupInv, RunInv, LaunchInv, SuspendedInv, JobTypeOK, OnlyLeader
<1>4. SuspendedInv'
  BY <1>0 DEF SuspendedInv, LaunchInv, RunInv, CleanupInv, JobTypeOK, OnlyLeader
<1>5. MemberInv'
  BY <1>0 DEF MemberInv, LaunchInv, RunsOnlyInJob, RunInv, JobTypeOK, OnlyLeader
<1>6. LaunchInv'
  BY <1>0 DEF LaunchInv, OnlyLeader, RunsOnlyInJob, CleanupInv, JobTypeOK
<1>7. CleanupInv'
  BY <1>0 DEF CleanupInv, LaunchInv, RunsOnlyInJob, SuspendedInv, RunInv, JobTypeOK, OnlyLeader
<1>8. RunInv'
  BY <1>0 DEF RunInv, LaunchInv, RunsOnlyInJob, SuspendedInv, CleanupInv, MemberInv, JobTypeOK,
     OnlyLeader
<1> QED BY <1>1, <1>2, <1>3, <1>4, <1>5, <1>6, <1>7, <1>8 DEF JobInv

\* The wait is cut short.
LEMMA WaitInterruptedStep ==
  ASSUME JobInv, JobWaitInterrupted
  PROVE  JobInv'
<1>0. JobTypeOK /\ RunsOnlyInJob /\ EndsQuiet /\ SuspendedInv
      /\ MemberInv /\ LaunchInv /\ CleanupInv /\ RunInv
  BY DEF JobInv
<1> USE JobConstants DEF JobWaitInterrupted, system, attempt, Exists, Listed, KillMembers, Fails, JobRaise
<1>1. JobTypeOK'
  BY SMTT(60), <1>0 DEF JobTypeOK, JobPlaces
<1>2. RunsOnlyInJob'
  BY <1>0 DEF RunsOnlyInJob, MemberInv, LaunchInv, RunInv, CleanupInv, JobTypeOK, OnlyLeader
<1>3. EndsQuiet'
  BY <1>0 DEF EndsQuiet, CleanupInv, RunInv, LaunchInv, SuspendedInv, JobTypeOK, OnlyLeader
<1>4. SuspendedInv'
  BY <1>0 DEF SuspendedInv, LaunchInv, RunInv, CleanupInv, JobTypeOK, OnlyLeader
<1>5. MemberInv'
  BY <1>0 DEF MemberInv, LaunchInv, RunsOnlyInJob, RunInv, JobTypeOK, OnlyLeader
<1>6. LaunchInv'
  BY <1>0 DEF LaunchInv, OnlyLeader, RunsOnlyInJob, CleanupInv, JobTypeOK
<1>7. CleanupInv'
  BY <1>0 DEF CleanupInv, LaunchInv, RunsOnlyInJob, SuspendedInv, RunInv, JobTypeOK, OnlyLeader
<1>8. RunInv'
  BY <1>0 DEF RunInv, LaunchInv, RunsOnlyInJob, SuspendedInv, CleanupInv, MemberInv, JobTypeOK,
     OnlyLeader
<1> QED BY <1>1, <1>2, <1>3, <1>4, <1>5, <1>6, <1>7, <1>8 DEF JobInv

\* The family is gone.
LEMMA SettledStep ==
  ASSUME JobInv, JobSettled
  PROVE  JobInv'
<1>0. JobTypeOK /\ RunsOnlyInJob /\ EndsQuiet /\ SuspendedInv
      /\ MemberInv /\ LaunchInv /\ CleanupInv /\ RunInv
  BY DEF JobInv
<1> USE JobConstants DEF JobSettled, system, attempt, Exists, Listed, KillMembers, Fails, JobRaise
<1>1. JobTypeOK'
  BY SMTT(60), <1>0 DEF JobTypeOK, JobPlaces
<1>2. RunsOnlyInJob'
  BY <1>0 DEF RunsOnlyInJob, MemberInv, LaunchInv, RunInv, CleanupInv, JobTypeOK, OnlyLeader
<1>3. EndsQuiet'
  BY <1>0 DEF EndsQuiet, CleanupInv, RunInv, LaunchInv, SuspendedInv, JobTypeOK, OnlyLeader
<1>4. SuspendedInv'
  BY <1>0 DEF SuspendedInv, LaunchInv, RunInv, CleanupInv, JobTypeOK, OnlyLeader
<1>5. MemberInv'
  BY <1>0 DEF MemberInv, LaunchInv, RunsOnlyInJob, RunInv, JobTypeOK, OnlyLeader
<1>6. LaunchInv'
  BY <1>0 DEF LaunchInv, OnlyLeader, RunsOnlyInJob, CleanupInv, JobTypeOK
<1>7. CleanupInv'
  BY <1>0 DEF CleanupInv, LaunchInv, RunsOnlyInJob, SuspendedInv, RunInv, JobTypeOK, OnlyLeader
<1>8. RunInv'
  BY <1>0 DEF RunInv, LaunchInv, RunsOnlyInJob, SuspendedInv, CleanupInv, MemberInv, JobTypeOK,
     OnlyLeader
<1> QED BY <1>1, <1>2, <1>3, <1>4, <1>5, <1>6, <1>7, <1>8 DEF JobInv

\* The family lingers.
LEMMA SettleDeadlineStep ==
  ASSUME JobInv, JobSettleDeadline
  PROVE  JobInv'
<1>0. JobTypeOK /\ RunsOnlyInJob /\ EndsQuiet /\ SuspendedInv
      /\ MemberInv /\ LaunchInv /\ CleanupInv /\ RunInv
  BY DEF JobInv
<1> USE JobConstants DEF JobSettleDeadline, system, attempt, Exists, Listed, KillMembers, Fails, JobRaise
<1>1. JobTypeOK'
  BY <1>0 DEF JobTypeOK, JobPlaces
<1>2. RunsOnlyInJob'
  BY <1>0 DEF RunsOnlyInJob, MemberInv, LaunchInv, RunInv, CleanupInv, JobTypeOK, OnlyLeader
<1>3. EndsQuiet'
  BY <1>0 DEF EndsQuiet, CleanupInv, RunInv, LaunchInv, SuspendedInv, JobTypeOK, OnlyLeader
<1>4. SuspendedInv'
  BY <1>0 DEF SuspendedInv, LaunchInv, RunInv, CleanupInv, JobTypeOK, OnlyLeader
<1>5. MemberInv'
  BY <1>0 DEF MemberInv, LaunchInv, RunsOnlyInJob, RunInv, JobTypeOK, OnlyLeader
<1>6. LaunchInv'
  BY <1>0 DEF LaunchInv, OnlyLeader, RunsOnlyInJob, CleanupInv, JobTypeOK
<1>7. CleanupInv'
  BY <1>0 DEF CleanupInv, LaunchInv, RunsOnlyInJob, SuspendedInv, RunInv, JobTypeOK, OnlyLeader
<1>8. RunInv'
  BY <1>0 DEF RunInv, LaunchInv, RunsOnlyInJob, SuspendedInv, CleanupInv, MemberInv, JobTypeOK,
     OnlyLeader
<1> QED BY <1>1, <1>2, <1>3, <1>4, <1>5, <1>6, <1>7, <1>8 DEF JobInv

\* The members are terminated.
LEMMA TerminateStep ==
  ASSUME JobInv, Terminate
  PROVE  JobInv'
<1>0. JobTypeOK /\ RunsOnlyInJob /\ EndsQuiet /\ SuspendedInv
      /\ MemberInv /\ LaunchInv /\ CleanupInv /\ RunInv
  BY DEF JobInv
<1> USE JobConstants DEF Terminate, system, attempt, Exists, Listed, KillMembers, Fails, JobRaise
<1>1. JobTypeOK'
  BY SMTT(60), <1>0 DEF JobTypeOK, JobPlaces
<1>2. RunsOnlyInJob'
  BY <1>0 DEF RunsOnlyInJob, MemberInv, LaunchInv, RunInv, CleanupInv, JobTypeOK, OnlyLeader
<1>3. EndsQuiet'
  BY <1>0 DEF EndsQuiet, CleanupInv, RunInv, LaunchInv, SuspendedInv, JobTypeOK, OnlyLeader
<1>4. SuspendedInv'
  BY <1>0 DEF SuspendedInv, LaunchInv, RunInv, CleanupInv, JobTypeOK, OnlyLeader
<1>5. MemberInv'
  BY <1>0 DEF MemberInv, LaunchInv, RunsOnlyInJob, RunInv, JobTypeOK, OnlyLeader
<1>6. LaunchInv'
  BY <1>0 DEF LaunchInv, OnlyLeader, RunsOnlyInJob, CleanupInv, JobTypeOK
<1>7. CleanupInv'
  BY <1>0 DEF CleanupInv, LaunchInv, RunsOnlyInJob, SuspendedInv, RunInv, JobTypeOK, OnlyLeader
<1>8. RunInv'
  BY <1>0 DEF RunInv, LaunchInv, RunsOnlyInJob, SuspendedInv, CleanupInv, MemberInv, JobTypeOK,
     OnlyLeader
<1> QED BY <1>1, <1>2, <1>3, <1>4, <1>5, <1>6, <1>7, <1>8 DEF JobInv

\* The Job has become empty.
LEMMA TerminatedStep ==
  ASSUME JobInv, JobTerminated
  PROVE  JobInv'
<1>0. JobTypeOK /\ RunsOnlyInJob /\ EndsQuiet /\ SuspendedInv
      /\ MemberInv /\ LaunchInv /\ CleanupInv /\ RunInv
  BY DEF JobInv
<1> USE JobConstants DEF JobTerminated, system, attempt, Exists, Listed, KillMembers, Fails, JobRaise
<1>1. JobTypeOK'
  BY SMTT(60), <1>0 DEF JobTypeOK, JobPlaces
<1>2. RunsOnlyInJob'
  BY <1>0 DEF RunsOnlyInJob, MemberInv, LaunchInv, RunInv, CleanupInv, JobTypeOK, OnlyLeader
<1>3. EndsQuiet'
  BY <1>0 DEF EndsQuiet, CleanupInv, RunInv, LaunchInv, SuspendedInv, JobTypeOK, OnlyLeader
<1>4. SuspendedInv'
  BY <1>0 DEF SuspendedInv, LaunchInv, RunInv, CleanupInv, JobTypeOK, OnlyLeader
<1>5. MemberInv'
  BY <1>0 DEF MemberInv, LaunchInv, RunsOnlyInJob, RunInv, JobTypeOK, OnlyLeader
<1>6. LaunchInv'
  BY <1>0 DEF LaunchInv, OnlyLeader, RunsOnlyInJob, CleanupInv, JobTypeOK
<1>7. CleanupInv'
  BY <1>0 DEF CleanupInv, LaunchInv, RunsOnlyInJob, SuspendedInv, RunInv, JobTypeOK, OnlyLeader
<1>8. RunInv'
  BY <1>0 DEF RunInv, LaunchInv, RunsOnlyInJob, SuspendedInv, CleanupInv, MemberInv, JobTypeOK,
     OnlyLeader
<1> QED BY <1>1, <1>2, <1>3, <1>4, <1>5, <1>6, <1>7, <1>8 DEF JobInv

\* The Job does not become empty in time.
LEMMA AwaitDeadlineStep ==
  ASSUME JobInv, AwaitDeadline
  PROVE  JobInv'
<1>0. JobTypeOK /\ RunsOnlyInJob /\ EndsQuiet /\ SuspendedInv
      /\ MemberInv /\ LaunchInv /\ CleanupInv /\ RunInv
  BY DEF JobInv
<1> USE JobConstants DEF AwaitDeadline, system, attempt, Exists, Listed, KillMembers, Fails, JobRaise
<1>1. JobTypeOK'
  BY <1>0 DEF JobTypeOK, JobPlaces
<1>2. RunsOnlyInJob'
  BY <1>0 DEF RunsOnlyInJob, MemberInv, LaunchInv, RunInv, CleanupInv, JobTypeOK, OnlyLeader
<1>3. EndsQuiet'
  BY <1>0 DEF EndsQuiet, CleanupInv, RunInv, LaunchInv, SuspendedInv, JobTypeOK, OnlyLeader
<1>4. SuspendedInv'
  BY <1>0 DEF SuspendedInv, LaunchInv, RunInv, CleanupInv, JobTypeOK, OnlyLeader
<1>5. MemberInv'
  BY <1>0 DEF MemberInv, LaunchInv, RunsOnlyInJob, RunInv, JobTypeOK, OnlyLeader
<1>6. LaunchInv'
  BY <1>0 DEF LaunchInv, OnlyLeader, RunsOnlyInJob, CleanupInv, JobTypeOK
<1>7. CleanupInv'
  BY <1>0 DEF CleanupInv, LaunchInv, RunsOnlyInJob, SuspendedInv, RunInv, JobTypeOK, OnlyLeader
<1>8. RunInv'
  BY <1>0 DEF RunInv, LaunchInv, RunsOnlyInJob, SuspendedInv, CleanupInv, MemberInv, JobTypeOK,
     OnlyLeader
<1> QED BY <1>1, <1>2, <1>3, <1>4, <1>5, <1>6, <1>7, <1>8 DEF JobInv

\* The scope is being closed.
LEMMA CloseStep ==
  ASSUME JobInv, Close
  PROVE  JobInv'
<1>0. JobTypeOK /\ RunsOnlyInJob /\ EndsQuiet /\ SuspendedInv
      /\ MemberInv /\ LaunchInv /\ CleanupInv /\ RunInv
  BY DEF JobInv
<1> USE JobConstants DEF Close, system, attempt, Exists, Listed, KillMembers, Fails, JobRaise
<1>1. JobTypeOK'
  <2>1. /\ proc' \in [Procs -> {"none", "suspended", "live", "doomed", "exited"}]
        /\ members' \subseteq Procs
    BY <1>0 DEF JobTypeOK, JobPlaces
  <2>2. /\ job' \in {"none", "open", "closed"} /\ pc' \in JobPlaces
        /\ after' \in {"none", "hash", "failed", "raise"} /\ faults' \in 0..MaxJobFailures
    BY <1>0 DEF JobTypeOK, JobPlaces
  <2>3. /\ stranger' \in BOOLEAN /\ errors' \in BOOLEAN /\ inJobClose' \in BOOLEAN
        /\ inFinally' \in BOOLEAN /\ launchGuard' \in BOOLEAN /\ otherToken' \in BOOLEAN
        /\ stray' \in BOOLEAN
    BY <1>0 DEF JobTypeOK, JobPlaces
  <2> QED BY <2>1, <2>2, <2>3 DEF JobTypeOK
<1>2. RunsOnlyInJob'
  BY <1>0 DEF RunsOnlyInJob, MemberInv, LaunchInv, RunInv, CleanupInv, JobTypeOK, OnlyLeader
<1>3. EndsQuiet'
  BY <1>0 DEF EndsQuiet, CleanupInv, RunInv, LaunchInv, SuspendedInv, JobTypeOK, OnlyLeader
<1>4. SuspendedInv'
  BY <1>0 DEF SuspendedInv, LaunchInv, RunInv, CleanupInv, JobTypeOK, OnlyLeader
<1>5. MemberInv'
  BY <1>0 DEF MemberInv, LaunchInv, RunsOnlyInJob, RunInv, JobTypeOK, OnlyLeader
<1>6. LaunchInv'
  BY <1>0 DEF LaunchInv, OnlyLeader, RunsOnlyInJob, CleanupInv, JobTypeOK
<1>7. CleanupInv'
  BY <1>0 DEF CleanupInv, LaunchInv, RunsOnlyInJob, SuspendedInv, RunInv, JobTypeOK, OnlyLeader
<1>8. RunInv'
  BY <1>0 DEF RunInv, LaunchInv, RunsOnlyInJob, SuspendedInv, CleanupInv, MemberInv, JobTypeOK,
     OnlyLeader
<1> QED BY <1>1, <1>2, <1>3, <1>4, <1>5, <1>6, <1>7, <1>8 DEF JobInv

\* The handle is closed.
LEMMA CloseHandleStep ==
  ASSUME JobInv, CloseHandle
  PROVE  JobInv'
<1>0. JobTypeOK /\ RunsOnlyInJob /\ EndsQuiet /\ SuspendedInv
      /\ MemberInv /\ LaunchInv /\ CleanupInv /\ RunInv
  BY DEF JobInv
<1> USE JobConstants DEF CloseHandle, system, attempt, Exists, Listed, KillMembers, Fails, JobRaise
<1>1. JobTypeOK'
  BY SMTT(60), <1>0 DEF JobTypeOK, JobPlaces
<1>2. RunsOnlyInJob'
  BY <1>0 DEF RunsOnlyInJob, MemberInv, LaunchInv, RunInv, CleanupInv, JobTypeOK, OnlyLeader
<1>3. EndsQuiet'
  BY <1>0 DEF EndsQuiet, CleanupInv, RunInv, LaunchInv, SuspendedInv, JobTypeOK, OnlyLeader
<1>4. SuspendedInv'
  BY <1>0 DEF SuspendedInv, LaunchInv, RunInv, CleanupInv, JobTypeOK, OnlyLeader
<1>5. MemberInv'
  BY <1>0 DEF MemberInv, LaunchInv, RunsOnlyInJob, RunInv, JobTypeOK, OnlyLeader
<1>6. LaunchInv'
  BY <1>0 DEF LaunchInv, OnlyLeader, RunsOnlyInJob, CleanupInv, JobTypeOK
<1>7. CleanupInv'
  BY <1>0 DEF CleanupInv, LaunchInv, RunsOnlyInJob, SuspendedInv, RunInv, JobTypeOK, OnlyLeader
<1>8. RunInv'
  BY <1>0 DEF RunInv, LaunchInv, RunsOnlyInJob, SuspendedInv, CleanupInv, MemberInv, JobTypeOK,
     OnlyLeader
<1> QED BY <1>1, <1>2, <1>3, <1>4, <1>5, <1>6, <1>7, <1>8 DEF JobInv

\* A call on the Job fails.
LEMMA ScopeCallFailsStep ==
  ASSUME JobInv, ScopeCallFails
  PROVE  JobInv'
<1>0. JobTypeOK /\ RunsOnlyInJob /\ EndsQuiet /\ SuspendedInv
      /\ MemberInv /\ LaunchInv /\ CleanupInv /\ RunInv
  BY DEF JobInv
<1> USE JobConstants DEF ScopeCallFails, system, attempt, Exists, Listed, KillMembers, Fails, JobRaise
<1>1. JobTypeOK'
  <2>1. /\ proc' \in [Procs -> {"none", "suspended", "live", "doomed", "exited"}]
        /\ members' \subseteq Procs
    BY <1>0 DEF JobTypeOK, JobPlaces
  <2>2. /\ job' \in {"none", "open", "closed"} /\ pc' \in JobPlaces
        /\ after' \in {"none", "hash", "failed", "raise"} /\ faults' \in 0..MaxJobFailures
    BY SMTT(60), <1>0 DEF JobTypeOK, JobPlaces
  <2>3. /\ stranger' \in BOOLEAN /\ errors' \in BOOLEAN /\ inJobClose' \in BOOLEAN
        /\ inFinally' \in BOOLEAN /\ launchGuard' \in BOOLEAN /\ otherToken' \in BOOLEAN
        /\ stray' \in BOOLEAN
    BY <1>0 DEF JobTypeOK, JobPlaces
  <2> QED BY <2>1, <2>2, <2>3 DEF JobTypeOK
<1>2. RunsOnlyInJob'
  BY <1>0 DEF RunsOnlyInJob, MemberInv, LaunchInv, RunInv, CleanupInv, JobTypeOK, OnlyLeader
<1>3. EndsQuiet'
  BY <1>0 DEF EndsQuiet, CleanupInv, RunInv, LaunchInv, SuspendedInv, JobTypeOK, OnlyLeader
<1>4. SuspendedInv'
  BY <1>0 DEF SuspendedInv, LaunchInv, RunInv, CleanupInv, JobTypeOK, OnlyLeader
<1>5. MemberInv'
  BY <1>0 DEF MemberInv, LaunchInv, RunsOnlyInJob, RunInv, JobTypeOK, OnlyLeader
<1>6. LaunchInv'
  BY <1>0 DEF LaunchInv, OnlyLeader, RunsOnlyInJob, CleanupInv, JobTypeOK
<1>7. CleanupInv'
  BY <1>0 DEF CleanupInv, LaunchInv, RunsOnlyInJob, SuspendedInv, RunInv, JobTypeOK, OnlyLeader
<1>8. RunInv'
  BY <1>0 DEF RunInv, LaunchInv, RunsOnlyInJob, SuspendedInv, CleanupInv, MemberInv, JobTypeOK,
     OnlyLeader
<1> QED BY <1>1, <1>2, <1>3, <1>4, <1>5, <1>6, <1>7, <1>8 DEF JobInv

\* The runner is gone.
LEMMA RunnerGoneStep ==
  ASSUME JobInv, RunnerGone
  PROVE  JobInv'
<1>0. JobTypeOK /\ RunsOnlyInJob /\ EndsQuiet /\ SuspendedInv
      /\ MemberInv /\ LaunchInv /\ CleanupInv /\ RunInv
  BY DEF JobInv
<1> USE JobConstants DEF RunnerGone, system, attempt, Exists, Listed, KillMembers, Fails, JobRaise
<1>1. JobTypeOK'
  BY SMTT(60), <1>0 DEF JobTypeOK, JobPlaces
<1>2. RunsOnlyInJob'
  BY SMTT(60), <1>0 DEF RunsOnlyInJob, MemberInv, LaunchInv, RunInv, CleanupInv, JobTypeOK, OnlyLeader
<1>3. EndsQuiet'
  BY <1>0 DEF EndsQuiet, CleanupInv, RunInv, LaunchInv, SuspendedInv, JobTypeOK, OnlyLeader
<1>4. SuspendedInv'
  BY <1>0 DEF SuspendedInv, LaunchInv, RunInv, CleanupInv, JobTypeOK, OnlyLeader
<1>5. MemberInv'
  BY SMTT(60), <1>0 DEF MemberInv, LaunchInv, RunsOnlyInJob, RunInv, JobTypeOK, OnlyLeader
<1>6. LaunchInv'
  BY <1>0 DEF LaunchInv, OnlyLeader, RunsOnlyInJob, CleanupInv, JobTypeOK
<1>7. CleanupInv'
  BY <1>0 DEF CleanupInv, LaunchInv, RunsOnlyInJob, SuspendedInv, RunInv, JobTypeOK, OnlyLeader
<1>8. RunInv'
  BY <1>0 DEF RunInv, LaunchInv, RunsOnlyInJob, SuspendedInv, CleanupInv, MemberInv, JobTypeOK,
     OnlyLeader
<1> QED BY <1>1, <1>2, <1>3, <1>4, <1>5, <1>6, <1>7, <1>8 DEF JobInv

\* A resume reads the start token.
LEMMA ReadTokenStep ==
  ASSUME JobInv, JobReadToken
  PROVE  JobInv'
<1>0. JobTypeOK /\ RunsOnlyInJob /\ EndsQuiet /\ SuspendedInv
      /\ MemberInv /\ LaunchInv /\ CleanupInv /\ RunInv
  BY DEF JobInv
<1> USE JobConstants DEF JobReadToken, system, attempt, Exists, Listed, KillMembers, Fails, JobRaise
<1>1. JobTypeOK'
  BY SMTT(60), <1>0 DEF JobTypeOK, JobPlaces
<1>2. RunsOnlyInJob'
  BY <1>0 DEF RunsOnlyInJob, MemberInv, LaunchInv, RunInv, CleanupInv, JobTypeOK, OnlyLeader
<1>3. EndsQuiet'
  BY <1>0 DEF EndsQuiet, CleanupInv, RunInv, LaunchInv, SuspendedInv, JobTypeOK, OnlyLeader
<1>4. SuspendedInv'
  BY <1>0 DEF SuspendedInv, LaunchInv, RunInv, CleanupInv, JobTypeOK, OnlyLeader
<1>5. MemberInv'
  BY <1>0 DEF MemberInv, LaunchInv, RunsOnlyInJob, RunInv, JobTypeOK, OnlyLeader
<1>6. LaunchInv'
  BY <1>0 DEF LaunchInv, OnlyLeader, RunsOnlyInJob, CleanupInv, JobTypeOK
<1>7. CleanupInv'
  BY <1>0 DEF CleanupInv, LaunchInv, RunsOnlyInJob, SuspendedInv, RunInv, JobTypeOK, OnlyLeader
<1>8. RunInv'
  BY <1>0 DEF RunInv, LaunchInv, RunsOnlyInJob, SuspendedInv, CleanupInv, MemberInv, JobTypeOK,
     OnlyLeader
<1> QED BY <1>1, <1>2, <1>3, <1>4, <1>5, <1>6, <1>7, <1>8 DEF JobInv

\* A resume looks at the leader.
LEMMA CheckLivenessStep ==
  ASSUME JobInv, JobCheckLiveness
  PROVE  JobInv'
<1>0. JobTypeOK /\ RunsOnlyInJob /\ EndsQuiet /\ SuspendedInv
      /\ MemberInv /\ LaunchInv /\ CleanupInv /\ RunInv
  BY DEF JobInv
<1> USE JobConstants DEF JobCheckLiveness, system, attempt, Exists, Listed, KillMembers, Fails, JobRaise
<1>1. JobTypeOK'
  BY SMTT(60), <1>0 DEF JobTypeOK, JobPlaces
<1>2. RunsOnlyInJob'
  BY <1>0 DEF RunsOnlyInJob, MemberInv, LaunchInv, RunInv, CleanupInv, JobTypeOK, OnlyLeader
<1>3. EndsQuiet'
  BY <1>0 DEF EndsQuiet, CleanupInv, RunInv, LaunchInv, SuspendedInv, JobTypeOK, OnlyLeader
<1>4. SuspendedInv'
  BY <1>0 DEF SuspendedInv, LaunchInv, RunInv, CleanupInv, JobTypeOK, OnlyLeader
<1>5. MemberInv'
  BY <1>0 DEF MemberInv, LaunchInv, RunsOnlyInJob, RunInv, JobTypeOK, OnlyLeader
<1>6. LaunchInv'
  BY <1>0 DEF LaunchInv, OnlyLeader, RunsOnlyInJob, CleanupInv, JobTypeOK
<1>7. CleanupInv'
  BY <1>0 DEF CleanupInv, LaunchInv, RunsOnlyInJob, SuspendedInv, RunInv, JobTypeOK, OnlyLeader
<1>8. RunInv'
  BY <1>0 DEF RunInv, LaunchInv, RunsOnlyInJob, SuspendedInv, CleanupInv, MemberInv, JobTypeOK,
     OnlyLeader
<1> QED BY <1>1, <1>2, <1>3, <1>4, <1>5, <1>6, <1>7, <1>8 DEF JobInv

\* JobInv is inductive.
THEOREM JobInvariant == JobSpec => []JobInv
<1>1. ASSUME JobInv, [JobNext]_jobVars PROVE JobInv'
  <2>1. CASE JobStart
    BY <1>1, <2>1, CreateJobStep, CreateJobFailsStep, PopenStep, PopenFailsStep, AssignStep,
       AssignFailsStep, ResumeThreadStep, ResumeThreadFailsStep DEF JobStart
  <2>2. CASE Cleanup
    BY <1>1, <2>2, CleanupTerminateStep, CleanupWaitStep, CleanupTerminateFailsStep,
       CleanupKillStep, CleanupReapStep, CleanupKillFailsStep, CleanupJobStep, CleanupJobFailsStep
       DEF Cleanup
  <2>3. CASE Run
    BY <1>1, <2>3, PersistIdentityStep, IdentityFailsStep, LeaderReturnsStep, SettledStep,
       SettleDeadlineStep, TerminateStep, TerminatedStep, AwaitDeadlineStep, CloseStep,
       CloseHandleStep DEF Run
  <2>4. CASE JobResume
    BY <1>1, <2>4, ReadTokenStep, CheckLivenessStep DEF JobResume
  <2>5. CASE System
    BY <1>1, <2>5, ForkStep, ExitStep, ReuseStep DEF System
  <2>6. CASE JobWaitInterrupted \/ ScopeCallFails \/ RunnerGone
    BY <1>1, <2>6, WaitInterruptedStep, ScopeCallFailsStep, RunnerGoneStep
  <2>7. CASE UNCHANGED jobVars
    BY SMTT(60), <1>1, <2>7 DEF jobVars, system, attempt, JobInv, JobTypeOK, RunsOnlyInJob, EndsQuiet, SuspendedInv,
       MemberInv, LaunchInv, CleanupInv, RunInv, OnlyLeader, Exists, Listed
  <2> QED BY <1>1, <2>1, <2>2, <2>3, <2>4, <2>5, <2>6, <2>7 DEF JobNext
<1> QED BY InitJob, <1>1, PTL DEF JobSpec

\* The task's code runs only inside an open Job.
THEOREM RunsOnlyInJobTheorem == JobSpec => []RunsOnlyInJob
BY JobInvariant, PTL DEF JobInv

\* An attempt that has ended leaves nobody but a leader whose creation was interrupted.
THEOREM EndsQuietTheorem == JobSpec => []EndsQuiet
BY JobInvariant, PTL DEF JobInv

\* A resume is admitted only when nothing of the family can run.
THEOREM AdmittedAloneTheorem == JobSpec => []AdmittedAlone
<1>1. JobInv => AdmittedAlone
  BY JobConstants DEF JobInv, RunsOnlyInJob, SuspendedInv, RunInv, AdmittedAlone
<1> QED BY <1>1, JobInvariant, PTL

-----------------------------------------------------------------------------
(***************************************************************************)
(* WorkspaceScan.  Every facet a walk reports was the current one at some  *)
(* moment of that walk.  For the first walk: it is, or has been, current   *)
(* when the second begins.  For the second: it had not been left behind by *)
(* then.  A facet reported by both is therefore current between them.  And *)
(* as long as nobody edits the tree, it is the one facet there is.         *)
(***************************************************************************)
Hashing == {"read", "fstat", "lstat"}
Walking == {"pop", "opendir", "opened", "list", "children", "open", "walked"} \union Hashing

\* A facet that some moment of the walk under way has seen.
Was(p, f, v) == /\ IF pass = 1 THEN v \in past[p][f] \union {Facet(tree[p], f)}
                   ELSE v \notin midPast[p][f]
                /\ edits = 0 => v = Facet(tree[p], f)

\* A path whose parent, or which itself, the walk has still to look at.
Front(c) == \/ \E s \in stack : s.path = Parent[c]
            \/ at \in {"opendir", "opened"} /\ dir.path = Parent[c]
            \/ c \in unread \union todo
            \/ at \in {"open"} \union Hashing /\ c = file.path

Pending(p) == \E c \in Above[p] \union {p} : Front(c)

\* The directory being listed has left its path: the check after the listing will see it.
Doomed == at = "list" /\ dir.path \in Paths /\ dir.key \in past[dir.path][DirFacet]

\* Directory streams and descriptors against the tree.
Handles ==
  /\ \A s \in stack : s.path \in Paths => s.key \in Keys
  /\ \A s \in stack : s.path = Root => s.key = 0
  /\ at \in {"opendir", "opened", "list"} =>
       /\ dir.path \in Paths => dir.key \in Keys
       /\ dir.path = Root => dir.key = 0
  /\ at \in {"opendir", "opened", "list"} /\ dir.path \in Paths =>
       \/ dir.key \in past[dir.path][DirFacet]
       \/ /\ tree[dir.path].kind = "dir" /\ tree[dir.path].key = dir.key
          /\ at # "opendir" => dir.stream = dir.key
  /\ at \in {"opened", "list"} /\ dir.path = Root => dir.stream = 0
  /\ at \in Hashing => file.open \in Keys
  /\ file.open # 0 => \A q \in Paths : tree[q].key = file.open => q = file.path
  /\ at # "list" => unread = {}
  /\ at = "walked" => stack = {}
  /\ at \in {"idle", "pop", "opendir", "opened", "walked"} => todo = {}
  /\ at = "list" => unread \union todo \subseteq Children(dir.path)

\* The file being hashed.
HashRead ==
  /\ at \in {"open"} \union Hashing => Was(file.path, KindFacet, "file")
  /\ at = "open" => file.n = 0 /\ file.got = NoData
  /\ at \in Hashing => \A i \in Blocks :
       /\ Was(file.path, BlockFacet(i), file.data[i])
       /\ IF i <= file.n \/ at # "read" THEN Was(file.path, BlockFacet(i), file.got[i])
          ELSE file.got[i] = 0

\* The entries of the walk so far, and the paths without one.
SeenRead ==
  \A p \in Paths :
    /\ seen[p].kind = "file" => \A i \in Blocks : Was(p, BlockFacet(i), seen[p].data[i])
    /\ seen[p].kind # "file" => seen[p].data = NoData
    /\ seen[p].kind # "absent" => Was(p, KindFacet, seen[p].kind)
    /\ seen[p].kind = "absent" => Was(p, KindFacet, "absent") \/ Pending(p) \/ Doomed

\* The entries of the first walk, once the second has begun.
FirstRead ==
  pass = 2 =>
    \A p \in Paths :
      /\ first[p].kind \in midPast[p][KindFacet] \union {mid[p].kind}
      /\ first[p].kind = "file" =>
           \A i \in Blocks : first[p].data[i] \in midPast[p][BlockFacet(i)] \union {mid[p].data[i]}

Core ==
  /\ \A q \in Paths, f \in Facets : Facet(tree[q], f) \notin past[q][f]
  /\ pass = 2 => \A q \in Paths, f \in Facets : midPast[q][f] \subseteq past[q][f]
  /\ FirstRead
  /\ at \in Walking => Handles /\ HashRead /\ SeenRead
  /\ at = "accepted" => seen = [p \in Paths |-> Report(mid[p])]

ScanInv ==
  /\ ScanTypeOK
  /\ DOMAIN past = Paths /\ \A q \in Paths : DOMAIN past[q] = Facets
  /\ recurred \in BOOLEAN
  /\ mid \in [Paths -> Objects]
  /\ at = "idle" => pass = 1 /\ file.open = 0 /\ unread = {} /\ todo = {}
  /\ at \in {"open"} \union Hashing => file.path \in Paths
  /\ ~recurred => Core

-----------------------------------------------------------------------------

LEMMA FacetFacts ==
  /\ KindFacet \in Facets /\ DirFacet \in Facets
  /\ \A i \in Blocks : BlockFacet(i) \in Facets
  /\ \A o : Facet(o, KindFacet) = o.kind
  /\ \A o : Facet(o, DirFacet) = IF o.kind = "dir" THEN o.key ELSE 0
  /\ \A o : \A i \in Blocks : Facet(o, BlockFacet(i)) = o.data[i]
BY DEF KindFacet, DirFacet, BlockFacet, Facets, Facet

LEMMA Acyclic == \A p \in Paths : p \notin Above[p]
BY TreeAssumption

LEMMA NoDataType == NoData \in Data /\ NoData \in [Blocks -> Versions \union {0}]
BY DEF NoData, Data

LEMMA NoRecords == NoDir \in DirRecords /\ NoFile \in FileRecords
BY SMTT(60), NoDataType, TreeAssumption DEF NoDir, NoFile, DirRecords, FileRecords

LEMMA ObjectType ==
  ASSUME NEW o \in Objects
  PROVE  /\ o.kind \in {"absent", "dir", "file", "other"}
         /\ o.key \in Keys \union {0} /\ o.data \in Data
         /\ o.kind = "absent" <=> o = Absent
         /\ o.kind = "absent" <=> o.key = 0
         /\ o.kind # "file" => o.data = NoData
BY SMTT(60), TreeAssumption, NoDataType DEF Objects, Absent

LEMMA Bounds ==
  /\ Root \notin Paths /\ NBlocks \in Nat /\ 0 \notin Keys /\ 0 \notin Versions
  /\ MaxCallFailures \in Nat /\ MaxEdits \in Nat
BY TreeAssumption

LEMMA Lineage ==
  /\ \A p \in Paths : Above[p] \union {p} \subseteq Paths
  /\ \A p \in Paths : Parent[p] \in Paths \union {Root}
BY TreeAssumption

\* A step that leaves the tree and the histories alone changes nothing of what was seen.
LEMMA WasSame ==
  ASSUME UNCHANGED <<tree, past, pass, midPast, edits>>
  PROVE  \A p, f, v : Was(p, f, v)' <=> Was(p, f, v)
BY DEF Was

\* What is current now is seen now.
LEMMA WasNow ==
  ASSUME Core, NEW p \in Paths, NEW f \in Facets, pass \in 1..2
  PROVE  Was(p, f, Facet(tree[p], f))
BY SMTT(60) DEF Core, Was

\* What is left to show of a step of the walk that does not change the tree.
LEMMA WalkStep ==
  ASSUME ScanInv, UNCHANGED <<world, pass, first, mid, midPast>>, ScanTypeOK',
         at' \notin {"idle", "accepted"},
         at' \in {"open"} \union Hashing => file'.path \in Paths,
         Core /\ at' \in Walking => Handles' /\ HashRead' /\ SeenRead'
  PROVE  ScanInv'
<1>1. ~recurred => Core'
  <2> SUFFICES ASSUME ~recurred PROVE Core'
    OBVIOUS
  <2>1. Core  BY DEF ScanInv
  <2>2. FirstRead'  BY <2>1 DEF Core, FirstRead
  <2>3. QED  BY <2>1, <2>2 DEF Core, world
<1>2. QED  BY <1>1 DEF ScanInv, world

LEMMA RefuseKeeps ==
  ASSUME ScanInv, Refuse, UNCHANGED world, callFailures' \in 0..MaxCallFailures
  PROVE  ScanInv'
<1>1. ScanTypeOK'  BY DEF ScanInv, ScanTypeOK, Refuse, world, walk
<1>2. at' = "refused" /\ UNCHANGED <<pass, first, mid, midPast>>  BY DEF Refuse
<1>3. at' \notin Walking  BY <1>2 DEF Walking, Hashing
<1>4. QED  BY <1>1, <1>2, <1>3, WalkStep DEF Walking

\* The entries stay good if what is still to come stays so.
LEMMA SeenStays ==
  ASSUME SeenRead, seen' = seen, \A p, f, v : Was(p, f, v)' <=> Was(p, f, v),
         \A q \in Paths : Pending(q) => Pending(q)', ~Doomed
  PROVE  SeenRead'
BY DEF SeenRead

LEMMA PopKeeps == ASSUME ScanInv, Pop PROVE ScanInv'
<1>1. CASE Refuse /\ UNCHANGED <<world, callFailures>>
  BY <1>1, RefuseKeeps DEF ScanInv, ScanTypeOK
<1>2. CASE ~Refuse
  <2>0. UNCHANGED <<world, pass, first, mid, midPast, callFailures>> /\ at' \notin {"idle", "accepted"}
    BY <1>2 DEF Pop, ScanInv
  <2>R. dir \in DirRecords /\ file \in FileRecords /\ dir' \in DirRecords /\ file' \in FileRecords
    <3>1. PICK x \in stack : dir' = [path |-> x.path, key |-> x.key, stream |-> 0]  BY <1>2 DEF Pop
    <3>2. x \in [path: Paths \union {Root}, key: Keys \union {0}]  BY <3>1 DEF ScanInv, ScanTypeOK
    <3>3. dir' \in DirRecords  BY <3>1, <3>2 DEF DirRecords
    <3>4. QED  BY <1>2, <3>3 DEF ScanInv, ScanTypeOK, Pop
  <2>1. ScanTypeOK'
    BY <1>2, <2>0, <2>R DEF ScanInv, ScanTypeOK, Pop, world, walk
  <2>9. at' \in {"open"} \union Hashing => file'.path \in Paths
    BY <1>2 DEF Pop, ScanInv, ScanTypeOK, Hashing, walk, NoFile
  <2> SUFFICES ASSUME Core, at' \in Walking PROVE Handles' /\ HashRead' /\ SeenRead'
    BY <2>0, <2>1, <2>9, WalkStep
  <2>2. at \in Walking /\ Handles /\ HashRead /\ SeenRead
    BY <1>2 DEF Core, Pop, Walking, Hashing
  <2>3. UNCHANGED <<tree, past, pass, midPast, edits>> /\ \A p, f, v : Was(p, f, v)' <=> Was(p, f, v)
    BY <2>0, WasSame DEF world
  <2>4. Handles'
    <3>1. PICK x \in stack :
            /\ IsDir(x.path) /\ DirKey(x.path) = x.key
            /\ at' = "opendir" /\ stack' = stack \ {x} /\ file' = file
            /\ dir' = [path |-> x.path, key |-> x.key, stream |-> 0]
      BY <1>2 DEF Pop
    <3>2. dir'.path = x.path /\ dir'.key = x.key  BY <3>1
    <3>3. x.path \in Paths => tree[x.path].kind = "dir" /\ tree[x.path].key = x.key
      BY <3>1, Bounds DEF IsDir, DirKey
    <3>4. at = "pop" /\ UNCHANGED <<unread, todo>>  BY <1>2 DEF Pop, walk
    <3>5. x.path \in Paths => x.key \in Keys  BY <2>2 DEF Handles
    <3>6. x.path = Root => x.key = 0  BY <2>2 DEF Handles
    <3>7. unread' = {} /\ todo' = {}  BY <2>2, <3>4 DEF Handles
    <3>8. \A s \in stack' : (s.path \in Paths => s.key \in Keys) /\ (s.path = Root => s.key = 0)
      BY <2>2, <3>1 DEF Handles
    <3>9. file'.open # 0 => \A q \in Paths : tree'[q].key = file'.open => q = file'.path
      BY <2>2, <2>3, <3>1 DEF Handles
    <3>10. QED  BY <2>3, <3>1, <3>2, <3>3, <3>5, <3>6, <3>7, <3>8, <3>9 DEF Handles, Hashing
  <2>5. HashRead'
    BY <1>2, <2>2, <2>3 DEF HashRead, Pop, walk, Hashing
  <2>6. SeenRead'
    BY SMTT(60), <1>2, <2>R, <2>2, <2>3 DEF SeenRead, Pop, walk, DirRecords, FileRecords, Front,
         Pending, Doomed, Hashing, NoDir
  <2>7. QED  BY <2>4, <2>5, <2>6
<1>3. QED  BY <1>1, <1>2 DEF Pop

LEMMA OpenDirKeeps == ASSUME ScanInv, OpenDir PROVE ScanInv'
<1>1. CASE Refuse /\ UNCHANGED <<world, callFailures>>
  BY <1>1, RefuseKeeps DEF ScanInv, ScanTypeOK
<1>2. CASE ~Refuse
  <2>0. UNCHANGED <<world, pass, first, mid, midPast, callFailures>> /\ at' \notin {"idle", "accepted"}
    BY <1>2 DEF OpenDir, ScanInv
  <2>R. dir \in DirRecords /\ file \in FileRecords /\ dir' \in DirRecords /\ file' \in FileRecords
    <3>1. IsDir(dir.path) => DirKey(dir.path) \in Keys \union {0}
      BY ObjectType DEF IsDir, DirKey, ScanInv, ScanTypeOK
    <3>2. QED  BY SMTT(60), <1>2, <3>1 DEF ScanInv, ScanTypeOK, OpenDir, DirRecords
  <2>1. ScanTypeOK'
    BY <1>2, <2>0, <2>R DEF ScanInv, ScanTypeOK, OpenDir, world, walk
  <2>9. at' \in {"open"} \union Hashing => file'.path \in Paths
    BY <1>2 DEF OpenDir, ScanInv, ScanTypeOK, Hashing, walk, NoFile
  <2> SUFFICES ASSUME Core, at' \in Walking PROVE Handles' /\ HashRead' /\ SeenRead'
    BY <2>0, <2>1, <2>9, WalkStep
  <2>2. at \in Walking /\ Handles /\ HashRead /\ SeenRead
    BY <1>2 DEF Core, OpenDir, Walking, Hashing
  <2>3. UNCHANGED <<tree, past, pass, midPast, edits>> /\ \A p, f, v : Was(p, f, v)' <=> Was(p, f, v)
    BY <2>0, WasSame DEF world
  <2>4. Handles'
    BY SMTT(60), <1>2, <2>R, <2>1, <2>2, <2>3, FacetFacts DEF Handles, OpenDir, DirRecords,
         FileRecords, ScanInv, ScanTypeOK, walk, Hashing, DirKey, IsDir, Children
  <2>5. HashRead'
    BY <1>2, <2>2, <2>3 DEF HashRead, OpenDir, walk, Hashing
  <2>6. SeenRead'
    BY SMTT(60), <1>2, <2>R, <2>2, <2>3 DEF SeenRead, OpenDir, walk, DirRecords, FileRecords, Front,
         Pending, Doomed, Hashing, NoDir
  <2>7. QED  BY <2>4, <2>5, <2>6
<1>3. QED  BY <1>1, <1>2 DEF OpenDir

LEMMA CheckOpenedKeeps == ASSUME ScanInv, CheckOpened PROVE ScanInv'
<1>1. CASE Refuse /\ UNCHANGED <<world, callFailures>>
  BY <1>1, RefuseKeeps DEF ScanInv, ScanTypeOK
<1>2. CASE ~Refuse
  <2>0. UNCHANGED <<world, pass, first, mid, midPast, callFailures>> /\ at' \notin {"idle", "accepted"}
    BY <1>2 DEF CheckOpened, ScanInv
  <2>R. dir \in DirRecords /\ file \in FileRecords /\ dir' \in DirRecords /\ file' \in FileRecords
    BY <1>2, NoRecords DEF ScanInv, ScanTypeOK, CheckOpened, walk
  <2>1. ScanTypeOK'
    BY <1>2, <2>0, <2>R DEF ScanInv, ScanTypeOK, CheckOpened, world, walk, Children
  <2>9. at' \in {"open"} \union Hashing => file'.path \in Paths
    BY <1>2 DEF CheckOpened, ScanInv, ScanTypeOK, Hashing, walk, NoFile
  <2> SUFFICES ASSUME Core, at' \in Walking PROVE Handles' /\ HashRead' /\ SeenRead'
    BY <2>0, <2>1, <2>9, WalkStep
  <2>2. at \in Walking /\ Handles /\ HashRead /\ SeenRead
    BY <1>2 DEF Core, CheckOpened, Walking, Hashing
  <2>3. UNCHANGED <<tree, past, pass, midPast, edits>> /\ \A p, f, v : Was(p, f, v)' <=> Was(p, f, v)
    BY <2>0, WasSame DEF world
  <2>4. Handles'
    <3>1. /\ at = "opened" /\ at' = "list" /\ UNCHANGED <<stack, dir, file>>
          /\ unread' = Children(dir.path) /\ todo' = {}
      BY <1>2 DEF CheckOpened
    <3>2. unread' \union todo' \subseteq Children(dir'.path)  BY <3>1
    <3>3. QED  BY <2>2, <2>3, <3>1, <3>2 DEF Handles, Hashing
  <2>5. HashRead'
    BY <1>2, <2>2, <2>3 DEF HashRead, CheckOpened, walk, Hashing
  <2>6. SeenRead'
    BY SMTT(60), <1>2, <2>R, <2>2, <2>3, Lineage DEF SeenRead, CheckOpened, walk, DirRecords,
         FileRecords, Front, Pending, Doomed, Hashing, Children, Handles
  <2>7. QED  BY <2>4, <2>5, <2>6
<1>3. QED  BY <1>1, <1>2 DEF CheckOpened

LEMMA CheckListedKeeps == ASSUME ScanInv, CheckListed PROVE ScanInv'
<1>1. CASE Refuse /\ UNCHANGED <<world, callFailures>>
  BY <1>1, RefuseKeeps DEF ScanInv, ScanTypeOK
<1>2. CASE ~Refuse
  <2>0. UNCHANGED <<world, pass, first, mid, midPast, callFailures>> /\ at' \notin {"idle", "accepted"}
    BY <1>2 DEF CheckListed, ScanInv
  <2>R. dir \in DirRecords /\ file \in FileRecords /\ dir' \in DirRecords /\ file' \in FileRecords
    BY <1>2, NoRecords DEF ScanInv, ScanTypeOK, CheckListed, walk
  <2>1. ScanTypeOK'
    BY <1>2, <2>0, <2>R DEF ScanInv, ScanTypeOK, CheckListed, world, walk, NoDir
  <2>9. at' \in {"open"} \union Hashing => file'.path \in Paths
    BY <1>2 DEF CheckListed, ScanInv, ScanTypeOK, Hashing, walk, NoFile
  <2> SUFFICES ASSUME Core, at' \in Walking PROVE Handles' /\ HashRead' /\ SeenRead'
    BY <2>0, <2>1, <2>9, WalkStep
  <2>2. at \in Walking /\ Handles /\ HashRead /\ SeenRead
    BY <1>2 DEF Core, CheckListed, Walking, Hashing
  <2>3. UNCHANGED <<tree, past, pass, midPast, edits>> /\ \A p, f, v : Was(p, f, v)' <=> Was(p, f, v)
    BY <2>0, WasSame DEF world
  <2>4. Handles'
    BY <1>2, <2>R, <2>1, <2>2, <2>3 DEF Handles, CheckListed, DirRecords, FileRecords,
         ScanInv, ScanTypeOK, walk, Hashing, NoDir, Children
  <2>5. HashRead'
    BY <1>2, <2>2, <2>3 DEF HashRead, CheckListed, walk, Hashing
  <2>6. SeenRead'
    <3>1. /\ at = "list" /\ at' = "children" /\ UNCHANGED <<stack, unread, todo, file, seen>>
          /\ IsDir(dir.path) /\ DirKey(dir.path) = dir.key
      BY <1>2 DEF CheckListed
    <3>2. ASSUME Doomed PROVE FALSE
      <4>1. dir.path \in Paths /\ tree[dir.path].kind = "dir" /\ tree[dir.path].key = dir.key
        BY <3>1, <3>2, Bounds DEF Doomed, IsDir, DirKey
      <4>2. Facet(tree[dir.path], DirFacet) = dir.key  BY <4>1, FacetFacts
      <4>3. Facet(tree[dir.path], DirFacet) \notin past[dir.path][DirFacet]  BY <4>1, FacetFacts DEF Core
      <4>4. QED  BY <3>2, <4>2, <4>3 DEF Doomed
    <3>3. \A q \in Paths : Pending(q) => Pending(q)'  BY <3>1 DEF Pending, Front, Hashing
    <3>4. QED  BY <2>2, <2>3, <3>1, <3>2, <3>3, SeenStays
  <2>7. QED  BY <2>4, <2>5, <2>6
<1>3. QED  BY <1>1, <1>2 DEF CheckListed

LEMMA OpenFileKeeps == ASSUME ScanInv, OpenFile PROVE ScanInv'
<1>1. CASE Refuse /\ UNCHANGED <<world, callFailures>>
  BY <1>1, RefuseKeeps DEF ScanInv, ScanTypeOK
<1>2. CASE ~Refuse
  <2>0. UNCHANGED <<world, pass, first, mid, midPast, callFailures>> /\ at' \notin {"idle", "accepted"}
    BY <1>2 DEF OpenFile, ScanInv
  <2>R. dir \in DirRecords /\ file \in FileRecords /\ dir' \in DirRecords /\ file' \in FileRecords
    <3>1. file.path \in Paths /\ tree[file.path].data \in Data
      BY <1>2, ObjectType DEF OpenFile, ScanInv, ScanTypeOK
    <3>2. QED  BY <1>2, <3>1 DEF ScanInv, ScanTypeOK, OpenFile, FileRecords
  <2>1. ScanTypeOK'
    BY <1>2, <2>0, <2>R DEF ScanInv, ScanTypeOK, OpenFile, world, walk
  <2>9. at' \in {"open"} \union Hashing => file'.path \in Paths
    BY <1>2, <2>R DEF OpenFile, ScanInv, FileRecords, Hashing
  <2> SUFFICES ASSUME Core, at' \in Walking PROVE Handles' /\ HashRead' /\ SeenRead'
    BY <2>0, <2>1, <2>9, WalkStep
  <2>2. at \in Walking /\ Handles /\ HashRead /\ SeenRead
    BY <1>2 DEF Core, OpenFile, Walking, Hashing
  <2>3. UNCHANGED <<tree, past, pass, midPast, edits>> /\ \A p, f, v : Was(p, f, v)' <=> Was(p, f, v)
    BY <2>0, WasSame DEF world
  <2>4. Handles'
    <3>1. file.path \in Paths /\ tree[file.path] \in Objects /\ tree[file.path].kind = "file"
      BY <1>2 DEF OpenFile, ScanInv, ScanTypeOK
    <3>2. file'.open = tree[file.path].key /\ file'.path = file.path /\ at' = "read" /\ at = "open"
      BY <1>2, <2>R DEF OpenFile, FileRecords
    <3>3. file'.open \in Keys  BY <3>1, <3>2, ObjectType
    <3>4. \A q \in Paths : tree[q].key = file'.open => q = file.path
      BY <3>1, <3>2, <3>3, Bounds DEF ScanInv, ScanTypeOK, Distinct
    <3>5. UNCHANGED <<stack, dir, unread, todo>>  BY <1>2 DEF OpenFile
    <3>6. QED  BY <2>2, <2>3, <3>1, <3>2, <3>3, <3>4, <3>5 DEF Handles, Hashing
  <2>5. HashRead'
    <3>1. file.path \in Paths /\ file'.path = file.path /\ file'.n = file.n /\ file'.got = file.got
      BY <1>2, <2>R DEF OpenFile, ScanInv, FileRecords
    <3>2. file'.data = tree[file.path].data /\ at' = "read"
      BY <1>2, <2>R DEF OpenFile, FileRecords
    <3>3. \A i \in Blocks : Was(file.path, BlockFacet(i), file'.data[i])
      BY SMTT(60), <3>1, <3>2, FacetFacts, WasNow DEF ScanInv, ScanTypeOK
    <3>4. file.n = 0 /\ file.got = NoData
      BY <1>2, <2>2 DEF OpenFile, HashRead
    <3>5. QED  BY SMTT(60), <1>2, <2>2, <2>3, <3>1, <3>2, <3>3, <3>4 DEF HashRead, OpenFile, NoData, Hashing, Blocks
  <2>6. SeenRead'
    BY <1>2, <2>R, <2>2, <2>3 DEF SeenRead, OpenFile, walk, DirRecords, FileRecords, Front,
         Pending, Doomed, Hashing, NoDir
  <2>7. QED  BY <2>4, <2>5, <2>6
<1>3. QED  BY <1>1, <1>2 DEF OpenFile

LEMMA ReadBlockKeeps == ASSUME ScanInv, ReadBlock PROVE ScanInv'
<1>1. CASE Refuse /\ UNCHANGED <<world, callFailures>>
  BY <1>1, RefuseKeeps DEF ScanInv, ScanTypeOK
<1>2. CASE ~Refuse
  <2>0. UNCHANGED <<world, pass, first, mid, midPast, callFailures>> /\ at' \notin {"idle", "accepted"}
    BY <1>2 DEF ReadBlock, ScanInv
  <2>R. dir \in DirRecords /\ file \in FileRecords /\ dir' \in DirRecords /\ file' \in FileRecords
    <3>1. file \in FileRecords  BY DEF ScanInv, ScanTypeOK
    <3>2. file.data[file.n + 1] \in Versions \union {0}  BY <1>2, <3>1 DEF ReadBlock, Data, FileRecords
    <3>3. file' = [file EXCEPT !.n = @ + 1, !.got = [@ EXCEPT ![file.n + 1] = file.data[file.n + 1]]]
      BY <1>2 DEF ReadBlock
    <3>4. file.n + 1 \in 0..NBlocks /\ file.n + 1 \in Blocks
      BY SMTT(60), <1>2, <3>1 DEF ReadBlock, FileRecords, Blocks
    <3>5. file' \in FileRecords  BY <3>1, <3>2, <3>3, <3>4 DEF FileRecords
    <3>6. QED  BY <1>2, <3>1, <3>5 DEF ScanInv, ScanTypeOK, ReadBlock
  <2>1. ScanTypeOK'
    BY <1>2, <2>0, <2>R DEF ScanInv, ScanTypeOK, ReadBlock, world, walk
  <2>9. at' \in {"open"} \union Hashing => file'.path \in Paths
    BY SMTT(60), <1>2 DEF ReadBlock, ScanInv, ScanTypeOK, Hashing, walk, NoFile
  <2> SUFFICES ASSUME Core, at' \in Walking PROVE Handles' /\ HashRead' /\ SeenRead'
    BY <2>0, <2>1, <2>9, WalkStep
  <2>2. at \in Walking /\ Handles /\ HashRead /\ SeenRead
    BY <1>2 DEF Core, ReadBlock, Walking, Hashing
  <2>3. UNCHANGED <<tree, past, pass, midPast, edits>> /\ \A p, f, v : Was(p, f, v)' <=> Was(p, f, v)
    BY <2>0, WasSame DEF world
  <2>4. Handles'
    BY <1>2, <2>R, <2>1, <2>2, <2>3 DEF Handles, ReadBlock, DirRecords, FileRecords,
         ScanInv, ScanTypeOK, walk, Hashing
  <2>5. HashRead'
    <3>1. /\ file'.path = file.path /\ file'.data = file.data /\ file'.n = file.n + 1
          /\ file'.got = [file.got EXCEPT ![file.n + 1] = file.data[file.n + 1]]
          /\ at = "read" /\ at' = "read" /\ file.n \in Nat
      BY SMTT(60), <1>2, <2>R DEF ReadBlock, FileRecords
    <3>2. \A i \in Blocks : file'.got[i] = IF i = file.n + 1 THEN file.data[i] ELSE file.got[i]
      BY <2>R, <3>1 DEF FileRecords
    <3>3. QED  BY SMTT(60), <2>2, <2>3, <3>1, <3>2 DEF HashRead, Hashing, Blocks
  <2>6. SeenRead'
    BY <1>2, <2>R, <2>2, <2>3 DEF SeenRead, ReadBlock, walk, DirRecords, FileRecords,
         Front, Pending, Doomed, Hashing, NoDir
  <2>7. QED  BY <2>4, <2>5, <2>6
<1>3. QED  BY <1>1, <1>2 DEF ReadBlock

LEMMA EofKeeps == ASSUME ScanInv, Eof PROVE ScanInv'
<1>1. CASE Refuse /\ UNCHANGED <<world, callFailures>>
  BY <1>1, RefuseKeeps DEF ScanInv, ScanTypeOK
<1>2. CASE ~Refuse
  <2>0. UNCHANGED <<world, pass, first, mid, midPast, callFailures>> /\ at' \notin {"idle", "accepted"}
    BY <1>2 DEF Eof, ScanInv
  <2>R. dir \in DirRecords /\ file \in FileRecords /\ dir' \in DirRecords /\ file' \in FileRecords
    BY <1>2, NoRecords DEF ScanInv, ScanTypeOK, Eof, walk
  <2>1. ScanTypeOK'
    BY <1>2, <2>0, <2>R DEF ScanInv, ScanTypeOK, Eof, world, walk
  <2>9. at' \in {"open"} \union Hashing => file'.path \in Paths
    BY <1>2 DEF Eof, ScanInv, ScanTypeOK, Hashing, walk, NoFile
  <2> SUFFICES ASSUME Core, at' \in Walking PROVE Handles' /\ HashRead' /\ SeenRead'
    BY <2>0, <2>1, <2>9, WalkStep
  <2>2. at \in Walking /\ Handles /\ HashRead /\ SeenRead
    BY <1>2 DEF Core, Eof, Walking, Hashing
  <2>3. UNCHANGED <<tree, past, pass, midPast, edits>> /\ \A p, f, v : Was(p, f, v)' <=> Was(p, f, v)
    BY <2>0, WasSame DEF world
  <2>4. Handles'
    BY <1>2, <2>R, <2>1, <2>2, <2>3 DEF Handles, Eof, DirRecords, FileRecords, ScanInv,
         ScanTypeOK, walk, Hashing
  <2>5. HashRead'
    <3>1. at = "read" /\ at' = "fstat" /\ file' = file  BY <1>2 DEF Eof, walk
    <3>2. \A i \in Blocks : i > file.n => file.data[i] = 0
      BY SMTT(60), <1>2, <2>R, Bounds DEF Eof, FileRecords, Data, Blocks
    <3>3. file.n \in Nat  BY SMTT(60), <2>R DEF FileRecords
    <3>4. QED  BY SMTT(60), <2>2, <2>3, <3>1, <3>2, <3>3, Bounds DEF HashRead, Hashing, Blocks
  <2>6. SeenRead'
    BY <1>2, <2>R, <2>2, <2>3 DEF SeenRead, Eof, walk, DirRecords, FileRecords, Front,
         Pending, Doomed, Hashing, NoDir
  <2>7. QED  BY <2>4, <2>5, <2>6
<1>3. QED  BY <1>1, <1>2 DEF Eof

LEMMA StatFileKeeps == ASSUME ScanInv, StatFile PROVE ScanInv'
<1>1. CASE Refuse /\ UNCHANGED <<world, callFailures>>
  BY <1>1, RefuseKeeps DEF ScanInv, ScanTypeOK
<1>2. CASE ~Refuse
  <2>0. UNCHANGED <<world, pass, first, mid, midPast, callFailures>> /\ at' \notin {"idle", "accepted"}
    BY <1>2 DEF StatFile, ScanInv
  <2>R. dir \in DirRecords /\ file \in FileRecords /\ dir' \in DirRecords /\ file' \in FileRecords
    BY <1>2, NoRecords DEF ScanInv, ScanTypeOK, StatFile, walk
  <2>1. ScanTypeOK'
    BY <1>2, <2>0, <2>R DEF ScanInv, ScanTypeOK, StatFile, world, walk
  <2>9. at' \in {"open"} \union Hashing => file'.path \in Paths
    BY <1>2 DEF StatFile, ScanInv, ScanTypeOK, Hashing, walk, NoFile
  <2> SUFFICES ASSUME Core, at' \in Walking PROVE Handles' /\ HashRead' /\ SeenRead'
    BY <2>0, <2>1, <2>9, WalkStep
  <2>2. at \in Walking /\ Handles /\ HashRead /\ SeenRead
    BY <1>2 DEF Core, StatFile, Walking, Hashing
  <2>3. UNCHANGED <<tree, past, pass, midPast, edits>> /\ \A p, f, v : Was(p, f, v)' <=> Was(p, f, v)
    BY <2>0, WasSame DEF world
  <2>4. Handles'
    BY <1>2, <2>R, <2>1, <2>2, <2>3 DEF Handles, StatFile, DirRecords, FileRecords,
         ScanInv, ScanTypeOK, walk, Hashing
  <2>5. HashRead'
    BY <1>2, <2>2, <2>3 DEF HashRead, StatFile, walk, Hashing
  <2>6. SeenRead'
    <3>1. at = "fstat" /\ at' = "lstat" /\ UNCHANGED <<stack, unread, todo, file, dir, seen>>
      BY <1>2 DEF StatFile, walk
    <3>2. \A q \in Paths : Pending(q) => Pending(q)'  BY <3>1 DEF Pending, Front, Hashing
    <3>3. ~Doomed  BY <3>1 DEF Doomed
    <3>4. QED  BY <2>2, <2>3, <3>1, <3>2, <3>3, SeenStays
  <2>7. QED  BY <2>4, <2>5, <2>6
<1>3. QED  BY <1>1, <1>2 DEF StatFile

LEMMA DirDoneKeeps == ASSUME ScanInv, DirDone PROVE ScanInv'
<1>1. CASE Refuse /\ UNCHANGED <<world, callFailures>>
  BY <1>1, RefuseKeeps DEF ScanInv, ScanTypeOK
<1>2. CASE ~Refuse
  <2>0. UNCHANGED <<world, pass, first, mid, midPast, callFailures>> /\ at' \notin {"idle", "accepted"}
    BY <1>2 DEF DirDone, ScanInv
  <2>R. dir \in DirRecords /\ file \in FileRecords /\ dir' \in DirRecords /\ file' \in FileRecords
    BY <1>2, NoRecords DEF ScanInv, ScanTypeOK, DirDone, walk
  <2>1. ScanTypeOK'
    BY <1>2, <2>0, <2>R DEF ScanInv, ScanTypeOK, DirDone, world, walk
  <2>9. at' \in {"open"} \union Hashing => file'.path \in Paths
    BY <1>2 DEF DirDone, ScanInv, ScanTypeOK, Hashing, walk, NoFile
  <2> SUFFICES ASSUME Core, at' \in Walking PROVE Handles' /\ HashRead' /\ SeenRead'
    BY <2>0, <2>1, <2>9, WalkStep
  <2>2. at \in Walking /\ Handles /\ HashRead /\ SeenRead
    BY <1>2 DEF Core, DirDone, Walking, Hashing
  <2>3. UNCHANGED <<tree, past, pass, midPast, edits>> /\ \A p, f, v : Was(p, f, v)' <=> Was(p, f, v)
    BY <2>0, WasSame DEF world
  <2>4. Handles'
    BY <1>2, <2>R, <2>1, <2>2, <2>3 DEF Handles, DirDone, DirRecords, FileRecords, ScanInv,
         ScanTypeOK, walk, Hashing
  <2>5. HashRead'
    BY <1>2, <2>2, <2>3 DEF HashRead, DirDone, walk, Hashing
  <2>6. SeenRead'
    BY <1>2, <2>R, <2>2, <2>3 DEF SeenRead, DirDone, walk, DirRecords, FileRecords, Front,
         Pending, Doomed, Hashing
  <2>7. QED  BY <2>4, <2>5, <2>6
<1>3. QED  BY <1>1, <1>2 DEF DirDone

LEMMA ListNameKeeps == ASSUME ScanInv, ListName PROVE ScanInv'
<1>1. CASE Refuse /\ UNCHANGED <<world, callFailures>>
  BY <1>1, RefuseKeeps DEF ScanInv, ScanTypeOK
<1>2. CASE ~Refuse
  <2>0. UNCHANGED <<world, pass, first, mid, midPast, callFailures>> /\ at' \notin {"idle", "accepted"}
    BY <1>2 DEF ListName, ScanInv
  <2>R. dir \in DirRecords /\ file \in FileRecords /\ dir' \in DirRecords /\ file' \in FileRecords
    BY <1>2 DEF ScanInv, ScanTypeOK, ListName
  <2>1. ScanTypeOK'
    BY SMTT(60), <1>2, <2>0, <2>R DEF ScanInv, ScanTypeOK, ListName, world
  <2>9. at' \in {"open"} \union Hashing => file'.path \in Paths
    BY <1>2 DEF ListName, ScanInv, ScanTypeOK, Hashing, walk, NoFile
  <2> SUFFICES ASSUME Core, at' \in Walking PROVE Handles' /\ HashRead' /\ SeenRead'
    BY <2>0, <2>1, <2>9, WalkStep
  <2>2. at \in Walking /\ Handles /\ HashRead /\ SeenRead
    BY <1>2 DEF Core, ListName, Walking, Hashing
  <2>3. UNCHANGED <<tree, past, pass, midPast, edits>> /\ \A p, f, v : Was(p, f, v)' <=> Was(p, f, v)
    BY <2>0, WasSame DEF world
  <2>4. Handles'
    BY SMTT(60), <1>2, <2>2, <2>3 DEF Handles, ListName, Hashing, Children
  <2>5. HashRead'
    BY <1>2, <2>2, <2>3 DEF HashRead, ListName, Hashing
  <2>6. SeenRead'
    <3>1. PICK c \in unread, there \in BOOLEAN :
            /\ IsDir(dir.path) /\ DirKey(dir.path) = dir.stream => there = (tree[c].kind # "absent")
            /\ unread' = unread \ {c}
            /\ todo' = IF there THEN todo \union {c} ELSE todo
      BY <1>2 DEF ListName
    <3>2. UNCHANGED <<at, stack, dir, file, seen>> /\ at = "list"  BY <1>2 DEF ListName
    <3>3. c \in Paths  BY <3>1 DEF ScanInv, ScanTypeOK
    <3>4. Doomed' <=> Doomed  BY <3>2, <2>3 DEF Doomed
    <3>5. CASE there
      BY <3>1, <3>2, <3>4, <3>5, <2>2, <2>3 DEF SeenRead, Pending, Front
    <3>6. CASE ~there /\ Doomed
      BY <3>1, <3>2, <3>4, <3>6, <2>2, <2>3 DEF SeenRead
    <3>7. CASE ~there /\ ~Doomed
      <4>1. IsDir(dir.path) /\ DirKey(dir.path) = dir.stream
        BY <3>2, <3>7, <2>2, <2>R, Bounds DEF Handles, Doomed, IsDir, DirKey, DirRecords
      <4>2. tree[c] = Absent  BY <3>1, <3>3, <3>7, <4>1, ObjectType DEF ScanInv, ScanTypeOK
      <4>3. \A q \in Paths : c \in Above[q] \union {q} => tree[q] = Absent
        BY SMTT(60), <4>2 DEF ScanInv, ScanTypeOK, Consistent, Absent
      <4>4. \A q \in Paths : c \in Above[q] \union {q} => Was(q, KindFacet, "absent")
        BY SMTT(60), <4>3, FacetFacts, WasNow DEF ScanInv, ScanTypeOK, Absent
      <4>5. \A q \in Paths : Pending(q) => Pending(q)' \/ c \in Above[q] \union {q}
        BY <3>1, <3>2, <3>7 DEF Pending, Front
      <4>6. QED  BY <3>2, <3>7, <4>4, <4>5, <2>2, <2>3 DEF SeenRead
    <3>8. QED  BY <3>5, <3>6, <3>7
  <2>7. QED  BY <2>4, <2>5, <2>6
<1>3. QED  BY <1>1, <1>2 DEF ListName

\* A name found to be a directory: reported and pushed.
InspectDir(c) ==
  /\ at = "children" /\ c \in todo /\ tree[c].kind = "dir"
  /\ todo' = todo \ {c}
  /\ seen' = [seen EXCEPT ![c] = Report(tree[c])]
  /\ stack' = stack \union {[path |-> c, key |-> tree[c].key]}
  /\ UNCHANGED <<world, callFailures, at, dir, unread, file, pass, first, mid, midPast, held>>

\* A name found to be a file: to be hashed.
InspectFile(c) ==
  /\ at = "children" /\ c \in todo /\ tree[c].kind = "file"
  /\ at' = "open"
  /\ todo' = todo \ {c}
  /\ file' = [NoFile EXCEPT !.path = c, !.key = tree[c].key]
  /\ UNCHANGED <<world, callFailures, stack, dir, unread, seen, pass, first, mid, midPast, held>>

LEMMA InspectDirKeeps == ASSUME ScanInv, NEW c, InspectDir(c) PROVE ScanInv'
<1>1. c \in Paths /\ tree[c] \in Objects /\ tree[c].kind = "dir" /\ c \in todo
  BY DEF InspectDir, ScanInv, ScanTypeOK
<1>2. tree[c].key \in Keys /\ tree[c].data = NoData  BY <1>1, ObjectType
<1>3. seen' = [seen EXCEPT ![c] = [kind |-> "dir", data |-> NoData]]
  BY <1>1, <1>2 DEF InspectDir, Report
<1>4. ScanTypeOK'
  <2>1. [path |-> c, key |-> tree[c].key] \in [path: Paths \union {Root}, key: Keys \union {0}]
    BY <1>1, <1>2
  <2>2. seen' \in [Paths -> [kind: {"absent", "dir", "file"}, data: [Blocks -> Versions \union {0}]]]
    BY <1>1, <1>3, NoDataType DEF ScanInv, ScanTypeOK
  <2>3. QED  BY <2>1, <2>2 DEF ScanInv, ScanTypeOK, InspectDir, world
<1>5. UNCHANGED <<world, pass, first, mid, midPast>> /\ at' = "children" /\ at = "children"
  BY DEF InspectDir
<1> SUFFICES ASSUME Core PROVE Handles' /\ HashRead' /\ SeenRead'
  BY <1>4, <1>5, WalkStep DEF Hashing
<1>6. Handles /\ HashRead /\ SeenRead  BY <1>5 DEF Core, Walking
<1>7. UNCHANGED <<tree, past, pass, midPast, edits>> /\ \A p, f, v : Was(p, f, v)' <=> Was(p, f, v)
  BY <1>5, WasSame DEF world
<1>8. UNCHANGED <<dir, unread, file, at>> /\ todo' = todo \ {c}  BY DEF InspectDir
<1>9. \A x \in stack' : x \in stack \/ (x.path = c /\ x.key = tree[c].key)  BY SMTT(60) DEF InspectDir
<1>10. Handles'
  BY <1>1, <1>2, <1>5, <1>6, <1>7, <1>8, <1>9, Bounds DEF Handles, Hashing
<1>11. HashRead'  BY <1>5, <1>6, <1>7, <1>8 DEF HashRead, Hashing
<1>12. SeenRead'
  <2>1. Was(c, KindFacet, "dir")  BY SMTT(60), <1>1, FacetFacts, WasNow DEF ScanInv, ScanTypeOK
  <2>2. \A q \in Paths : c \in Above[q] => Pending(q)'
    <3> SUFFICES ASSUME NEW q \in Paths, c \in Above[q] PROVE Pending(q)'
      OBVIOUS
    <3>1. PICK d \in Above[q] \union {q} : Parent[d] = c  BY TreeAssumption
    <3>2. [path |-> c, key |-> tree[c].key] \in stack'  BY DEF InspectDir
    <3>3. Front(d)'  BY <3>1, <3>2 DEF Front
    <3>4. QED  BY <3>1, <3>3 DEF Pending
  <2>3. stack \subseteq stack'  BY DEF InspectDir
  <2>4. \A q \in Paths : Pending(q) => Pending(q)' \/ c \in Above[q] \union {q}
    BY <1>5, <1>8, <2>3 DEF Pending, Front
  <2>5. \A q \in Paths : q # c => seen'[q] = seen[q]  BY <1>1, <1>3 DEF ScanInv, ScanTypeOK
  <2>6. seen'[c] = [kind |-> "dir", data |-> NoData]  BY <1>1, <1>3 DEF ScanInv, ScanTypeOK
  <2>7. ~Doomed  BY <1>5 DEF Doomed
  <2>8. QED  BY SMTT(60), <1>6, <1>7, <2>1, <2>2, <2>4, <2>5, <2>6, <2>7 DEF SeenRead
<1>13. QED  BY <1>10, <1>11, <1>12

LEMMA InspectFileKeeps == ASSUME ScanInv, NEW c, InspectFile(c) PROVE ScanInv'
<1>1. c \in Paths /\ tree[c] \in Objects /\ tree[c].kind = "file" /\ c \in todo
  BY DEF InspectFile, ScanInv, ScanTypeOK
<1>2. file' \in FileRecords /\ file'.path = c /\ file'.open = 0 /\ file'.n = 0 /\ file'.got = NoData
  BY <1>1, ObjectType, NoRecords DEF InspectFile, NoFile, FileRecords
<1>3. ScanTypeOK'  BY <1>2 DEF ScanInv, ScanTypeOK, InspectFile, world
<1>4. UNCHANGED <<world, pass, first, mid, midPast>> /\ at' = "open" /\ at = "children"
  BY DEF InspectFile
<1> SUFFICES ASSUME Core PROVE Handles' /\ HashRead' /\ SeenRead'
  BY <1>1, <1>2, <1>3, <1>4, WalkStep DEF Hashing
<1>5. Handles /\ HashRead /\ SeenRead  BY <1>4 DEF Core, Walking
<1>6. UNCHANGED <<tree, past, pass, midPast, edits>> /\ \A p, f, v : Was(p, f, v)' <=> Was(p, f, v)
  BY <1>4, WasSame DEF world
<1>7. UNCHANGED <<dir, unread, stack, seen>> /\ todo' = todo \ {c}  BY DEF InspectFile
<1>8. Handles'  BY <1>2, <1>4, <1>5, <1>6, <1>7 DEF Handles, Hashing
<1>9. HashRead'
  <2>1. Was(c, KindFacet, "file")  BY SMTT(60), <1>1, FacetFacts, WasNow DEF ScanInv, ScanTypeOK
  <2>2. QED  BY <1>2, <1>4, <1>6, <2>1 DEF HashRead, Hashing
<1>10. SeenRead'
  <2>1. \A q \in Paths : Pending(q) => Pending(q)'
    BY <1>2, <1>4, <1>7 DEF Pending, Front, Hashing
  <2>2. ~Doomed  BY <1>4 DEF Doomed
  <2>3. QED  BY <1>5, <1>6, <1>7, <2>1, <2>2 DEF SeenRead
<1>11. QED  BY <1>8, <1>9, <1>10

LEMMA InspectKeeps == ASSUME ScanInv, Inspect PROVE ScanInv'
<1>1. CASE Refuse /\ UNCHANGED <<world, callFailures>>
  BY <1>1, RefuseKeeps DEF ScanInv, ScanTypeOK
<1>2. CASE ~Refuse
  <2>1. \E c : InspectDir(c) \/ InspectFile(c)  BY <1>2 DEF Inspect, InspectDir, InspectFile
  <2>2. QED  BY <2>1, InspectDirKeeps, InspectFileKeeps
<1>3. QED  BY <1>1, <1>2 DEF Inspect

LEMMA StatPathKeeps == ASSUME ScanInv, StatPath PROVE ScanInv'
<1>1. CASE Refuse /\ UNCHANGED <<world, callFailures>>
  BY <1>1, RefuseKeeps DEF ScanInv, ScanTypeOK
<1>2. CASE ~Refuse
  <2>0. UNCHANGED <<world, pass, first, mid, midPast, callFailures>> /\ at' \notin {"idle", "accepted"}
    BY <1>2 DEF StatPath, ScanInv
  <2>R. dir \in DirRecords /\ file \in FileRecords /\ dir' \in DirRecords /\ file' \in FileRecords
    BY <1>2, NoRecords DEF ScanInv, ScanTypeOK, StatPath
  <2>1. ScanTypeOK'
    <3>1. file.path \in Paths  BY <1>2 DEF StatPath, ScanInv, Hashing
    <3>2. file.got \in [Blocks -> Versions \union {0}]  BY <2>R DEF FileRecords
    <3>3. seen' \in [Paths -> [kind: {"absent", "dir", "file"}, data: [Blocks -> Versions \union {0}]]]
      BY SMTT(60), <1>2, <3>1, <3>2 DEF StatPath, ScanInv, ScanTypeOK
    <3>4. QED  BY <1>2, <2>0, <2>R, <3>3 DEF ScanInv, ScanTypeOK, StatPath, world
  <2>9. at' \in {"open"} \union Hashing => file'.path \in Paths
    BY <1>2 DEF StatPath, ScanInv, ScanTypeOK, Hashing, walk, NoFile
  <2> SUFFICES ASSUME Core, at' \in Walking PROVE Handles' /\ HashRead' /\ SeenRead'
    BY <2>0, <2>1, <2>9, WalkStep
  <2>2. at \in Walking /\ Handles /\ HashRead /\ SeenRead
    BY <1>2 DEF Core, StatPath, Walking, Hashing
  <2>3. UNCHANGED <<tree, past, pass, midPast, edits>> /\ \A p, f, v : Was(p, f, v)' <=> Was(p, f, v)
    BY <2>0, WasSame DEF world
  <2>4. Handles'
    BY SMTT(60), <1>2, <2>2, <2>3 DEF Handles, StatPath, Hashing, NoFile
  <2>5. HashRead'
    BY <1>2 DEF HashRead, StatPath, Hashing
  <2>6. SeenRead'
    <3>1. /\ file.path \in Paths /\ tree[file.path].kind = "file" /\ at = "lstat" /\ at' = "children"
          /\ seen' = [seen EXCEPT ![file.path] = [kind |-> "file", data |-> file.got]]
          /\ UNCHANGED <<stack, dir, unread, todo>>
      BY <1>2 DEF StatPath, ScanInv, Hashing
    <3>2. /\ Was(file.path, KindFacet, "file")
          /\ \A i \in Blocks : Was(file.path, BlockFacet(i), file.got[i])
      BY <2>2, <3>1 DEF HashRead, Hashing
    <3>3. \A q \in Paths : file.path \in Above[q] => Was(q, KindFacet, "absent")
      <4>1. \A q \in Paths : file.path \in Above[q] => tree[q].kind = "absent"
        BY SMTT(60), <3>1 DEF ScanInv, ScanTypeOK, Consistent, Absent
      <4>2. QED  BY SMTT(60), <4>1, FacetFacts, WasNow DEF ScanInv, ScanTypeOK
    <3>4. \A q \in Paths : Pending(q) => Pending(q)' \/ file.path \in Above[q] \union {q}
      BY <3>1 DEF Pending, Front, Hashing
    <3>5. \A q \in Paths : q # file.path => seen'[q] = seen[q]  BY <3>1 DEF ScanInv, ScanTypeOK
    <3>6. seen'[file.path] = [kind |-> "file", data |-> file.got]  BY <3>1 DEF ScanInv, ScanTypeOK
    <3>7. ~Doomed  BY <3>1 DEF Doomed
    <3> DEFINE Entry(p) ==
                 /\ seen[p].kind = "file" => \A i \in Blocks : Was(p, BlockFacet(i), seen[p].data[i])
                 /\ seen[p].kind # "file" => seen[p].data = NoData
                 /\ seen[p].kind # "absent" => Was(p, KindFacet, seen[p].kind)
                 /\ seen[p].kind = "absent" => Was(p, KindFacet, "absent") \/ Pending(p) \/ Doomed
    <3>8. ASSUME NEW p \in Paths PROVE Entry(p)'
      <4>1. CASE p = file.path
        <5>1. seen'[p].kind = "file" /\ seen'[p].data = file.got  BY <3>6, <4>1, SMTT(60)
        <5>2. QED  BY <2>3, <3>2, <4>1, <5>1
      <4>2. CASE p # file.path
        <5>1. Entry(p)  BY <2>2 DEF SeenRead
        <5>2. Pending(p) => Pending(p)' \/ Was(p, KindFacet, "absent")  BY <3>3, <3>4, <4>2
        <5>3. seen'[p] = seen[p]  BY <3>5, <4>2
        <5>4. QED  BY <2>3, <3>7, <5>1, <5>2, <5>3
      <4>3. QED  BY <4>1, <4>2
    <3>9. QED  BY <3>8 DEF SeenRead
  <2>7. QED  BY <2>4, <2>5, <2>6
<1>3. QED  BY <1>1, <1>2 DEF StatPath

LEMMA CallFailsKeeps == ASSUME ScanInv, CallFails PROVE ScanInv'
<1>1. callFailures' \in 0..MaxCallFailures  BY SMTT(60), Bounds DEF CallFails, ScanInv, ScanTypeOK
<1>2. QED  BY <1>1, RefuseKeeps DEF CallFails

\* A walk that begins has everything before it.
LEMMA FreshWalk ==
  ASSUME stack' = {[path |-> Root, key |-> 0]}, at' = "pop",
         seen' = [p \in Paths |-> Report(Absent)],
         unread' = {}, todo' = {},
         file'.open # 0 => \A q \in Paths : tree'[q].key = file'.open => q = file'.path
  PROVE  Handles' /\ HashRead' /\ SeenRead'
<1>1. Handles'  BY SMTT(60), Bounds DEF Handles, Hashing
<1>2. HashRead'  BY DEF HashRead, Hashing
<1>3. SeenRead'
  <2>1. \A p \in Paths : seen'[p].kind = "absent" /\ seen'[p].data = NoData
    BY DEF Report, Absent
  <2>2. \A p \in Paths : Pending(p)'
    <3> SUFFICES ASSUME NEW p \in Paths PROVE Pending(p)'
      OBVIOUS
    <3>1. PICK c \in Above[p] \union {p} : Parent[c] = Root  BY TreeAssumption
    <3>2. Front(c)'  BY <3>1 DEF Front
    <3>3. QED  BY <3>1, <3>2 DEF Pending
  <2>3. QED  BY <2>1, <2>2 DEF SeenRead
<1>4. QED  BY <1>1, <1>2, <1>3

LEMMA NothingSeen ==
  [p \in Paths |-> Report(Absent)]
    \in [Paths -> [kind: {"absent", "dir", "file"}, data: [Blocks -> Versions \union {0}]]]
BY NoDataType DEF Report, Absent

LEMMA BeginKeeps == ASSUME ScanInv, Begin PROVE ScanInv'
<1>1. ScanTypeOK'
  <2>1. UNCHANGED <<tree, edits, dir, unread, todo, file, callFailures>> /\ pass' = 1  BY DEF Begin
  <2>2. stack' \subseteq [path: Paths \union {Root}, key: Keys \union {0}]  BY SMTT(60) DEF Begin
  <2>3. seen' \in [Paths -> [kind: {"absent", "dir", "file"}, data: [Blocks -> Versions \union {0}]]]
    BY NothingSeen DEF Begin
  <2>4. pass' \in 1..2  BY <2>1, SMTT(60)
  <2>5. QED  BY <2>1, <2>2, <2>3, <2>4 DEF ScanInv, ScanTypeOK
<1>2. Handles' /\ HashRead' /\ SeenRead'
  BY FreshWalk DEF Begin, ScanInv
<1>3. Core'
  <2>1. past' = [p \in Paths |-> [f \in Facets |-> {}]] /\ pass' = 1 /\ at' = "pop"  BY DEF Begin
  <2>2. QED  BY SMTT(60), <1>2, <2>1 DEF Core, FirstRead
<1>4. QED  BY <1>1, <1>3 DEF ScanInv, Begin, Hashing

LEMMA SecondWalkKeeps == ASSUME ScanInv, SecondWalk PROVE ScanInv'
<1>1. ScanTypeOK'  BY SMTT(60), NothingSeen, Bounds DEF ScanInv, ScanTypeOK, SecondWalk, world
<1>2. ASSUME ~recurred PROVE Core'
  <2>1. Core /\ at \in Walking  BY <1>2 DEF ScanInv, SecondWalk, Walking
  <2>2. Handles /\ SeenRead  BY <2>1 DEF Core
  <2>3. /\ UNCHANGED <<tree, past, unread, todo, file>> /\ at = "walked" /\ at' = "pop"
        /\ pass = 1 /\ pass' = 2 /\ first' = seen /\ mid' = tree /\ midPast' = past
    BY DEF SecondWalk, world
  <2>4. Handles' /\ HashRead' /\ SeenRead'
    <3>1. unread = {} /\ todo = {}  BY <2>2, <2>3 DEF Handles
    <3>2. QED  BY <2>2, <2>3, <3>1, FreshWalk DEF SecondWalk, Handles
  <2>5. FirstRead'
    <3>1. \A p \in Paths : ~Pending(p) /\ ~Doomed
      BY <2>2, <2>3, Lineage DEF Handles, Pending, Front, Doomed, Hashing
    <3>2. \A p \in Paths : Was(p, KindFacet, seen[p].kind)
      BY <2>2, <3>1 DEF SeenRead
    <3>3. \A p \in Paths : seen[p].kind = "file" =>
            \A i \in Blocks : Was(p, BlockFacet(i), seen[p].data[i])
      BY <2>2 DEF SeenRead
    <3>4. \A p \in Paths, f \in Facets : \A v :
            Was(p, f, v) => v \in midPast'[p][f] \union {Facet(mid'[p], f)}
      BY <2>3 DEF Was
    <3>5. \A p \in Paths : seen[p].kind \in midPast'[p][KindFacet] \union {mid'[p].kind}
      BY <3>2, <3>4, FacetFacts
    <3>6. \A p \in Paths : seen[p].kind = "file" =>
            \A i \in Blocks :
              seen[p].data[i] \in midPast'[p][BlockFacet(i)] \union {mid'[p].data[i]}
      BY <3>3, <3>4, FacetFacts
    <3>7. QED  BY <2>3, <3>5, <3>6 DEF FirstRead
  <2>6. QED  BY <2>1, <2>3, <2>4, <2>5 DEF Core
<1>3. QED  BY <1>1, <1>2 DEF ScanInv, ScanTypeOK, SecondWalk, world, Hashing

LEMMA CompareKeeps == ASSUME ScanInv, Compare PROVE ScanInv'
<1>1. CASE Refuse /\ UNCHANGED <<world, callFailures>>
  BY <1>1, RefuseKeeps DEF ScanInv, ScanTypeOK
<1>2. CASE ~Refuse
  <2>1. /\ UNCHANGED <<world, walk, pass, first, mid, midPast, callFailures>>
        /\ first = seen /\ at = "walked" /\ at' = "accepted" /\ pass = 2
    BY <1>2 DEF Compare
  <2>2. ScanTypeOK'  BY <2>1 DEF ScanInv, ScanTypeOK, world, walk
  <2>3. ASSUME ~recurred PROVE Core'
    <3>1. Core /\ Handles /\ SeenRead /\ FirstRead
      BY <2>1, <2>3 DEF ScanInv, Core, Walking
    <3>2. \A p \in Paths : ~Pending(p) /\ ~Doomed
      BY <2>1, <3>1, Lineage DEF Handles, Pending, Front, Doomed, Hashing
    <3>3. \A p \in Paths : seen[p].kind = mid[p].kind
      <4> SUFFICES ASSUME NEW p \in Paths PROVE seen[p].kind = mid[p].kind  OBVIOUS
      <4>1. Was(p, KindFacet, seen[p].kind)  BY <3>1, <3>2 DEF SeenRead
      <4>2. seen[p].kind \notin midPast[p][KindFacet]  BY <2>1, <4>1, SMTT(60) DEF Was
      <4>3. first[p].kind \in midPast[p][KindFacet] \union {mid[p].kind}  BY <2>1, <3>1 DEF FirstRead
      <4>4. QED  BY <2>1, <4>2, <4>3
    <3>4. \A p \in Paths : seen[p].kind = "file" => \A i \in Blocks : seen[p].data[i] = mid[p].data[i]
      <4> SUFFICES ASSUME NEW p \in Paths, seen[p].kind = "file", NEW i \in Blocks
                   PROVE  seen[p].data[i] = mid[p].data[i]
        OBVIOUS
      <4>1. Was(p, BlockFacet(i), seen[p].data[i])  BY <3>1 DEF SeenRead
      <4>2. seen[p].data[i] \notin midPast[p][BlockFacet(i)]  BY <2>1, <4>1, SMTT(60) DEF Was
      <4>3. first[p].data[i] \in midPast[p][BlockFacet(i)] \union {mid[p].data[i]}  BY <2>1, <3>1 DEF FirstRead
      <4>4. QED  BY <2>1, <4>2, <4>3
    <3>5. \A p \in Paths : seen[p].data = mid[p].data
      <4> SUFFICES ASSUME NEW p \in Paths PROVE seen[p].data = mid[p].data
        OBVIOUS
      <4>1. mid[p] \in Objects  BY DEF ScanInv
      <4>2. CASE seen[p].kind = "file"
        <5>1. seen[p].data \in [Blocks -> Versions \union {0}]  BY DEF ScanInv, ScanTypeOK
        <5>2. mid[p].data \in [Blocks -> Versions \union {0}]  BY <4>1, ObjectType DEF Data
        <5>3. QED  BY SMTT(60), <3>4, <4>2, <5>1, <5>2
      <4>3. CASE seen[p].kind # "file"
        BY <3>1, <3>3, <4>1, <4>3, ObjectType DEF SeenRead
      <4>4. QED  BY <4>2, <4>3
    <3>6. \A p \in Paths : seen[p] = Report(mid[p])
      BY <3>3, <3>5 DEF Report, ScanInv, ScanTypeOK
    <3>7. seen = [p \in Paths |-> Report(mid[p])]  BY <3>6 DEF ScanInv, ScanTypeOK
    <3>8. FirstRead'  BY <2>1, <3>1 DEF FirstRead
    <3>9. QED  BY <2>1, <3>1, <3>7, <3>8 DEF Core, world, walk, Walking, Hashing
  <2>4. QED  BY <2>1, <2>2, <2>3 DEF ScanInv, world, Hashing
<1>3. QED  BY <1>1, <1>2 DEF Compare

-----------------------------------------------------------------------------
(* An edit by somebody else.                                               *)

LEMMA EditTree ==
  ASSUME ScanTypeOK, NEW p \in Paths, NEW o \in Objects, Edit(p, o)
  PROVE  /\ tree' \in [Paths -> Objects] /\ Consistent(tree') /\ Distinct(tree')
         /\ file' \in FileRecords
<1>1. tree' = [q \in Paths |-> IF q = p THEN o ELSE IF q \in Below(p) THEN Absent ELSE tree[q]]
  BY DEF Edit
<1>2. tree' \in [Paths -> Objects]  BY <1>1 DEF ScanTypeOK, Objects
<1>3. Consistent(tree')
  <2> SUFFICES ASSUME NEW q \in Paths, NEW a \in Above[q], tree'[a].kind # "dir"
               PROVE  tree'[q] = Absent
    BY DEF Consistent
  <2>1. a \in Paths /\ Above[a] \subseteq Above[q]  BY TreeAssumption
  <2>2. CASE q = p
    <3>1. Parent[p] # Root /\ Above[p] = Above[Parent[p]] \union {Parent[p]} /\ Parent[p] \in Paths
      BY <2>2, TreeAssumption
    <3>2. tree[Parent[p]].kind = "dir" /\ tree[Parent[p]] # Absent
      BY SMTT(60), <3>1 DEF Edit, IsDir, Absent
    <3>3. tree[a].kind = "dir"
      BY <2>2, <3>1, <3>2 DEF ScanTypeOK, Consistent
    <3>4. a # p /\ a \notin Below(p)
      <4>1. p \notin Above[p]
        <5>1. SUFFICES ASSUME p \in Above[p] PROVE FALSE
          OBVIOUS
        <5>2. QED  BY <5>1, Acyclic
      <4>2. QED  BY <2>1, <2>2, <4>1 DEF Below
    <3>5. QED  BY <1>1, <2>1, <3>3, <3>4
  <2>3. CASE q \in Below(p)  BY <1>1, <2>3, Acyclic DEF Below
  <2>4. CASE q # p /\ q \notin Below(p)
    <3>1. a # p /\ a \notin Below(p)  BY <2>1, <2>4 DEF Below
    <3>2. tree'[a] = tree[a] /\ tree'[q] = tree[q]  BY <1>1, <2>1, <2>4, <3>1
    <3>3. QED  BY <3>2 DEF ScanTypeOK, Consistent
  <2>5. QED  BY <2>2, <2>3, <2>4
<1>4. Distinct(tree')
  <2>1. o.key = 0 \/ o.key = tree[p].key \/ \A q \in Paths : tree[q].key # o.key
    BY ObjectType DEF Edit, InUse
  <2>2. \A q \in Paths : \/ tree'[q] = o /\ q = p
                         \/ tree'[q] = Absent
                         \/ tree'[q] = tree[q] /\ q # p
    <3> TAKE q \in Paths
    <3>1. tree'[q] = IF q = p THEN o ELSE IF q \in Below(p) THEN Absent ELSE tree[q]  BY <1>1
    <3>2. QED  BY <3>1
  <2>3. Absent.key = 0  BY DEF Absent
  <2>4. QED  BY SMTT(60), <2>1, <2>2, <2>3 DEF Distinct, ScanTypeOK
<1>5. file' \in FileRecords
  BY ObjectType DEF Edit, ScanTypeOK, FileRecords
<1>6. QED  BY <1>2, <1>3, <1>4, <1>5

LEMMA EditKeeps ==
  ASSUME ScanInv, NEW p \in Paths, NEW o \in Objects, Edit(p, o) PROVE ScanInv'
<1>1. ScanTypeOK'
  <2>1. ScanTypeOK  BY DEF ScanInv
  <2>2. edits' \in 0..MaxEdits  BY SMTT(60), <2>1, Bounds DEF Edit, ScanTypeOK
  <2>3. UNCHANGED <<pass, stack, dir, unread, todo, seen, callFailures>>  BY DEF Edit
  <2>4. QED  BY <2>1, <2>2, <2>3, EditTree DEF ScanTypeOK
<1>2. /\ past' = [q \in Paths |-> [f \in Facets |->
                   past[q][f] \union ({Facet(tree[q], f)} \ {Facet(tree'[q], f)})]]
      /\ recurred' = (recurred \/ \E q \in Paths, f \in Facets : Facet(tree'[q], f) \in past'[q][f])
      /\ UNCHANGED <<at, pass, stack, dir, unread, todo, seen, first, mid, midPast>>
      /\ at \notin {"idle", "accepted", "refused"}
  BY DEF Edit
<1>3. \A q \in Paths, f \in Facets : past[q][f] \subseteq past'[q][f]  BY <1>2
<1>4. file'.path = file.path /\ file'.open = file.open /\ file'.n = file.n /\ file'.got = file.got
  BY DEF Edit, ScanInv, ScanTypeOK, FileRecords
<1>5. ASSUME ~recurred' PROVE Core'
  <2> DEFINE WasNext(q, f, v) == /\ IF pass' = 1 THEN v \in past'[q][f] \union {Facet(tree'[q], f)}
                                    ELSE v \notin midPast'[q][f]
                                 /\ edits' = 0 => v = Facet(tree'[q], f)
  <2>1. Core /\ ~recurred  BY <1>2, <1>5 DEF ScanInv
  <2>2. \A q \in Paths, f \in Facets : Facet(tree'[q], f) \notin past'[q][f]  BY <1>2, <1>5
  <2>3. pass' = 2 => \A q \in Paths, f \in Facets : midPast'[q][f] \subseteq past'[q][f]
    BY <1>2, <1>3, <2>1 DEF Core
  <2>4. FirstRead'  BY <1>2, <2>1 DEF Core, FirstRead
  <2>5. \A q \in Paths, f \in Facets : \A v : Was(q, f, v) => WasNext(q, f, v)
    <3>1. edits' # 0  BY SMTT(60), Bounds DEF Edit, ScanInv, ScanTypeOK
    <3>2. QED  BY <1>2, <3>1 DEF Was
  <2>6. \A q \in Paths, f \in Facets : WasNext(q, f, Facet(tree'[q], f))
    <3>1. pass' = 1 \/ pass' = 2  BY SMTT(60), <1>2 DEF ScanInv, ScanTypeOK
    <3>2. QED  BY <2>2, <2>3, <3>1
  <2> HIDE DEF WasNext
  <2>7. ASSUME at' \in Walking PROVE Handles' /\ HashRead' /\ SeenRead'
    <3>1. Handles /\ HashRead /\ SeenRead  BY <1>2, <2>1, <2>7 DEF Core
    <3>2. Handles'
      <4>1. file.open # 0 => \A q \in Paths : tree'[q].key = file.open => q = file.path
        <5>1. \A q \in Paths : (tree'[q] = o /\ q = p) \/ tree'[q] = Absent \/ tree'[q] = tree[q]
          BY DEF Edit
        <5>2. file.open # 0 /\ o.key = file.open => tree[p].key = file.open
          BY ObjectType DEF Edit, InUse
        <5>3. Absent.key = 0  BY DEF Absent
        <5>4. file.open # 0 => \A q \in Paths : tree[q].key = file.open => q = file.path
          BY <3>1 DEF Handles
        <5>5. QED  BY <5>1, <5>2, <5>3, <5>4
      <4>2. ASSUME at \in {"opendir", "opened", "list"}, dir.path \in Paths
            PROVE  \/ dir.key \in past'[dir.path][DirFacet]
                   \/ /\ tree'[dir.path].kind = "dir" /\ tree'[dir.path].key = dir.key
                      /\ at # "opendir" => dir.stream = dir.key
        <5>1. CASE dir.key \in past[dir.path][DirFacet]  BY <1>3, <4>2, <5>1, FacetFacts
        <5>2. CASE dir.key \notin past[dir.path][DirFacet]
          <6>1. /\ tree[dir.path].kind = "dir" /\ tree[dir.path].key = dir.key /\ dir.key \in Keys
                /\ at # "opendir" => dir.stream = dir.key
            BY <3>1, <4>2, <5>2 DEF Handles
          <6>2. Facet(tree[dir.path], DirFacet) = dir.key  BY <6>1, FacetFacts
          <6>3. CASE Facet(tree'[dir.path], DirFacet) = dir.key
            <7>1. tree'[dir.path].kind = "dir" /\ tree'[dir.path].key = dir.key
              BY <6>1, <6>3, FacetFacts, Bounds
            <7>2. QED  BY <6>1, <7>1
          <6>4. CASE Facet(tree'[dir.path], DirFacet) # dir.key
            BY <1>2, <4>2, <6>2, <6>4, FacetFacts
          <6>5. QED  BY <6>3, <6>4
        <5>3. QED  BY <5>1, <5>2
      <4>3. UNCHANGED <<at, stack, dir, unread, todo>>  BY <1>2
      <4>4. QED  BY <1>4, <3>1, <4>1, <4>2, <4>3 DEF Handles, Hashing
    <3>3. HashRead'
      <4>1. ASSUME at \in Hashing, NEW i \in Blocks
            PROVE  WasNext(file.path, BlockFacet(i), file'.data[i])
        <5>1. file.path \in Paths /\ file.open \in Keys
          BY <3>1, <4>1 DEF ScanInv, Handles
        <5>2. CASE o.kind = "file" /\ file.open = o.key
          <6>1. tree[p].key = o.key  BY <5>1, <5>2, ObjectType DEF Edit, InUse
          <6>2. p = file.path  BY <3>1, <5>1, <5>2, <6>1, Bounds DEF Handles
          <6>3. tree'[file.path] = o  BY <6>2 DEF Edit
          <6>4. file'.data = o.data  BY <5>2 DEF Edit, ScanInv, ScanTypeOK, FileRecords
          <6>5. QED  BY <2>6, <4>1, <5>1, <6>3, <6>4, FacetFacts
        <5>3. CASE ~(o.kind = "file" /\ file.open = o.key)
          <6>1. file' = file  BY <5>3 DEF Edit
          <6>2. QED  BY <2>5, <3>1, <4>1, <5>1, <6>1, FacetFacts DEF HashRead
        <5>4. QED  BY <5>2, <5>3
      <4>2. at \in {"open"} \union Hashing => WasNext(file.path, KindFacet, "file")
        BY <2>5, <3>1, FacetFacts DEF HashRead, ScanInv
      <4>3. ASSUME at \in Hashing, NEW i \in Blocks, i <= file.n \/ at # "read"
            PROVE  WasNext(file.path, BlockFacet(i), file.got[i])
        BY <2>5, <3>1, <4>3, FacetFacts DEF HashRead, ScanInv
      <4>4. QED  BY <1>2, <1>4, <3>1, <4>1, <4>2, <4>3 DEF HashRead, Was, WasNext
    <3>4. SeenRead'
      <4>1. \A q \in Paths : Pending(q) => Pending(q)'  BY <1>2, <1>4 DEF Pending, Front
      <4>2. Doomed => Doomed'  BY <1>2, <1>3, FacetFacts DEF Doomed
      <4>3. \A q \in Paths, f \in Facets : \A v : Was(q, f, v) => Was(q, f, v)'
        BY <2>5 DEF Was, WasNext
      <4>4. QED  BY <1>2, <3>1, <4>1, <4>2, <4>3, FacetFacts DEF SeenRead
    <3>5. QED  BY <3>2, <3>3, <3>4
  <2>8. QED  BY <1>2, <2>2, <2>3, <2>4, <2>7 DEF Core
<1>6. recurred' \in BOOLEAN  BY <1>2 DEF ScanInv
<1>7. DOMAIN past' = Paths /\ \A q \in Paths : DOMAIN past'[q] = Facets  BY <1>2
<1>8. QED  BY <1>1, <1>2, <1>4, <1>5, <1>6, <1>7 DEF ScanInv

-----------------------------------------------------------------------------

LEMMA InitScanInv == ScanInit => ScanInv
<1> SUFFICES ASSUME ScanInit PROVE ScanInv
  OBVIOUS
<1>1. ScanTypeOK
  <2>1. seen \in [Paths -> [kind: {"absent", "dir", "file"}, data: [Blocks -> Versions \union {0}]]]
    BY NothingSeen DEF ScanInit
  <2>2. QED  BY SMTT(60), <2>1, TreesAssumption, NoRecords, Bounds DEF ScanInit, ScanTypeOK
<1>2. Core
  BY SMTT(60), <1>1 DEF ScanInit, Core, FirstRead, Walking, Hashing
<1>3. QED  BY <1>1, <1>2 DEF ScanInit, ScanInv, ScanTypeOK, NoFile, Hashing

LEMMA NextScanInv == ScanInv /\ [ScanNext]_scanVars => ScanInv'
<1> SUFFICES ASSUME ScanInv, [ScanNext]_scanVars PROVE ScanInv'
  OBVIOUS
<1>1. CASE \E p \in Paths, o \in Objects : Edit(p, o)  BY <1>1, EditKeeps
<1>2. CASE Begin \/ SecondWalk \/ Compare \/ CallFails
  BY <1>2, BeginKeeps, SecondWalkKeeps, CompareKeeps, CallFailsKeeps
<1>3. CASE Walk
  BY <1>3, PopKeeps, OpenDirKeeps, CheckOpenedKeeps, ListNameKeeps, CheckListedKeeps,
     InspectKeeps, OpenFileKeeps, ReadBlockKeeps, EofKeeps, StatFileKeeps, StatPathKeeps,
     DirDoneKeeps DEF Walk, Hash
<1>4. CASE UNCHANGED scanVars
  <2>1. /\ tree' = tree /\ edits' = edits /\ past' = past /\ recurred' = recurred /\ inPlace' = inPlace
        /\ stack' = stack /\ dir' = dir /\ unread' = unread /\ todo' = todo /\ file' = file
        /\ seen' = seen /\ at' = at /\ pass' = pass /\ first' = first /\ callFailures' = callFailures
        /\ mid' = mid /\ midPast' = midPast
    BY <1>4 DEF scanVars, world, walk
  <2>2. ScanTypeOK'  BY <2>1 DEF ScanInv, ScanTypeOK
  <2>3. Handles' <=> Handles  BY <2>1 DEF Handles
  <2>4. HashRead' <=> HashRead  BY <2>1 DEF HashRead, Was
  <2>5. \A p : Pending(p)' <=> Pending(p)  BY <2>1 DEF Pending, Front
  <2>6. Doomed' <=> Doomed  BY <2>1 DEF Doomed
  <2>7. SeenRead' <=> SeenRead  BY <2>1, <2>5, <2>6 DEF SeenRead, Was
  <2>8. FirstRead' <=> FirstRead  BY <2>1 DEF FirstRead
  <2>9. Core' <=> Core  BY <2>1, <2>3, <2>4, <2>7, <2>8 DEF Core
  <2>10. QED  BY <2>1, <2>2, <2>9 DEF ScanInv
<1>5. QED  BY <1>1, <1>2, <1>3, <1>4 DEF ScanNext

\* The invariant holds in every reachable state.
THEOREM ScanInvariant == ScanSpec => []ScanInv
BY InitScanInv, NextScanInv, PTL DEF ScanSpec

\* Two walks of observe_workspace that agree report exactly the tree of the moment between them,
\* for every tree and any number of edits that bring nothing back to what it had been.
THEOREM SnapshotTheorem == ScanSpec => []SnapshotWhenAgreed
<1>1. ScanInv => SnapshotWhenAgreed  BY DEF ScanInv, Core, SnapshotWhenAgreed
<1>2. QED  BY <1>1, ScanInvariant, PTL

-----------------------------------------------------------------------------
(* Files that are only replaced as a whole.                                *)

\* As long as no file is written in place, a file that is being hashed keeps its data.
WholeInv ==
  at # "idle" /\ ~inPlace =>
    /\ \A p \in Paths : tree[p].data \in held[p]
    /\ \A p \in Reported : seen[p].kind = "file" => seen[p].data \in held[p]
    /\ at = "open" => file.n = 0 /\ file.got = NoData
    /\ at \in Hashing =>
         /\ file.data \in held[file.path]
         /\ \A i \in Blocks : file.got[i] = IF i <= file.n THEN file.data[i] ELSE 0
    /\ at \in {"fstat", "lstat"} /\ file.n + 1 \in Blocks => file.data[file.n + 1] = 0

\* A step of the walk that has no file in hand.
LEMMA WholeFrame ==
  ASSUME WholeInv, at # "idle", UNCHANGED <<world, held>>, at' \notin {"open"} \union Hashing,
         \A p \in Paths : seen'[p] = seen[p] \/ seen'[p].kind # "file"
  PROVE  WholeInv'
<1> SUFFICES ASSUME ~inPlace' PROVE /\ \A p \in Paths : tree'[p].data \in held'[p]
                                    /\ \A p \in Reported' : seen'[p].kind = "file" => seen'[p].data \in held'[p]
  BY DEF WholeInv, Hashing
<1>1. UNCHANGED <<tree, inPlace, held>>  BY DEF world
<1>2. \A p \in Reported' : p \in Paths /\ seen'[p].kind # "absent"  BY DEF Reported
<1>3. \A p \in Paths : seen[p].kind = "file" => seen[p].data \in held[p]
  BY <1>1 DEF WholeInv, Reported
<1>4. QED  BY <1>1, <1>2, <1>3 DEF WholeInv

\* A walk that begins has read nothing.
LEMMA WholeFresh ==
  ASSUME UNCHANGED tree, held' = [p \in Paths |-> {tree[p].data}], at' = "pop",
         seen' = [p \in Paths |-> Report(Absent)]
  PROVE  WholeInv'
<1>1. \A p \in Paths : seen'[p].kind = "absent"  BY DEF Report, Absent
<1>2. Reported' = {}  BY <1>1 DEF Reported
<1>3. QED  BY <1>2 DEF WholeInv, Hashing

LEMMA WholeEdit ==
  ASSUME ScanInv, WholeInv, NEW p \in Paths, NEW o \in Objects, Edit(p, o)
  PROVE  WholeInv'
<1> SUFFICES ASSUME ~inPlace' PROVE WholeInv'
  BY DEF WholeInv
<1>1. ~inPlace /\ ~(o.kind = "file" /\ o.key = tree[p].key) /\ at # "idle"
  BY DEF Edit
<1>2. file' = file
  <2>1. o.kind = "file" => o.key \notin InUse  BY <1>1 DEF Edit
  <2>2. file.open \in InUse  BY DEF InUse
  <2>3. QED  BY <2>1, <2>2 DEF Edit
<1>3. \A q \in Paths : held'[q] = held[q] \union {tree'[q].data}  BY DEF Edit
<1>4. UNCHANGED <<at, seen>>  BY DEF Edit
<1>5. UNCHANGED Reported  BY <1>4 DEF Reported
<1>6. Reported \subseteq Paths  BY DEF Reported
<1>7. at \in Hashing => file.path \in Paths  BY DEF ScanInv
<1>8. QED  BY <1>1, <1>2, <1>3, <1>4, <1>5, <1>6, <1>7 DEF WholeInv

LEMMA WholeHash ==
  ASSUME ScanInv, WholeInv, OpenFile \/ ReadBlock \/ Eof \/ StatFile, ~Refuse
  PROVE  WholeInv'
<1>1. file \in FileRecords /\ file.path \in Paths /\ file.n \in Nat /\ tree[file.path].data \in Data
  BY SMTT(60), ObjectType DEF OpenFile, ReadBlock, Eof, StatFile, ScanInv, ScanTypeOK, FileRecords, Hashing
<1> SUFFICES ASSUME ~inPlace'
             PROVE  /\ at' \in Hashing => /\ file'.data \in held[file'.path]
                                          /\ \A i \in Blocks : file'.got[i] = IF i <= file'.n THEN file'.data[i] ELSE 0
                    /\ at' \in {"fstat", "lstat"} /\ file'.n + 1 \in Blocks => file'.data[file'.n + 1] = 0
  <2>1. UNCHANGED <<world, held, seen>> /\ at # "idle" /\ at' # "open"
    BY DEF OpenFile, ReadBlock, Eof, StatFile, walk
  <2>2. UNCHANGED <<tree, held, Reported, seen, inPlace>>  BY <2>1 DEF world, Reported
  <2>3. QED  BY <2>1, <2>2 DEF WholeInv
<1>2. ~inPlace  BY DEF OpenFile, ReadBlock, Eof, StatFile, world
<1>3. CASE OpenFile
  <2>1. at = "open" /\ at' = "read" /\ file' = [file EXCEPT !.open = file.key, !.data = tree[file.path].data]
    BY <1>3 DEF OpenFile
  <2>2. file'.data = tree[file.path].data /\ file'.n = 0 /\ file'.got = NoData /\ file'.path = file.path
    BY <1>1, <1>2, <2>1 DEF FileRecords, WholeInv
  <2>3. tree[file.path].data \in held[file.path]  BY <1>1, <1>2, <2>1 DEF WholeInv
  <2>4. \A i \in Blocks : NoData[i] = 0 /\ ~(i <= 0)  BY SMTT(60) DEF NoData, Blocks
  <2>5. QED  BY <2>1, <2>2, <2>3, <2>4
<1>4. CASE ReadBlock
  <2>1. at = "read" /\ at' = "read" /\ file.n + 1 \in Blocks
        /\ file' = [file EXCEPT !.n = @ + 1, !.got = [@ EXCEPT ![file.n + 1] = file.data[file.n + 1]]]
    BY <1>4 DEF ReadBlock
  <2>2. /\ file'.data = file.data /\ file'.path = file.path /\ file'.n = file.n + 1
        /\ file'.got = [file.got EXCEPT ![file.n + 1] = file.data[file.n + 1]]
    BY <1>1, <2>1 DEF FileRecords
  <2>3. \A i \in Blocks : file'.got[i] = IF i = file.n + 1 THEN file.data[i] ELSE file.got[i]
    BY <1>1, <2>2 DEF FileRecords
  <2>4. /\ file.data \in held[file.path]
        /\ \A i \in Blocks : file.got[i] = IF i <= file.n THEN file.data[i] ELSE 0
    BY <1>2, <2>1 DEF WholeInv, Hashing
  <2>5. \A i \in Blocks : i <= file.n + 1 <=> i = file.n + 1 \/ i <= file.n
    BY SMTT(60), <1>1 DEF Blocks
  <2>6. QED  BY <2>1, <2>2, <2>3, <2>4, <2>5
<1>5. CASE Eof
  <2>1. at = "read" /\ at' = "fstat" /\ file' = file /\ (file.n + 1 \in Blocks => file.data[file.n + 1] = 0)
    BY <1>5 DEF Eof, walk
  <2>2. QED  BY <1>2, <2>1 DEF WholeInv, Hashing
<1>6. CASE StatFile
  <2>1. at = "fstat" /\ at' = "lstat" /\ file' = file
    BY <1>6 DEF StatFile, walk
  <2>2. QED  BY <1>2, <2>1 DEF WholeInv, Hashing
<1>7. QED  BY <1>3, <1>4, <1>5, <1>6

\* What was hashed to the end is the data of the file.
LEMMA WholeEntry ==
  ASSUME ScanInv, WholeInv, StatPath, ~Refuse
  PROVE  WholeInv'
<1> SUFFICES ASSUME ~inPlace' PROVE WholeInv'
  BY DEF WholeInv
<1>1. /\ at = "lstat" /\ at' = "children" /\ UNCHANGED <<tree, held, inPlace>>
      /\ seen' = [seen EXCEPT ![file.path] = [kind |-> "file", data |-> file.got]]
  BY DEF StatPath, world
<1>2. file \in FileRecords /\ file.path \in Paths /\ file.n \in Nat /\ file.data \in Data
      /\ file.got \in [Blocks -> Versions \union {0}]
  BY SMTT(60), <1>1 DEF ScanInv, ScanTypeOK, FileRecords, Hashing
<1>3. /\ file.data \in held[file.path]
      /\ \A i \in Blocks : file.got[i] = IF i <= file.n THEN file.data[i] ELSE 0
      /\ file.n + 1 \in Blocks => file.data[file.n + 1] = 0
  BY <1>1 DEF WholeInv, Hashing
<1>4. \A i \in Blocks : i > file.n => file.data[i] = 0
  BY SMTT(60), <1>2, <1>3, Bounds DEF Data, Blocks
<1>5. \A i \in Blocks : file.got[i] = file.data[i]
  BY SMTT(60), <1>2, <1>3, <1>4 DEF Blocks
<1>6. file.got = file.data
  <2>1. file.got = [i \in Blocks |-> file.got[i]] /\ file.data = [i \in Blocks |-> file.data[i]]
    BY <1>2 DEF Data
  <2>2. QED  BY <1>5, <2>1
<1>7. \A q \in Paths : seen'[q] = IF q = file.path THEN [kind |-> "file", data |-> file.got] ELSE seen[q]
  BY <1>1 DEF ScanInv, ScanTypeOK
<1>8. \A q \in Paths : seen[q].kind = "file" => seen[q].data \in held[q]
  BY <1>1 DEF WholeInv, Reported
<1>9. \A q \in Paths : seen'[q].kind = "file" => seen'[q].data \in held[q]
  <2> SUFFICES ASSUME NEW q \in Paths, seen'[q].kind = "file" PROVE seen'[q].data \in held[q]
    OBVIOUS
  <2>1. CASE q = file.path
    <3>1. seen'[q] = [kind |-> "file", data |-> file.got]  BY <1>7, <2>1
    <3>2. seen'[q].data = file.got  BY SMTT(60), <3>1
    <3>3. QED  BY <1>3, <1>6, <2>1, <3>2
  <2>2. CASE q # file.path  BY <1>7, <1>8, <2>2
  <2>3. QED  BY <2>1, <2>2
<1>10. \A q \in Paths : tree[q].data \in held[q]  BY <1>1 DEF WholeInv
<1>11. QED  BY <1>1, <1>9, <1>10 DEF WholeInv, Hashing, Reported

LEMMA WholeStep == ScanInv /\ WholeInv /\ [ScanNext]_scanVars => WholeInv'
<1> SUFFICES ASSUME ScanInv, WholeInv, [ScanNext]_scanVars PROVE WholeInv'
  OBVIOUS
<1>1. CASE UNCHANGED scanVars
  BY <1>1 DEF scanVars, world, walk, WholeInv, Reported
<1>2. CASE \E p \in Paths, o \in Objects : Edit(p, o)
  BY <1>2, WholeEdit
<1>3. CASE Begin \/ SecondWalk
  BY <1>3, WholeFresh DEF Begin, SecondWalk, world
<1>4. CASE Refuse /\ UNCHANGED world /\ at # "idle"
  BY <1>4, WholeFrame DEF Refuse, walk, Hashing
<1>5. CASE Pop \/ OpenDir \/ CheckOpened \/ ListName \/ CheckListed \/ DirDone \/ Compare \/ CallFails
  <2>1. at # "idle" /\ UNCHANGED world  BY <1>5 DEF Pop, OpenDir, CheckOpened, ListName, CheckListed, DirDone, Compare, CallFails
  <2>2. CASE ~Refuse
    <3>1. UNCHANGED <<held, seen>> /\ at' \notin {"open"} \union Hashing
      BY <1>5, <2>2 DEF Pop, OpenDir, CheckOpened, ListName, CheckListed, DirDone, Compare, CallFails, walk, Hashing
    <3>2. QED  BY <2>1, <3>1, WholeFrame
  <2>3. QED  BY <1>4, <2>1, <2>2
<1>6. CASE OpenFile \/ ReadBlock \/ Eof \/ StatFile
  <2>1. at # "idle" /\ UNCHANGED world  BY <1>6 DEF OpenFile, ReadBlock, Eof, StatFile
  <2>2. QED  BY <1>4, <1>6, <2>1, WholeHash
<1>7. CASE StatPath
  <2>1. at # "idle" /\ UNCHANGED world  BY <1>7 DEF StatPath
  <2>2. QED  BY <1>4, <1>7, <2>1, WholeEntry
<1>8. CASE Inspect
  <2>1. at # "idle" /\ UNCHANGED world  BY <1>8 DEF Inspect
  <2>2. CASE ~Refuse
    <3>1. PICK c : InspectDir(c) \/ InspectFile(c)  BY <1>8, <2>2 DEF Inspect, InspectDir, InspectFile
    <3>2. c \in Paths  BY <3>1 DEF InspectDir, InspectFile, ScanInv, ScanTypeOK
    <3>3. CASE InspectDir(c)
      <4>1. \A q \in Paths : seen'[q] = seen[q] \/ seen'[q].kind # "file"
        BY <3>2, <3>3 DEF InspectDir, ScanInv, ScanTypeOK, Report
      <4>2. QED  BY <2>1, <3>3, <4>1, WholeFrame DEF InspectDir, Hashing
    <3>4. CASE InspectFile(c)
      <4>1. file'.n = 0 /\ file'.got = NoData  BY <3>4, NoRecords DEF InspectFile, NoFile, FileRecords
      <4>2. UNCHANGED <<tree, held, seen, inPlace>> /\ at' = "open"  BY <3>4 DEF InspectFile, world
      <4>3. UNCHANGED Reported  BY <4>2 DEF Reported
      <4>4. QED  BY <2>1, <4>1, <4>2, <4>3 DEF WholeInv, Hashing
    <3>5. QED  BY <3>1, <3>3, <3>4
  <2>3. QED  BY <1>4, <2>1, <2>2
<1>9. QED  BY <1>1, <1>2, <1>3, <1>5, <1>6, <1>7, <1>8 DEF ScanNext, Walk, Hash

\* Whatever is edited during a walk, as long as files are replaced as a whole, each file reported
\* is one the path held during that walk (_bounded_file_identity).
THEOREM NoTornFileTheorem == ScanSpec => []NoTornFile
<1>1. ScanInit => WholeInv  BY DEF ScanInit, WholeInv
<1>2. WholeInv => NoTornFile  BY DEF WholeInv, NoTornFile
<1>3. QED  BY <1>1, <1>2, WholeStep, ScanInvariant, PTL DEF ScanSpec

-----------------------------------------------------------------------------
(* The limit, the aliases, and a tree that nobody edits.                   *)

\* The file that is being hashed.
Holding == IF at \in {"open"} \union Hashing THEN {file.path} ELSE {}

\* A walk comes to a directory once, and to each of its names once.
OnceInv ==
  at \in Walking =>
    /\ unread \intersect todo = {} /\ (unread \union todo) \intersect (Reported \union Holding) = {}
    /\ Holding \intersect Reported = {}
    /\ \A q \in Reported \union todo \union unread \union Holding :
         /\ Parent[q] \in Reported \union {Root}
         /\ \A s \in stack : s.path # Parent[q]
         /\ at \in {"opendir", "opened"} => dir.path # Parent[q]
    /\ \A s \in stack : s.path \in Reported \union {Root}
    /\ \A s, r \in stack : s.path = r.path => s = r
    /\ at \in {"opendir", "opened", "list"} =>
         dir.path \in Reported \union {Root} /\ \A s \in stack : s.path # dir.path
    /\ at # "list" => unread = {}
    /\ at \in {"pop", "opendir", "opened", "walked"} => todo = {}

\* What a walk has reported so far, when it reports one path more.
LEMMA ReportMore ==
  ASSUME ScanInv, NEW p \in Paths, NEW e, e.kind # "absent", seen' = [seen EXCEPT ![p] = e]
  PROVE  Reported' = Reported \union {p}
<1>1. \A q \in Paths : seen'[q] = IF q = p THEN e ELSE seen[q]  BY DEF ScanInv, ScanTypeOK
<1>2. QED  BY <1>1 DEF Reported

LEMMA ReportNothing ==
  ASSUME seen' = [p \in Paths |-> Report(Absent)]
  PROVE  Reported' = {}
<1>1. \A p \in Paths : seen'[p].kind = "absent"  BY DEF Report, Absent
<1>2. QED  BY <1>1 DEF Reported

LEMMA OnceStep == ScanInv /\ OnceInv /\ [ScanNext]_scanVars => OnceInv'
<1> SUFFICES ASSUME ScanInv, OnceInv, [ScanNext]_scanVars, at' \in Walking PROVE OnceInv'
  BY DEF OnceInv
<1>0. ~Refuse  BY DEF Refuse, Walking, Hashing
<1>1. CASE UNCHANGED scanVars
  BY <1>1 DEF scanVars, world, walk, OnceInv, Reported, Holding
<1>2. CASE \E p \in Paths, o \in Objects : Edit(p, o)
  <2>1. UNCHANGED <<at, stack, dir, unread, todo, seen>>  BY <1>2 DEF Edit
  <2>2. file'.path = file.path  BY <1>2 DEF Edit, ScanInv, ScanTypeOK, FileRecords
  <2>3. QED  BY <2>1, <2>2 DEF OnceInv, Reported, Holding
<1>3. CASE Begin
  <2>1. Reported' = {} /\ unread' = {} /\ todo' = {} /\ stack' = {[path |-> Root, key |-> 0]} /\ at' = "pop"
    BY <1>3, ReportNothing DEF Begin, ScanInv
  <2>2. \A s, r \in stack' : s.path = Root /\ s = r  BY SMTT(60), <2>1
  <2>3. Holding' = {}  BY <2>1 DEF Holding, Hashing
  <2> QED  BY <2>1, <2>2, <2>3 DEF OnceInv
<1>4. CASE SecondWalk
  <2>1. Reported' = {} /\ stack' = {[path |-> Root, key |-> 0]} /\ at' = "pop" /\ UNCHANGED <<unread, todo>> /\ at = "walked"
    BY <1>4, ReportNothing DEF SecondWalk
  <2>2. unread = {} /\ todo = {}  BY <2>1 DEF OnceInv, Walking
  <2>3. \A s, r \in stack' : s.path = Root /\ s = r  BY SMTT(60), <2>1
  <2>4. Holding' = {}  BY <2>1 DEF Holding, Hashing
  <2> QED  BY <2>1, <2>2, <2>3, <2>4 DEF OnceInv
<1>5. CASE Pop
  <2>1. PICK s \in stack : stack' = stack \ {s} /\ dir' = [path |-> s.path, key |-> s.key, stream |-> 0]
    BY <1>0, <1>5 DEF Pop
  <2>2. at = "pop" /\ at' = "opendir" /\ UNCHANGED <<unread, todo, file, seen>> /\ dir'.path = s.path
    BY <1>0, <1>5, <2>1 DEF Pop
  <2>3. UNCHANGED Reported /\ Holding = {} /\ Holding' = {}  BY <2>2 DEF Reported, Holding, Hashing
  <2>4. at \in Walking  BY <2>2 DEF Walking
  <2>5. QED  BY <2>1, <2>2, <2>3, <2>4 DEF OnceInv
<1>6. CASE OpenDir
  <2>1. at = "opendir" /\ at' = "opened" /\ UNCHANGED <<stack, unread, todo, file, seen>>
    BY <1>0, <1>6 DEF OpenDir
  <2>2. dir'.path = dir.path  BY <1>0, <1>6 DEF OpenDir, ScanInv, ScanTypeOK, DirRecords
  <2>3. UNCHANGED Reported /\ Holding = {} /\ Holding' = {}  BY <2>1 DEF Reported, Holding, Hashing
  <2>4. at \in Walking  BY <2>1 DEF Walking
  <2>5. QED  BY <2>1, <2>2, <2>3, <2>4 DEF OnceInv
<1>7. CASE CheckOpened
  <2>1. at = "opened" /\ at' = "list" /\ UNCHANGED <<stack, dir, file, seen>>
        /\ unread' = Children(dir.path) /\ todo' = {}
    BY <1>0, <1>7 DEF CheckOpened
  <2>2. UNCHANGED Reported /\ Holding = {} /\ Holding' = {}  BY <2>1 DEF Reported, Holding, Hashing
  <2>3. at \in Walking  BY <2>1 DEF Walking
  <2>4. \A q \in unread' : Parent[q] = dir.path  BY <2>1 DEF Children
  <2>5. QED  BY <2>1, <2>2, <2>3, <2>4 DEF OnceInv
<1>8. CASE ListName
  <2>1. PICK c \in unread, there \in BOOLEAN : unread' = unread \ {c} /\ todo' = IF there THEN todo \union {c} ELSE todo
    BY <1>0, <1>8 DEF ListName
  <2>2. at = "list" /\ at' = "list" /\ UNCHANGED <<stack, dir, file, seen>>  BY <1>0, <1>8 DEF ListName
  <2>3. UNCHANGED Reported /\ Holding = {} /\ Holding' = {}  BY <2>2 DEF Reported, Holding, Hashing
  <2>4. at \in Walking  BY <2>2 DEF Walking
  <2>5. unread' \intersect todo' = {} /\ unread' \union todo' \subseteq unread \union todo
    BY <2>1, <2>4 DEF OnceInv
  <2>6. QED  BY <2>2, <2>3, <2>4, <2>5 DEF OnceInv
<1>9. CASE CheckListed \/ DirDone
  <2>1. at \in {"list", "children"} /\ at' \in {"pop", "walked", "children"} /\ unread = {}
        /\ (at' # "children" => todo = {}) /\ UNCHANGED <<stack, unread, todo, file, seen>>
    BY <1>0, <1>9 DEF CheckListed, DirDone, walk, OnceInv, Walking
  <2>2. UNCHANGED Reported /\ Holding = {} /\ Holding' = {}  BY <2>1 DEF Reported, Holding, Hashing
  <2>3. at \in Walking  BY <2>1 DEF Walking
  <2>4. QED  BY <2>1, <2>2, <2>3 DEF OnceInv
<1>10. CASE Inspect
  <2>1. PICK c : InspectDir(c) \/ InspectFile(c)  BY <1>0, <1>10 DEF Inspect, InspectDir, InspectFile
  <2>2. c \in Paths /\ c \in todo /\ todo' = todo \ {c} /\ at = "children" /\ UNCHANGED unread
    BY <2>1 DEF InspectDir, InspectFile, ScanInv, ScanTypeOK
  <2>3. at \in Walking /\ Holding = {}  BY <2>2 DEF Walking, Holding, Hashing
  <2>4. c \notin Reported /\ c # Root /\ unread = {} /\ Parent[c] \in Reported \union {Root}
    BY <2>2, <2>3, Bounds DEF OnceInv
  <2>5. CASE InspectDir(c)
    <3>1. at' = "children" /\ \E w : w.path = c /\ \A s \in stack' : s \in stack \/ s = w
      <4>1. [path |-> c, key |-> tree[c].key].path = c  OBVIOUS
      <4>2. at' = "children" /\ \A s \in stack' : s \in stack \/ s = [path |-> c, key |-> tree[c].key]
        BY <2>5 DEF InspectDir
      <4>3. QED  BY <4>1, <4>2
    <3>12. PICK w : w.path = c /\ \A s \in stack' : s \in stack \/ s = w  BY <3>1
    <3>2. Reported' = Reported \union {c}
      BY <2>2, <2>5, ReportMore DEF InspectDir, Report
    <3>3. Holding' = {}  BY <3>1 DEF Holding, Hashing
    <3>4. \A q \in Reported' \union todo' \union unread' : q \in Reported \union todo
      BY <2>2, <2>4, <3>2
    <3>5. \A q \in Reported \union todo : Parent[q] \in Reported \union {Root} /\ Parent[q] # c /\ \A s \in stack : s.path # Parent[q]
      BY <2>3, <2>4 DEF OnceInv
    <3>6. \A s \in stack : s.path \in Reported \union {Root} /\ s.path # c  BY <2>3, <2>4 DEF OnceInv
    <3>7. \A q \in Reported' \union todo' \union unread' :
            Parent[q] \in Reported' \union {Root} /\ \A s \in stack' : s.path # Parent[q]
      BY <3>2, <3>4, <3>5, <3>12
    <3>8. \A s, r \in stack' : s.path = r.path => s = r
      BY <2>3, <3>6, <3>12 DEF OnceInv
    <3>9. \A s \in stack' : s.path \in Reported' \union {Root}
      BY <3>2, <3>6, <3>12
    <3>10. todo' \intersect Reported' = {} /\ unread' = {}
      BY <2>2, <2>3, <2>4, <3>2 DEF OnceInv
    <3>11. QED  BY <3>1, <3>3, <3>7, <3>8, <3>9, <3>10 DEF OnceInv
  <2>6. CASE InspectFile(c)
    <3>1. at' = "open" /\ UNCHANGED <<stack, dir, seen>> /\ file'.path = c
      BY <2>2, <2>6, NoRecords DEF InspectFile, NoFile, FileRecords
    <3>2. Holding' = {c} /\ UNCHANGED Reported  BY <3>1 DEF Holding, Reported
    <3>3. \A q \in Reported' \union todo' \union unread' \union Holding' : q \in Reported \union todo
      BY <2>2, <2>4, <3>2
    <3>4. /\ unread' = {} /\ todo' \intersect (Reported' \union Holding') = {}
          /\ Holding' \intersect Reported' = {}
      BY SMTT(60), <2>2, <2>3, <2>4, <3>2 DEF OnceInv
    <3>5. \A q \in Reported' \union todo' \union unread' \union Holding' :
            Parent[q] \in Reported' \union {Root} /\ \A s \in stack' : s.path # Parent[q]
      BY <2>3, <3>1, <3>2, <3>3 DEF OnceInv
    <3>6. /\ \A s \in stack' : s.path \in Reported' \union {Root}
          /\ \A s, r \in stack' : s.path = r.path => s = r
      BY <2>3, <3>1, <3>2 DEF OnceInv
    <3>7. QED  BY <3>1, <3>4, <3>5, <3>6 DEF OnceInv
  <2>7. QED  BY <2>1, <2>5, <2>6
<1>11. CASE OpenFile \/ ReadBlock \/ Eof \/ StatFile
  <2>1. UNCHANGED <<stack, dir, unread, todo, seen>> /\ at \in {"open"} \union Hashing /\ at' \in Hashing
    BY <1>0, <1>11 DEF OpenFile, ReadBlock, Eof, StatFile, walk, Hashing
  <2>2. file'.path = file.path
    BY <1>0, <1>11 DEF OpenFile, ReadBlock, Eof, StatFile, walk, ScanInv, ScanTypeOK, FileRecords
  <2>3. UNCHANGED <<Reported, Holding>>  BY <2>1, <2>2 DEF Reported, Holding
  <2>4. at \in Walking  BY <2>1 DEF Walking, Hashing
  <2>5. QED  BY <2>1, <2>3, <2>4 DEF OnceInv, Hashing
<1>12. CASE StatPath
  <2>1. at = "lstat" /\ at' = "children" /\ UNCHANGED <<stack, dir, unread, todo>> /\ file.path \in Paths
        /\ seen' = [seen EXCEPT ![file.path] = [kind |-> "file", data |-> file.got]]
    BY <1>0, <1>12 DEF StatPath, ScanInv, Hashing
  <2>2. Reported' = Reported \union {file.path}
    <3>1. [kind |-> "file", data |-> file.got].kind # "absent"  OBVIOUS
    <3>2. QED  BY <2>1, <3>1, ReportMore
  <2>3. at \in Walking /\ Holding = {file.path} /\ Holding' = {}  BY <2>1 DEF Walking, Holding, Hashing
  <2>4. QED  BY <2>1, <2>2, <2>3 DEF OnceInv
<1>13. CASE Compare \/ CallFails
  BY <1>0, <1>13 DEF Compare, CallFails, Walking, Hashing
<1>14. QED
  BY <1>1, <1>2, <1>3, <1>4, <1>5, <1>6, <1>7, <1>8, <1>9, <1>10, <1>11, <1>12, <1>13 DEF ScanNext, Walk, Hash

\* The names returned have room below the limit, and no two entries alias.
EntryInv ==
  /\ IF Holding = {} THEN Cardinality(todo) + Cardinality(Reported) <= MaxEntries
     ELSE Cardinality(todo) + Cardinality(Reported) < MaxEntries
  /\ \A p, q \in Reported \union Holding : p # q => Alias[p] # Alias[q]

\* One path more or less.
LEMMA PathsCounted ==
  ASSUME NEW S \in SUBSET Paths, NEW x
  PROVE  /\ IsFiniteSet(S) /\ Cardinality(S) \in Nat
         /\ Cardinality(S \union {x}) \in Nat /\ Cardinality(S \union {x}) <= Cardinality(S) + 1
         /\ x \notin S => Cardinality(S \union {x}) = Cardinality(S) + 1
         /\ x \in S => Cardinality(S \ {x}) \in Nat /\ Cardinality(S \ {x}) = Cardinality(S) - 1
<1>1. IsFiniteSet(S)  BY TreeAssumption, FS_Subset
<1>2. IsFiniteSet(S \union {x}) /\ Cardinality(S \union {x}) = IF x \in S THEN Cardinality(S) ELSE Cardinality(S) + 1
  BY <1>1, FS_AddElement
<1>3. IsFiniteSet(S \ {x}) /\ Cardinality(S \ {x}) = IF x \in S THEN Cardinality(S) - 1 ELSE Cardinality(S)
  BY <1>1, FS_RemoveElement
<1>4. Cardinality(S) \in Nat /\ Cardinality(S \union {x}) \in Nat /\ Cardinality(S \ {x}) \in Nat
  BY <1>1, <1>2, <1>3, FS_CardinalityType
<1>5. QED  BY SMTT(60), <1>1, <1>2, <1>3, <1>4

LEMMA EntryTypes ==
  ASSUME ScanInv
  PROVE  /\ todo \in SUBSET Paths /\ Reported \in SUBSET Paths /\ MaxEntries \in Nat
         /\ Cardinality(todo) \in Nat /\ Cardinality(Reported) \in Nat /\ Cardinality({}) = 0
<1>1. todo \in SUBSET Paths /\ Reported \in SUBSET Paths  BY DEF ScanInv, ScanTypeOK, Reported
<1>2. QED  BY <1>1, PathsCounted, TreeAssumption, FS_EmptySet

\* A step that leaves the entries alone.
LEMMA EntryFrame ==
  ASSUME ScanInv, EntryInv, UNCHANGED <<todo, seen>>, Holding' \in {{}, Holding}
  PROVE  EntryInv'
<1>1. UNCHANGED Reported  BY DEF Reported
<1>2. Cardinality(todo) \in Nat /\ Cardinality(Reported) \in Nat /\ MaxEntries \in Nat  BY EntryTypes
<1>3. Cardinality(todo) + Cardinality(Reported) <= MaxEntries
  BY SMTT(60), <1>2 DEF EntryInv
<1>4. Holding' \subseteq Holding  OBVIOUS
<1>5. \A p, q \in Reported' \union Holding' : p # q => Alias[p] # Alias[q]
  BY <1>1, <1>4 DEF EntryInv
<1>6. IF Holding' = {} THEN Cardinality(todo') + Cardinality(Reported') <= MaxEntries
      ELSE Cardinality(todo') + Cardinality(Reported') < MaxEntries
  BY <1>1, <1>3 DEF EntryInv
<1>7. QED  BY <1>5, <1>6 DEF EntryInv

LEMMA EntryStep == ScanInv /\ EntryInv /\ [ScanNext]_scanVars => EntryInv'
<1> SUFFICES ASSUME ScanInv, EntryInv, [ScanNext]_scanVars PROVE EntryInv'
  OBVIOUS
<1> DEFINE n == Cardinality(todo)
           m == Cardinality(Reported)
<1>1. /\ todo \in SUBSET Paths /\ Reported \in SUBSET Paths /\ MaxEntries \in Nat
      /\ n \in Nat /\ m \in Nat /\ Cardinality({}) = 0
  BY EntryTypes
<1>2. n + m <= MaxEntries /\ (Holding # {} => n + m < MaxEntries)
  BY SMTT(60), <1>1 DEF EntryInv
<1>3. \A p, q \in Reported \union Holding : p # q => Alias[p] # Alias[q]
  BY DEF EntryInv
<1>4. CASE UNCHANGED scanVars
  BY <1>4, EntryFrame DEF scanVars, world, walk, Holding
<1>5. CASE \E p \in Paths, o \in Objects : Edit(p, o)
  <2>1. UNCHANGED <<todo, seen, at>> /\ file'.path = file.path  BY <1>5 DEF Edit, ScanInv, ScanTypeOK, FileRecords
  <2>2. QED  BY <2>1, EntryFrame DEF Holding
<1>6. CASE Begin \/ SecondWalk
  <2>1. Reported' = {} /\ at' = "pop" /\ UNCHANGED todo
    BY <1>6, ReportNothing DEF Begin, SecondWalk
  <2>2. Holding' = {}  BY <2>1 DEF Holding, Hashing
  <2>3. n + 0 <= MaxEntries  BY SMTT(60), <1>1, <1>2
  <2>4. QED  BY <1>1, <2>1, <2>2, <2>3 DEF EntryInv
<1>7. CASE Refuse
  BY <1>7, EntryFrame DEF Refuse, walk, Holding, Hashing
<1>8. CASE ~Refuse /\ (Pop \/ OpenDir \/ CheckListed \/ DirDone \/ Compare \/ CallFails)
  <2>1. UNCHANGED <<todo, seen>> /\ at' \notin {"open"} \union Hashing
    BY <1>8 DEF Pop, OpenDir, CheckListed, DirDone, Compare, CallFails, walk, Hashing
  <2>2. QED  BY <2>1, EntryFrame DEF Holding
<1>9. CASE ~Refuse /\ (OpenFile \/ ReadBlock \/ Eof \/ StatFile)
  <2>1. UNCHANGED <<todo, seen>> /\ at \in {"open"} \union Hashing /\ at' \in Hashing
    BY <1>9 DEF OpenFile, ReadBlock, Eof, StatFile, walk, Hashing
  <2>2. file'.path = file.path
    BY <1>9 DEF OpenFile, ReadBlock, Eof, StatFile, walk, ScanInv, ScanTypeOK, FileRecords
  <2>3. QED  BY <2>1, <2>2, EntryFrame DEF Holding
<1>10. CASE ~Refuse /\ CheckOpened
  <2>1. at' = "list" /\ UNCHANGED seen /\ todo' = {}  BY <1>10 DEF CheckOpened
  <2>2. Holding' = {} /\ UNCHANGED Reported  BY <2>1 DEF Holding, Hashing, Reported
  <2>3. 0 + m <= MaxEntries  BY SMTT(60), <1>1, <1>2
  <2>4. QED  BY <1>1, <1>3, <2>1, <2>2, <2>3 DEF EntryInv
<1>11. CASE ~Refuse /\ ListName
  <2>1. PICK c \in unread, there \in BOOLEAN :
          /\ ~(there /\ Cardinality(todo) >= MaxEntries - Cardinality(Reported))
          /\ todo' = IF there THEN todo \union {c} ELSE todo
    BY <1>11 DEF ListName
  <2>2. at' = "list" /\ UNCHANGED seen  BY <1>11 DEF ListName
  <2>3. Holding' = {} /\ UNCHANGED Reported  BY <2>2 DEF Holding, Hashing, Reported
  <2>4. Cardinality(todo \union {c}) \in Nat /\ Cardinality(todo \union {c}) <= n + 1  BY <1>1, PathsCounted
  <2>5. CASE there
    <3>1. todo' = todo \union {c} /\ ~(n >= MaxEntries - m)  BY <2>1, <2>5
    <3>2. Cardinality(todo \union {c}) + m <= MaxEntries
      <4> HIDE DEF n, m
      <4>1. QED  BY SMTT(60), <1>1, <2>4, <3>1
    <3>3. QED  BY <1>3, <2>3, <3>1, <3>2 DEF EntryInv
  <2>6. CASE ~there
    BY <2>1, <2>2, <2>3, <2>6, EntryFrame
  <2>7. QED  BY <2>5, <2>6
<1>12. CASE ~Refuse /\ Inspect
  <2>1. PICK c : (InspectDir(c) \/ InspectFile(c)) /\ ~Aliased(c)
    BY <1>12 DEF Inspect, InspectDir, InspectFile
  <2>2. c \in Paths /\ c \in todo /\ todo' = todo \ {c} /\ at = "children"
    BY <2>1 DEF InspectDir, InspectFile, ScanInv, ScanTypeOK
  <2>3. Holding = {}  BY <2>2 DEF Holding, Hashing
  <2>4. \A p, q \in Reported \union {c} : p # q => Alias[p] # Alias[q]
    BY <1>3, <2>1 DEF Aliased
  <2>5. Cardinality(todo \ {c}) \in Nat /\ Cardinality(todo \ {c}) = n - 1  BY <1>1, <2>2, PathsCounted
  <2>6. CASE InspectDir(c)
    <3>1. Reported' = Reported \union {c}  BY <2>2, <2>6, ReportMore DEF InspectDir, Report
    <3>2. Holding' = {}  BY <2>6 DEF InspectDir, Holding, Hashing
    <3>3. Cardinality(Reported \union {c}) \in Nat /\ Cardinality(Reported \union {c}) <= m + 1  BY <1>1, PathsCounted
    <3>4. Cardinality(todo \ {c}) + Cardinality(Reported \union {c}) <= MaxEntries
      <4> HIDE DEF n, m
      <4>1. QED  BY SMTT(60), <1>1, <1>2, <2>5, <3>3
    <3>5. QED  BY <2>2, <2>4, <3>1, <3>2, <3>4 DEF EntryInv
  <2>7. CASE InspectFile(c)
    <3>1. at' = "open" /\ UNCHANGED seen /\ file'.path = c
      BY <2>7, NoRecords DEF InspectFile, NoFile, FileRecords
    <3>2. Holding' = {c} /\ UNCHANGED Reported  BY <3>1 DEF Holding, Reported
    <3>3. Cardinality(todo \ {c}) + m < MaxEntries
      <4> HIDE DEF n, m
      <4>1. QED  BY SMTT(60), <1>1, <1>2, <2>5
    <3>4. QED  BY <2>2, <2>4, <3>2, <3>3 DEF EntryInv
  <2>8. QED  BY <2>1, <2>6, <2>7
<1>13. CASE ~Refuse /\ StatPath
  <2>1. at = "lstat" /\ at' = "children" /\ UNCHANGED todo /\ file.path \in Paths
        /\ seen' = [seen EXCEPT ![file.path] = [kind |-> "file", data |-> file.got]]
    BY <1>13 DEF StatPath, ScanInv, Hashing
  <2>2. Reported' = Reported \union {file.path}
    <3>1. [kind |-> "file", data |-> file.got].kind # "absent"  OBVIOUS
    <3>2. QED  BY <2>1, <3>1, ReportMore
  <2>3. Holding = {file.path} /\ Holding' = {}  BY <2>1 DEF Holding, Hashing
  <2>4. Cardinality(Reported \union {file.path}) \in Nat /\ Cardinality(Reported \union {file.path}) <= m + 1
    BY <1>1, PathsCounted
  <2>5. n + Cardinality(Reported \union {file.path}) <= MaxEntries
    <3>1. n + m < MaxEntries  BY <1>2, <2>3
    <3> HIDE DEF n, m
    <3>2. QED  BY SMTT(60), <1>1, <2>4, <3>1
  <2>6. QED  BY <1>3, <2>1, <2>2, <2>3, <2>5 DEF EntryInv
<1>14. QED
  BY <1>4, <1>5, <1>6, <1>7, <1>8, <1>9, <1>10, <1>11, <1>12, <1>13 DEF ScanNext, Walk, Hash

\* As long as nobody edits the tree, what the walk holds of it is true of it, and it is refused
\* for nothing that is not in it.
StillInv ==
  edits = 0 =>
    /\ ~recurred /\ \A q \in Paths, f \in Facets : past[q][f] = {}
    /\ pass = 2 => first = [p \in Paths |-> Report(tree[p])]
    /\ at \in Walking =>
         /\ \A s \in stack : IsDir(s.path) /\ DirKey(s.path) = s.key
         /\ \A q \in todo : tree[q].kind # "absent"
         /\ at \in {"open"} \union Hashing => tree[file.path].key = file.key
         /\ at \in Hashing => \A i \in 1..file.n : file.data[i] # 0
         /\ at \in {"fstat", "lstat"} /\ file.n + 1 \in Blocks => file.data[file.n + 1] = 0
    /\ at = "refused" /\ callFailures = 0 => Unsupported(tree)

\* What ScanInv says of a walk through a tree that nobody edits.
LEMMA StillFacts ==
  ASSUME ScanInv, StillInv, edits = 0, at \in Walking
  PROVE  /\ Handles /\ HashRead /\ SeenRead
         /\ \A p, f, v : Was(p, f, v) => v = Facet(tree[p], f)
         /\ at \in {"opendir", "opened", "list"} =>
              IsDir(dir.path) /\ DirKey(dir.path) = dir.key /\ (at # "opendir" => dir.stream = dir.key)
         /\ \A p \in Reported : tree[p].kind # "absent"
         /\ at \in {"open"} \union Hashing => tree[file.path].kind = "file" /\ tree[file.path].key = file.key
<1>1. Handles /\ HashRead /\ SeenRead  BY DEF ScanInv, Core, StillInv
<1>2. \A p, f, v : Was(p, f, v) => v = Facet(tree[p], f)  BY DEF Was
<1>3. ASSUME at \in {"opendir", "opened", "list"}
      PROVE  IsDir(dir.path) /\ DirKey(dir.path) = dir.key /\ (at # "opendir" => dir.stream = dir.key)
  <2>1. dir.path \in Paths \union {Root}  BY DEF ScanInv, ScanTypeOK, DirRecords
  <2>2. CASE dir.path = Root
    BY <1>1, <1>3, <2>2 DEF Handles, IsDir, DirKey
  <2>3. CASE dir.path \in Paths
    <3>1. dir.key \notin past[dir.path][DirFacet]  BY <2>3, FacetFacts DEF StillInv
    <3>2. QED  BY <1>1, <1>3, <2>3, <3>1, Bounds DEF Handles, IsDir, DirKey
  <2>4. QED  BY <2>1, <2>2, <2>3
<1>4. \A p \in Reported : tree[p].kind # "absent"
  BY <1>1, <1>2, FacetFacts DEF SeenRead, Reported
<1>5. at \in {"open"} \union Hashing => tree[file.path].kind = "file" /\ tree[file.path].key = file.key
  <2>1. at \in {"open"} \union Hashing => "file" = Facet(tree[file.path], KindFacet)
    BY <1>1, <1>2 DEF HashRead
  <2>2. Facet(tree[file.path], KindFacet) = tree[file.path].kind  BY FacetFacts
  <2>3. QED  BY <2>1, <2>2 DEF StillInv
<1>6. QED  BY <1>1, <1>2, <1>3, <1>4, <1>5

\* A walk to the end of a tree that nobody edits reports the tree.
LEMMA StillSeen ==
  ASSUME ScanInv, StillInv, edits = 0, at = "walked"
  PROVE  seen = [p \in Paths |-> Report(tree[p])]
<1>1. Handles /\ SeenRead /\ \A p, f, v : Was(p, f, v) => v = Facet(tree[p], f)
  BY StillFacts DEF Walking
<1>2. \A p \in Paths : ~Pending(p) /\ ~Doomed
  BY <1>1, Lineage DEF Handles, Pending, Front, Doomed, Hashing
<1>3. \A p \in Paths : seen[p].kind = tree[p].kind
  BY <1>1, <1>2, FacetFacts DEF SeenRead
<1>4. \A p \in Paths : seen[p].kind = "file" => \A i \in Blocks : seen[p].data[i] = tree[p].data[i]
  <2> SUFFICES ASSUME NEW p \in Paths, seen[p].kind = "file", NEW i \in Blocks
               PROVE  seen[p].data[i] = tree[p].data[i]
    OBVIOUS
  <2>1. Was(p, BlockFacet(i), seen[p].data[i])  BY <1>1 DEF SeenRead
  <2>2. Facet(tree[p], BlockFacet(i)) = tree[p].data[i]  BY FacetFacts
  <2>3. QED  BY <1>1, <2>1, <2>2
<1>5. \A p \in Paths : seen[p].data = tree[p].data
  <2> SUFFICES ASSUME NEW p \in Paths PROVE seen[p].data = tree[p].data
    OBVIOUS
  <2>1. tree[p] \in Objects  BY DEF ScanInv, ScanTypeOK
  <2>2. CASE seen[p].kind = "file"
    <3>1. seen[p].data \in [Blocks -> Versions \union {0}]  BY DEF ScanInv, ScanTypeOK
    <3>2. tree[p].data \in [Blocks -> Versions \union {0}]  BY <2>1, ObjectType DEF Data
    <3>3. QED  BY SMTT(60), <1>4, <2>2, <3>1, <3>2
  <2>3. CASE seen[p].kind # "file"
    BY <1>1, <1>3, <2>1, <2>3, ObjectType DEF SeenRead
  <2>4. QED  BY <2>2, <2>3
<1>6. \A p \in Paths : seen[p] = Report(tree[p])
  BY <1>3, <1>5 DEF Report, ScanInv, ScanTypeOK
<1>7. QED  BY <1>6 DEF ScanInv, ScanTypeOK

\* The second fstat of a file that nobody edits finds the size that was read.
LEMMA StillSize ==
  ASSUME ScanInv, StillInv, edits = 0, at = "fstat"
  PROVE  Size(file.data) = file.n
<1>1. file.n \in 0..NBlocks /\ file.data \in Data  BY DEF ScanInv, ScanTypeOK, FileRecords
<1>2. /\ \A i \in 1..file.n : file.data[i] # 0
      /\ file.n + 1 \in Blocks => file.data[file.n + 1] = 0
  BY DEF StillInv, Walking, Hashing
<1>3. \A i \in Blocks : i > file.n => file.data[i] = 0
  BY SMTT(60), <1>1, <1>2, Bounds DEF Data, Blocks
<1>4. {i \in Blocks : file.data[i] # 0} = 1..file.n
  BY SMTT(60), <1>1, <1>2, <1>3, Bounds DEF Blocks
<1>5. Cardinality(1..file.n) = file.n
  <2>1. 1 \in Int /\ file.n \in Int /\ file.n >= 0  BY SMTT(60), <1>1, Bounds
  <2>2. Cardinality(1..file.n) = IF 1 > file.n THEN 0 ELSE file.n - 1 + 1  BY <2>1, FS_Interval
  <2>3. QED  BY SMTT(60), <2>1, <2>2
<1>6. QED  BY <1>4, <1>5 DEF Size

\* More names than the limit allows.
LEMMA StillFull ==
  ASSUME ScanInv, StillInv, OnceInv, edits = 0, at = "list", NEW c \in unread, tree[c].kind # "absent",
         Cardinality(todo) >= MaxEntries - Cardinality(Reported)
  PROVE  Unsupported(tree)
<1> DEFINE Present == {p \in Paths : tree[p].kind # "absent"}
           S == (todo \union Reported) \union {c}
<1>1. at \in Walking  BY DEF Walking
<1>2. todo \subseteq Present /\ Reported \subseteq Present /\ c \in Present
  BY <1>1, StillFacts DEF StillInv, ScanInv, ScanTypeOK, Reported
<1>3. S \in SUBSET Present  BY <1>2
<1>4. todo \intersect Reported = {} /\ c \notin todo \union Reported  BY <1>1 DEF OnceInv
<1>5. /\ todo \in SUBSET Paths /\ Reported \in SUBSET Paths /\ todo \union Reported \in SUBSET Paths
      /\ Present \in SUBSET Paths /\ S \in SUBSET Paths
  BY <1>2
<1> HIDE DEF Present
<1>6. /\ IsFiniteSet(todo) /\ IsFiniteSet(Reported) /\ IsFiniteSet(Present)
      /\ Cardinality(todo) \in Nat /\ Cardinality(Reported) \in Nat
      /\ Cardinality(Present) \in Nat /\ Cardinality(S) \in Nat
  BY <1>5, PathsCounted
<1>7. Cardinality(todo \union Reported) = Cardinality(todo) + Cardinality(Reported) - Cardinality(todo \intersect Reported)
  BY <1>6, FS_Union
<1>8. Cardinality(S) = Cardinality(todo \union Reported) + 1  BY <1>4, <1>5, PathsCounted
<1>9. Cardinality(todo \intersect Reported) = 0  BY <1>4, FS_EmptySet
<1>10. Cardinality(S) <= Cardinality(Present)  BY <1>3, <1>6, FS_Subset
<1>11. Cardinality(Present) > MaxEntries
  <2>1. MaxEntries \in Nat  BY TreeAssumption
  <2> HIDE DEF S
  <2>2. QED  BY SMTT(60), <1>6, <1>7, <1>8, <1>9, <1>10, <2>1
<1>12. QED  BY <1>11 DEF Unsupported, Present

\* A step of the walk that leaves the first walk's entries alone.
LEMMA StillWalk ==
  ASSUME StillInv, UNCHANGED <<world, pass, first>>,
         edits = 0 => IF at' = "refused" THEN callFailures' = 0 => Unsupported(tree)
                      ELSE at' \in Walking =>
                        /\ \A s \in stack' : IsDir(s.path) /\ DirKey(s.path) = s.key
                        /\ \A q \in todo' : tree[q].kind # "absent"
                        /\ at' \in {"open"} \union Hashing => tree[file'.path].key = file'.key
                        /\ at' \in Hashing => \A i \in 1..file'.n : file'.data[i] # 0
                        /\ at' \in {"fstat", "lstat"} /\ file'.n + 1 \in Blocks => file'.data[file'.n + 1] = 0
  PROVE  StillInv'
<1>1. UNCHANGED <<tree, edits, past, recurred>>  BY DEF world
<1>2. \A p : IsDir(p)' <=> IsDir(p)  BY <1>1 DEF IsDir
<1>3. \A p : DirKey(p)' = DirKey(p)  BY <1>1 DEF DirKey
<1>4. Unsupported(tree)' <=> Unsupported(tree)  BY <1>1 DEF Unsupported
<1>5. "refused" \notin Walking  BY DEF Walking, Hashing
<1> SUFFICES ASSUME edits = 0 PROVE StillInv'
  BY <1>1 DEF StillInv
<1>6. ~recurred' /\ (\A q \in Paths, f \in Facets : past'[q][f] = {})
      /\ (pass' = 2 => first' = [p \in Paths |-> Report(tree'[p])])
  BY <1>1 DEF StillInv
<1>7. CASE at' = "refused"
  BY <1>4, <1>5, <1>6, <1>7 DEF StillInv
<1>8. CASE at' # "refused"
  <2>1. at' \in Walking =>
         /\ \A s \in stack' : IsDir(s.path)' /\ DirKey(s.path)' = s.key
         /\ \A q \in todo' : tree'[q].kind # "absent"
         /\ at' \in {"open"} \union Hashing => tree'[file'.path].key = file'.key
         /\ at' \in Hashing => \A i \in 1..file'.n : file'.data[i] # 0
         /\ at' \in {"fstat", "lstat"} /\ file'.n + 1 \in Blocks => file'.data[file'.n + 1] = 0
    BY <1>1, <1>2, <1>3, <1>8
  <2>2. QED  BY <1>6, <1>8, <2>1 DEF StillInv
<1>9. QED  BY <1>7, <1>8

\* The steps through the directories.
LEMMA StillDirectories ==
  ASSUME ScanInv, StillInv, OnceInv,
         Pop \/ OpenDir \/ CheckOpened \/ ListName \/ CheckListed \/ DirDone
  PROVE  StillInv'
<1>1. UNCHANGED <<world, pass, first>> /\ at \in Walking /\ at \notin {"open"} \union Hashing
  BY DEF Pop, OpenDir, CheckOpened, ListName, CheckListed, DirDone, Refuse, walk, Walking, Hashing
<1>2. SUFFICES ASSUME edits = 0
               PROVE  IF at' = "refused" THEN Unsupported(tree)
                      ELSE /\ at' \notin {"open"} \union Hashing
                           /\ stack' \subseteq stack /\ \A q \in todo' : tree[q].kind # "absent"
  <2>1. edits = 0 => \A s \in stack : IsDir(s.path) /\ DirKey(s.path) = s.key  BY <1>1 DEF StillInv
  <2>2. QED  BY <1>1, <1>2, <2>1, StillWalk DEF Hashing
<1>3. /\ at \in {"opendir", "opened", "list"} =>
           IsDir(dir.path) /\ DirKey(dir.path) = dir.key /\ (at # "opendir" => dir.stream = dir.key)
      /\ \A s \in stack : IsDir(s.path) /\ DirKey(s.path) = s.key
      /\ \A q \in todo : tree[q].kind # "absent"
  BY <1>1, <1>2, StillFacts DEF StillInv
<1>4. CASE Pop \/ OpenDir \/ CheckOpened \/ CheckListed \/ DirDone
  BY <1>3, <1>4 DEF Pop, OpenDir, CheckOpened, CheckListed, DirDone, walk, Hashing
<1>5. CASE ListName
  <2>1. PICK c \in unread, there \in BOOLEAN :
          /\ IsDir(dir.path) /\ DirKey(dir.path) = dir.stream => there = (tree[c].kind # "absent")
          /\ IF there /\ Cardinality(todo) >= MaxEntries - Cardinality(Reported)
             THEN Refuse
             ELSE /\ todo' = IF there THEN todo \union {c} ELSE todo
                  /\ UNCHANGED <<at, stack>>
    BY <1>5 DEF ListName
  <2>2. at = "list"  BY <1>5 DEF ListName
  <2>3. there = (tree[c].kind # "absent")  BY <1>3, <2>1, <2>2
  <2>4. CASE there /\ Cardinality(todo) >= MaxEntries - Cardinality(Reported)
    BY <1>2, <2>1, <2>2, <2>3, <2>4, StillFull DEF Refuse
  <2>5. CASE ~(there /\ Cardinality(todo) >= MaxEntries - Cardinality(Reported))
    BY <1>3, <2>1, <2>2, <2>3, <2>5 DEF Hashing
  <2>6. QED  BY <2>4, <2>5
<1>6. QED  BY <1>4, <1>5

\* The steps through the files.
LEMMA StillFiles ==
  ASSUME ScanInv, StillInv, Hash
  PROVE  StillInv'
<1>1. UNCHANGED <<world, pass, first, stack, todo>> /\ at \in {"open"} \union Hashing /\ at \in Walking
  BY DEF Hash, OpenFile, ReadBlock, Eof, StatFile, StatPath, Refuse, walk, Walking, Hashing
<1>2. SUFFICES ASSUME edits = 0
               PROVE  /\ at' # "refused"
                      /\ at' \in {"open"} \union Hashing => tree[file'.path].key = file'.key
                      /\ at' \in Hashing => \A i \in 1..file'.n : file'.data[i] # 0
                      /\ at' \in {"fstat", "lstat"} /\ file'.n + 1 \in Blocks => file'.data[file'.n + 1] = 0
  <2>1. edits = 0 => /\ \A s \in stack : IsDir(s.path) /\ DirKey(s.path) = s.key
                     /\ \A q \in todo : tree[q].kind # "absent"
    BY <1>1 DEF StillInv
  <2>2. QED  BY <1>1, <1>2, <2>1, StillWalk
<1>3. tree[file.path].kind = "file" /\ tree[file.path].key = file.key /\ HashRead
  BY <1>1, <1>2, StillFacts
<1>4. file \in FileRecords /\ file.n \in Nat  BY SMTT(60) DEF ScanInv, ScanTypeOK, FileRecords
<1>5. CASE OpenFile
  <2>1. at = "open" /\ at' = "read" /\ file' = [file EXCEPT !.open = file.key, !.data = tree[file.path].data]
    BY <1>3, <1>5 DEF OpenFile
  <2>2. file'.path = file.path /\ file'.key = file.key /\ file'.n = 0
    BY <1>3, <1>4, <2>1 DEF FileRecords, HashRead
  <2>3. 1..0 = {}  BY SMTT(60)
  <2>4. QED  BY <1>3, <2>1, <2>2, <2>3
<1>6. CASE ReadBlock
  <2>1. at = "read" /\ at' = "read" /\ file.data[file.n + 1] # 0
        /\ file' = [file EXCEPT !.n = @ + 1, !.got = [@ EXCEPT ![file.n + 1] = file.data[file.n + 1]]]
    BY <1>6 DEF ReadBlock
  <2>2. file'.data = file.data /\ file'.path = file.path /\ file'.key = file.key /\ file'.n = file.n + 1
    BY <1>4, <2>1 DEF FileRecords
  <2>3. \A i \in 1..(file.n + 1) : i = file.n + 1 \/ i \in 1..file.n  BY SMTT(60), <1>4
  <2>4. \A i \in 1..file.n : file.data[i] # 0  BY <1>1, <1>2, <2>1 DEF StillInv, Hashing
  <2>5. QED  BY <1>3, <2>1, <2>2, <2>3, <2>4
<1>7. CASE Eof
  <2>1. at = "read" /\ at' = "fstat" /\ file' = file /\ (file.n + 1 \in Blocks => file.data[file.n + 1] = 0)
    BY <1>7 DEF Eof, walk
  <2>2. \A i \in 1..file.n : file.data[i] # 0  BY <1>1, <1>2, <2>1 DEF StillInv, Hashing
  <2>3. QED  BY <1>3, <2>1, <2>2
<1>8. CASE StatFile
  <2>1. at = "fstat" /\ Size(file.data) = file.n  BY <1>2, <1>8, StillSize DEF StatFile
  <2>2. at' = "lstat" /\ file' = file  BY <1>8, <2>1 DEF StatFile, walk
  <2>3. (\A i \in 1..file.n : file.data[i] # 0) /\ (file.n + 1 \in Blocks => file.data[file.n + 1] = 0)
    BY <1>1, <1>2, <2>1 DEF StillInv, Hashing
  <2>4. QED  BY <1>3, <2>2, <2>3
<1>9. CASE StatPath
  BY <1>3, <1>9 DEF StatPath, Hashing
<1>10. QED  BY <1>5, <1>6, <1>7, <1>8, <1>9 DEF Hash

\* The step to one name.
LEMMA StillInspect ==
  ASSUME ScanInv, StillInv, Inspect
  PROVE  StillInv'
<1>1. UNCHANGED <<world, pass, first>> /\ at = "children" /\ at \in Walking
  BY DEF Inspect, Refuse, walk, Walking
<1>2. edits = 0 => /\ \A s \in stack : IsDir(s.path) /\ DirKey(s.path) = s.key
                   /\ \A q \in todo : tree[q].kind # "absent"
                   /\ \A p \in Reported : tree[p].kind # "absent"
  BY <1>1, StillFacts DEF StillInv
<1>3. CASE \E c \in todo : (tree[c].kind \in {"absent", "other"} \/ Aliased(c)) /\ Refuse
  <2>1. PICK c \in todo : (tree[c].kind \in {"absent", "other"} \/ Aliased(c)) /\ Refuse  BY <1>3
  <2>2. c \in Paths  BY <2>1 DEF ScanInv, ScanTypeOK
  <2>3. ASSUME edits = 0 PROVE Unsupported(tree)
    <3>1. CASE tree[c].kind \in {"absent", "other"}
      BY <1>2, <2>1, <2>2, <2>3, <3>1 DEF Unsupported
    <3>2. CASE Aliased(c)
      <4>1. PICK q \in Reported : q # c /\ Alias[q] = Alias[c]  BY <3>2 DEF Aliased
      <4>2. q \in Paths  BY <4>1 DEF Reported
      <4>3. QED  BY <1>2, <2>1, <2>2, <2>3, <4>1, <4>2 DEF Unsupported
    <3>3. QED  BY <2>1, <3>1, <3>2
  <2>4. at' = "refused"  BY <2>1 DEF Refuse
  <2>5. QED  BY <1>1, <2>3, <2>4, StillWalk
<1>4. CASE \E c : InspectDir(c) \/ InspectFile(c)
  <2>1. PICK c : InspectDir(c) \/ InspectFile(c)  BY <1>4
  <2>2. c \in Paths /\ c # Root /\ todo' = todo \ {c}
    BY <2>1, Bounds DEF InspectDir, InspectFile, ScanInv, ScanTypeOK
  <2>3. CASE InspectDir(c)
    <3>1. at' = "children" /\ \A s \in stack' : s \in stack \/ s = [path |-> c, key |-> tree[c].key]
      BY <2>3 DEF InspectDir
    <3>2. \A s \in stack' : s \in stack \/ (s.path = c /\ s.key = tree[c].key)  BY SMTT(60), <3>1
    <3>3. IsDir(c) /\ DirKey(c) = tree[c].key  BY <2>2, <2>3 DEF InspectDir, IsDir, DirKey
    <3>4. edits = 0 => \A s \in stack' : IsDir(s.path) /\ DirKey(s.path) = s.key  BY <1>2, <3>2, <3>3
    <3>5. QED  BY <1>1, <1>2, <2>2, <3>1, <3>4, StillWalk DEF Hashing
  <2>4. CASE InspectFile(c)
    <3>1. at' = "open" /\ UNCHANGED stack  BY <2>4 DEF InspectFile
    <3>2. file'.path = c /\ file'.key = tree[c].key  BY <2>4 DEF InspectFile, NoFile
    <3>3. QED  BY <1>1, <1>2, <2>2, <3>1, <3>2, StillWalk DEF Hashing
  <2>5. QED  BY <2>1, <2>3, <2>4
<1>5. QED  BY <1>3, <1>4 DEF Inspect, InspectDir, InspectFile

\* A walk that begins.
LEMMA StillFresh ==
  ASSUME stack' = {[path |-> Root, key |-> 0]}, at' = "pop", todo' = {}, ~recurred',
         \A q \in Paths, f \in Facets : past'[q][f] = {},
         pass' = 2 => first' = [p \in Paths |-> Report(tree'[p])]
  PROVE  StillInv'
<1>1. \A s \in stack' : s.path = Root /\ s.key = 0  BY SMTT(60)
<1>2. \A s \in stack' : IsDir(s.path)' /\ DirKey(s.path)' = s.key  BY <1>1 DEF IsDir, DirKey
<1>3. QED  BY <1>2 DEF StillInv, Hashing

LEMMA StillStep == ScanInv /\ OnceInv /\ StillInv /\ [ScanNext]_scanVars => StillInv'
<1> SUFFICES ASSUME ScanInv, OnceInv, StillInv, [ScanNext]_scanVars PROVE StillInv'
  OBVIOUS
<1>1. CASE UNCHANGED scanVars
  BY <1>1 DEF scanVars, world, walk, StillInv, IsDir, DirKey, Unsupported
<1>2. CASE \E p \in Paths, o \in Objects : Edit(p, o)
  <2>1. edits' # 0  BY SMTT(60), <1>2, Bounds DEF Edit, ScanInv, ScanTypeOK
  <2>2. QED  BY <2>1 DEF StillInv
<1>3. CASE Begin
  <2>1. past' = [p \in Paths |-> [f \in Facets |-> {}]] /\ todo' = {} /\ ~recurred' /\ pass' = 1
        /\ at' = "pop" /\ stack' = {[path |-> Root, key |-> 0]}
    BY <1>3 DEF Begin, ScanInv
  <2>2. (\A q \in Paths, f \in Facets : past'[q][f] = {}) /\ pass' # 2  BY SMTT(60), <2>1
  <2>3. QED  BY <2>1, <2>2, StillFresh
<1>4. CASE Pop \/ OpenDir \/ CheckOpened \/ ListName \/ CheckListed \/ DirDone
  BY <1>4, StillDirectories
<1>5. CASE Inspect
  BY <1>5, StillInspect
<1>6. CASE Hash
  BY <1>6, StillFiles
<1>7. CASE SecondWalk
  <2>1. at = "walked" /\ first' = seen /\ UNCHANGED <<tree, past, recurred, edits, todo>>
        /\ at' = "pop" /\ stack' = {[path |-> Root, key |-> 0]}
    BY <1>7 DEF SecondWalk, world
  <2>2. CASE edits = 0
    <3>1. first' = [p \in Paths |-> Report(tree'[p])]  BY <2>1, <2>2, StillSeen
    <3>2. todo' = {}  BY <2>1 DEF OnceInv, Walking
    <3>3. ~recurred' /\ \A q \in Paths, f \in Facets : past'[q][f] = {}  BY <2>1, <2>2 DEF StillInv
    <3>4. QED  BY <2>1, <3>1, <3>2, <3>3, StillFresh
  <2>3. CASE edits # 0  BY <2>1, <2>3 DEF StillInv
  <2>4. QED  BY <2>2, <2>3
<1>8. CASE Compare
  <2>1. at = "walked" /\ pass = 2 /\ UNCHANGED <<world, pass, first>>  BY <1>8 DEF Compare, Refuse
  <2>2. edits = 0 => first = seen  BY <2>1, StillSeen DEF StillInv
  <2>3. edits = 0 => at' = "accepted"  BY <1>8, <2>2 DEF Compare
  <2>4. "accepted" \notin Walking  BY DEF Walking, Hashing
  <2>5. QED  BY <2>1, <2>3, <2>4, StillWalk
<1>9. CASE CallFails
  <2>1. callFailures' # 0  BY SMTT(60), <1>9, Bounds DEF CallFails, ScanInv, ScanTypeOK
  <2>2. at' = "refused" /\ UNCHANGED <<world, pass, first>>  BY <1>9 DEF CallFails, Refuse
  <2>3. QED  BY <2>1, <2>2, StillWalk
<1>10. QED
  BY <1>1, <1>2, <1>3, <1>4, <1>5, <1>6, <1>7, <1>8, <1>9 DEF ScanNext, Walk

\* The policy on kinds, aliases and the number of entries is applied exactly, to any tree: one that
\* nobody edits is refused only for one of them or a failed call, and what is reported keeps them.
THEOREM PolicyTheorem == ScanSpec => []PolicyExact
<1>1. ScanInit => OnceInv /\ EntryInv /\ StillInv
  <2> SUFFICES ASSUME ScanInit PROVE OnceInv /\ EntryInv /\ StillInv
    OBVIOUS
  <2>1. at = "idle" /\ todo = {} /\ pass = 1 /\ ~recurred /\ \A q \in Paths, f \in Facets : past[q][f] = {}
    BY DEF ScanInit
  <2>2. Reported = {} /\ Holding = {}
    <3>1. \A p \in Paths : seen[p].kind = "absent"  BY DEF ScanInit, Report, Absent
    <3>2. QED  BY <2>1, <3>1 DEF Reported, Holding, Hashing
  <2>3. "idle" \notin Walking /\ 1 # 2  BY SMTT(60) DEF Walking, Hashing
  <2>4. EntryInv
    <3>1. Cardinality({}) + Cardinality({}) <= MaxEntries  BY SMTT(60), FS_EmptySet, TreeAssumption
    <3>2. QED  BY <2>1, <2>2, <3>1 DEF EntryInv
  <2>5. QED  BY <2>1, <2>3, <2>4 DEF OnceInv, StillInv
<1>2. ScanInv /\ EntryInv /\ StillInv => PolicyExact
  <2> SUFFICES ASSUME ScanInv, EntryInv, StillInv PROVE PolicyExact
    OBVIOUS
  <2>1. Cardinality(todo) \in Nat /\ Cardinality(Reported) \in Nat /\ MaxEntries \in Nat  BY EntryTypes
  <2>2. Cardinality(Reported) <= MaxEntries  BY SMTT(60), <2>1 DEF EntryInv
  <2>3. \A p, q \in Reported : p # q => Alias[p] # Alias[q]  BY DEF EntryInv
  <2>4. QED  BY <2>2, <2>3 DEF PolicyExact, StillInv
<1>3. QED  BY <1>1, <1>2, OnceStep, EntryStep, StillStep, ScanInvariant, PTL DEF ScanSpec

=============================================================================
