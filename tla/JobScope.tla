------------------------------ MODULE JobScope ------------------------------
(***************************************************************************)
(* The Windows process scope of one attempt (processes.py) under the part  *)
(* of _run_task (engine.py) that drives it: a Job object that kills its    *)
(* members when its last handle is closed, a leader that is created        *)
(* suspended, assigned to the Job and then resumed, the cleanup of a       *)
(* launch that fails half-way, the stopping and closing of the Job, and    *)
(* the resume after a runner that is gone.                                 *)
(*                                                                         *)
(* The operating system is external: members fork inside the Job and exit  *)
(* at any moment; a process that is being terminated executes no more code *)
(* and is listed until it has exited.  Unlike a process group, a Job is    *)
(* queried in one call.                                                    *)
(***************************************************************************)
EXTENDS Naturals, FiniteSets

CONSTANTS Procs,          \* processes of the attempt's family
          JobLeader,      \* the one that Popen creates
          MaxJobFailures  \* bound: failing calls and interrupts

ASSUME JobConstants == JobLeader \in Procs /\ MaxJobFailures \in Nat

VARIABLES
  proc,        \* process -> none, suspended, live, doomed (being terminated) or exited
  members,     \* the processes assigned to the Job
  job,         \* the runner's handle of the Job: none, open or closed
  stranger,    \* the leader's process id now names another process
  pc,          \* where the runner, or the resume after it, is
  errors,      \* start() could not confirm its cleanup
  after,       \* what _run_task does once the scope is closed
  inJobClose,  \* terminate() was called by close()
  inFinally,   \* in the finally clause of _run_task
  launchGuard, \* the persisted attempt has child_launch_guard set
  otherToken,  \* resume: the leader's process id has another start token
  faults,
  stray        \* history: an interrupt struck between CreateProcess and the assignment of process

system == <<proc, members, stranger>>
attempt == <<after, inJobClose, inFinally, launchGuard, otherToken>>
jobVars == <<system, job, pc, errors, attempt, faults, stray>>

-----------------------------------------------------------------------------
(* The operating system.                                                   *)

Exists(p) == proc[p] \in {"suspended", "live", "doomed"}

\* JobObjectBasicProcessIdList.
Listed == {p \in members : Exists(p)}

\* TerminateJobObject, and what KILL_ON_JOB_CLOSE does.
KillMembers == proc' = [p \in Procs |-> IF p \in Listed THEN "doomed" ELSE proc[p]]

JobFork(p) ==
  /\ proc[p] = "live"
  /\ \E q \in Procs \ {JobLeader} :
       /\ proc[q] = "none"
       /\ proc' = [proc EXCEPT ![q] = "live"]
       /\ members' = IF p \in members THEN members \union {q} ELSE members
  /\ UNCHANGED <<stranger, job, pc, errors, attempt, faults, stray>>

JobExit(p) ==
  /\ proc[p] \in {"live", "doomed"}
  /\ proc' = [proc EXCEPT ![p] = "exited"]
  /\ UNCHANGED <<members, stranger, job, pc, errors, attempt, faults, stray>>

\* While its runner has a handle of the leader the id is not given away.
JobReuse ==
  /\ pc \in {"gone", "liveness"} /\ proc[JobLeader] = "exited" /\ ~stranger
  /\ stranger' = TRUE
  /\ UNCHANGED <<proc, members, job, pc, errors, attempt, faults, stray>>

-----------------------------------------------------------------------------
(* ProcessScope.start.                                                     *)

Fails == faults < MaxJobFailures /\ faults' = faults + 1

CreateJob ==
  /\ pc = "create"
  /\ pc' = "popen" /\ job' = "open"
  /\ UNCHANGED <<system, errors, attempt, faults, stray>>

\* CreateJobObject or SetInformationJobObject fails: the handle, if any, is closed again.
CreateJobFails ==
  /\ pc = "create" /\ Fails
  /\ pc' = "done" /\ after' = "failed"
  /\ UNCHANGED <<system, job, errors, inJobClose, inFinally, launchGuard, otherToken, stray>>

Popen ==
  /\ pc = "popen"
  /\ pc' = "assign"
  /\ proc' = [proc EXCEPT ![JobLeader] = "suspended"]
  /\ UNCHANGED <<members, stranger, job, errors, attempt, faults, stray>>

\* Popen raises; an interrupt may do so after the process was created.
PopenFails ==
  /\ pc = "popen" /\ Fails
  /\ pc' = "cleanupJob"
  /\ \/ UNCHANGED <<proc, stray>>
     \/ proc' = [proc EXCEPT ![JobLeader] = "suspended"] /\ stray' = TRUE
  /\ UNCHANGED <<members, stranger, job, errors, attempt>>

Assign ==
  /\ pc = "assign"
  /\ pc' = "resume"
  /\ members' = members \union {JobLeader}
  /\ UNCHANGED <<proc, stranger, job, errors, attempt, faults, stray>>

\* OpenProcess or AssignProcessToJobObject fails, or an interrupt strikes on either side of it.
AssignFails ==
  /\ pc = "assign" /\ Fails
  /\ pc' = "cleanupKill"
  /\ members' \in {members, members \union {JobLeader}}
  /\ UNCHANGED <<proc, stranger, job, errors, attempt, stray>>

ResumeThread ==
  /\ pc = "resume"
  /\ pc' = "launched"
  /\ proc' = [proc EXCEPT ![JobLeader] = "live"]
  /\ UNCHANGED <<members, stranger, job, errors, attempt, faults, stray>>

\* No single thread, a failing call, or an unexpected suspend count after the thread was resumed.
ResumeThreadFails ==
  /\ pc = "resume" /\ Fails
  /\ pc' = "cleanupTerminate"
  /\ proc' \in {proc, [proc EXCEPT ![JobLeader] = "live"]}
  /\ UNCHANGED <<members, stranger, job, errors, attempt, stray>>

-----------------------------------------------------------------------------
(* The cleanup of a failed launch.  An error is noted and the next step    *)
(* taken all the same.                                                     *)

CleanupTerminate ==
  /\ pc = "cleanupTerminate"
  /\ pc' = "cleanupWait" /\ KillMembers
  /\ UNCHANGED <<members, stranger, job, errors, attempt, faults, stray>>

\* wait_empty and the exit status of job.terminate.
CleanupWait ==
  /\ pc = "cleanupWait" /\ Listed = {}
  /\ pc' = "cleanupKill"
  /\ UNCHANGED <<system, job, errors, attempt, faults, stray>>

\* A call fails, or the timeout passes first.
CleanupTerminateFails ==
  /\ pc \in {"cleanupTerminate", "cleanupWait"}
  /\ Fails \/ (pc = "cleanupWait" /\ Listed # {} /\ UNCHANGED faults)
  /\ pc' = "cleanupKill" /\ errors' = TRUE
  /\ UNCHANGED <<system, job, attempt, stray>>

\* process.poll(), process.kill(), process.wait(timeout=5).
CleanupKill ==
  /\ pc = "cleanupKill"
  /\ pc' = "cleanupReap"
  /\ proc' = [proc EXCEPT ![JobLeader] = IF Exists(JobLeader) THEN "doomed" ELSE @]
  /\ UNCHANGED <<members, stranger, job, errors, attempt, faults, stray>>

CleanupReap ==
  /\ pc = "cleanupReap" /\ ~Exists(JobLeader)
  /\ pc' = "cleanupJob"
  /\ UNCHANGED <<system, job, errors, attempt, faults, stray>>

CleanupKillFails ==
  /\ pc \in {"cleanupKill", "cleanupReap"}
  /\ Fails \/ (pc = "cleanupReap" /\ Exists(JobLeader) /\ UNCHANGED faults)
  /\ pc' = "cleanupJob" /\ errors' = TRUE
  /\ UNCHANGED <<system, job, attempt, stray>>

\* Mutant: the failure is reported as cleaned up whatever the cleanup met.
CleanupUnconfirmed ==
  /\ pc = "cleanupJob"
  /\ KillMembers /\ job' = "closed"
  /\ pc' = "done" /\ after' = "failed"
  /\ UNCHANGED <<members, stranger, errors, inJobClose, inFinally, launchGuard, otherToken>>
  /\ UNCHANGED <<faults, stray>>

\* job.close(), then an error of its own kind for a cleanup that was not confirmed.
CleanupJob ==
  /\ pc = "cleanupJob"
  /\ KillMembers /\ job' = "closed"
  /\ IF errors THEN pc' = "raised" /\ UNCHANGED after
               ELSE pc' = "done" /\ after' = "failed"
  /\ UNCHANGED <<members, stranger, errors, inJobClose, inFinally, launchGuard, otherToken>>
  /\ UNCHANGED <<faults, stray>>

CleanupJobFails ==
  /\ pc = "cleanupJob" /\ Fails
  /\ pc' = "raised" /\ errors' = TRUE
  /\ UNCHANGED <<system, job, attempt, stray>>

-----------------------------------------------------------------------------
(* The attempt.                                                            *)

\* An exception: once to the finally clause, which closes the scope, then out.
JobRaise ==
  /\ IF inFinally
     THEN pc' = "raised" /\ UNCHANGED <<after, inFinally>>
     ELSE pc' = "close" /\ after' = "raise" /\ inFinally' = TRUE
  /\ inJobClose' = FALSE

JobPersistIdentity ==
  /\ pc = "launched"
  /\ pc' = "waiting" /\ launchGuard' = FALSE
  /\ UNCHANGED <<system, job, errors, after, inJobClose, inFinally, otherToken, faults, stray>>

\* No start token, or the state write failed, perhaps after its replace.
JobIdentityFails ==
  /\ pc = "launched" /\ Fails
  /\ pc' = "terminate" /\ after' \in {"failed", "raise"} /\ launchGuard' \in BOOLEAN
  /\ UNCHANGED <<system, job, errors, inJobClose, inFinally, otherToken, stray>>

JobLeaderReturns ==
  /\ pc = "waiting" /\ proc[JobLeader] = "exited"
  /\ pc' = "settle"
  /\ UNCHANGED <<system, job, errors, attempt, faults, stray>>

JobWaitInterrupted ==
  /\ pc = "waiting" /\ Fails
  /\ pc' = "terminate" /\ after' = "failed"
  /\ UNCHANGED <<system, job, errors, inJobClose, inFinally, launchGuard, otherToken, stray>>

JobSettled ==
  /\ pc = "settle" /\ Listed = {}
  /\ pc' = "close" /\ after' = "hash"
  /\ UNCHANGED <<system, job, errors, inJobClose, inFinally, launchGuard, otherToken, faults, stray>>

JobSettleDeadline ==
  /\ pc = "settle" /\ Listed # {}
  /\ pc' = "terminate" /\ after' = "failed"
  /\ UNCHANGED <<system, job, errors, inJobClose, inFinally, launchGuard, otherToken, faults, stray>>

Terminate ==
  /\ pc = "terminate"
  /\ KillMembers
  /\ pc' = "await"
  /\ UNCHANGED <<members, stranger, job, errors, attempt, faults, stray>>

\* wait_empty(kill_timeout) and the exit status; then wait_empty(0), unless close() asked.
JobTerminated ==
  /\ pc = "await" /\ Listed = {}
  /\ pc' = (IF inJobClose THEN "closeHandle" ELSE "close")
  /\ UNCHANGED <<system, job, errors, attempt, faults, stray>>

AwaitDeadline ==
  /\ pc = "await" /\ Listed # {}
  /\ JobRaise
  /\ UNCHANGED <<system, job, errors, launchGuard, otherToken, faults, stray>>

\* close(): stop whatever is listed, then the handle.
Close ==
  /\ pc = "close"
  /\ IF Listed = {} THEN pc' = "closeHandle" /\ UNCHANGED inJobClose
                    ELSE pc' = "terminate" /\ inJobClose' = TRUE
  /\ UNCHANGED <<system, job, errors, after, inFinally, launchGuard, otherToken, faults, stray>>

CloseHandle ==
  /\ pc = "closeHandle"
  /\ KillMembers /\ job' = "closed"
  /\ pc' = (IF after = "raise" THEN "raised" ELSE "done")
  /\ UNCHANGED <<members, stranger, errors, attempt, faults, stray>>

\* A query of the Job, its termination or the closing of its handle fails.
ScopeCallFails ==
  /\ pc \in {"settle", "terminate", "await", "close", "closeHandle"} /\ Fails
  /\ JobRaise
  /\ UNCHANGED <<system, job, errors, launchGuard, otherToken, stray>>

-----------------------------------------------------------------------------
(* The runner is gone; a resume looks at the recorded leader.              *)

\* Mutant: the handle was inherited and stays open in a child.
RunnerGoneInherited ==
  /\ pc \notin {"done", "gone", "liveness", "admitted"}
  /\ pc' = "gone"
  /\ UNCHANGED <<system, job, errors, attempt, faults, stray>>

\* The process dies anywhere, or ends after an error: its handle is closed by __del__ or by the
\* operating system, and an open Job kills its members.
RunnerGone ==
  /\ pc \notin {"done", "gone", "liveness", "admitted"}
  /\ pc' = "gone"
  /\ IF job = "open" THEN KillMembers /\ job' = "closed" ELSE UNCHANGED <<proc, job>>
  /\ UNCHANGED <<members, stranger, errors, attempt, faults, stray>>

\* _assert_recovery_liveness: the guard, the start token, then the liveness of the leader.
JobReadToken ==
  /\ pc = "gone" /\ ~launchGuard
  /\ otherToken' = stranger
  /\ pc' = "liveness"
  /\ UNCHANGED <<system, job, errors, after, inJobClose, inFinally, launchGuard, faults, stray>>

\* Mutant: another process under the leader's id counts as the leader.
CheckLivenessOfId ==
  /\ pc = "liveness"
  /\ pc' = (IF Exists(JobLeader) \/ stranger THEN "gone" ELSE "admitted")
  /\ UNCHANGED <<system, job, errors, attempt, faults, stray>>

JobCheckLiveness ==
  /\ pc = "liveness"
  /\ pc' = (IF ~otherToken /\ (Exists(JobLeader) \/ stranger) THEN "gone" ELSE "admitted")
  /\ UNCHANGED <<system, job, errors, attempt, faults, stray>>

-----------------------------------------------------------------------------

JobInit ==
  /\ proc = [p \in Procs |-> "none"] /\ members = {} /\ stranger = FALSE
  /\ job = "none" /\ pc = "create"
  /\ errors = FALSE
  /\ after = "none" /\ inJobClose = FALSE /\ inFinally = FALSE
  /\ launchGuard = TRUE /\ otherToken = FALSE
  /\ faults = 0 /\ stray = FALSE

JobStart == \/ CreateJob \/ CreateJobFails \/ Popen \/ PopenFails
         \/ Assign \/ AssignFails \/ ResumeThread \/ ResumeThreadFails
Cleanup == \/ CleanupTerminate \/ CleanupWait \/ CleanupTerminateFails
           \/ CleanupKill \/ CleanupReap \/ CleanupKillFails
           \/ CleanupJob \/ CleanupJobFails
Run == \/ JobPersistIdentity \/ JobIdentityFails \/ JobLeaderReturns
       \/ JobSettled \/ JobSettleDeadline \/ Terminate \/ JobTerminated \/ AwaitDeadline
       \/ Close \/ CloseHandle
JobResume == JobReadToken \/ JobCheckLiveness
System == (\E p \in Procs : JobFork(p) \/ JobExit(p)) \/ JobReuse

JobNext == \/ System \/ JobStart \/ Cleanup \/ Run \/ JobWaitInterrupted \/ ScopeCallFails
        \/ RunnerGone \/ JobResume

JobSpec == JobInit /\ [][JobNext]_jobVars

-----------------------------------------------------------------------------
(* Properties.                                                             *)

JobPlaces == {"create", "popen", "assign", "resume",
              "cleanupTerminate", "cleanupWait", "cleanupKill", "cleanupReap", "cleanupJob",
              "launched", "waiting", "settle", "terminate", "await", "close", "closeHandle",
              "done", "raised", "gone", "liveness", "admitted"}

\* The shape of the state.
JobTypeOK ==
  /\ proc \in [Procs -> {"none", "suspended", "live", "doomed", "exited"}]
  /\ members \subseteq Procs
  /\ job \in {"none", "open", "closed"}
  /\ pc \in JobPlaces
  /\ after \in {"none", "hash", "failed", "raise"}
  /\ stranger \in BOOLEAN /\ errors \in BOOLEAN /\ inJobClose \in BOOLEAN /\ inFinally \in BOOLEAN
  /\ launchGuard \in BOOLEAN /\ otherToken \in BOOLEAN /\ stray \in BOOLEAN
  /\ faults \in 0..MaxJobFailures

\* The task's code is executed only inside the Job and only while the Job can still be closed on
\* it: the leader is resumed after its assignment, its descendants are born in the Job, and
\* closing the handle stops them all (ProcessScope.start, KILL_ON_JOB_CLOSE).
RunsOnlyInJob == \A p \in Procs : proc[p] = "live" => p \in members /\ job = "open"

\* When the attempt goes on to its outputs or is recorded as failed, a failed launch with
\* confirmed cleanup included, nothing of the family is left, not even a process that is still
\* exiting; only an interrupt inside Popen can leave the leader, suspended for ever.
EndsQuiet ==
  pc = "done" => \A p \in Procs : Exists(p) => stray /\ p = JobLeader /\ proc[p] = "suspended"

\* A resume is admitted only when no code of the earlier attempt runs or can ever run again,
\* although it looks at nobody but the leader: what is left of the family is exiting.
AdmittedAlone == pc = "admitted" => \A p \in Procs : proc[p] \notin {"live", "suspended"}

\* Once the leader has exited, or the launch or the wait was cut short, the runner comes to an
\* outcome or raises, whatever the family does.  And after the loss of a runner whose attempt
\* has its identity on disk a resume is admitted in the end, also when the leader's process id
\* is used again: nothing has to be stopped by hand.
JobAttemptEnds ==
  /\ pc \in {"cleanupTerminate", "cleanupWait", "cleanupKill", "cleanupReap", "cleanupJob",
             "settle", "terminate", "await", "close", "closeHandle"}
       ~> pc \in {"done", "raised", "gone", "liveness", "admitted"}
  /\ pc = "gone" /\ ~launchGuard ~> pc = "admitted"
=============================================================================
