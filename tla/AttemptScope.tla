---------------------------- MODULE AttemptScope ----------------------------
(***************************************************************************)
(* The process scope of one attempt on either platform.  The policy goes   *)
(* by os.name: ProcessScope.start takes a Job object on Windows and a      *)
(* process group on Linux.  The name is a fact about the host, the same    *)
(* for the runner and for every resume after it.                           *)
(***************************************************************************)
EXTENDS ProcessScope, JobScope

VARIABLE osName

attemptVars == <<osName, scopeVars, jobVars>>

OnPosix(A) == osName = "posix" /\ A /\ UNCHANGED <<osName, jobVars>>
OnWindows(A) == osName = "nt" /\ A /\ UNCHANGED <<osName, scopeVars>>

AttemptInit == osName \in {"posix", "nt"} /\ InitScope /\ JobInit

AttemptNext == OnPosix(NextScope) \/ OnWindows(JobNext)

(***************************************************************************)
(* Fairness.  On either platform a runner that is up keeps executing, its  *)
(* process.wait() returns once the leader has exited, and an operator who  *)
(* resumes tries again.  The deadlines of the process group are read off a *)
(* monotonic clock, so a loop that keeps finding members is cut off in the *)
(* end; the waits for a Job end by the condition or by the clock.  A       *)
(* process that Windows is terminating exits.  Nothing else is assumed of  *)
(* the family, of reaping by others, or of strangers.                      *)
(***************************************************************************)
AttemptFairness ==
  /\ WF_attemptVars(OnPosix(Start \/ LeaderReturns \/ Scanning \/ Decide))
  /\ SF_attemptVars(OnPosix(Deadline))
  /\ WF_attemptVars(OnPosix(Resume))
  /\ WF_attemptVars(OnWindows(JobStart \/ Cleanup \/ Run))
  /\ WF_attemptVars(OnWindows(\E p \in Procs : proc[p] = "doomed" /\ JobExit(p)))
  /\ WF_attemptVars(OnWindows(JobResume))

AttemptSpec == AttemptInit /\ [][AttemptNext]_attemptVars /\ AttemptFairness
=============================================================================
