--------------------------- MODULE RunProperties ----------------------------
(***************************************************************************)
(* The lifecycle a run follows, what must eventually happen in it, and the *)
(* fairness that rests on.                                                 *)
(***************************************************************************)
EXTENDS RunSafety

\* The run as an operator sees it.
Story == IF disk = Nil THEN Untold ELSE StoryIn(disk)

Lifecycle == INSTANCE RunLifecycle WITH
    MaxAttempts <- MaxAttemptsPerTask, status <- Story.status, tasks <- Story.tasks, sealed <- bundle # Nil

(***************************************************************************)
(* Whatever crashes, failures, recoveries and resumes do to it, a run goes *)
(* through the lifecycle: the engine, write by write, implements           *)
(* RunLifecycle.                                                           *)
(***************************************************************************)
FollowsRunLifecycle == Lifecycle!Spec

(***************************************************************************)
(* Fairness.  A runner that is not stopped goes on (the engine is one      *)
(* sequential program without waits other than the one for its child),     *)
(* every child ends, and the operator starts the run and resumes it        *)
(* whenever the engine lets them.                                          *)
(***************************************************************************)
Fairness ==
    /\ WF_vars(RunnerStep) /\ WF_vars(ChildExits)
    /\ WF_vars(StartRun) /\ WF_vars(ResumeRun)

LiveSpec == Spec /\ Fairness

(***************************************************************************)
(* Every start and every resume returns, by completing the run, recording  *)
(* a failure or refusing; none loops in _execute_remaining for ever.       *)
(***************************************************************************)
InvocationEnds == []<>(pc = "idle")

(***************************************************************************)
(* A run that its operator keeps resuming is sealed in the end, or reaches *)
(* one of the announced dead ends: the failures, retries and recoveries of *)
(* the engine never go round in a circle.  That nobody edits the workspace *)
(* is part of it: edited outputs of completed tasks are refused.           *)
(***************************************************************************)
RunSettles == <>[](edits > 0 \/ bundle # Nil \/ root = "partial" \/ (disk # Nil /\ DeadEnd))

=============================================================================
