---------------------------- MODULE RunLifecycle ----------------------------
(***************************************************************************)
(* What a run of a suite promises its operator, as state.json and          *)
(* bundle.json show it: tasks are taken one at a time and in their order,  *)
(* each has a limited number of attempts, a new attempt comes only after   *)
(* the last one was recovered, a failure stops the run until it is         *)
(* resumed, and a run is sealed once, when every task is completed, after  *)
(* which nothing changes.                                                  *)
(***************************************************************************)
EXTENDS Naturals

CONSTANTS TaskCount, MaxAttempts

VARIABLES
    status,  \* running, failed or completed
    tasks,   \* the status of each task and the number of its attempts
    sealed   \* whether there is a bundle

vars == <<status, tasks, sealed>>

Init ==
    /\ status = "running" /\ ~sealed
    /\ tasks = [t \in 1..TaskCount |-> [status |-> "pending", attempts |-> 0]]

\* The run is at task t: those before it are completed.
Reached(t) == ~sealed /\ status = "running" /\ \A u \in 1..(t - 1) : tasks[u].status = "completed"

Becomes(t, s, n) == tasks' = [tasks EXCEPT ![t] = [status |-> s, attempts |-> n]] /\ sealed' = sealed

Attempt(t) ==
    /\ Reached(t) /\ tasks[t].status = "pending" /\ tasks[t].attempts < MaxAttempts
    /\ Becomes(t, "running", tasks[t].attempts + 1) /\ status' = status

Complete(t) ==
    /\ Reached(t) /\ tasks[t].status = "running"
    /\ Becomes(t, "completed", tasks[t].attempts) /\ status' = status

Fail(t) ==
    /\ Reached(t) /\ tasks[t].status = "running"
    /\ Becomes(t, "failed", tasks[t].attempts) /\ status' = "failed"

\* A failed attempt, or one whose runner was lost, is recovered.
Recover(t) ==
    /\ Reached(t) /\ tasks[t].status \in {"running", "failed"}
    /\ Becomes(t, "pending", tasks[t].attempts) /\ status' = status

\* A completed run is resumed too if its runner was lost before it was sealed.
Resume ==
    /\ ~sealed /\ status # "running"
    /\ status' = "running" /\ UNCHANGED <<tasks, sealed>>

Finish ==
    /\ ~sealed /\ status = "running" /\ \A t \in 1..TaskCount : tasks[t].status = "completed"
    /\ status' = "completed" /\ UNCHANGED <<tasks, sealed>>

Seal ==
    /\ ~sealed /\ status = "completed" /\ \A t \in 1..TaskCount : tasks[t].status = "completed"
    /\ sealed' = TRUE /\ UNCHANGED <<status, tasks>>

Next ==
    \/ \E t \in 1..TaskCount : Attempt(t) \/ Complete(t) \/ Fail(t) \/ Recover(t)
    \/ Resume \/ Finish \/ Seal

Spec == Init /\ [][Next]_vars

=============================================================================
