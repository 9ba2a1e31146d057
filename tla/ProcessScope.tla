---------------------------- MODULE ProcessScope ----------------------------
(***************************************************************************)
(* The POSIX process scope of one attempt (processes.py) and the part of   *)
(* _run_task (engine.py) that drives it: the leader is started in a group  *)
(* of its own, the runner waits for it, decides whether the group is empty *)
(* by reading /proc one entry at a time, escalates TERM and KILL, and      *)
(* closes the scope.  A runner that dies leaves the group alone; a later   *)
(* resume probes the recorded leader and the recorded group.               *)
(*                                                                         *)
(* The kernel is external: processes fork, exit and are reaped at any      *)
(* moment, and a free pid may be given to a stranger.  A process id is not *)
(* handed out while it is the id of a process or of a group that has one.  *)
(* Members that leave the group (setsid) are outside the documented scope  *)
(* and are not modelled.                                                   *)
(***************************************************************************)
EXTENDS Naturals, FiniteSetsExt

CONSTANTS Pids,        \* process ids, numbers: /proc is listed in their order
          Leader,      \* the pid of the attempt's leader and the id of its group
          MaxForks,    \* bound: forks inside the family
          MaxReuses,   \* bound: strangers that are given a free pid
          MaxFailures  \* bound: failed reads of /proc and refused signals

ASSUME ScopeConstants == /\ Pids \subseteq Nat
                         /\ Leader \in Pids
                         /\ MaxForks \in Nat
                         /\ MaxReuses \in Nat
                         /\ MaxFailures \in Nat

VARIABLES
  st,        \* pid -> what the kernel has under it
  kin,       \* the pids of the attempt's family: the leader and its descendants
  forks,
  reuses,
  failures,
  place,     \* where the runner, or the resume after it, is
  scan,      \* the enumeration of the group in progress
  then,      \* what _run_task does once the scope is closed
  inClose,   \* terminate() was called by close()
  unwinding, \* in the finally clause of _run_task
  guard,     \* the persisted attempt still has child_launch_guard set
  reused,    \* resume: the leader's pid has another start token
  killed,    \* history: SIGKILL was sent to the group
  raced      \* history: enumerations of this invocation that found nobody while a member forked

kernel == <<st, kin, forks, reuses, failures>>
runner == <<place, scan, then, inClose, unwinding, guard, reused, killed, raced>>
scopeVars == <<kernel, runner>>

-----------------------------------------------------------------------------
(* The kernel.                                                             *)

\* A zombie has exited and is not yet reaped; a doomed process has SIGKILL pending.
Live(p) == st[p] \in {"live", "doomed"}

LiveKin == {p \in kin : Live(p)}

\* start_new_session: the family is the group of its leader; a stranger leads its own.
Group(p) == IF p \in kin THEN Leader ELSE p

Available(p) == st[p] = "free" /\ \A q \in Pids : st[q] # "free" => Group(q) # p

\* _linux_process_start_token: the boot id and start time tell incarnations apart.
StartToken(p) == IF st[p] = "free" THEN "none"
                 ELSE IF p \in kin THEN "own" ELSE "other"

NoScan == [on |-> FALSE, todo |-> {}, found |-> FALSE, forked |-> FALSE]

Fork(p) ==
  /\ p \in kin /\ st[p] = "live" /\ forks < MaxForks
  /\ \E q \in {q \in Pids : Available(q)} :
       /\ st' = [st EXCEPT ![q] = "live"]
       /\ kin' = kin \union {q}
  /\ forks' = forks + 1
  /\ scan' = [scan EXCEPT !.forked = scan.on]
  /\ UNCHANGED <<reuses, failures, place, then, inClose, unwinding, guard, reused, killed, raced>>

Exit(p) ==
  /\ Live(p)
  /\ st' = [st EXCEPT ![p] = "zombie"]
  /\ UNCHANGED <<kin, forks, reuses, failures, runner>>

\* The places of a runner that is alive, and so the parent of the leader.
RunnerUp == place \notin {"down", "liveness", "groupScan", "admitted"}

\* A parent, or init for an orphan, reaps; the leader is left to its runner.
Reap(p) ==
  /\ st[p] = "zombie" /\ ~(RunnerUp /\ p = Leader /\ p \in kin)
  /\ st' = [st EXCEPT ![p] = "free"]
  /\ kin' = kin \ {p}
  /\ UNCHANGED <<forks, reuses, failures, runner>>

Reuse(p) ==
  /\ place # "ready" /\ reuses < MaxReuses /\ Available(p)
  /\ st' = [st EXCEPT ![p] = "live"]
  /\ reuses' = reuses + 1
  /\ UNCHANGED <<kin, forks, failures, runner>>

\* Popen.poll() reaps a leader that has exited.
LeaderDone == Leader \in kin /\ st[Leader] = "zombie"

Poll == IF LeaderDone
        THEN st' = [st EXCEPT ![Leader] = "free"] /\ kin' = kin \ {Leader}
        ELSE UNCHANGED <<st, kin>>

-----------------------------------------------------------------------------
(* Enumerating the group: one listing of /proc, then each entry's stat.    *)

WaitLoops == {"settle", "term", "kill", "recheck"}     \* _wait_for_empty, which polls
Queries == {"probe", "close", "groupScan"}             \* a bare active_process_ids()

BeginScan ==
  /\ place \in WaitLoops \union Queries /\ ~scan.on
  /\ IF place \in WaitLoops THEN Poll ELSE UNCHANGED <<st, kin>>
  /\ scan' = [NoScan EXCEPT !.on = TRUE, !.todo = {p \in Pids : st'[p] # "free"}]
  /\ UNCHANGED <<forks, reuses, failures, place, then, inClose, unwinding, guard, reused, killed, raced>>

\* A vanished entry and a zombie are passed over.
ReadEntry ==
  /\ scan.on /\ scan.todo # {}
  /\ LET p == Min(scan.todo)
     IN scan' = [scan EXCEPT !.todo = @ \ {p},
                             !.found = @ \/ (Live(p) /\ Group(p) = Leader)]
  /\ UNCHANGED <<kernel, place, then, inClose, unwinding, guard, reused, killed, raced>>

Verdict(empty) ==
  /\ scan.on /\ scan.todo = {} /\ scan.found = ~empty
  /\ scan' = NoScan
  /\ raced' = raced + (IF empty /\ scan.forked THEN 1 ELSE 0)

\* An EvidenceError: once to the finally clause, which closes the scope, then out.
Raise ==
  /\ IF unwinding
     THEN place' = "down" /\ UNCHANGED <<then, unwinding>>
     ELSE place' = "close" /\ then' = "raise" /\ unwinding' = TRUE
  /\ inClose' = FALSE

\* Any other failure to read an entry, a process gone between open and read included.
ReadFails ==
  /\ scan.on /\ scan.todo # {}
  /\ failures < MaxFailures /\ failures' = failures + 1
  /\ scan' = NoScan
  /\ IF place = "groupScan"
     THEN place' = "down" /\ UNCHANGED <<then, inClose, unwinding>>
     ELSE Raise
  /\ UNCHANGED <<st, kin, forks, reuses, guard, reused, killed, raced>>

-----------------------------------------------------------------------------
(* The attempt: launch, identity, wait.                                    *)

Launch ==
  /\ place = "ready"
  /\ place' = "launched"
  /\ st' = [st EXCEPT ![Leader] = "live"] /\ kin' = {Leader}
  /\ UNCHANGED <<forks, reuses, failures, scan, then, inClose, unwinding, guard, reused, killed, raced>>

LaunchFails ==
  /\ place = "ready"
  /\ place' = "done" /\ then' = "failed"
  /\ UNCHANGED <<kernel, scan, inClose, unwinding, guard, reused, killed, raced>>

\* The identity is persisted and the guard cleared in one state write.
PersistIdentity ==
  /\ place = "launched"
  /\ place' = "waiting" /\ guard' = FALSE
  /\ UNCHANGED <<kernel, scan, then, inClose, unwinding, reused, killed, raced>>

\* No start token, or the state write failed, perhaps after its replace: stop the family, then
\* fail or re-raise.
IdentityFails ==
  /\ place = "launched"
  /\ place' = "probe" /\ then' \in {"failed", "raise"} /\ guard' \in BOOLEAN
  /\ UNCHANGED <<kernel, scan, inClose, unwinding, reused, killed, raced>>

LeaderReturns ==
  /\ place = "waiting" /\ LeaderDone
  /\ Poll
  /\ place' = "settle"
  /\ UNCHANGED <<forks, reuses, failures, scan, then, inClose, unwinding, guard, reused, killed, raced>>

WaitInterrupted ==
  /\ place = "waiting"
  /\ place' = "probe" /\ then' = "failed"
  /\ UNCHANGED <<kernel, scan, inClose, unwinding, guard, reused, killed, raced>>

\* Mutant: a quiet group is not looked at again by close().
SettledWithoutClose ==
  /\ place = "settle"
  /\ \/ Verdict(TRUE) /\ place' = "done" /\ then' = "hash"
     \/ Verdict(FALSE) /\ UNCHANGED <<place, then>>
  /\ UNCHANGED <<kernel, inClose, unwinding, guard, reused, killed>>

\* wait_empty(0.25): a quiet group is a natural end, a lingering one is stopped.
Settled ==
  /\ place = "settle"
  /\ \/ Verdict(TRUE) /\ place' = "close" /\ then' = "hash"
     \/ Verdict(FALSE) /\ UNCHANGED <<place, then>>
  /\ UNCHANGED <<kernel, inClose, unwinding, guard, reused, killed>>

SettleDeadline ==
  /\ place = "settle" /\ Verdict(FALSE)
  /\ place' = "probe" /\ then' = "failed"
  /\ UNCHANGED <<kernel, inClose, unwinding, guard, reused, killed>>

-----------------------------------------------------------------------------
(* terminate(): TERM if anything is there, then KILL, then the exit status. *)

\* TERM may be handled or ignored; what it leads to is the members' own Exit.
Probed ==
  /\ place = "probe"
  /\ \E empty \in BOOLEAN : Verdict(empty)
  /\ place' = "term"
  /\ UNCHANGED <<kernel, then, inClose, unwinding, guard, reused, killed>>

\* killpg refused (PermissionError and the like), for TERM or for KILL.
SignalRefused ==
  /\ place \in {"probe", "term"} /\ Verdict(FALSE)
  /\ failures < MaxFailures /\ failures' = failures + 1
  /\ Raise
  /\ UNCHANGED <<st, kin, forks, reuses, guard, reused, killed>>

Terminated ==
  /\ place \in {"term", "kill"}
  /\ \/ Verdict(TRUE) /\ place' = "status"
     \/ Verdict(FALSE) /\ UNCHANGED place
  /\ UNCHANGED <<kernel, then, inClose, unwinding, guard, reused, killed>>

\* killpg: every process of the group at this moment.
KillGroup ==
  /\ place = "term" /\ Verdict(FALSE)
  /\ place' = "kill" /\ killed' = TRUE
  /\ st' = [p \in Pids |-> IF Live(p) /\ Group(p) = Leader THEN "doomed" ELSE st[p]]
  /\ UNCHANGED <<kin, forks, reuses, failures, then, inClose, unwinding, guard, reused>>

\* Mutant: after KILL the loop has no deadline.
KillWithoutDeadline ==
  /\ place = "kill" /\ Verdict(FALSE)
  /\ UNCHANGED <<kernel, place, then, inClose, unwinding, guard, reused, killed>>

KillDeadline ==
  /\ place = "kill" /\ Verdict(FALSE)
  /\ Raise
  /\ UNCHANGED <<kernel, guard, reused, killed>>

\* _confirmed_return_code: the leader is reaped here if it was not before.
ReadStatus ==
  /\ place = "status" /\ ~(Leader \in kin /\ Live(Leader))
  /\ Poll
  /\ IF inClose
     THEN /\ place' = (IF then = "raise" THEN "down" ELSE "done")
          /\ inClose' = FALSE
     ELSE place' = "recheck" /\ UNCHANGED inClose
  /\ UNCHANGED <<forks, reuses, failures, scan, then, unwinding, guard, reused, killed, raced>>

\* stop_managed_process: wait_empty(0) after terminate(), one enumeration.
Rechecked ==
  /\ place = "recheck"
  /\ \/ Verdict(TRUE) /\ place' = "close" /\ UNCHANGED <<then, inClose, unwinding>>
     \/ Verdict(FALSE) /\ Raise
  /\ UNCHANGED <<kernel, guard, reused, killed>>

\* close(): stop whatever is still there, else only reap the leader.
Closed ==
  /\ place = "close"
  /\ \/ /\ Verdict(TRUE) /\ Poll
        /\ place' = (IF then = "raise" THEN "down" ELSE "done")
        /\ UNCHANGED inClose
     \/ /\ Verdict(FALSE) /\ UNCHANGED <<st, kin>>
        /\ place' = "probe" /\ inClose' = TRUE
  /\ UNCHANGED <<forks, reuses, failures, then, unwinding, guard, reused, killed>>

-----------------------------------------------------------------------------
(* The runner dies; a resume examines the recorded leader and group.       *)

RunnerCrash ==
  /\ RunnerUp /\ place # "done"
  /\ place' = "down" /\ scan' = NoScan /\ inClose' = FALSE
  /\ UNCHANGED <<kernel, then, unwinding, guard, reused, killed, raced>>

\* _assert_recovery_liveness up to the token comparison.
ReadToken ==
  /\ place = "down" /\ ~guard
  /\ reused' = (StartToken(Leader) \notin {"none", "own"})
  /\ place' = "liveness" /\ raced' = 0
  /\ UNCHANGED <<kernel, scan, then, inClose, unwinding, guard, killed>>

CheckLiveness ==
  /\ place = "liveness"
  /\ place' = (IF ~reused /\ Live(Leader) THEN "down" ELSE "groupScan")
  /\ UNCHANGED <<kernel, scan, then, inClose, unwinding, guard, reused, killed, raced>>

GroupScanned ==
  /\ place = "groupScan"
  /\ \/ Verdict(TRUE) /\ place' = "admitted"
     \/ Verdict(FALSE) /\ place' = "down"
  /\ UNCHANGED <<kernel, then, inClose, unwinding, guard, reused, killed>>

-----------------------------------------------------------------------------

InitScope ==
  /\ st = [p \in Pids |-> "free"] /\ kin = {} /\ forks = 0 /\ reuses = 0 /\ failures = 0
  /\ place = "ready" /\ scan = NoScan /\ then = "none"
  /\ inClose = FALSE /\ unwinding = FALSE
  /\ guard = TRUE /\ reused = FALSE
  /\ killed = FALSE /\ raced = 0

Scanning == BeginScan \/ ReadEntry
Deadline == SettleDeadline \/ KillGroup \/ KillDeadline
Decide == Settled \/ Probed \/ Terminated \/ ReadStatus \/ Rechecked \/ Closed
Resume == ReadToken \/ CheckLiveness \/ GroupScanned
Start == Launch \/ LaunchFails \/ PersistIdentity \/ IdentityFails
Kernel == \E p \in Pids : Fork(p) \/ Exit(p) \/ Reap(p) \/ Reuse(p)

NextScope == \/ Kernel \/ Start \/ LeaderReturns \/ WaitInterrupted
             \/ Scanning \/ ReadFails \/ Decide \/ Deadline \/ SignalRefused
             \/ RunnerCrash \/ Resume

ScopeSpec == InitScope /\ [][NextScope]_scopeVars

-----------------------------------------------------------------------------
(* Properties.                                                             *)

Places == {"ready", "launched", "waiting", "settle", "probe", "term", "kill", "status",
           "recheck", "close", "done", "down", "liveness", "groupScan", "admitted"}

\* The shape of the state: the scope's variables stay in their sets.
ScopeTypeOK ==
  /\ st \in [Pids -> {"free", "live", "doomed", "zombie"}]
  /\ kin \subseteq {p \in Pids : st[p] # "free"}
  /\ forks \in 0..MaxForks /\ reuses \in 0..MaxReuses /\ failures \in 0..MaxFailures
  /\ place \in Places
  /\ scan \in [on: BOOLEAN, todo: SUBSET Pids, found: BOOLEAN, forked: BOOLEAN]
  /\ then \in {"none", "hash", "failed", "raise"}
  /\ {inClose, unwinding, guard, reused, killed} \subseteq BOOLEAN
  /\ raced \in Nat

\* One enumeration of /proc is exact unless a member forked after the listing was taken: an
\* empty result then means that no member of the family is alive (_linux_process_group_members).
ScanExactWithoutFork ==
  scan.on /\ scan.todo = {} /\ ~scan.found /\ ~scan.forked => LiveKin = {}

\* What the documentation promises of an attempt whose outputs are hashed and of an admitted
\* resume: no member of the family is alive.  (_run_task and process_scope_liveness, as
\* docs/EXECUTION_CONTEXT_AND_PROCESS_SCOPE.md describes them.)
FamilyEmptyWhenTrusted ==
  (place = "done" /\ then = "hash") \/ place = "admitted" => LiveKin = {}

\* What the code keeps of that promise: a member is left only where members forked during every
\* enumeration of /proc on the way.  There are two before outputs are hashed, wait_empty's and
\* close's, three before a stopped attempt is recorded as failed, terminate's, wait_empty(0)'s
\* and close's, and one before a resume is admitted (_linux_process_group_members).
EmptyUnlessForking ==
  LiveKin # {} => /\ place = "done" => raced >= IF then = "hash" THEN 2 ELSE 3
                  /\ place = "admitted" => raced >= 1

\* SIGKILL is final: once it is sent nothing in the family can outlive it, so an attempt that
\* ends after a KILL ends with the family gone, whatever the enumerations in between raced.
KillIsFinal ==
  killed => /\ \A p \in LiveKin : st[p] = "doomed"
            /\ place = "done" => LiveKin = {}

\* When terminate() asks for the exit status the leader has exited, so _confirmed_return_code
\* never runs into its own timeout: a live leader is in every listing and is never raced.
StatusIsThere == place = "status" => ~(Leader \in kin /\ Live(Leader))

\* The attempt ends whatever its family does: once the leader has exited, or the wait was cut
\* short, the runner comes to an outcome or is gone (the deadlines of _wait_for_empty).  And
\* after a crash with the identity on disk a resume is admitted in the end, if the family is
\* gone for good and no stranger sits on the group's id; a leader or member that stays a zombie
\* is no obstacle (the states Z and X are not counted).
GroupAttemptEnds ==
  /\ place \in {"settle", "probe", "term", "kill", "status", "recheck", "close"}
       ~> place \in {"done", "down", "liveness", "groupScan", "admitted"}
  /\ <>[](/\ place \in {"down", "liveness", "groupScan"} /\ ~guard
          /\ \A p \in Pids : Live(p) => Group(p) # Leader)
       => <>(place = "admitted")
=============================================================================
