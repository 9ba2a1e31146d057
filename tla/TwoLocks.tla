------------------------------ MODULE TwoLocks ------------------------------
(***************************************************************************)
(* The writer locks of start_run and resume_run together                   *)
(* (src/src/benchhandoff/engine.py): the lock of the run directory first,  *)
(* then, for a version 3 suite, the lock of its workspace root, which is   *)
(* known only from suite.toml.  Runs that share a workspace, suites that   *)
(* are edited between two reads, and directories that are a run for one    *)
(* suite and a workspace for another all meet here.                        *)
(*                                                                         *)
(* A lock is what LockService promises: taken without waiting, or refused. *)
(* The bytes of a suite.toml matter only for the workspace they name.      *)
(***************************************************************************)
EXTENDS Integers, FiniteSets

CONSTANTS
    Runners,     \* processes that start and resume runs
    Suites,      \* suite.toml files
    Workspaces,  \* workspace roots: directories that exist
    NewDirs,     \* directories that do not exist before they become runs
    Nothing,     \* no process, no suite, no plan; a suite without a workspace
    MaxCalls,    \* bound: calls of all runners
    MaxEdits     \* bound: edits of suite.toml files

VARIABLES
    lock,    \* lock[d]: the owner named by the lock record beside directory d
    suite,   \* suite[s]: the workspace root that suite.toml s names
    bound,   \* bound[d]: the suite and the workspace root plan.json of run d binds
    task,    \* runs whose task process is running
    stage,      \* what a runner is doing
    call,    \* the operation, its run directory and its suite
    root,    \* the workspace root the runner has read from suite.toml
    stuck,   \* directories whose lock a living runner failed to remove
    calls,   \* number of calls so far
    edits

locksVars == <<lock, suite, bound, task, stage, call, root, stuck, calls, edits>>

Dirs == NewDirs \cup Workspaces

Roots == Workspaces \cup {Nothing}

Plans == [suite : Suites, root : Roots]

Calls == [op : {"start"}, dir : Dirs, suite : Suites] \cup [op : {"resume"}, dir : Dirs, suite : {Nothing}]

ASSUME LocksAssumption ==
    /\ MaxCalls \in Nat /\ MaxEdits \in Nat
    /\ Nothing \notin Runners /\ Nothing \notin Dirs /\ Nothing \notin Plans /\ Nothing \notin Calls
    /\ NewDirs \cap Workspaces = {}

Enter(p, label) == stage' = [stage EXCEPT ![p] = label]

\* The call is over, one way or the other.
Return(p, label) ==
    /\ Enter(p, label)
    /\ call' = [call EXCEPT ![p] = Nothing]
    /\ root' = [root EXCEPT ![p] = Nothing]

LocksInit ==
    /\ lock = [d \in Dirs |-> Nothing]
    /\ suite \in [Suites -> Roots]
    /\ bound = [d \in Dirs |-> Nothing]
    /\ task = {}
    /\ stage = [p \in Runners |-> "idle"]
    /\ call = [p \in Runners |-> Nothing]
    /\ root = [p \in Runners |-> Nothing]
    /\ stuck = {}
    /\ calls = 0
    /\ edits = 0

\* Somebody edits a suite.toml.
EditSuite(s, w) ==
    /\ edits < MaxEdits /\ suite[s] # w
    /\ suite' = [suite EXCEPT ![s] = w]
    /\ edits' = edits + 1
    /\ UNCHANGED <<lock, bound, task, stage, call, root, stuck, calls>>

(***************************************************************************)
(* Taking the two locks.                                                   *)
(***************************************************************************)
Begin(p, c) ==
    /\ stage[p] = "idle" /\ calls < MaxCalls
    /\ calls' = calls + 1
    /\ call' = [call EXCEPT ![p] = c]
    /\ Enter(p, "acquire-run")
    /\ UNCHANGED <<lock, suite, bound, task, root, stuck, edits>>

LockRun(p) ==
    /\ stage[p] = "acquire-run" /\ lock[call[p].dir] = Nothing
    /\ lock' = [lock EXCEPT ![call[p].dir] = p]
    /\ Enter(p, "read-suite")
    /\ UNCHANGED <<suite, bound, task, call, root, stuck, calls, edits>>

\* WriterLock.acquire raises: the record exists, or a call on it fails.  A record
\* it has created is removed, unless that fails too.
LockFails(p, d) ==
    \/ UNCHANGED <<lock, stuck>>
    \/ lock[d] = Nothing /\ lock' = [lock EXCEPT ![d] = p] /\ stuck' = stuck \cup {d}

LockRunFails(p) ==
    /\ stage[p] = "acquire-run" /\ LockFails(p, call[p].dir)
    /\ Return(p, "idle")
    /\ UNCHANGED <<suite, bound, task, calls, edits>>

\* load_suite; a call may have been given the digest of the suite it expects.
LoadSuite(p) ==
    /\ stage[p] = "read-suite" /\ call[p].op = "start"
    /\ root' = [root EXCEPT ![p] = suite[call[p].suite]]
    /\ Enter(p, "acquire-workspace")
    /\ UNCHANGED <<lock, suite, bound, task, call, stuck, calls, edits>>

\* The suite.toml that plan.json of run d binds is still the one it binds.
BoundSuite(d) == bound[d] # Nothing /\ suite[bound[d].suite] = bound[d].root

\* Mutant: the workspace to lock is read from suite.toml without comparing it with the plan.
ReadAnySuite(p) ==
    /\ stage[p] = "read-suite" /\ call[p].op = "resume" /\ bound[call[p].dir] # Nothing
    /\ root' = [root EXCEPT ![p] = suite[bound[call[p].dir].suite]]
    /\ Enter(p, "acquire-workspace")
    /\ UNCHANGED <<lock, suite, bound, task, call, stuck, calls, edits>>

ReadBoundSuite(p) ==
    /\ stage[p] = "read-suite" /\ call[p].op = "resume" /\ BoundSuite(call[p].dir)
    /\ root' = [root EXCEPT ![p] = bound[call[p].dir].root]
    /\ Enter(p, "acquire-workspace")
    /\ UNCHANGED <<lock, suite, bound, task, call, stuck, calls, edits>>

LockWorkspace(p) ==
    /\ stage[p] = "acquire-workspace" /\ root[p] # Nothing /\ lock[root[p]] = Nothing
    /\ lock' = [lock EXCEPT ![root[p]] = p]
    /\ Enter(p, "check")
    /\ UNCHANGED <<suite, bound, task, call, root, stuck, calls, edits>>

\* A suite of version 1 or 2 has no workspace to lock.
NoWorkspace(p) ==
    /\ stage[p] = "acquire-workspace" /\ root[p] = Nothing
    /\ Enter(p, "check")
    /\ UNCHANGED <<lock, suite, bound, task, call, root, stuck, calls, edits>>

\* Mutant: the second lock is waited for.
LockWorkspaceWaits(p) ==
    /\ stage[p] = "acquire-workspace" /\ root[p] # Nothing /\ lock[root[p]] = Nothing /\ LockFails(p, root[p])
    /\ Enter(p, "release-run")
    /\ UNCHANGED <<suite, bound, task, call, root, calls, edits>>

LockWorkspaceFails(p) ==
    /\ stage[p] = "acquire-workspace" /\ root[p] # Nothing /\ LockFails(p, root[p])
    /\ Enter(p, "release-run")
    /\ UNCHANGED <<suite, bound, task, call, root, calls, edits>>

(***************************************************************************)
(* The operation under both locks.                                         *)
(***************************************************************************)
\* _start_run_checked: suite.toml is what was loaded before the lock, and the run is new.
StartChecked(p) ==
    LET c == call[p]
    IN  /\ stage[p] = "check" /\ c.op = "start"
        /\ suite[c.suite] = root[p]
        /\ c.dir \in NewDirs /\ bound[c.dir] = Nothing
        /\ bound' = [bound EXCEPT ![c.dir] = [suite |-> c.suite, root |-> root[p]]]
        /\ Enter(p, "execute")
        /\ UNCHANGED <<lock, suite, task, call, root, stuck, calls, edits>>

\* _resume_run_checked: the context is loaded again, and no process of the run is alive.
ResumeChecked(p) ==
    /\ stage[p] = "check" /\ call[p].op = "resume"
    /\ BoundSuite(call[p].dir) /\ call[p].dir \notin task
    /\ Enter(p, "execute")
    /\ UNCHANGED <<lock, suite, bound, task, call, root, stuck, calls, edits>>

LaunchTask(p) ==
    /\ stage[p] = "execute" /\ call[p].dir \notin task
    /\ task' = task \cup {call[p].dir}
    /\ UNCHANGED <<lock, suite, bound, stage, call, root, stuck, calls, edits>>

\* The task process has ended by itself, or its scope was emptied.
TaskEnds(d) ==
    /\ d \in task
    /\ task' = task \ {d}
    /\ UNCHANGED <<lock, suite, bound, stage, call, root, stuck, calls, edits>>

\* The operation returns, or anything in it raises, a scope that could not be
\* confirmed empty included: the locks are released all the same.
Leave(p) ==
    /\ stage[p] \in {"read-suite", "check", "execute"}
    /\ Enter(p, IF stage[p] = "read-suite" \/ root[p] = Nothing THEN "release-run" ELSE "release-workspace")
    /\ UNCHANGED <<lock, suite, bound, task, call, root, stuck, calls, edits>>

(***************************************************************************)
(* The two finally blocks, and a runner that dies.                         *)
(***************************************************************************)
ReleaseWorkspace(p) ==
    /\ stage[p] = "release-workspace"
    /\ lock' = [lock EXCEPT ![root[p]] = Nothing]
    /\ Enter(p, "release-run")
    /\ UNCHANGED <<suite, bound, task, call, root, stuck, calls, edits>>

\* Mutant: without the inner finally a failed release skips the other lock.
ReleaseWorkspaceEscapes(p) ==
    /\ stage[p] = "release-workspace"
    /\ stuck' = stuck \cup {root[p]}
    /\ Return(p, "idle")
    /\ UNCHANGED <<lock, suite, bound, task, calls, edits>>

\* WriterLock.release raises: the record stays, the other lock is released all the same.
ReleaseWorkspaceFails(p) ==
    /\ stage[p] = "release-workspace"
    /\ stuck' = stuck \cup {root[p]}
    /\ Enter(p, "release-run")
    /\ UNCHANGED <<lock, suite, bound, task, call, root, calls, edits>>

ReleaseRun(p) ==
    /\ stage[p] = "release-run"
    /\ lock' = [lock EXCEPT ![call[p].dir] = Nothing]
    /\ Return(p, "idle")
    /\ UNCHANGED <<suite, bound, task, stuck, calls, edits>>

ReleaseRunFails(p) ==
    /\ stage[p] = "release-run"
    /\ stuck' = stuck \cup {call[p].dir}
    /\ Return(p, "idle")
    /\ UNCHANGED <<lock, suite, bound, task, calls, edits>>

\* The task process, and both lock records, outlive the runner.
Die(p) ==
    /\ stage[p] # "dead"
    /\ Return(p, "dead")
    /\ UNCHANGED <<lock, suite, bound, task, stuck, calls, edits>>

\* recover_writer_lock of one of the two locks, by an operator.
Recover(d) ==
    /\ lock[d] \in Runners /\ stage[lock[d]] = "dead"
    /\ lock' = [lock EXCEPT ![d] = Nothing]
    /\ stuck' = stuck \ {d}
    /\ UNCHANGED <<suite, bound, task, stage, call, root, calls, edits>>

\* What a runner does next, other than beginning or dying.
Step(p) ==
    \/ LockRun(p) \/ LockRunFails(p) \/ LoadSuite(p) \/ ReadBoundSuite(p)
    \/ LockWorkspace(p) \/ NoWorkspace(p) \/ LockWorkspaceFails(p)
    \/ StartChecked(p) \/ ResumeChecked(p) \/ LaunchTask(p) \/ Leave(p)
    \/ ReleaseWorkspace(p) \/ ReleaseWorkspaceFails(p) \/ ReleaseRun(p) \/ ReleaseRunFails(p)

LocksNext ==
    \/ \E p \in Runners : Step(p) \/ Die(p) \/ \E c \in Calls : Begin(p, c)
    \/ \E d \in Dirs : TaskEnds(d) \/ Recover(d)
    \/ \E s \in Suites, w \in Roots : EditSuite(s, w)

LocksSpec == LocksInit /\ [][LocksNext]_locksVars

(***************************************************************************)
(* Properties.                                                             *)
(***************************************************************************)
Stages == {"idle", "acquire-run", "read-suite", "acquire-workspace", "check", "execute",
        "release-workspace", "release-run", "dead"}

\* The type invariant.
LocksTypeOK ==
    /\ lock \in [Dirs -> Runners \cup {Nothing}]
    /\ suite \in [Suites -> Roots]
    /\ bound \in [Dirs -> Plans \cup {Nothing}]
    /\ task \subseteq Dirs
    /\ stage \in [Runners -> Stages]
    /\ call \in [Runners -> Calls \cup {Nothing}]
    /\ root \in [Runners -> Roots]
    /\ stuck \subseteq Dirs
    /\ calls \in 0..MaxCalls
    /\ edits \in 0..MaxEdits

(***************************************************************************)
(* Who executes tasks holds the lock of its run directory and the lock of  *)
(* the workspace its plan binds.  The workspace is learnt from a           *)
(* suite.toml that may be edited at any time, before its lock is taken: a  *)
(* start binds its plan to the workspace it has locked, whatever the file  *)
(* says by then, and a resume locks what the file says only if that is     *)
(* what the plan binds, under the lock of the run.                         *)
(***************************************************************************)
ExecutesUnderBothLocks ==
    \A p \in Runners : stage[p] = "execute" =>
        LET d == call[p].dir
        IN  /\ bound[d] # Nothing /\ lock[d] = p
            /\ bound[d].root # Nothing => lock[bound[d].root] = p

(***************************************************************************)
(* Two runs have a task process in the same workspace at the same time     *)
(* only when all but one of them have lost their runner: it died, or it    *)
(* returned without having confirmed that the process had ended.           *)
(***************************************************************************)
Attended(d) == \E p \in Runners : stage[p] = "execute" /\ call[p].dir = d

OneAttendedTask ==
    \A d, e \in task : d # e /\ bound[d] # Nothing /\ bound[e] # Nothing /\ bound[d].root = bound[e].root
                       /\ bound[d].root # Nothing => ~Attended(d) \/ ~Attended(e)

(***************************************************************************)
(* A living runner that is in no operation keeps no lock, except one whose *)
(* own release, or whose own failed acquisition, could not remove its      *)
(* record: a failure on one lock never leaves the other one behind.        *)
(***************************************************************************)
NoLockForgotten ==
    \A d \in Dirs : lock[d] # Nothing /\ stage[lock[d]] \in {"idle", "acquire-run"} => d \in stuck

(***************************************************************************)
(* Each of the locks is used as LockService allows: a runner relies on it  *)
(* only from having created the record to removing it, alone, and nobody   *)
(* else removes the record meanwhile.                                      *)
(***************************************************************************)
Relies(p, d) ==
    \/ stage[p] \in {"read-suite", "acquire-workspace", "check", "execute", "release-workspace", "release-run"}
       /\ d = call[p].dir
    \/ stage[p] \in {"check", "execute", "release-workspace"} /\ d = root[p]

PerDirectory == INSTANCE LockService
               WITH Locks <- Dirs, Processes <- Runners,
                    recorded <- {d \in Dirs : lock[d] # Nothing},
                    users <- [d \in Dirs |-> {p \in Runners : Relies(p, d)}]

UsedAsService == PerDirectory!Spec

(***************************************************************************)
(* Fairness.  A runner in an operation goes on: no lock is waited for.     *)
(* That the operation itself is left in the end is an assumption about the *)
(* tasks: process.wait() has no timeout, so a call whose task never ends   *)
(* does not return.  What follows the end of a task is bounded             *)
(* (ProcessScope).                                                         *)
(***************************************************************************)
LocksLiveSpec == LocksSpec /\ \A p \in Runners : WF_locksVars(Step(p)) /\ SF_locksVars(Leave(p))

(***************************************************************************)
(* Every call of start_run and resume_run ends, even when two runners ask  *)
(* for the same two locks in the opposite order.                           *)
(***************************************************************************)
CallEnds == \A p \in Runners : stage[p] # "idle" ~> stage[p] \in {"idle", "dead"}

=============================================================================
