# TLA+ models of BenchHandoff

BenchHandoff runs an ordered suite of commands over a closed workspace, keeps
tamper-evident evidence of what it did, and lets an operator resume a run that
failed or was killed. A Kubernetes controller can drive such a run through an
explicit approval. This directory holds TLA+ models of the parts where order,
crashes and concurrency decide about correctness, the TLC runs that check them
on small instances, and TLAPS proofs of their safety properties.

Run a model with `tlc -config RunCrashes.cfg RunEngineMC`, check a proof with
`tlapm RunProofs.tla`. `PROJECT.json` lists runs, main theorems, hazards, the mutants
that show each property can fail, and the source lines of every definition.

## 1. The system

| Part | State it keeps | Operations | What is hard |
|---|---|---|---|
| Run engine (`engine.py`) | `plan.json`, `state.json`, `events.jsonl`, attempt logs, `quarantine/`, `bundle.json` | `start_run`, `resume_run`, `inspect_resume`, `verify_run`; inside: commit a transition, reconcile, recover, launch, wait, accept, seal | a crash between any two writes; recovery of a recovery; a child that outlives its runner |
| Validators (`engine.py`) | none | the checks of `_load_context` | must accept everything the engine can leave, and nothing else |
| Workspace (`workspace.py`) | the closed tree and its reviewed manifest | scan, verify, project | edits and stray writes while the run goes on |
| Process scope (`processes.py`) | a process group or a Windows Job | start, wait, terminate, liveness | descendants that outlive the leader |
| File operations (`storage.py`) | none | atomic replace, no-replace move | calls that fail half-way, temporary files left by a crash, losses of power |
| Writer lock (`writer_lock.py`) | the lock file, its `flock`, tombstones | acquire, release, inspect, recover | recovery races, inode and process-id reuse, crash between link and unlink |
| Suite (`model.py`) | none | load and check `suite.toml` | – |
| Runner bridge (`controller_step.py`) | the run directory on a volume | start, resume, verify | the evidence changes between approval and use; the message is lost |
| Reconciler (`agentrun_controller.go`, `job_builder.go`, `result_protocol.go`) | the status of an `AgentRun`, its Jobs and Pods | `Reconcile` | several managers, stale copies, lost answers, foreign Jobs and Pods |
| API type (`agentrun_types.go`, CRD) | spec and status | transition rules | an approval that was there from the beginning |
| Manager (`main.go`), command line (`cli.py`) | none | wiring | – |
| Tools, benchmarks, examples | none of a run's | scripts | – |

How they interact. `start_run` and `resume_run` hold the run's writer lock, and
the workspace's, around everything the engine writes. The engine launches one
child at a time in a process scope, observes the workspace before and after it,
and records both in `state.json`. The bridge calls the engine inside a Pod of a
Job the reconciler has created, and the reconciler learns of the result by the
Pod's termination message alone.

What makes each correct:

- *engine*: the log and the state tell the same story after any crash; no output
  of an attempt is lost; nothing starts while an old child may live; what the
  engine leaves it can load again; a resume uses the evidence that was reviewed;
  a sealed run verifies for ever;
- *lock*: one writer; a recovery never removes the lock of a living process; an
  orphan can be removed, and the record of it stays;
- *two locks*: tasks run under the lock of the run and the lock of the workspace
  the plan binds; nobody waits for anybody; no lock is forgotten;
- *process scope*: an attempt is accepted, or a resume admitted, only when nobody
  of its family is left, and every attempt ends;
- *scan*: what is reported is the tree of one moment;
- *files*: the two files of a transition are readable and complete after any
  failure, and an announced transition is settled;
- *bridge*: exit code 0 means an acceptable message about what was verified;
- *controller*: the documented phases in the documented order, resume only with
  the approved decision, success only after verification, no block without cause.

## 2. Modules

| Module | Contents |
|---|---|
| `RunState` | the values of `state.json`, the log, the tree, and the validators as operators |
| `RunEngine` | one run: variables, one action per durable step, crashes, the child, edits |
| `RunLifecycle` | what a run promises its operator; `RunEngine` implements it |
| `RunSafety` | what never goes wrong in a run |
| `RunProperties` | the lifecycle a run follows, what must happen in the end, and fairness |
| `RunInvariants` | the inductive invariants behind `RunSafety`, in layers |
| `RunProofs` | proofs about `RunEngine`: the first two layers |
| `RunStoryProofs` | the log and the lifecycle |
| `RunArtifactProofs`, `RunRecoveryProofs`, `RunHistoryProofs` | files and workspace; crashes and outputs; the recorded history |
| `RunEngineMC` | small suites |
| `WriterLock`, `WriterLockMC` | the lock, its properties and fairness; its instances |
| `LockService` | what a lock promises; `WriterLock` implements it, `TwoLocks` uses it |
| `TwoLocks`, `TwoLocksMC` | run lock and workspace lock of `start_run` and `resume_run` together |
| `ProcessScope`, `ProcessScopeMC` | the process group of one attempt on Linux, the runner and a later resume |
| `HostProofs` | proofs about `WriterLock`, `TwoLocks` and `ProcessScope` |
| `JobScope` | the process scope on Windows, with a Job object |
| `AttemptScope`, `AttemptScopeMC` | one attempt on either platform: `ProcessScope` or `JobScope`, by `os.name`; fairness |
| `WorkspaceScan`, `WorkspaceScanMC` | the double walk of `observe_workspace` while others edit the tree |
| `PlatformProofs` | proofs about `JobScope` and `WorkspaceScan` |
| `EventFiles`, `EventFilesMC` | one commit of a transition, by system calls |
| `StepResult`, `StepResultMC` | the bridge and the termination message, from `main` to `acceptStepResult` |
| `AgentRun` | reconciler, bridge and cluster |
| `AgentRunLifecycle` | what the resource promises: the phases of `docs/AGENTRUN_CONTROLLER.md` |
| `AgentRunProperties`, `AgentRunMC` | refinement, invariants, fairness, instances |
| `RecordProofs` | proofs about `AgentRun`, `StepResult` and `EventFiles` |

A proof module covers components that share no state, and `AttemptScope` two that
are alternatives; where names would clash, one of them has names of its own
(`LocksSpec`, `ScopeSpec`, `JobSpec`, `ScanSpec`, `FilesSpec`, `StepSpec` beside
`Spec`).

### RunState and RunEngine

`disk` is `state.json`, `log` is `events.jsonl`, `mem` is the runner's
`context.state`, `pc` says what the one runner does next. Each `atomic_write` is
its own action: `_commit_transition` is `BeginCommit`, `PersistIntent`,
`AppendEvent`, `Acknowledge`, and a `Crash` may come before each. `CrashInWrite`
also leaves the temporary file, after which the run directory is refused for
ever, as `LIMITATIONS.md` announces. An exception leaves the files a crash
leaves; when a child is managed the `finally` block stops it first
(`RaiseWithCleanup`). A stop that cannot be confirmed raises with the child
alive, which is `Crash`.

The child is `family[t][n]`: not yet born, with its leader, with only
descendants in its group, or gone. It writes while it lives, also after its
runner has crashed. `Undisciplined` gives it paths outside its outputs.

Data is abstracted to what the checks compare. A content is named by the attempt
that wrote it, an identity is the content, a summary is the tree, the identity
of the log is the log. The manifest's entries are represented by the paths no
task declares: `Absent` there means "as reviewed".

Refused starts, inspections and resumes change nothing and are no steps; a
refusal in the middle of a run is `Refuse`, or `RefuseAttempt` once the log pair
of the attempt exists. `Inspect` takes no lock, so it may come at any moment of a
runner; a resume carries the decision it was called with (`bound`).

`_build_bundle` is three steps, between which the workspace may be edited: the
tree is observed and checked (`ObserveFinal`), the files of the run are hashed
(`HashArtifacts`), the bundle is written (`WriteBundle`). `draft` is the bundle so
far. `VerifySealed` is the `verify_run` after it.

### WriterLock

Every system call another process can see is an action. A process is one
incarnation; its id may be used again (`PidReused`). A record is its owner and
the number of the acquisition, which stands for the nonce. The tombstone's path
is a function of the record, as in `_recovery_tombstone_path`. An inode is free
for use when neither a link nor a descriptor holds it, so the same inode can
come back at the same path. The operator hands `recover_writer_lock` any
decision that `inspect_writer_lock` has ever printed.

### AgentRun

Every request of `Reconcile` to the API server is a step on a private copy.
`fresh` tells whether the copy still has the current resource version, which the
update of the status requires. The Lease does not fence writes, so managers
interleave freely. A foreign Job or Pod has the run's labels and another owner.
One bridge invocation is one step on the volume: what happens inside it is the
subject of `RunEngine` and `StepResult`. Names of reasons that are distinguished only in
the text of a condition are merged. A manager with an old copy can create the
Job of an action although another manager has just blocked the run: the code
does not prevent this, and the models state nothing against it; the status
stays `Blocked`.

### LockService and TwoLocks

`LockService` has a user and a state for every lock and the few changes that are
allowed. `ImplementsService` says that `WriterLock` is one such lock, with the
user taken from the lock file; `UsedAsService` says that `TwoLocks` uses one per
directory in no other way. `TwoLocks` follows `start_run` and `resume_run` from
the first acquisition to the last release. The workspace to lock is read from
`suite.toml` before its lock is taken and the suite may be edited in between, so
the check after the acquisition is a step of its own. A run directory may be the
workspace of another suite: this is how two callers could need two locks in
opposite orders.

### ProcessScope, JobScope and AttemptScope

`st[p]` and `kin` are the kernel's: which ids are in use, live, doomed by a
signal or zombies, and which belong to the family. An enumeration is a listing
of `/proc` (`BeginScan`) and one step per entry (`ReadEntry`), between which
processes fork, exit and are reaped. `raced` counts the enumerations of one
invocation that found nobody and during which a member forked. The runner's places
are those of `ProcessScope.wait`, `wait_empty`, `terminate` and `close` under
`_run_task`; a resume reads the start token, the leader's state and the group. When
the write of the identity fails, the launch guard may be gone already. A process that
leaves the group with `setsid` is outside the documented scope.

In `JobScope` the leader is created suspended, assigned and resumed, and every
call of this and of its cleanup may fail or be interrupted. Closing the last
handle, also by the death of the runner, terminates the members. `AttemptScope`
chooses one of the two, as `os.name` does, and leaves the other at rest.

### WorkspaceScan

A walk opens directories, lists their names, and reads files in blocks through
descriptors that stay with their object when the path gets another one. Every
object has a key (device and inode), which the checks compare before and after.
`recurred` is history: an edit has brought something back to what it had been
before (a key, a name or a block). No observer who reads twice can tell that, and
`SnapshotWhenAgreed` excepts it.

### EventFiles

`RunEngine` takes an atomic write to be one step; this module justifies that. A
directory is the file each name refers to and the temporary files; `lost` is the
set of directories that a loss of power may leave, which every change extends
and a flush reduces. That a POSIX file system brings the changes of one directory
to the disk in their order is an assumption on the environment; the documentation
promises nothing for losses of power beyond this (`README.md:238`,
`docs/ARCHITECTURE.md:163`). On Windows `_fsync_directory` does nothing, so only
the statements about crashes carry over. A failed flush after a rename leaves the
new file visible while the engine withdraws the transition from its memory; the
program then ends, and a resume settles what the file announces.

### StepResult

`main` of `controller_step.py` call by call, with every refusal and exit code,
over the start, resume and verify Jobs of one resource. Contents are numbers, and
a change makes a new one: that somebody restores an earlier bundle between two
reads is excluded, as the two reads of `_verify_stable_bundle` cannot tell. The
engine's functions succeed in one step or raise. A termination log holds nothing,
a part or all of the message. `Carried`, `Parses` and `Belongs` are the Go side,
`AcceptStepResult` is `acceptStepResult`; managers and conflicts are the subject of
`AgentRun`.

## 3. Runs

States are distinct states found by TLC.

| Run | Instance | Checks | Result |
|---|---|---|---|
| `RunCrashes` | 2 tasks, the second with 2 outputs, one of which the first task's child may also write; 2 attempts each, room for 13 events, 2 crashes or exceptions | 9 invariants and 2 action properties of a run | holds, 334,106 |
| `RunReviewed` | 1 task with 1 output, a path no task declares, bound resumes, 1 crash, 1 edit of the tree, fairness | `ApprovedEvidenceResumed`, `SealedTreeExact`, `InvocationEnds`, `RunSettles` | holds, 369,477 |
| `RunHistory` | 1 task with 1 output, 2 crashes or exceptions | `HistoryDerivable` | **violated**, section 6 |
| `Lock` | 3 processes, 2 inodes, fairness | `OwnFileStays`, `ImplementsService`, `OrphanRecovered` | holds, 87,222 |
| `TwoLocks` | 2 runners, 1 suite, 2 workspaces, 1 run directory more, 2 calls, 2 edits of the suite, fairness | `ExecutesUnderBothLocks`, `NoLockForgotten`, `CallEnds` | holds, 77,038 |
| `Attempt` | on Linux 3 process ids, 3 forks, 1 reuse, 2 failures; on Windows 4 processes, 3 failures; fairness | `EmptyUnlessForking`, `GroupAttemptEnds`, `EndsQuiet`, `AdmittedAlone`, `JobAttemptEnds` | holds, 236,708 |
| `Forking` | 3 process ids, 3 forks | `FamilyEmptyWhenTrusted` | **violated**, section 6 |
| `Scan` | 4 paths in two levels, 2 of them aliases, files of 2 blocks, 2 entries allowed, 2 edits, 1 failure | `SnapshotWhenAgreed`, `PolicyExact`, `NoTornFile` | holds, 1,486,512 |
| `Files` | 2 transitions, 2 failing calls, 2 crashes or losses of power, fairness | `ReadableAfterLoss`, `LeftoversExplained`, `AnnouncedIsSettled` | holds, 199,907 |
| `StepResult` | 6 changes, 3 of which the run needs itself | `ProtocolAgreed`, `ReportedIsVerified`, `StatusAsSeen` | holds, 262,032 |
| `AgentRunSafety` | 2 managers, 2 digests, 1 fault | refinement of the lifecycle, 3 invariants | holds, 1,036,490 |
| `AgentRunLive` | 2 managers, 1 digest, 1 fault, fairness | `RunSettles` | holds, 657,229 |

A run asks all the questions its instance can answer, safety and liveness
together; the two for the controller are separate because liveness needs a
smaller instance and no symmetry. The type invariants and the inductive invariants
are proved (section 4) and in no run.

Deadlock is not an error in any of them: a sealed run, a group of dead processes
and a blocked resource have nothing left to do.

What the properties say:

- `LogNeverDiverges`, `LogTellsState`: wherever crashes fall, the log is the
  acknowledged one or has exactly the pending event more, and replaying it from
  nothing gives the statuses and attempt counts `state.json` records.
- `PersistedShapeValid`, `ArtifactsAccountedFor`, `DerivableAfterOneCrash`: the
  engine leaves nothing that its own validators refuse. `ResumeStaysPossible` puts
  them together: outside the announced dead ends, a run can be resumed as soon as
  its orphaned child is gone. The last two, and `SealedRunVerifies`, speak of
  histories with at most one crash, because of what section 6 describes.
- `LiveFamilyBlocksResume`: a living child belongs to the latest attempt of a
  durably running task, where the check of the next resume finds it.
- `NoOutputLost`, `RecordOnlyGrows`: outputs leave the workspace only to their
  own place in quarantine; completed tasks and recovered attempts never change.
- `BudgetCheckSuffices`: a resume that passes the budget check does not meet the
  attempt limits after it has already changed the evidence.
- `ApprovedEvidenceResumed`: a bound resume starts from exactly the evidence that
  was inspected, whatever inspections and resumes of others came in between.
  `SealedTreeExact`: what is sealed is what the records account for, although the
  tree may be edited while the bundle is put together; `SealedRunVerifies`: without
  edits it stays so.
- `OwnFileStays`, `OrphanRecovered`: the file a process created stays at the lock
  path until that process removes it, although recoveries race and inodes are used
  again; and a complete orphan does not stay there for ever while anybody is alive. `ImplementsService`: seen
  from outside the lock is used by one at a time, ended by nobody else.
- `ExecutesUnderBothLocks`, `NoLockForgotten`, `CallEnds`: two locks.
- `FamilyEmptyWhenTrusted` is what the documentation promises of the process group
  and does not hold. `EmptyUnlessForking` is what does: outputs are hashed beside a
  living member only if members forked during both enumerations before it, a
  stopped attempt is reported only past three such enumerations, and a resume is
  admitted only past one. `GroupAttemptEnds`: whatever the family does once the
  leader has exited, the runner comes to an outcome, and a resume is admitted once
  the family is gone. `JobAttemptEnds`: the same on Windows, where nothing has to
  be gone first.
- `EndsQuiet`, `AdmittedAlone`: on Windows an attempt that has ended leaves nobody,
  and a resume is admitted beside nobody. The exception `EndsQuiet` names, an
  interrupt inside `Popen` after `CreateProcess`, leaves a leader that never runs.
- `SnapshotWhenAgreed`, `NoTornFile`: what a scan accepts is one moment's tree.
  `PolicyExact`: a tree nobody edits is refused only for the kind of an entry, an
  alias, the number of entries or a failed call, and neither aliases nor too many
  entries are reported; the limits on bytes, depth and names are only failures of a
  call here.
- `ReadableAfterLoss`: whatever a loss of power leaves, the two files are whole and
  a resume can finish the transition. `LeftoversExplained`: only a crash, or a
  removal that failed, leaves a temporary file. `AnnouncedIsSettled`: an intent
  does not stay open.
- `ProtocolAgreed`: the two programs agree on the protocol. `ReportedIsVerified`,
  `StatusAsSeen`: what is reported, and what the status names together, is what
  `verify_run` and `inspect_resume` saw, although the volume changes meanwhile.
- `FollowsLifecycle` (refinement of `AgentRunLifecycle`), `ResumedAsApproved`,
  `SucceededIsVerified`, `BlocksExplained`, `RunSettles`: the controller.

### Bounds

- *Tasks, outputs.* Two tasks make a completed prefix and an untouched suffix;
  two outputs make a recovery that can stop between its moves. What the reviewed
  resumes and the history are asked takes one task with one output. The code treats
  all tasks and outputs alike, and a path that a later task declares is to the
  first one what a path of the baseline is: it has to stay as it was.
- *Attempts.* Two attempts let a task fail, be recovered, be tried again and run
  out of budget.
- *Crashes.* `MaxCrashes` bounds crashes and exceptions. One reaches each point
  of each protocol; two reach the recovery of a recovery.
- *Events.* A run with two crashes can need more than 16 events. Room for 13 lets
  tasks be tried twice with two crashes and the run be sealed, and makes the
  longest histories meet the limit in the middle of a task.
- *Revisions.* One content per attempt: the checks compare contents only for
  equality, and the contents of two attempts differ.
- *Edits.* `MaxEdits` is one edit, of an output before, between or after its
  attempts, which is enough to come between any check and the use of what it found,
  the steps of sealing included.
- *Inodes, acquisitions.* With two inodes one is the orphan, or its tombstone, and
  the other is the next writer's; an inode whose last link and descriptor are gone
  comes back. Each of the three processes acquires once and recovers any number of
  times. The proofs need no such bound.
- *Faults.* `MaxFaults` is one lost answer, abort, kill, deadline, deletion,
  foreign Job, second Pod or edit. Conflicts and interleavings of managers are
  not faults and are unbounded. `MaxJobs` is one Job more than the three actions.
- *Two locks.* Two runners make every race for a lock; two edits exchange the
  suite before and after the acquisition; two workspaces can be each other's run
  directory.
- *Process ids.* With three, a leader, a parent that hides its child and the child,
  whose id may be one that was reaped; one stranger. Three forks are what it takes
  to report a stopped attempt with a member alive, or, the first of them before the
  leader exits, to hash outputs beside one: both happen.
- *Scan.* Two edits are a change during the first walk and one during the second;
  a directory with a child and a file beside it make a replaced parent. Three
  entries exceed the limit with and without an alias.
- *Files.* `MaxFiles` never stops a write: every reachable state has a number to
  spare. Two transitions follow each other, so a failure or a crash in the first is
  settled by the resume that makes the second.
- *StepResult.* A start, a decision and a resume take three changes; three more
  come between any of their reads.

Symmetry is used only in `AgentRunSafety`, a run without fairness, for the
managers, which no definition tells apart.

### Fairness

- `RunReviewed`: the runner takes its next step (a sequential program that waits only
  for its child), children exit, and the operator starts and resumes whenever
  the engine admits it. Bound resumes, failures, interrupts and crashes are
  never forced.
- `Lock`: a process goes on with what it has begun, since nothing in a
  recovery, cleanup or release waits; strong fairness of `Archive` and `Unlink`
  says that the file system does not refuse a link or an unlink for ever;
  operators inspect and recover orphans they find.
- `TwoLocks`: a runner takes its next step, since no acquisition waits; strong
  fairness of leaving is an assumption about tasks, that each ends: `process.wait()`
  has no timeout, and a call whose task never ends does not return.
- `Attempt`: the runner goes on, deadlines pass (strongly fair, since a
  deadline may be disabled by a successful look and enabled again), a process
  that was terminated exits, and somebody resumes. No process has to exit by
  itself.
- `Files`: a program goes on to its end, and whoever needs the run resumes it.
  Failures and crashes are never forced.
- `AgentRunLive`: managers are called again (watches, and the requeue after
  `reconcilePollInterval`) and finish their reconciles; Pods and Jobs end, which
  `activeDeadlineSeconds` enforces. Nobody has to approve.

## 4. Proofs

Every safety property of every passing run is proved, four of the engine's under
hypotheses named below, for all values of the constants within the assumptions:
`SuiteAssumption` (at least one task, each with an output, outputs disjoint:
`load_suite` checks this), `LimitAssumption` (the limits are positive, and the
total limit is no smaller than the product, as 256 = 64 * 4), `NilAssumption` and
`AbsentAssumption` (null, and "no file", are none of the values they stand in
for), `TreeAssumption` and `TreesAssumption` (finitely many paths, parents and
ancestors are a tree, initial trees are consistent), and `Engine-`, `Control-`,
`Step-`, `Lock-`, `Locks-`, `FilesAssumption`, `ScopeConstants` and
`JobConstants` (typing of the bounds and distinctness of the special values).

### The run engine

`RunInvariants` has the invariants, each inductive given the ones before it. All
but those with a hypothesis below hold with edits of the workspace and with any
number of crashes.

1. `EngineInv` (`RunProofs`): types; what every record satisfies (`RecordInv`);
   what the runner's copy, `state.json` and the log agree on at each point of the
   commit protocol (`LedgerInv`), without which `LogNeverDiverges` is not
   inductive, since the append must find the log where the copy says; and that
   while a child is launched or awaited the durable record already says its task
   is running with as many attempts (`LaunchInv`), which
   `LiveFamilyBlocksResume` needs. Types need all of this: an attempt number
   indexes `logs`, `quarantine` and `family`.
2. `StoreInv` (`RunProofs`): the runner's copy is `state.json` or has a newer
   record of the latest attempt only (`CopyInv`), the record about to be written
   is one the validator accepts (`ShapeInv`), the next task has an attempt left
   (`BudgetInv`), the evidence is the approved one until the first write
   (`ApprovalInv`). `ApprovedEvidenceResumed` and
   `RecordOnlyGrows` follow, and in `RunHistoryProofs` `PersistedShapeValid` and
   `BudgetCheckSuffices`. The validator also bounds the attempts of all tasks
   together; that this bound never refuses is a fact on finite sums
   (`TotalBound`). `PlaceInv`: a run stands at a task or is through. `SealInv`:
   from the observation to the written bundle the unfinished bundle holds the tree
   the records account for, and the records and files no longer change, whatever
   happens to the workspace; hence `SealedTreeExact`.
3. `ArtifactInv` (`RunArtifactProofs`): only the task a run stands at has files
   that `state.json` does not account for, the log pair prepared for its next
   attempt or outputs moved by a recovery that is not recorded yet. Hence
   `ArtifactsAccountedFor`.
4. `TreeInv` (`RunArtifactProofs`): while nobody edits the workspace, every file a
   failed attempt left is in the workspace or in quarantine, and a bundle's tree
   stays. `OwnInv` (`RunRecoveryProofs`): what the task under way finds at its
   outputs is from its own latest attempt. `OutputsTheorem` concludes
   `NoOutputLost` under two hypotheses, which `RunCrashes` satisfies: nobody edits
   the workspace, and children do not write the outputs of earlier tasks
   (`Restrained`). Both can overwrite any file; the engine finds out, but does not
   prevent it.
5. `CrashInv` (`RunRecoveryProofs`) and `HistoryInv` (`RunHistoryProofs`): while
   nobody edits the workspace, only a crash leaves a task running and only one
   more leaves its recovery half done, so that with one crash every recorded
   summary is derivable. `DerivableAfterOneCrash`, `SealedRunVerifies` and
   `ResumeStaysPossible` follow for behaviours whose workspace is not edited
   (`edits = 0`). With one edit TLC refutes all three: the validators exist to
   find edits.
6. `StoryInv` (`RunStoryProofs`): the event about to become durable leads from the
   story of `state.json` to that of the copy. `LogTellsState` is a statement on a
   fold over the log, and the theorems for induction over data are out of the
   provers' reach; the lemma that a log with one event more tells one event more
   (`StoryGoesOn`) is proved with a least counterexample instead, which the
   well-foundedness of `<` provides.
7. `StepsInv` (`RunStoryProofs`): the record about to be written is one step of
   `RunLifecycle` after the one on disk, and a sealed run is at rest.
   `RunLifecycleTheorem` concludes that `RunEngine` implements `RunLifecycle`
   (`FollowsRunLifecycle`): the write of an intent and that of the bundle are steps
   of the abstract run, all others leave it as it is, crash or no crash.

### The locks and the process group (`HostProofs`)

`LockInvariant` proves `Spec => []LockInv`; `MutualExclusionTheorem`,
`OwnFileTheorem` and `TombstoneTheorem` follow, and, with what a recovery has
established at each of its places (`RecoveryInv`), `RecoveryTheorem`.
`ServiceTheorem` proves that the lock implements `LockService`: each step takes,
ends, leaves behind or recovers the one use the lock file stands for, or changes
nothing. The heart is `PlanInv`: a process that is about to archive or unlink
holds the `flock` of the file at the path, with the record of its plan, whose
owner is not alive. So nobody else can be between the creation and the removal of
that file (`OwnerInv`, `SoleOwner`), and inode reuse cannot bring another file
there.

`LocksInv` relates who relies on a lock to who has it (`RelyInv`), every lock that
is taken to somebody who still has it in hand (`LeftInv`), and the workspace a
runner has locked to the plan (`BindingInv`). From it follow `ExecutesTheorem`,
`OneAttendedTheorem`, `NoLockForgottenTheorem` and `UsedAsServiceTheorem`.

`ScopeInv` says that whoever lives and has not been read yet is still ahead in the
enumeration unless there was a fork (`Ahead`), that nobody lives after SIGKILL
(`AfterKill`), and during how many enumerations members must have forked if one is
alive at a given place of the runner (`Counted`).

### The Windows Job and the scan (`PlatformProofs`)

`JobInv` says which processes exist, and in which state, at each place of launch,
cleanup and run; that a suspended process is the leader of a guarded attempt; and
that members run only while the handle is open.

`SnapshotTheorem`: each facet of an object that a walk reports was current at some
moment of that walk. For the first walk it was current at or before the moment
between the walks; for the second it had not been left for good by then. What both
report is therefore current at that moment, unless something recurred.
`NoTornFileTheorem`: while no file is written in place, the blocks read so far are
those of the one content the descriptor has (`WholeInv`). `PolicyTheorem`: a walk
comes to each name once (`OnceInv`), so that counting the names bounds the entries
and comparing each with those before it finds every alias (`EntryInv`); and in a
tree that nobody edits whatever the walk holds is true of the tree (`StillInv`), so
that it refuses for nothing that is not there.

### The controller, the bridge and the files (`RecordProofs`)

`ControlInv` has a part on the resource, the Jobs, the Pods and the volume, and a
part on every reconcile, which acts on a copy that may be stale (`ReconcileInv`).
What makes stale copies harmless is that the facts they rest on never cease to
hold: a decision that is published and approved stays so (`Granted`), and a sealed
run stays sealed with its digest (`SealedAs`). A status is written only if the copy
is current, and then what is written follows what was read (`Follows`). Hence
`ResumedAsApproved`, `SucceededIsVerified` and the refinement of
`AgentRunLifecycle`. `BlocksExplained` needs in addition what holds while there was
no fault (`Calm`): one Job per action, one Pod per Job, and a message from every
Pod that succeeded.

`StepInv`: contents are never restored, so the contents `main` reads one after the
other never decrease, and two equal ones enclose the one `verify_run` looked at
(`ReadsInOrder`). The rest says what `main` has found at each of its places, and
that its message and what the controller publishes repeat it.

`FilesInv`: every directory a loss of power may leave is readable, because files
are flushed before they are named and only a nameless file is ever written; and
before each rename the memory agrees with the two files so that the next directory
is readable again. `LeftoversTheorem` counts: `CountInv` says that no directory a
loss of power may bring back has more than one temporary file more than there were
crashes, the one that was in hand.

### What is checked how

Only model-checked, because fairness is out of the prover's reach: the liveness
properties `InvocationEnds`, `RunSettles` (of the engine and of the controller),
`OrphanRecovered`, `CallEnds`, `GroupAttemptEnds`, `JobAttemptEnds` and
`AnnouncedIsSettled`. The violations of `HistoryDerivable` and
`FamilyEmptyWhenTrusted` are TLC's.

Only proved: the type and inductive invariants, `FollowsRunLifecycle`,
`MutualExclusion`, `RecoveryPostcondition`, `TombstonesKept`, `OneAttendedTask`,
`UsedAsService`, `ScanExactWithoutFork`, `KillIsFinal`, `StatusIsThere`,
`RunsOnlyInJob`, `CommittedSurvives` and `RefusedForLeftover`.

## 5. Dead ends the code announces

`ResumeStaysPossible` and `RunSettles` except what the documentation announces:
a launch whose child was never identified, an exhausted attempt budget, a
workspace that has drifted, a run directory whose creation or whose atomic write
was interrupted. A lock file without a complete record is refused for ever too;
`OrphanRecovered` speaks of complete records.

## 6. Disagreements between code and documentation

`RunHistory`: a runner dies while its child runs. The next resume recovers the
attempt, moves its output to quarantine, and dies. The attempt is still recorded
as running, without `workspace_after`. The third runner takes the tree of this
moment as `workspace_after` (`engine.py:2429`), without the output that was
moved, and then records the output as quarantined. From then
on `_validate_workspace_history` refuses the run: the summary is not derivable
from the quarantined outputs, so neither resume nor verify will load it again.
`docs/EVIDENCE_FORMAT.md:114` says every summary is re-derived on load, and
`docs/ARCHITECTURE.md:315` that an interrupted quarantine move is accepted
during recovery. The existing test covers an attempt whose `workspace_after` was
recorded before the crash.

`Forking`: `docs/EXECUTION_CONTEXT_AND_PROCESS_SCOPE.md:90` says that resume
"enumerates the recorded group and refuses while any non-zombie member remains",
and line 101 that "before hashing any output, version 2 requires the complete
in-scope family to be empty". An enumeration reads the entries of one listing of
`/proc` one after the other (`processes.py:464`). A member that forks after the
listing and exits before its own entry is read is skipped, its child is not in the
listing, and the group is taken for empty. TLC's counterexample: the leader forks
and exits, the runner dies, the child forks during the one enumeration of the
resume and exits, and the resume is admitted beside the grandchild. The second
promise fails by itself too, when a member forks so during both enumerations that
come before the hashing, those of `wait_empty` and of `close`. `ScanExactTheorem`
proves that nothing but a fork makes an enumeration wrong, and `EmptyUnlessForking`
says what is left of the two promises.

## 7. Not modelled

- Schema versions 1 and 2, with `stop_process` and the `ps` fallback of version 1
  liveness; the mutex of the writer lock on Windows.
- Paths, symbolic links and file-system boundaries: the checks of `storage.py` on
  names and parents. They read and raise; a model would restate them.
- `_validate_plan_shape` and its helpers, the TOML loader of `model.py`, the
  parser of a manifest, JSON syntax and the pattern of digests: they compare one
  document with its grammar, field by field, and keep no state.
- `snapshot_workspace`, which writes a reviewed manifest before any run exists;
  the capture of executables and environment variables, which hashes host state.
- The Pod template of `job_builder.go` and the CRD schema beyond the fields the
  reconciler compares; manager start-up; the command line.
- The system calls of the no-replace move under a recovery: `QuarantineOutput` of
  `RunEngine` takes one move to be one step, and a crash falls between two moves
  but not inside one.
- `finalize_license.py` and `verify_license_state.py`, a script the maintainer runs
  once and its check, which share no state with the rest; the evidence and privacy
  tools (readers); benchmarks and examples (drivers).

The engine's model assumes the single writer that `WriterLock` and `TwoLocks`
establish, atomic writes as `EventFiles` justifies them, and a family that is
gone when the scope says so, to the extent `ProcessScope` shows it.

## 8. Plan

Done: the engine, both locks and their composition, both process scopes, the
scan, the file operations under a commit, the bridge with its messages and the
controller, each with its runs; the safety properties of all of them proved, and
four refinements: of `LockService` by `WriterLock` and by the locks of `TwoLocks`,
of `RunLifecycle` by `RunEngine` and of `AgentRunLifecycle` by `AgentRun`.

Next, in this order:

1. The move of an output to quarantine by system calls.
2. `snapshot_workspace` against an edit of the tree between its scan and its
   manifest.
3. The suite's graph checks as operators against reference definitions.
