----------------------------- MODULE WriterLock -----------------------------
(***************************************************************************)
(* The cooperative writer lock of one run directory on a POSIX system      *)
(* (src/src/benchhandoff/writer_lock.py): WriterLock.acquire and release,  *)
(* inspect_writer_lock and recover_writer_lock.                            *)
(*                                                                         *)
(* Every system call that others can see is a step of its own.  A process  *)
(* is one incarnation: once dead it does nothing more, but its process id  *)
(* can be given to another one.  A lock record names its owner and, by its *)
(* nonce, one acquisition.  The identity of a lock file is its record, so  *)
(* the tombstone path is a function of the record.  An inode is used again *)
(* once it has neither a link nor an open descriptor.                      *)
(***************************************************************************)
EXTENDS Integers, FiniteSets

CONSTANTS
    Procs,        \* processes
    Inodes,       \* inodes of the directory's file system
    None,         \* no inode, no process, no decision
    Empty,        \* a lock file whose record is not complete
    MaxAcquires   \* bound: acquisitions of one process

VARIABLES
    path,     \* the inode the lock path names
    content,  \* content[i]: the record in the file
    tomb,     \* tomb[r]: the inode the tombstone path of record r names
    flock,    \* flock[i]: the process that holds the file's kernel lock
    fate,     \* whether a process lives, is dead, or is dead with its id used again
    round,    \* how often a process has begun to acquire
    pc,       \* what a process is doing
    ino,      \* the inode of its open descriptor
    plan,     \* the decision it was told to carry out
    issued    \* decisions inspect_writer_lock has printed

vars == <<path, content, tomb, flock, fate, round, pc, ino, plan, issued>>

Records == Procs \X (1..MaxAcquires)

Owner(r) == r[1]

\* What _build_recovery_decision digests: the record and the owner observation.
Decisions == [record : Records, reason : {"dead", "reused"}]

ASSUME LockAssumption ==
    /\ MaxAcquires \in Nat
    /\ None \notin Procs /\ None \notin Inodes /\ None \notin Decisions
    /\ Empty \notin Records

Init ==
    /\ path = None
    /\ content = [i \in Inodes |-> Empty]
    /\ tomb = [r \in Records |-> None]
    /\ flock = [i \in Inodes |-> None]
    /\ fate = [p \in Procs |-> "alive"]
    /\ round = [p \in Procs |-> 0]
    /\ pc = [p \in Procs |-> "idle"]
    /\ ino = [p \in Procs |-> None]
    /\ plan = [p \in Procs |-> None]
    /\ issued = {}

Goto(p, label) == pc' = [pc EXCEPT ![p] = label]

Links(i) == (IF path = i THEN 1 ELSE 0) + Cardinality({r \in Records : tomb[r] = i})

\* ino[p] is still the key of the file created after its descriptor is closed.
Free(i) == /\ path # i
           /\ \A r \in Records : tomb[r] # i
           /\ \A p \in Procs : ino[p] = i => pc[p] \in {"closed", "discard"}

\* _release_posix_flock and close.
Close(p) ==
    /\ flock' = [i \in Inodes |-> IF flock[i] = p THEN None ELSE flock[i]]
    /\ ino' = [ino EXCEPT ![p] = None]
    /\ plan' = [plan EXCEPT ![p] = None]

(***************************************************************************)
(* WriterLock.acquire.                                                     *)
(***************************************************************************)
\* os.open with O_CREAT | O_EXCL.
Create(p) ==
    /\ pc[p] = "idle" /\ round[p] < MaxAcquires /\ path = None
    /\ \E i \in Inodes :
          /\ Free(i)
          /\ path' = i
          /\ content' = [content EXCEPT ![i] = Empty]
          /\ ino' = [ino EXCEPT ![p] = i]
    /\ round' = [round EXCEPT ![p] = @ + 1]
    /\ Goto(p, "created")
    /\ UNCHANGED <<tomb, flock, fate, plan, issued>>

FlockNew(p) ==
    /\ pc[p] = "created" /\ flock[ino[p]] = None
    /\ flock' = [flock EXCEPT ![ino[p]] = p]
    /\ Goto(p, "locked")
    /\ UNCHANGED <<path, content, tomb, fate, round, ino, plan, issued>>

WriteRecord(p) ==
    /\ pc[p] = "locked"
    /\ content' = [content EXCEPT ![ino[p]] = <<p, round[p]>>]
    /\ Goto(p, "written")
    /\ UNCHANGED <<path, tomb, flock, fate, round, ino, plan, issued>>

\* The path still names the file created, with the record written.
Confirm(p) ==
    /\ pc[p] = "written"
    /\ path = ino[p] /\ content[path] = <<p, round[p]>>
    /\ Goto(p, "held")
    /\ UNCHANGED <<path, content, tomb, flock, fate, round, ino, plan, issued>>

\* The flock conflicts: there is no guard, so the descriptor is closed before the cleanup.
FlockFails(p) ==
    /\ pc[p] = "created"
    /\ Goto(p, "closed")
    /\ UNCHANGED <<path, content, tomb, flock, fate, round, ino, plan, issued>>

\* A later step of acquire fails: the guard stays open during the cleanup.
AcquireFails(p) ==
    /\ pc[p] \in {"locked", "written"}
    /\ Goto(p, "cleanup")
    /\ UNCHANGED <<path, content, tomb, flock, fate, round, ino, plan, issued>>

\* The cleanup looks whether the path still names the file created.
Cleanup(p) ==
    /\ pc[p] \in {"closed", "cleanup"}
    /\ Goto(p, IF path # ino[p] THEN "unlinked" ELSE IF pc[p] = "closed" THEN "discard" ELSE "abandon")
    /\ UNCHANGED <<path, content, tomb, flock, fate, round, ino, plan, issued>>

(***************************************************************************)
(* WriterLock.release.                                                     *)
(***************************************************************************)
Release(p) ==
    /\ pc[p] = "held"
    /\ Goto(p, IF path = ino[p] /\ content[path] = <<p, round[p]>> THEN "release" ELSE "unlinked")
    /\ UNCHANGED <<path, content, tomb, flock, fate, round, ino, plan, issued>>

\* path.unlink() of whatever the path names, in release, a failed acquire and a recovery.
Unlink(p) ==
    /\ pc[p] \in {"release", "discard", "abandon", "unlink"}
    /\ path' = None
    /\ Goto(p, "unlinked")
    /\ UNCHANGED <<content, tomb, flock, fate, round, ino, plan, issued>>

\* The link or the unlink fails: the guard is closed and the files stay.
LinkCallFails(p) ==
    /\ pc[p] \in {"release", "discard", "abandon", "archive", "unlink"}
    /\ Close(p)
    /\ Goto(p, "idle")
    /\ UNCHANGED <<path, content, tomb, fate, round, issued>>

Finish(p) ==
    /\ pc[p] = "unlinked"
    /\ Close(p)
    /\ Goto(p, "idle")
    /\ UNCHANGED <<path, content, tomb, fate, round, issued>>

(***************************************************************************)
(* inspect_writer_lock and recover_writer_lock.                            *)
(***************************************************************************)
\* The decision for the lock as it is now; there is one to carry out only for an orphan.
Orphan(d) ==
    /\ path # None /\ content[path] = d.record
    /\ fate[Owner(d.record)] = d.reason

Inspect(d) ==
    /\ Orphan(d) /\ d \notin issued
    /\ issued' = issued \cup {d}
    /\ UNCHANGED <<path, content, tomb, flock, fate, round, pc, ino, plan>>

\* The decision is recomputed and compared with the expected digest.
BeginRecovery(p, d) ==
    /\ pc[p] = "idle" /\ d \in issued /\ Orphan(d)
    /\ plan' = [plan EXCEPT ![p] = d]
    /\ Goto(p, "open")
    /\ UNCHANGED <<path, content, tomb, flock, fate, round, ino, issued>>

\* _open_writer_lock_readwrite.
OpenGuard(p) ==
    /\ pc[p] = "open" /\ path # None
    /\ ino' = [ino EXCEPT ![p] = path]
    /\ Goto(p, "opened")
    /\ UNCHANGED <<path, content, tomb, flock, fate, round, plan, issued>>

\* Mutant: recoveries do not exclude each other.
FlockUnchecked(p) ==
    /\ pc[p] = "opened"
    /\ flock' = [flock EXCEPT ![ino[p]] = p]
    /\ Goto(p, "guarded")
    /\ UNCHANGED <<path, content, tomb, fate, round, ino, plan, issued>>

FlockGuard(p) ==
    /\ pc[p] = "opened" /\ flock[ino[p]] = None
    /\ flock' = [flock EXCEPT ![ino[p]] = p]
    /\ Goto(p, "guarded")
    /\ UNCHANGED <<path, content, tomb, fate, round, ino, plan, issued>>

\* The snapshot again, its inode against the guard's, the decision again.
GuardedCheck(p) == path = ino[p] /\ Orphan(plan[p])

Recheck(p) ==
    /\ pc[p] = "guarded" /\ GuardedCheck(p)
    /\ Goto(p, "archive")
    /\ UNCHANGED <<path, content, tomb, flock, fate, round, ino, plan, issued>>

\* Mutant: a tombstone left by an interrupted recovery is refused.
TombstoneFresh(p) == path = ino[p] /\ tomb[plan[p].record] = None /\ Links(ino[p]) = 1

\* A tombstone left by an earlier recovery is this very file, or there is none.
TombstoneReady(p) ==
    LET t == tomb[plan[p].record]
    IN  /\ path = ino[p]
        /\ t # None => t = ino[p] /\ Links(ino[p]) = 2
        /\ t = None => Links(ino[p]) = 1

Archive(p) ==
    /\ pc[p] = "archive" /\ TombstoneReady(p)
    /\ tomb' = [tomb EXCEPT ![plan[p].record] = IF @ = None THEN path ELSE @]
    /\ Goto(p, "linked")
    /\ UNCHANGED <<path, content, flock, fate, round, ino, plan, issued>>

\* The last checks before the unlink.
ArchiveVerified(p) ==
    LET r == plan[p].record
    IN  path = ino[p] /\ tomb[r] = ino[p] /\ Links(ino[p]) = 2 /\ content[path] = r

VerifyArchive(p) ==
    /\ pc[p] = "linked" /\ ArchiveVerified(p)
    /\ Goto(p, "unlink")
    /\ UNCHANGED <<path, content, tomb, flock, fate, round, ino, plan, issued>>

\* A failed check raises; the guard is closed.
RecoveryRefused(p) ==
    /\ \/ pc[p] = "open" /\ path = None
       \/ pc[p] = "opened" /\ flock[ino[p]] # None
       \/ pc[p] = "guarded" /\ ~GuardedCheck(p)
       \/ pc[p] = "archive" /\ ~TombstoneReady(p)
       \/ pc[p] = "linked" /\ ~ArchiveVerified(p)
    /\ Close(p)
    /\ Goto(p, "idle")
    /\ UNCHANGED <<path, content, tomb, fate, round, issued>>

(***************************************************************************)
(* A process crashes or exits; the kernel drops its locks and descriptors. *)
(***************************************************************************)
Crash(p) ==
    /\ pc[p] # "dead"
    /\ fate' = [fate EXCEPT ![p] = "dead"]
    /\ Close(p)
    /\ Goto(p, "dead")
    /\ UNCHANGED <<path, content, tomb, round, issued>>

PidReused(p) ==
    /\ fate[p] = "dead"
    /\ fate' = [fate EXCEPT ![p] = "reused"]
    /\ UNCHANGED <<path, content, tomb, flock, round, pc, ino, plan, issued>>

Acquiring(p) ==
    \/ Create(p) \/ FlockNew(p) \/ WriteRecord(p) \/ Confirm(p)
    \/ FlockFails(p) \/ AcquireFails(p) \/ Cleanup(p)

Releasing(p) == Release(p) \/ Unlink(p) \/ LinkCallFails(p) \/ Finish(p)

Recovering(p) ==
    \/ \E d \in Decisions : BeginRecovery(p, d)
    \/ OpenGuard(p) \/ FlockGuard(p) \/ Recheck(p) \/ Archive(p) \/ VerifyArchive(p) \/ RecoveryRefused(p)

Next ==
    \/ \E p \in Procs : Acquiring(p) \/ Releasing(p) \/ Recovering(p) \/ Crash(p) \/ PidReused(p)
    \/ \E d \in Decisions : Inspect(d)

Spec == Init /\ [][Next]_vars

(***************************************************************************)
(* Properties.                                                             *)
(***************************************************************************)
PCs == {"idle", "created", "locked", "written", "held", "closed", "cleanup", "discard", "abandon", "release",
        "open", "opened", "guarded", "archive", "linked", "unlink", "unlinked", "dead"}

\* The type invariant.
TypeOK ==
    /\ path \in Inodes \cup {None}
    /\ content \in [Inodes -> Records \cup {Empty}]
    /\ tomb \in [Records -> Inodes \cup {None}]
    /\ flock \in [Inodes -> Procs \cup {None}]
    /\ fate \in [Procs -> {"alive", "dead", "reused"}]
    /\ round \in [Procs -> 0..MaxAcquires]
    /\ pc \in [Procs -> PCs]
    /\ ino \in [Procs -> Inodes \cup {None}]
    /\ plan \in [Procs -> Decisions \cup {None}]
    /\ issued \subseteq Decisions

\* From the creation of its lock file to the unlink, the file at the path is the process's own.
OwnsFile(p) ==
    pc[p] \in {"created", "locked", "written", "held", "closed", "cleanup", "discard", "abandon", "release"}

(***************************************************************************)
(* Two processes never hold the writer lock together, whatever the order   *)
(* of creations, recoveries, failed acquisitions and crashes.              *)
(***************************************************************************)
MutualExclusion == \A p, q \in Procs : pc[p] \in {"held", "release"} /\ pc[q] \in {"held", "release"} => p = q

(***************************************************************************)
(* A recovery never removes the lock of a living process, and a cleanup    *)
(* never removes somebody else's: whoever has created the lock file finds  *)
(* it at the path, with its own record once written, until it unlinks it   *)
(* itself, although inodes are used again.                                 *)
(***************************************************************************)
OwnFileStays ==
    \A p \in Procs : OwnsFile(p) =>
        /\ path = ino[p]
        /\ pc[p] \in {"held", "release"} => content[path] = <<p, round[p]>> /\ flock[path] = p

(***************************************************************************)
(* A tombstone keeps the exact record it is named after for ever, so the   *)
(* recovery of an orphan can always be audited and repeated.               *)
(***************************************************************************)
TombstonesKept ==
    [][\A r \in Records : tomb[r] # None => content'[tomb[r]] = r /\ tomb'[r] = tomb[r]]_vars

(***************************************************************************)
(* What recover_writer_lock checks after its unlink always holds: the path *)
(* does not name the archived file, and the tombstone is its only link.    *)
(***************************************************************************)
RecoveryPostcondition ==
    \A p \in Procs : pc[p] = "unlinked" /\ plan[p] # None =>
        path # ino[p] /\ tomb[plan[p].record] = ino[p] /\ Links(ino[p]) = 1

(***************************************************************************)
(* The files, flocks and inodes together are one lock of LockService: who  *)
(* has created the lock file is its only user until it unlinks it itself,  *)
(* and only a record without a living user is ever recovered.              *)
(***************************************************************************)
Service == INSTANCE LockService
               WITH Locks <- {"run"}, Processes <- Procs,
                    recorded <- IF path = None THEN {} ELSE {"run"},
                    users <- [k \in {"run"} |-> {p \in Procs : OwnsFile(p)}]

ImplementsService == Service!Spec

(***************************************************************************)
(* The inductive invariant behind them.  A process that owns the file is   *)
(* alone in that and alive; a process about to archive and unlink is       *)
(* guarding, at the path, the complete record of a dead owner.             *)
(***************************************************************************)
Guards(p) == pc[p] \in {"locked", "written", "held", "cleanup", "abandon", "release",
                        "guarded", "archive", "linked", "unlink"}

OwnerInv ==
    \A p \in Procs : OwnsFile(p) =>
        /\ ino[p] # None /\ path = ino[p] /\ round[p] \in 1..MaxAcquires
        /\ pc[p] \in {"created", "locked", "closed", "discard"} => content[path] = Empty
        /\ pc[p] \in {"cleanup", "abandon"} => content[path] \in {Empty, <<p, round[p]>>}
        /\ pc[p] \in {"written", "held", "release"} => content[path] = <<p, round[p]>>

SoleOwner == \A p, q \in Procs : OwnsFile(p) /\ OwnsFile(q) => p = q

GuardInv == \A p \in Procs : Guards(p) => ino[p] # None /\ flock[ino[p]] = p

PlanInv ==
    \A p \in Procs :
        /\ pc[p] \in {"open", "opened", "guarded", "archive", "linked", "unlink"} => plan[p] # None
        /\ pc[p] \in {"opened"} => ino[p] # None
        /\ pc[p] \in {"archive", "linked", "unlink"} =>
              path = ino[p] /\ content[path] = plan[p].record /\ fate[Owner(plan[p].record)] # "alive"

FateInv == \A p \in Procs : fate[p] = "alive" <=> pc[p] # "dead"

TombInv == \A r \in Records : tomb[r] # None => content[tomb[r]] = r

LockInv == TypeOK /\ OwnerInv /\ SoleOwner /\ GuardInv /\ PlanInv /\ FateInv /\ TombInv

(***************************************************************************)
(* Fairness.  A process goes on with a recovery, a cleanup or a release    *)
(* it has begun (none of them blocks), the file system does not refuse the *)
(* link or the unlink for ever, and operators inspect and recover an       *)
(* orphan they find.                                                       *)
(***************************************************************************)
Onward(p) ==
    \/ Cleanup(p) \/ Finish(p) \/ Release(p)
    \/ \E d \in Decisions : BeginRecovery(p, d)
    \/ OpenGuard(p) \/ FlockGuard(p) \/ Recheck(p) \/ Archive(p) \/ VerifyArchive(p) \/ RecoveryRefused(p)

Fairness ==
    /\ \A p \in Procs : WF_vars(Onward(p)) /\ SF_vars(Unlink(p)) /\ SF_vars(Archive(p))
    /\ WF_vars(\E d \in Decisions : Inspect(d))

LiveSpec == Spec /\ Fairness

(***************************************************************************)
(* The lock of a dead process, once its record is complete, does not block *)
(* the run for ever: inspect and recover remove it while there is anybody  *)
(* to run them, even when recoveries race, fail or crash half-way.         *)
(***************************************************************************)
OrphanRecovered ==
    []<>(\/ path = None \/ content[path] \notin Records
         \/ fate[Owner(content[path])] = "alive"
         \/ \A p \in Procs : fate[p] # "alive")

=============================================================================
