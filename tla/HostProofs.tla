---------------------------- MODULE HostProofs ------------------------------
(***************************************************************************)
(* What the runners of a host hold and leave behind.                       *)
(*                                                                         *)
(* The writer lock for any set of processes and inodes: its invariant,     *)
(* mutual exclusion, what a recovery leaves behind, the preservation of    *)
(* tombstones, and that the lock implements LockService.                   *)
(*                                                                         *)
(* The two writer locks together, for any set of runners, suites and       *)
(* directories: who executes holds both locks, a workspace has one         *)
(* attended task, no lock is forgotten, and each lock is used as           *)
(* LockService allows.                                                     *)
(*                                                                         *)
(* The process family of an attempt, for any set of process ids and any    *)
(* number of forks, reuses and failures.                                   *)
(***************************************************************************)
EXTENDS WriterLock, TwoLocks, ProcessScope, FiniteSetTheorems, TLAPS

USE ZenonT(60)

\* A file somebody owns holds no dead process's record, so no recovery guards it.
LEMMA OwnerExcludesRecovery ==
    ASSUME LockInv, NEW p \in Procs, NEW q \in Procs, OwnsFile(p), pc[q] \in {"archive", "linked", "unlink"}
    PROVE  FALSE
<1>1. content[path] = plan[q].record /\ plan[q] \in Decisions /\ fate[Owner(plan[q].record)] # "alive"
  BY DEF LockInv, PlanInv, TypeOK
<1>2. content[path] \in {Empty, <<p, round[p]>>}
  BY DEF LockInv, OwnerInv, OwnsFile
<1>3. fate[p] = "alive"
  BY DEF LockInv, FateInv, OwnsFile
<1>4. plan[q].record \in Records /\ Empty \notin Records
  BY <1>1, LockAssumption DEF Decisions
<1> QED BY SMTT(60), <1>1, <1>2, <1>3, <1>4 DEF Owner

\* Two recoveries never guard the same file.
LEMMA RecoveryAlone ==
    ASSUME LockInv, NEW p \in Procs, NEW q \in Procs, pc[p] \in {"archive", "linked", "unlink"},
           pc[q] \in {"archive", "linked", "unlink"}
    PROVE  p = q
BY SMTT(60) DEF LockInv, PlanInv, GuardInv, Guards

\* The initial state.
LEMMA InitLock == Init => LockInv
<1> SUFFICES ASSUME Init PROVE LockInv
  OBVIOUS
<1>1. TypeOK
  BY SMTT(60), LockAssumption DEF Init, TypeOK, PCs
<1>2. OwnerInv /\ SoleOwner /\ GuardInv /\ PlanInv /\ FateInv /\ TombInv
  BY DEF Init, OwnerInv, SoleOwner, GuardInv, PlanInv, FateInv, TombInv, OwnsFile, Guards
<1> QED BY <1>1, <1>2 DEF LockInv

\* The steps that only move the program counter of one process.
LEMMA CheckSteps ==
    ASSUME LockInv, NEW p \in Procs,
           \/ FlockFails(p) \/ AcquireFails(p) \/ Cleanup(p) \/ Confirm(p) \/ Release(p) \/ Recheck(p) \/ VerifyArchive(p)
    PROVE  LockInv'
<1>1. UNCHANGED <<path, content, tomb, flock, fate, round, ino, plan, issued>>
  BY DEF FlockFails, AcquireFails, Cleanup, Confirm, Release, Recheck, VerifyArchive
<1>2. PICK label \in PCs : /\ pc' = [pc EXCEPT ![p] = label] /\ pc \in [Procs -> PCs]
                           /\ \/ pc[p] = "created" /\ label = "closed"
                              \/ pc[p] \in {"locked", "written"} /\ label = "cleanup"
                              \/ pc[p] = "closed" /\ label = "discard"
                              \/ pc[p] = "cleanup" /\ label = "abandon"
                              \/ pc[p] \in {"closed", "cleanup", "held"} /\ label = "unlinked"
                              \/ pc[p] = "written" /\ label = "held"
                              \/ pc[p] = "held" /\ label = "release"
                              \/ pc[p] = "guarded" /\ label = "archive" /\ GuardedCheck(p)
                              \/ pc[p] = "linked" /\ label = "unlink"
  BY DEF FlockFails, AcquireFails, Cleanup, Confirm, Release, Recheck, VerifyArchive, Goto, PCs, LockInv, TypeOK
<1>3. TypeOK'
  BY <1>1, <1>2 DEF LockInv, TypeOK
<1>4. OwnerInv'
  BY <1>1, <1>2 DEF LockInv, OwnerInv, OwnsFile
<1>5. SoleOwner'
  BY <1>1, <1>2 DEF LockInv, SoleOwner, OwnsFile
<1>6. GuardInv'
  BY <1>1, <1>2 DEF LockInv, GuardInv, Guards
<1>7. PlanInv'
  <2>1. pc[p] = "guarded" => plan[p] \in Decisions
    BY DEF LockInv, PlanInv, TypeOK
  <2>2. GuardedCheck(p) /\ plan[p] \in Decisions =>
          path = ino[p] /\ content[path] = plan[p].record /\ fate[Owner(plan[p].record)] # "alive"
    BY DEF GuardedCheck, Orphan, Decisions
  <2> QED BY <1>1, <1>2, <2>1, <2>2 DEF LockInv, PlanInv
<1>8. FateInv' /\ TombInv'
  BY <1>1, <1>2 DEF LockInv, FateInv, TombInv
<1> QED BY <1>3, <1>4, <1>5, <1>6, <1>7, <1>8 DEF LockInv

\* The creation of the lock file.
LEMMA CreateStep == ASSUME LockInv, NEW p \in Procs, Create(p) PROVE LockInv'
<1>1. PICK i \in Inodes : /\ Free(i) /\ path' = i /\ content' = [content EXCEPT ![i] = Empty]
                          /\ ino' = [ino EXCEPT ![p] = i]
  BY DEF Create
<1>2. /\ pc[p] = "idle" /\ path = None /\ pc' = [pc EXCEPT ![p] = "created"]
      /\ round' = [round EXCEPT ![p] = round[p] + 1] /\ round[p] < MaxAcquires
      /\ UNCHANGED <<tomb, flock, fate, plan, issued>>
  BY DEF Create, Goto
<1>3. TypeOK
  BY DEF LockInv
<1>4. \A q \in Procs : ~OwnsFile(q) /\ pc[q] \notin {"archive", "linked", "unlink"}
  <2>1. \A q \in Procs : ~OwnsFile(q)
    BY <1>2 DEF LockInv, OwnerInv
  <2>2. \A q \in Procs : pc[q] \in {"archive", "linked", "unlink"} => path = ino[q] /\ ino[q] # None
    BY DEF LockInv, PlanInv, GuardInv, Guards
  <2> QED BY <1>2, <2>1, <2>2
<1>5. TypeOK'
  <2>1. round' \in [Procs -> 0..MaxAcquires]
    BY SMTT(60), <1>2, <1>3, LockAssumption DEF TypeOK
  <2> QED BY <1>1, <1>2, <1>3, <2>1 DEF TypeOK, PCs
<1>6. \A q \in Procs : OwnsFile(q)' => q = p
  BY <1>2, <1>3, <1>4 DEF OwnsFile, TypeOK
<1>7. OwnerInv'
  <2>1. ino'[p] = i /\ i # None /\ content'[i] = Empty /\ round'[p] \in 1..MaxAcquires /\ pc'[p] = "created"
    BY SMTT(60), <1>1, <1>2, <1>3, LockAssumption DEF TypeOK
  <2> QED BY <1>1, <1>6, <2>1 DEF OwnerInv
<1>8. SoleOwner'
  BY <1>6 DEF SoleOwner
<1>9. GuardInv'
  BY <1>1, <1>2, <1>3 DEF LockInv, GuardInv, Guards, TypeOK
<1>10. PlanInv'
  BY <1>1, <1>2, <1>3, <1>4 DEF LockInv, PlanInv, TypeOK
<1>11. FateInv'
  BY <1>2, <1>3 DEF LockInv, FateInv, TypeOK
<1>12. TombInv'
  BY <1>1, <1>2, <1>3 DEF LockInv, TombInv, Free, TypeOK
<1> QED BY <1>5, <1>7, <1>8, <1>9, <1>10, <1>11, <1>12 DEF LockInv

\* The kernel locks.
LEMMA FlockSteps == ASSUME LockInv, NEW p \in Procs, FlockNew(p) \/ FlockGuard(p) PROVE LockInv'
<1>1. PICK label \in {"locked", "guarded"} :
        /\ pc' = [pc EXCEPT ![p] = label] /\ flock[ino[p]] = None /\ flock' = [flock EXCEPT ![ino[p]] = p]
        /\ pc[p] = IF label = "locked" THEN "created" ELSE "opened"
        /\ UNCHANGED <<path, content, tomb, fate, round, ino, plan, issued>>
  BY DEF FlockNew, FlockGuard, Goto
<1>2. TypeOK /\ ino[p] \in Inodes
  BY <1>1 DEF LockInv, TypeOK, OwnerInv, PlanInv, OwnsFile
<1>3. TypeOK'
  BY <1>1, <1>2 DEF TypeOK, PCs
<1>4. OwnerInv' /\ SoleOwner'
  BY SMTT(60), <1>1, <1>2 DEF LockInv, OwnerInv, SoleOwner, OwnsFile, TypeOK
<1>5. GuardInv'
  BY SMTT(60), <1>1, <1>2, LockAssumption DEF LockInv, GuardInv, Guards, TypeOK
<1>6. PlanInv' /\ FateInv' /\ TombInv'
  BY <1>1, <1>2 DEF LockInv, PlanInv, FateInv, TombInv, TypeOK
<1> QED BY <1>3, <1>4, <1>5, <1>6 DEF LockInv

\* The record, written under the kernel lock.
LEMMA WriteStep == ASSUME LockInv, NEW p \in Procs, WriteRecord(p) PROVE LockInv'
<1>1. /\ pc[p] = "locked" /\ pc' = [pc EXCEPT ![p] = "written"]
      /\ content' = [content EXCEPT ![ino[p]] = <<p, round[p]>>]
      /\ UNCHANGED <<path, tomb, flock, fate, round, ino, plan, issued>>
  BY DEF WriteRecord, Goto
<1>2. TypeOK /\ OwnsFile(p)
  BY <1>1 DEF LockInv, OwnsFile
<1>3. ino[p] \in Inodes /\ path = ino[p] /\ content[path] = Empty /\ round[p] \in 1..MaxAcquires
  BY <1>1, <1>2 DEF LockInv, OwnerInv, TypeOK
<1>4. \A q \in Procs : /\ OwnsFile(q) => q = p
                       /\ pc[q] \notin {"archive", "linked", "unlink"}
  BY <1>2, OwnerExcludesRecovery DEF LockInv, SoleOwner
<1>5. TypeOK'
  BY <1>1, <1>2, <1>3 DEF TypeOK, PCs, Records
<1>6. OwnerInv' /\ SoleOwner'
  <2>1. \A q \in Procs : OwnsFile(q)' => q = p
    BY <1>1, <1>2, <1>4 DEF OwnsFile, TypeOK
  <2>2. pc'[p] = "written" /\ content'[path'] = <<p, round'[p]>> /\ ino'[p] = path' /\ path' # None
    BY <1>1, <1>2, <1>3, LockAssumption DEF TypeOK
  <2> QED BY <1>1, <1>3, <2>1, <2>2 DEF OwnerInv, SoleOwner
<1>7. GuardInv' /\ PlanInv' /\ FateInv'
  BY SMTT(60), <1>1, <1>2, <1>4 DEF LockInv, GuardInv, PlanInv, FateInv, Guards, TypeOK
<1>8. TombInv'
  BY SMTT(60), <1>1, <1>2, <1>3, LockAssumption DEF LockInv, TombInv, TypeOK
<1> QED BY <1>5, <1>6, <1>7, <1>8 DEF LockInv

\* The unlink of the path, by its owner or by a recovery.
LEMMA UnlinkStep == ASSUME LockInv, NEW p \in Procs, Unlink(p) PROVE LockInv'
<1>1. /\ pc[p] \in {"release", "discard", "abandon", "unlink"} /\ pc' = [pc EXCEPT ![p] = "unlinked"]
      /\ path' = None /\ UNCHANGED <<content, tomb, flock, fate, round, ino, plan, issued>>
  BY DEF Unlink, Goto
<1>2. TypeOK
  BY DEF LockInv
<1>3. \A q \in Procs : q # p => ~OwnsFile(q) /\ pc[q] \notin {"archive", "linked", "unlink"}
  <2>1. CASE pc[p] = "unlink"
    BY <2>1, OwnerExcludesRecovery, RecoveryAlone
  <2>2. CASE pc[p] \in {"release", "discard", "abandon"}
    <3>1. OwnsFile(p) BY <2>2 DEF OwnsFile
    <3> QED BY <3>1, OwnerExcludesRecovery DEF LockInv, SoleOwner
  <2> QED BY <1>1, <2>1, <2>2
<1>4. TypeOK'
  BY <1>1, <1>2 DEF TypeOK, PCs
<1>5. OwnerInv' /\ SoleOwner'
  <2>1. \A q \in Procs : ~OwnsFile(q)' BY <1>1, <1>2, <1>3 DEF OwnsFile, TypeOK
  <2> QED BY <2>1 DEF OwnerInv, SoleOwner
<1>6. GuardInv' /\ PlanInv' /\ FateInv' /\ TombInv'
  BY SMTT(60), <1>1, <1>2, <1>3 DEF LockInv, GuardInv, PlanInv, FateInv, TombInv, Guards, TypeOK
<1> QED BY <1>4, <1>5, <1>6 DEF LockInv

\* A process closes its descriptor, or dies.
LEMMA CloseSteps ==
    ASSUME LockInv, NEW p \in Procs, LinkCallFails(p) \/ Finish(p) \/ RecoveryRefused(p) \/ Crash(p)
    PROVE  LockInv'
<1>1. PICK label \in {"idle", "dead"} :
        /\ pc' = [pc EXCEPT ![p] = label] /\ pc[p] # "dead"
        /\ fate' = IF label = "dead" THEN [fate EXCEPT ![p] = "dead"] ELSE fate
        /\ UNCHANGED <<path, content, tomb, round, issued>>
  BY DEF LinkCallFails, Finish, RecoveryRefused, Crash, Goto
<1>2. /\ flock' = [i \in Inodes |-> IF flock[i] = p THEN None ELSE flock[i]]
      /\ ino' = [ino EXCEPT ![p] = None] /\ plan' = [plan EXCEPT ![p] = None]
  BY DEF LinkCallFails, Finish, RecoveryRefused, Crash, Close
<1>3. TypeOK
  BY DEF LockInv
<1>4. TypeOK'
  BY <1>1, <1>2, <1>3 DEF TypeOK, PCs
<1>5. OwnerInv' /\ SoleOwner'
  BY SMTT(60), <1>1, <1>2, <1>3 DEF LockInv, OwnerInv, SoleOwner, OwnsFile, TypeOK
<1>6. GuardInv'
  BY <1>1, <1>2, <1>3 DEF LockInv, GuardInv, Guards, TypeOK
<1>7. \A q \in Procs : fate[q] # "alive" => fate'[q] # "alive"
  BY <1>1, <1>3 DEF TypeOK
<1>8. PlanInv'
  <2>1. \A q \in Procs : plan[q] # None => plan[q] \in Decisions /\ Owner(plan[q].record) \in Procs
    BY <1>3 DEF TypeOK, Decisions, Records, Owner
  <2> QED BY <1>1, <1>2, <1>3, <1>7, <2>1 DEF LockInv, PlanInv, TypeOK
<1>9. FateInv' /\ TombInv'
  BY <1>1, <1>3 DEF LockInv, FateInv, TombInv, TypeOK
<1> QED BY <1>4, <1>5, <1>6, <1>8, <1>9 DEF LockInv

\* Inspection and the beginning of a recovery.
LEMMA DecisionSteps ==
    ASSUME LockInv, NEW d \in Decisions, Inspect(d) \/ \E p \in Procs : BeginRecovery(p, d)
    PROVE  LockInv'
<1>0. TypeOK
  BY DEF LockInv
<1>1. ASSUME NEW p \in Procs, BeginRecovery(p, d) PROVE LockInv'
  <2>1. /\ pc[p] = "idle" /\ pc' = [pc EXCEPT ![p] = "open"] /\ plan' = [plan EXCEPT ![p] = d]
        /\ UNCHANGED <<path, content, tomb, flock, fate, round, ino, issued>>
    BY <1>1 DEF BeginRecovery, Goto
  <2>2. TypeOK' BY <1>0, <2>1 DEF TypeOK, PCs
  <2>3. OwnerInv' /\ SoleOwner' BY <1>0, <2>1 DEF LockInv, OwnerInv, SoleOwner, OwnsFile, TypeOK
  <2>4. d # None BY LockAssumption
  <2>5. GuardInv' /\ PlanInv' /\ FateInv' /\ TombInv'
    BY SMTT(60), <1>0, <2>1, <2>4 DEF LockInv, GuardInv, PlanInv, FateInv, TombInv, Guards, TypeOK
  <2> QED BY <2>2, <2>3, <2>5 DEF LockInv
<1>2. CASE Inspect(d)
  BY SMTT(60), <1>2 DEF Inspect, LockInv, TypeOK, OwnerInv, SoleOwner, OwnsFile, GuardInv, Guards, PlanInv, FateInv, TombInv
<1> QED BY <1>1, <1>2

\* The opening of the guard's descriptor, and the reuse of a process id.
LEMMA OpenSteps == ASSUME LockInv, NEW p \in Procs, OpenGuard(p) \/ PidReused(p) PROVE LockInv'
<1>0. TypeOK
  BY DEF LockInv
<1>1. CASE OpenGuard(p)
  <2>1. /\ pc[p] = "open" /\ pc' = [pc EXCEPT ![p] = "opened"] /\ ino' = [ino EXCEPT ![p] = path] /\ path # None
        /\ UNCHANGED <<path, content, tomb, flock, fate, round, plan, issued>>
    BY <1>1 DEF OpenGuard, Goto
  <2>2. TypeOK' BY <1>0, <2>1 DEF TypeOK, PCs
  <2>3. OwnerInv' /\ SoleOwner' BY <1>0, <2>1 DEF LockInv, OwnerInv, SoleOwner, OwnsFile, TypeOK
  <2>4. GuardInv' /\ PlanInv' /\ FateInv' /\ TombInv'
    BY SMTT(60), <1>0, <2>1 DEF LockInv, GuardInv, PlanInv, FateInv, TombInv, Guards, TypeOK
  <2> QED BY <2>2, <2>3, <2>4 DEF LockInv
<1>2. CASE PidReused(p)
  <2>1. /\ fate[p] = "dead" /\ fate' = [fate EXCEPT ![p] = "reused"]
        /\ UNCHANGED <<path, content, tomb, flock, round, pc, ino, plan, issued>>
    BY <1>2 DEF PidReused
  <2>2. TypeOK' BY <1>0, <2>1 DEF TypeOK
  <2>3. \A q \in Procs : fate'[q] = "alive" <=> fate[q] = "alive" BY <1>0, <2>1 DEF TypeOK
  <2>4. \A q \in Procs : plan[q] # None => Owner(plan[q].record) \in Procs
    BY <1>0 DEF TypeOK, Decisions, Records, Owner
  <2>5. PlanInv' BY SMTT(60), <2>1, <2>3, <2>4 DEF LockInv, PlanInv
  <2>6. FateInv' BY <2>1, <2>3 DEF LockInv, FateInv
  <2>7. OwnerInv' /\ SoleOwner' /\ GuardInv' /\ TombInv'
    BY <2>1 DEF LockInv, OwnerInv, SoleOwner, OwnsFile, GuardInv, Guards, TombInv
  <2> QED BY <2>2, <2>5, <2>6, <2>7 DEF LockInv
<1> QED BY <1>1, <1>2

\* The hard link to the tombstone.
LEMMA ArchiveStep == ASSUME LockInv, NEW p \in Procs, Archive(p) PROVE LockInv'
<1> DEFINE r == plan[p].record
<1>1. /\ pc[p] = "archive" /\ pc' = [pc EXCEPT ![p] = "linked"]
      /\ tomb' = [tomb EXCEPT ![r] = IF tomb[r] = None THEN path ELSE tomb[r]]
      /\ UNCHANGED <<path, content, flock, fate, round, ino, plan, issued>>
  BY DEF Archive, Goto
<1>2. TypeOK
  BY DEF LockInv
<1>3. plan[p] \in Decisions /\ path = ino[p] /\ content[path] = r
  BY <1>1, <1>2 DEF LockInv, PlanInv, TypeOK
<1>4. r \in Records
  BY <1>3 DEF Decisions
<1>. HIDE DEF r
<1>5. TypeOK'
  BY <1>1, <1>2, <1>4 DEF TypeOK, PCs
<1>6. OwnerInv' /\ SoleOwner' /\ GuardInv' /\ PlanInv' /\ FateInv'
  <2>1. OwnerInv' /\ SoleOwner'
    BY SMTT(60), <1>1, <1>2 DEF LockInv, OwnerInv, SoleOwner, OwnsFile, TypeOK
  <2>2. GuardInv' /\ PlanInv'
    BY SMTT(60), <1>1, <1>2 DEF LockInv, GuardInv, Guards, PlanInv, TypeOK
  <2>3. FateInv'
    BY SMTT(60), <1>1, <1>2 DEF LockInv, FateInv, TypeOK
  <2> QED BY <2>1, <2>2, <2>3
<1>7. TombInv'
  BY <1>1, <1>2, <1>3, <1>4 DEF LockInv, TombInv, TypeOK
<1> QED BY <1>5, <1>6, <1>7 DEF LockInv

\* LockInv is inductive.
THEOREM LockInvariant == Spec => []LockInv
<1>1. ASSUME LockInv, [Next]_vars PROVE LockInv'
  <2>1. ASSUME NEW p \in Procs, Acquiring(p) \/ Releasing(p) PROVE LockInv'
    BY <1>1, <2>1, CheckSteps, CreateStep, FlockSteps, WriteStep, UnlinkStep, CloseSteps DEF Acquiring, Releasing
  <2>2. ASSUME NEW p \in Procs, Recovering(p) PROVE LockInv'
    BY <1>1, <2>2, CheckSteps, FlockSteps, CloseSteps, DecisionSteps, OpenSteps, ArchiveStep DEF Recovering
  <2>3. ASSUME NEW p \in Procs, Crash(p) \/ PidReused(p) PROVE LockInv'
    BY <1>1, <2>3, CloseSteps, OpenSteps
  <2>4. CASE UNCHANGED vars
    BY <1>1, <2>4 DEF vars, LockInv, TypeOK, OwnerInv, SoleOwner, OwnsFile, GuardInv, Guards, PlanInv, FateInv, TombInv
  <2> QED BY <1>1, <2>1, <2>2, <2>3, <2>4, DecisionSteps DEF Next
<1> QED BY InitLock, <1>1, PTL DEF Spec

(***************************************************************************)
(* At most one process holds the writer lock, for any number of processes, *)
(* recoveries and crashes.                                                 *)
(***************************************************************************)
THEOREM MutualExclusionTheorem == Spec => []MutualExclusion
<1>1. LockInv => MutualExclusion
  BY DEF LockInv, SoleOwner, OwnsFile, MutualExclusion
<1> QED BY <1>1, LockInvariant, PTL

(***************************************************************************)
(* A lock file is at the path, with its owner's record and kernel lock,    *)
(* until its owner unlinks it: no recovery takes it from a living process. *)
(***************************************************************************)
THEOREM OwnFileTheorem == Spec => []OwnFileStays
<1>1. LockInv => OwnFileStays
  BY DEF LockInv, OwnerInv, GuardInv, Guards, OwnsFile, OwnFileStays
<1> QED BY <1>1, LockInvariant, PTL

\* No step but an archive changes a tombstone, and an archive changes none that exists.
LEMMA TombstoneStep ==
    ASSUME LockInv, [Next]_vars, NEW r \in Records, tomb[r] # None
    PROVE  tomb'[r] = tomb[r]
<1>1. TypeOK
  BY DEF LockInv
<1>2. CASE \E p \in Procs : Archive(p)
  BY <1>1, <1>2 DEF Archive, TypeOK
<1>3. CASE ~\E p \in Procs : Archive(p)
  <2>1. UNCHANGED tomb
    BY <1>3 DEF vars, Next, Acquiring, Releasing, Recovering, Create, FlockNew, WriteRecord, Confirm, FlockFails,
                AcquireFails, Cleanup, Release, Unlink, LinkCallFails, Finish, BeginRecovery, OpenGuard, FlockGuard,
                Recheck, VerifyArchive, RecoveryRefused, Crash, PidReused, Inspect
  <2> QED BY <2>1
<1> QED BY <1>2, <1>3

(***************************************************************************)
(* A tombstone once linked keeps its inode and its record for ever.        *)
(***************************************************************************)
THEOREM TombstoneTheorem == Spec => TombstonesKept
<1> DEFINE Kept == \A r \in Records : tomb[r] # None => content'[tomb[r]] = r /\ tomb'[r] = tomb[r]
<1>1. ASSUME LockInv, LockInv', [Next]_vars PROVE [Kept]_vars
  <2>1. ASSUME NEW r \in Records, tomb[r] # None PROVE tomb'[r] = tomb[r] /\ content'[tomb[r]] = r
    BY <1>1, <2>1, TombstoneStep DEF LockInv, TombInv
  <2> QED BY <2>1
<1> QED BY <1>1, LockInvariant, PTL DEF Spec, TombstonesKept

(***************************************************************************)
(* What LockInv does not say of a recovery: only a recovery has a plan,    *)
(* once the archive is verified the tombstone is the file it guards, and   *)
(* after the unlink the path does not name that file again.                *)
(***************************************************************************)
Recovery(p) ==
    /\ pc[p] \in {"open", "opened", "guarded", "archive", "linked", "unlink", "unlinked"}
    /\ pc[p] \in {"unlink", "unlinked"} => ino[p] # None /\ tomb[plan[p].record] = ino[p]
    /\ pc[p] = "unlinked" => path # ino[p]

RecoveryInv == \A p \in Procs : plan[p] # None => Recovery(p)

\* A process that takes no step.
LEMMA RecoveryOfOthers ==
    ASSUME LockInv, RecoveryInv, [Next]_vars, NEW q \in Procs, plan[q] # None,
           pc'[q] = pc[q], plan'[q] = plan[q], ino'[q] = ino[q]
    PROVE  Recovery(q)'
<1>1. Recovery(q) /\ plan[q].record \in Records
  BY DEF RecoveryInv, LockInv, TypeOK, Decisions
<1>2. path' = path \/ path' = None \/ \A r \in Records : tomb[r] # path'
  BY DEF vars, Next, Acquiring, Releasing, Recovering, Create, Free, FlockNew, WriteRecord, Confirm, FlockFails,
         AcquireFails, Cleanup, Release, Unlink, LinkCallFails, Finish, BeginRecovery, OpenGuard, FlockGuard,
         Recheck, Archive, VerifyArchive, RecoveryRefused, Crash, PidReused, Inspect
<1>3. pc[q] \in {"unlink", "unlinked"} => tomb'[plan[q].record] = ino[q]
  BY <1>1, TombstoneStep DEF Recovery
<1> QED BY <1>1, <1>2, <1>3 DEF Recovery

\* A process that takes a step of a recovery.
LEMMA RecoveryOfActor ==
    ASSUME LockInv, RecoveryInv, NEW q \in Procs, plan'[q] # None,
           Acquiring(q) \/ Releasing(q) \/ Recovering(q) \/ Crash(q)
    PROVE  Recovery(q)'
<1>0. TypeOK
  BY DEF LockInv
<1>1. ~(LinkCallFails(q) \/ Finish(q) \/ RecoveryRefused(q) \/ Crash(q))
  BY <1>0 DEF LinkCallFails, Finish, RecoveryRefused, Crash, Close, TypeOK
<1>2. ~(Acquiring(q) \/ Release(q))
  BY <1>0 DEF Acquiring, Create, FlockNew, WriteRecord, Confirm, FlockFails, AcquireFails, Cleanup, Release,
              RecoveryInv, Recovery, TypeOK
<1>3. CASE Unlink(q)
  BY <1>0, <1>3 DEF Unlink, Goto, RecoveryInv, Recovery, TypeOK
<1>4. CASE VerifyArchive(q)
  BY <1>0, <1>4 DEF VerifyArchive, ArchiveVerified, Goto, LockInv, GuardInv, Guards, Recovery, TypeOK
<1>5. CASE \/ OpenGuard(q) \/ FlockGuard(q) \/ Recheck(q) \/ Archive(q)
           \/ \E d \in Decisions : BeginRecovery(q, d)
  BY <1>0, <1>5 DEF OpenGuard, FlockGuard, Recheck, Archive, BeginRecovery, Goto, Recovery, TypeOK
<1> QED BY <1>1, <1>2, <1>3, <1>4, <1>5 DEF Releasing, Recovering

LEMMA RecoveryStep == ASSUME LockInv, RecoveryInv, [Next]_vars PROVE RecoveryInv'
<1> SUFFICES ASSUME NEW q \in Procs, plan'[q] # None PROVE Recovery(q)'
  BY DEF RecoveryInv
<1>1. CASE pc'[q] = pc[q] /\ plan'[q] = plan[q] /\ ino'[q] = ino[q]
  BY <1>1, RecoveryOfOthers
<1>2. CASE Acquiring(q) \/ Releasing(q) \/ Recovering(q) \/ Crash(q)
  BY <1>2, RecoveryOfActor
<1>3. CASE UNCHANGED vars
  BY <1>1, <1>3 DEF vars
<1>4. ASSUME NEW p \in Procs, p # q, Acquiring(p) \/ Releasing(p) \/ Recovering(p) \/ Crash(p)
      PROVE  pc'[q] = pc[q] /\ plan'[q] = plan[q] /\ ino'[q] = ino[q]
  BY <1>4 DEF LockInv, TypeOK, Acquiring, Releasing, Recovering, Create, FlockNew, WriteRecord, Confirm, FlockFails,
              AcquireFails, Cleanup, Release, Unlink, LinkCallFails, Finish, BeginRecovery, OpenGuard, FlockGuard,
              Recheck, Archive, VerifyArchive, RecoveryRefused, Crash, Goto, Close
<1>5. CASE (\E p \in Procs : PidReused(p)) \/ \E d \in Decisions : Inspect(d)
  BY <1>1, <1>5 DEF PidReused, Inspect
<1> QED BY <1>1, <1>2, <1>3, <1>4, <1>5 DEF Next

\* The records of two tombstones differ, so a file has one tombstone at most.
LEMMA OneTombstone ==
    ASSUME LockInv, NEW r \in Records, NEW i \in Inodes, tomb[r] = i, path # i
    PROVE  Links(i) = 1
<1>1. {s \in Records : tomb[s] = i} = {r}
  BY SMTT(60), LockAssumption DEF LockInv, TombInv, TypeOK
<1>2. Cardinality({r}) = 1
  BY FS_Singleton
<1> QED BY SMTT(60), <1>1, <1>2 DEF Links

(***************************************************************************)
(* What recover_writer_lock checks after its unlink holds, for any number  *)
(* of processes, recoveries and inodes: the path does not name the         *)
(* archived file, and the tombstone is its only link.                      *)
(***************************************************************************)
THEOREM RecoveryTheorem == Spec => []RecoveryPostcondition
<1>1. Init => RecoveryInv
  BY DEF Init, RecoveryInv
<1>2. Spec => []RecoveryInv
  BY <1>1, RecoveryStep, LockInvariant, PTL DEF Spec
<1>3. LockInv /\ RecoveryInv => RecoveryPostcondition
  <2> SUFFICES ASSUME LockInv, RecoveryInv, NEW p \in Procs, pc[p] = "unlinked", plan[p] # None
               PROVE  path # ino[p] /\ tomb[plan[p].record] = ino[p] /\ Links(ino[p]) = 1
    BY DEF RecoveryPostcondition
  <2>1. path # ino[p] /\ tomb[plan[p].record] = ino[p] /\ ino[p] # None
    BY DEF RecoveryInv, Recovery
  <2>2. plan[p].record \in Records /\ ino[p] \in Inodes
    BY <2>1 DEF LockInv, TypeOK, Decisions
  <2> QED BY <2>1, <2>2, OneTombstone
<1> QED BY <1>2, <1>3, LockInvariant, PTL

\* LockService sees the owner and the path only.
LEMMA ServiceSame ==
    ASSUME path' = path, \A q \in Procs : OwnsFile(q)' <=> OwnsFile(q)
    PROVE  Service!Next
<1>1. {q \in Procs : OwnsFile(q)}' = {q \in Procs : OwnsFile(q)}
  OBVIOUS
<1> QED BY <1>1 DEF Service!Next, Service!Same

\* A process that creates the lock file becomes its user, and was the first to come.
LEMMA ServiceTake == ASSUME LockInv, LockInv', NEW p \in Procs, Create(p) PROVE Service!Next
<1>1. path = None /\ path' # None
  BY LockAssumption DEF Create
<1>2. {q \in Procs : OwnsFile(q)} = {}
  BY <1>1 DEF LockInv, OwnerInv
<1>3. OwnsFile(p)'
  BY DEF Create, Goto, LockInv, TypeOK, OwnsFile
<1>4. {q \in Procs : OwnsFile(q)}' = {p}
  BY <1>3 DEF LockInv, SoleOwner
<1> QED BY <1>1, <1>2, <1>4 DEF Service!Next, Service!Take

\* An unlink ends the use of the one user, or removes a record without user.
LEMMA ServiceUnlink == ASSUME LockInv, LockInv', NEW p \in Procs, Unlink(p) PROVE Service!Next
<1>1. path' = None
  BY DEF Unlink
<1>2. {q \in Procs : OwnsFile(q)}' = {}
  BY <1>1 DEF LockInv, OwnerInv
<1>3. CASE OwnsFile(p)
  <2>1. {q \in Procs : OwnsFile(q)} = {p}
    BY <1>3 DEF LockInv, SoleOwner
  <2>2. path # None
    BY <1>3 DEF LockInv, OwnerInv
  <2> QED BY <1>1, <1>2, <2>1, <2>2 DEF Service!Next, Service!Give
<1>4. CASE ~OwnsFile(p)
  <2>1. pc[p] = "unlink"
    BY <1>4 DEF Unlink, OwnsFile
  <2>2. path # None
    BY <2>1 DEF LockInv, PlanInv, GuardInv, Guards
  <2>3. {q \in Procs : OwnsFile(q)} = {}
    BY <2>1, OwnerExcludesRecovery
  <2> QED BY <1>1, <1>2, <2>2, <2>3 DEF Service!Next, Service!Recover
<1> QED BY <1>3, <1>4

\* A process that dies, or fails to unlink, leaves the record it has created.
LEMMA ServiceLeave ==
    ASSUME LockInv, LockInv', NEW p \in Procs,
           LinkCallFails(p) \/ Finish(p) \/ RecoveryRefused(p) \/ Crash(p)
    PROVE  Service!Next
<1>1. path' = path /\ ~OwnsFile(p)' /\ \A q \in Procs \ {p} : OwnsFile(q)' <=> OwnsFile(q)
  BY SMTT(60) DEF LinkCallFails, Finish, RecoveryRefused, Crash, Goto, LockInv, TypeOK, OwnsFile
<1>2. CASE OwnsFile(p)
  <2>1. {q \in Procs : OwnsFile(q)} = {p} /\ path # None
    BY <1>2 DEF LockInv, SoleOwner, OwnerInv
  <2>2. {q \in Procs : OwnsFile(q)}' = {}
    BY <1>1, <2>1
  <2> QED BY <1>1, <2>1, <2>2 DEF Service!Next, Service!Leave
<1>3. CASE ~OwnsFile(p)
  BY <1>1, <1>3, ServiceSame
<1> QED BY <1>2, <1>3

\* A step between two places of which the process owns the file at both, or at neither.
LEMMA ServiceGoto ==
    ASSUME TypeOK, NEW p \in Procs, NEW label, Goto(p, label), path' = path,
           OwnsFile(p) <=> label \in {"created", "locked", "written", "held", "closed", "cleanup", "discard", "abandon", "release"}
    PROVE  Service!Next
<1>1. \A q \in Procs : OwnsFile(q)' <=> OwnsFile(q)
  BY DEF Goto, TypeOK, OwnsFile
<1> QED BY <1>1, ServiceSame

(***************************************************************************)
(* The lock built from a file, a flock and hard links implements the lock  *)
(* of LockService, for any number of processes and inodes.                 *)
(***************************************************************************)
THEOREM ServiceTheorem == Spec => ImplementsService
<1>1. Init => Service!Init
  BY SMTT(60) DEF Init, Service!Init, OwnsFile
<1>2. ASSUME LockInv, LockInv', [Next]_vars PROVE Service!Next
  <2>1. ASSUME NEW p \in Procs, Acquiring(p) \/ Release(p), ~Create(p) PROVE Service!Next
    <3>1. TypeOK BY <1>2 DEF LockInv
    <3>2. CASE FlockNew(p) \/ WriteRecord(p) \/ Confirm(p) \/ FlockFails(p) \/ AcquireFails(p)
      BY <3>1, <3>2, ServiceGoto DEF FlockNew, WriteRecord, Confirm, FlockFails, AcquireFails, OwnsFile
    <3>3. CASE Cleanup(p)
      <4>1. OwnsFile(p) /\ path' = path BY <3>3 DEF Cleanup, OwnsFile
      <4>2. path = ino[p] BY <1>2, <4>1 DEF LockInv, OwnerInv
      <4>3. Goto(p, "discard") \/ Goto(p, "abandon") BY <3>3, <4>2 DEF Cleanup
      <4> QED BY <3>1, <4>1, <4>3, ServiceGoto
    <3>4. CASE Release(p)
      <4>1. OwnsFile(p) /\ path' = path BY <3>4 DEF Release, OwnsFile
      <4>2. path = ino[p] /\ content[path] = <<p, round[p]>> BY <1>2, <3>4, <4>1 DEF LockInv, OwnerInv, Release
      <4>3. Goto(p, "release") BY <3>4, <4>2 DEF Release
      <4> QED BY <3>1, <4>1, <4>3, ServiceGoto
    <3> QED BY <2>1, <3>2, <3>3, <3>4 DEF Acquiring
  <2>2. ASSUME NEW p \in Procs, Recovering(p), ~RecoveryRefused(p) PROVE Service!Next
    <3>1. TypeOK BY <1>2 DEF LockInv
    <3>2. ASSUME NEW d \in Decisions, BeginRecovery(p, d) PROVE Service!Next
      BY <3>1, <3>2, ServiceGoto DEF BeginRecovery, OwnsFile
    <3>3. CASE OpenGuard(p) \/ FlockGuard(p) \/ Recheck(p)
      BY <3>1, <3>3, ServiceGoto DEF OpenGuard, FlockGuard, Recheck, OwnsFile
    <3>4. CASE Archive(p) \/ VerifyArchive(p)
      BY <3>1, <3>4, ServiceGoto DEF Archive, VerifyArchive, OwnsFile
    <3> QED BY <2>2, <3>2, <3>3, <3>4 DEF Recovering
  <2>3. ASSUME NEW p \in Procs, PidReused(p) PROVE Service!Next
    BY <2>3, ServiceSame DEF PidReused, OwnsFile
  <2>4. ASSUME NEW d \in Decisions, Inspect(d) PROVE Service!Next
    BY <2>4, ServiceSame DEF Inspect, OwnsFile
  <2>5. CASE UNCHANGED vars
    BY <2>5, ServiceSame DEF vars, OwnsFile
  <2> QED BY <1>2, <2>1, <2>2, <2>3, <2>4, <2>5, ServiceTake, ServiceUnlink, ServiceLeave DEF Next, Releasing
<1> QED BY <1>1, <1>2, LockInvariant, PTL DEF Spec, ImplementsService, Service!Spec

(***************************************************************************)
(* TwoLocks: the inductive invariant.  A runner relies on a lock from the  *)
(* step that creates its record to the one that removes it, and the record *)
(* is its own all that time; the workspace lock is never the run lock;     *)
(* what a resumed or a started run reads as its root is what its plan      *)
(* binds.                                                                  *)
(***************************************************************************)
InCall(p) == stage[p] \in {"acquire-run", "read-suite", "acquire-workspace", "check", "execute",
                           "release-workspace", "release-run"}

CallInv ==
    \A p \in Runners :
        /\ InCall(p) => call[p] # Nothing
        /\ stage[p] = "release-workspace" => root[p] # Nothing
        /\ stage[p] \in {"check", "execute", "release-workspace"} => root[p] # call[p].dir

RelyInv == \A p \in Runners, d \in Dirs : Relies(p, d) => lock[d] = p /\ d \notin stuck

LeftInv ==
    \A d \in Dirs :
        /\ lock[d] # Nothing => d \in stuck \/ stage[lock[d]] = "dead" \/ Relies(lock[d], d)
        /\ d \in stuck => lock[d] # Nothing

BindingInv ==
    \A p \in Runners :
        /\ stage[p] = "execute" => bound[call[p].dir] # Nothing /\ bound[call[p].dir].root = root[p]
        /\ stage[p] \in {"acquire-workspace", "check"} /\ call[p].op = "resume" =>
              bound[call[p].dir] # Nothing /\ bound[call[p].dir].root = root[p]

LocksInv == LocksTypeOK /\ CallInv /\ RelyInv /\ LeftInv /\ BindingInv

LEMMA Constants == MaxCalls \in Nat /\ MaxEdits \in Nat /\ Nothing \notin Dirs /\ Nothing \notin Runners
BY LocksAssumption

\* The types of what a runner in a call works with.
LEMMA Facts ==
    ASSUME LocksTypeOK, CallInv, NEW p \in Runners
    PROVE  /\ Nothing \notin Dirs /\ Nothing \notin Runners /\ p # Nothing
           /\ root[p] \in Roots /\ (root[p] # Nothing => root[p] \in Dirs)
           /\ InCall(p) => call[p] \in Calls /\ call[p].dir \in Dirs
BY Constants DEF LocksTypeOK, CallInv, Dirs, Roots, Calls

LEMMA InitLocks == LocksInit => LocksInv
<1> SUFFICES ASSUME LocksInit PROVE LocksInv
  OBVIOUS
<1>1. LocksTypeOK
  <2>1. lock \in [Dirs -> Runners \cup {Nothing}] /\ bound \in [Dirs -> Plans \cup {Nothing}]
    BY DEF LocksInit
  <2>2. call \in [Runners -> Calls \cup {Nothing}] /\ root \in [Runners -> Roots] /\ stage \in [Runners -> Stages]
    BY DEF LocksInit, Stages, Roots
  <2> QED BY SMTT(60), <2>1, <2>2, Constants DEF LocksInit, LocksTypeOK
<1> QED BY <1>1 DEF LocksInit, LocksInv, CallInv, InCall, RelyInv, Relies, LeftInv, BindingInv

(***************************************************************************)
(* A step of runner p keeps the lock conjuncts when it touches only locks  *)
(* that are free or its own, and afterwards relies on exactly the locks it *)
(* has, apart from those it could not remove.                              *)
(***************************************************************************)
Touches(p) ==
    /\ stuck \subseteq stuck'
    /\ \A d \in Dirs :
        /\ lock[d] \notin {Nothing, p} => lock'[d] = lock[d] /\ (d \in stuck' <=> d \in stuck)
        /\ lock[d] \in {Nothing, p} => lock'[d] \in {Nothing, p}

Accounts(p) ==
    \A d \in Dirs :
        /\ Relies(p, d)' => lock'[d] = p /\ d \notin stuck'
        /\ lock'[d] = p => d \in stuck' \/ stage'[p] = "dead" \/ Relies(p, d)'
        /\ d \in stuck' => lock'[d] # Nothing

OthersRest(p) ==
    \A q \in Runners \ {p} : stage'[q] = stage[q] /\ call'[q] = call[q] /\ root'[q] = root[q]

LEMMA LockConjuncts ==
    ASSUME LocksInv, NEW p \in Runners, OthersRest(p), Touches(p), Accounts(p)
    PROVE  RelyInv' /\ LeftInv'
<1>0. RelyInv /\ LeftInv /\ Nothing \notin Runners /\ lock \in [Dirs -> Runners \cup {Nothing}]
  BY Constants DEF LocksInv, LocksTypeOK
<1>1. ASSUME NEW q \in Runners \ {p}, NEW d \in Dirs PROVE Relies(q, d)' <=> Relies(q, d)
  BY <1>1 DEF OthersRest, Relies
<1>2. ASSUME NEW q \in Runners, NEW d \in Dirs, Relies(q, d)' PROVE lock'[d] = q /\ d \notin stuck'
  <2>1. CASE q = p
    BY <1>2, <2>1 DEF Accounts
  <2>2. CASE q # p
    BY SMTT(60), <1>0, <1>1, <1>2, <2>2 DEF Touches, RelyInv
  <2> QED BY <2>1, <2>2
<1>3. ASSUME NEW d \in Dirs, lock'[d] # Nothing
      PROVE  d \in stuck' \/ stage'[lock'[d]] = "dead" \/ Relies(lock[d], d)'
  <2>1. CASE lock'[d] = p
    <3>1. CASE lock[d] = p
      BY <2>1, <3>1 DEF Accounts
    <3> QED BY <2>1 DEF Accounts
  <2>2. CASE lock'[d] # p
    <3>1. lock[d] \in Runners \ {p} /\ lock'[d] = lock[d] /\ (d \in stuck' <=> d \in stuck)
      BY <1>0, <1>3, <2>2 DEF Touches
    <3> QED BY <1>0, <1>1, <2>2, <3>1 DEF OthersRest, LeftInv
  <2> QED BY <2>1, <2>2
<1>4. ASSUME NEW d \in Dirs, d \in stuck' PROVE lock'[d] # Nothing
  BY <1>4 DEF Accounts
<1> QED BY <1>2, <1>3, <1>4 DEF RelyInv, LeftInv

\* p takes the lock of its run directory.
LEMMA LockRunStep ==
    ASSUME LocksInv, NEW p \in Runners, LockRun(p)
    PROVE  LocksInv' /\ OthersRest(p) /\ Touches(p)
<1>1. LocksTypeOK /\ CallInv /\ RelyInv /\ LeftInv /\ BindingInv
  BY DEF LocksInv
<1>2. /\ Nothing \notin Dirs /\ Nothing \notin Runners /\ p # Nothing
      /\ root[p] \in Roots /\ (root[p] # Nothing => root[p] \in Dirs)
      /\ InCall(p) => call[p] \in Calls /\ call[p].dir \in Dirs
  BY <1>1, Facts
<1>3. LocksTypeOK'
  BY <1>1, <1>2 DEF LockRun, Enter, LocksTypeOK, Stages, InCall
<1>4. CallInv'
  BY SMTT(60), <1>1, <1>2 DEF LockRun, Enter, LocksTypeOK, CallInv, InCall, RelyInv, Relies
<1>5. OthersRest(p)
  BY <1>1 DEF LockRun, Enter, LocksTypeOK, OthersRest
<1>6. Touches(p)
  BY SMTT(60), <1>1, <1>2 DEF LockRun, Enter, LocksTypeOK, InCall, CallInv, RelyInv, Relies, Touches
<1>7. Accounts(p)
  <2>1. /\ lock[call[p].dir] = Nothing /\ lock' = [lock EXCEPT ![call[p].dir] = p] /\ call[p].dir \in Dirs
        /\ stage'[p] = "read-suite" /\ call' = call /\ root' = root /\ stuck' = stuck
    BY <1>1, <1>2 DEF LockRun, Enter, LocksTypeOK, InCall
  <2>2. call[p].dir \notin stuck
    BY <1>1, <2>1 DEF LeftInv
  <2>3. \A d \in Dirs : Relies(p, d)' <=> d = call[p].dir \/ Relies(p, d)
    BY <1>2, <2>1 DEF LockRun, Relies
  <2>4. \A d \in Dirs : lock[d] = p => stage[p] # "dead"
    BY DEF LockRun
  <2> QED BY SMTT(60), <1>1, <1>2, <2>1, <2>2, <2>3, <2>4 DEF RelyInv, LeftInv, LocksTypeOK, Accounts
<1>8. BindingInv'
  BY <1>1, <1>2 DEF LockRun, Enter, LocksTypeOK, CallInv, InCall, BindingInv, Plans, Calls
<1> QED BY <1>3, <1>4, <1>5, <1>6, <1>7, <1>8, LockConjuncts DEF LocksInv

\* The lock of the run directory is refused.
LEMMA LockRunFailsStep ==
    ASSUME LocksInv, NEW p \in Runners, LockRunFails(p)
    PROVE  LocksInv' /\ OthersRest(p) /\ Touches(p)
<1>1. LocksTypeOK /\ CallInv /\ RelyInv /\ LeftInv /\ BindingInv
  BY DEF LocksInv
<1>2. /\ Nothing \notin Dirs /\ Nothing \notin Runners /\ p # Nothing
      /\ root[p] \in Roots /\ (root[p] # Nothing => root[p] \in Dirs)
      /\ InCall(p) => call[p] \in Calls /\ call[p].dir \in Dirs
  BY <1>1, Facts
<1>3. LocksTypeOK'
  BY SMTT(60), <1>1, <1>2 DEF LockRunFails, LockFails, Return, Enter, LocksTypeOK, Stages, InCall, Roots
<1>4. CallInv'
  BY SMTT(60), <1>1, <1>2 DEF LockRunFails, LockFails, Return, Enter, LocksTypeOK, CallInv, InCall, RelyInv, Relies
<1>5. OthersRest(p)
  BY <1>1 DEF LockRunFails, LockFails, Return, Enter, LocksTypeOK, OthersRest
<1>6. Touches(p)
  BY SMTT(60), <1>1, <1>2 DEF LockRunFails, LockFails, Return, Enter, LocksTypeOK, InCall, CallInv, RelyInv, Relies, Touches
<1>7. Accounts(p)
  BY SMTT(60), <1>1, <1>2 DEF LockRunFails, LockFails, Return, Enter, LocksTypeOK, InCall, CallInv, RelyInv, LeftInv, Relies, Accounts
<1>8. BindingInv'
  BY <1>1, <1>2 DEF LockRunFails, LockFails, Return, Enter, LocksTypeOK, CallInv, InCall, BindingInv, Plans, Calls
<1> QED BY <1>3, <1>4, <1>5, <1>6, <1>7, <1>8, LockConjuncts DEF LocksInv

\* start_run reads suite.toml.
LEMMA LoadSuiteStep ==
    ASSUME LocksInv, NEW p \in Runners, LoadSuite(p)
    PROVE  LocksInv' /\ OthersRest(p) /\ Touches(p)
<1>1. LocksTypeOK /\ CallInv /\ RelyInv /\ LeftInv /\ BindingInv
  BY DEF LocksInv
<1>2. /\ Nothing \notin Dirs /\ Nothing \notin Runners /\ p # Nothing
      /\ root[p] \in Roots /\ (root[p] # Nothing => root[p] \in Dirs)
      /\ InCall(p) => call[p] \in Calls /\ call[p].dir \in Dirs
  BY <1>1, Facts
<1>3. LocksTypeOK'
  <2>1. call[p].suite \in Suites
    BY <1>2 DEF LoadSuite, InCall, Calls
  <2> QED BY <1>1, <1>2, <2>1 DEF LoadSuite, Enter, LocksTypeOK, Stages, InCall, Roots
<1>4. CallInv'
  BY <1>1, <1>2 DEF LoadSuite, Enter, LocksTypeOK, CallInv, InCall, RelyInv, Relies
<1>5. OthersRest(p)
  BY <1>1 DEF LoadSuite, Enter, LocksTypeOK, OthersRest
<1>6. Touches(p)
  BY <1>1, <1>2 DEF LoadSuite, Enter, LocksTypeOK, InCall, CallInv, RelyInv, Relies, Touches
<1>7. Accounts(p)
  BY SMTT(60), <1>1, <1>2 DEF LoadSuite, Enter, LocksTypeOK, InCall, CallInv, RelyInv, LeftInv, Relies, Accounts
<1>8. BindingInv'
  BY <1>1, <1>2 DEF LoadSuite, Enter, LocksTypeOK, CallInv, InCall, BindingInv, Plans, Calls
<1> QED BY <1>3, <1>4, <1>5, <1>6, <1>7, <1>8, LockConjuncts DEF LocksInv

\* resume_run reads the suite.toml its plan binds.
LEMMA ReadBoundSuiteStep ==
    ASSUME LocksInv, NEW p \in Runners, ReadBoundSuite(p)
    PROVE  LocksInv' /\ OthersRest(p) /\ Touches(p)
<1>1. LocksTypeOK /\ CallInv /\ RelyInv /\ LeftInv /\ BindingInv
  BY DEF LocksInv
<1>2. /\ Nothing \notin Dirs /\ Nothing \notin Runners /\ p # Nothing
      /\ root[p] \in Roots /\ (root[p] # Nothing => root[p] \in Dirs)
      /\ InCall(p) => call[p] \in Calls /\ call[p].dir \in Dirs
  BY <1>1, Facts
<1>3. LocksTypeOK'
  BY <1>1, <1>2 DEF ReadBoundSuite, BoundSuite, Enter, LocksTypeOK, Stages, InCall, Roots, Plans
<1>4. CallInv'
  BY SMTT(60), <1>1, <1>2 DEF ReadBoundSuite, BoundSuite, Enter, LocksTypeOK, CallInv, InCall, RelyInv, Relies
<1>5. OthersRest(p)
  BY <1>1 DEF ReadBoundSuite, BoundSuite, Enter, LocksTypeOK, OthersRest
<1>6. Touches(p)
  BY <1>1, <1>2 DEF ReadBoundSuite, BoundSuite, Enter, LocksTypeOK, InCall, CallInv, RelyInv, Relies, Touches
<1>7. Accounts(p)
  BY SMTT(60), <1>1, <1>2 DEF ReadBoundSuite, BoundSuite, Enter, LocksTypeOK, InCall, CallInv, RelyInv, LeftInv, Relies, Accounts
<1>8. BindingInv'
  BY <1>1, <1>2 DEF ReadBoundSuite, BoundSuite, Enter, LocksTypeOK, CallInv, InCall, BindingInv, Plans, Calls
<1> QED BY <1>3, <1>4, <1>5, <1>6, <1>7, <1>8, LockConjuncts DEF LocksInv

\* p takes the lock of the workspace root.
LEMMA LockWorkspaceStep ==
    ASSUME LocksInv, NEW p \in Runners, LockWorkspace(p)
    PROVE  LocksInv' /\ OthersRest(p) /\ Touches(p)
<1>1. LocksTypeOK /\ CallInv /\ RelyInv /\ LeftInv /\ BindingInv
  BY DEF LocksInv
<1>2. /\ Nothing \notin Dirs /\ Nothing \notin Runners /\ p # Nothing
      /\ root[p] \in Roots /\ (root[p] # Nothing => root[p] \in Dirs)
      /\ InCall(p) => call[p] \in Calls /\ call[p].dir \in Dirs
  BY <1>1, Facts
<1>3. LocksTypeOK'
  BY <1>1, <1>2 DEF LockWorkspace, Enter, LocksTypeOK, Stages, InCall
<1>4. CallInv'
  BY SMTT(60), <1>1, <1>2 DEF LockWorkspace, Enter, LocksTypeOK, CallInv, InCall, RelyInv, Relies
<1>5. OthersRest(p)
  BY <1>1 DEF LockWorkspace, Enter, LocksTypeOK, OthersRest
<1>6. Touches(p)
  BY SMTT(60), <1>1, <1>2 DEF LockWorkspace, Enter, LocksTypeOK, InCall, CallInv, RelyInv, Relies, Touches
<1>7. Accounts(p)
  <2>1. /\ lock[root[p]] = Nothing /\ lock' = [lock EXCEPT ![root[p]] = p] /\ root[p] \in Dirs
        /\ stage'[p] = "check" /\ call' = call /\ root' = root /\ stuck' = stuck
    BY <1>1, <1>2 DEF LockWorkspace, Enter, LocksTypeOK, InCall
  <2>2. root[p] \notin stuck
    BY <1>1, <2>1 DEF LeftInv
  <2>3. \A d \in Dirs : Relies(p, d)' <=> d = root[p] \/ Relies(p, d)
    BY <1>2, <2>1 DEF LockWorkspace, Relies
  <2>4. \A d \in Dirs : lock[d] = p => stage[p] # "dead"
    BY DEF LockWorkspace
  <2> QED BY SMTT(60), <1>1, <1>2, <2>1, <2>2, <2>3, <2>4 DEF RelyInv, LeftInv, LocksTypeOK, Accounts
<1>8. BindingInv'
  BY <1>1, <1>2 DEF LockWorkspace, Enter, LocksTypeOK, CallInv, InCall, BindingInv, Plans, Calls
<1> QED BY <1>3, <1>4, <1>5, <1>6, <1>7, <1>8, LockConjuncts DEF LocksInv

\* There is no workspace to lock.
LEMMA NoWorkspaceStep ==
    ASSUME LocksInv, NEW p \in Runners, NoWorkspace(p)
    PROVE  LocksInv' /\ OthersRest(p) /\ Touches(p)
<1>1. LocksTypeOK /\ CallInv /\ RelyInv /\ LeftInv /\ BindingInv
  BY DEF LocksInv
<1>2. /\ Nothing \notin Dirs /\ Nothing \notin Runners /\ p # Nothing
      /\ root[p] \in Roots /\ (root[p] # Nothing => root[p] \in Dirs)
      /\ InCall(p) => call[p] \in Calls /\ call[p].dir \in Dirs
  BY <1>1, Facts
<1>3. LocksTypeOK'
  BY <1>1, <1>2 DEF NoWorkspace, Enter, LocksTypeOK, Stages, InCall
<1>4. CallInv'
  BY SMTT(60), <1>1, <1>2 DEF NoWorkspace, Enter, LocksTypeOK, CallInv, InCall, RelyInv, Relies
<1>5. OthersRest(p)
  BY <1>1 DEF NoWorkspace, Enter, LocksTypeOK, OthersRest
<1>6. Touches(p)
  BY <1>1, <1>2 DEF NoWorkspace, Enter, LocksTypeOK, InCall, CallInv, RelyInv, Relies, Touches
<1>7. Accounts(p)
  BY SMTT(60), <1>1, <1>2 DEF NoWorkspace, Enter, LocksTypeOK, InCall, CallInv, RelyInv, LeftInv, Relies, Accounts
<1>8. BindingInv'
  BY <1>1, <1>2 DEF NoWorkspace, Enter, LocksTypeOK, CallInv, InCall, BindingInv, Plans, Calls
<1> QED BY <1>3, <1>4, <1>5, <1>6, <1>7, <1>8, LockConjuncts DEF LocksInv

\* The lock of the workspace root is refused.
LEMMA LockWorkspaceFailsStep ==
    ASSUME LocksInv, NEW p \in Runners, LockWorkspaceFails(p)
    PROVE  LocksInv' /\ OthersRest(p) /\ Touches(p)
<1>1. LocksTypeOK /\ CallInv /\ RelyInv /\ LeftInv /\ BindingInv
  BY DEF LocksInv
<1>2. /\ Nothing \notin Dirs /\ Nothing \notin Runners /\ p # Nothing
      /\ root[p] \in Roots /\ (root[p] # Nothing => root[p] \in Dirs)
      /\ InCall(p) => call[p] \in Calls /\ call[p].dir \in Dirs
  BY <1>1, Facts
<1>3. LocksTypeOK'
  BY SMTT(60), <1>1, <1>2 DEF LockWorkspaceFails, LockFails, Enter, LocksTypeOK, Stages, InCall
<1>4. CallInv'
  BY SMTT(60), <1>1, <1>2 DEF LockWorkspaceFails, LockFails, Enter, LocksTypeOK, CallInv, InCall, RelyInv, Relies
<1>5. OthersRest(p)
  BY <1>1 DEF LockWorkspaceFails, LockFails, Enter, LocksTypeOK, OthersRest
<1>6. Touches(p)
  BY SMTT(60), <1>1, <1>2 DEF LockWorkspaceFails, LockFails, Enter, LocksTypeOK, InCall, CallInv, RelyInv, Relies, Touches
<1>7. Accounts(p)
  BY SMTT(60), <1>1, <1>2 DEF LockWorkspaceFails, LockFails, Enter, LocksTypeOK, InCall, CallInv, RelyInv, LeftInv, Relies, Accounts
<1>8. BindingInv'
  BY <1>1, <1>2 DEF LockWorkspaceFails, LockFails, Enter, LocksTypeOK, CallInv, InCall, BindingInv, Plans, Calls
<1> QED BY <1>3, <1>4, <1>5, <1>6, <1>7, <1>8, LockConjuncts DEF LocksInv

\* start_run writes the plan.
LEMMA StartCheckedStep ==
    ASSUME LocksInv, NEW p \in Runners, StartChecked(p)
    PROVE  LocksInv' /\ OthersRest(p) /\ Touches(p)
<1>1. LocksTypeOK /\ CallInv /\ RelyInv /\ LeftInv /\ BindingInv
  BY DEF LocksInv
<1>2. /\ Nothing \notin Dirs /\ Nothing \notin Runners /\ p # Nothing
      /\ root[p] \in Roots /\ (root[p] # Nothing => root[p] \in Dirs)
      /\ InCall(p) => call[p] \in Calls /\ call[p].dir \in Dirs
  BY <1>1, Facts
<1>3. LocksTypeOK'
  BY <1>1, <1>2 DEF StartChecked, Enter, LocksTypeOK, Stages, InCall, Plans, Calls
<1>4. CallInv'
  BY SMTT(60), <1>1, <1>2 DEF StartChecked, Enter, LocksTypeOK, CallInv, InCall, RelyInv, Relies
<1>5. OthersRest(p)
  BY <1>1 DEF StartChecked, Enter, LocksTypeOK, OthersRest
<1>6. Touches(p)
  BY <1>1, <1>2 DEF StartChecked, Enter, LocksTypeOK, InCall, CallInv, RelyInv, Relies, Touches
<1>7. Accounts(p)
  BY SMTT(60), <1>1, <1>2 DEF StartChecked, Enter, LocksTypeOK, InCall, CallInv, RelyInv, LeftInv, Relies, Accounts
<1>8. BindingInv'
  <2>1. bound[call[p].dir] = Nothing /\ bound'[call[p].dir] = [suite |-> call[p].suite, root |-> root[p]]
        /\ \A d \in Dirs : d # call[p].dir => bound'[d] = bound[d]
    BY <1>1, <1>2 DEF StartChecked, LocksTypeOK, InCall
  <2>2. [suite |-> call[p].suite, root |-> root[p]] # Nothing
    <3>1. InCall(p) /\ call[p].op = "start" BY DEF StartChecked, InCall
    <3>2. call[p].suite \in Suites
      <4>1. call[p] \in Calls BY <1>2, <3>1
      <4> QED BY <3>1, <4>1 DEF Calls
    <3>3. [suite |-> call[p].suite, root |-> root[p]] \in Plans BY <1>2, <3>2 DEF Plans
    <3> QED BY <3>3, LocksAssumption
  <2>3. stage' = [stage EXCEPT ![p] = "execute"] /\ call[p].op = "start" /\ call' = call /\ root' = root
    BY DEF StartChecked, Enter
  <2>4. ASSUME NEW q \in Runners, InCall(q) PROVE call[q].dir \in Dirs
    BY <1>1, <2>4, Facts
  <2>5. ASSUME NEW q \in Runners, stage'[q] = "execute"
        PROVE  bound'[call[q].dir] # Nothing /\ bound'[call[q].dir].root = root[q]
    <3>1. CASE q = p
      BY SMTT(60), <2>1, <2>2, <3>1
    <3>2. CASE q # p
      BY <1>1, <2>1, <2>3, <2>4, <2>5, <3>2 DEF BindingInv, LocksTypeOK, InCall
    <3> QED BY <3>1, <3>2
  <2>6. ASSUME NEW q \in Runners, stage'[q] \in {"acquire-workspace", "check"}, call[q].op = "resume"
        PROVE  bound'[call[q].dir] # Nothing /\ bound'[call[q].dir].root = root[q]
    <3>1. q # p
      BY <2>3, <2>6
    <3> QED BY <1>1, <2>1, <2>3, <2>4, <2>6, <3>1 DEF BindingInv, LocksTypeOK, InCall
  <2> QED BY <2>3, <2>5, <2>6 DEF BindingInv
<1> QED BY <1>3, <1>4, <1>5, <1>6, <1>7, <1>8, LockConjuncts DEF LocksInv

\* resume_run has loaded its context.
LEMMA ResumeCheckedStep ==
    ASSUME LocksInv, NEW p \in Runners, ResumeChecked(p)
    PROVE  LocksInv' /\ OthersRest(p) /\ Touches(p)
<1>1. LocksTypeOK /\ CallInv /\ RelyInv /\ LeftInv /\ BindingInv
  BY DEF LocksInv
<1>2. /\ Nothing \notin Dirs /\ Nothing \notin Runners /\ p # Nothing
      /\ root[p] \in Roots /\ (root[p] # Nothing => root[p] \in Dirs)
      /\ InCall(p) => call[p] \in Calls /\ call[p].dir \in Dirs
  BY <1>1, Facts
<1>3. LocksTypeOK'
  BY <1>1, <1>2 DEF ResumeChecked, BoundSuite, Enter, LocksTypeOK, Stages, InCall
<1>4. CallInv'
  <2>1. stage' = [stage EXCEPT ![p] = "execute"] /\ stage[p] = "check" /\ call' = call /\ root' = root
    BY DEF ResumeChecked, Enter
  <2> QED BY <1>1, <2>1 DEF LocksTypeOK, CallInv, InCall
<1>5. OthersRest(p)
  BY <1>1 DEF ResumeChecked, BoundSuite, Enter, LocksTypeOK, OthersRest
<1>6. Touches(p)
  BY <1>1, <1>2 DEF ResumeChecked, BoundSuite, Enter, LocksTypeOK, InCall, CallInv, RelyInv, Relies, Touches
<1>7. Accounts(p)
  <2>1. /\ stage' = [stage EXCEPT ![p] = "execute"] /\ stage[p] = "check"
        /\ call' = call /\ root' = root /\ lock' = lock /\ stuck' = stuck
    BY DEF ResumeChecked, Enter
  <2>2. stage'[p] = "execute" BY <1>1, <2>1 DEF LocksTypeOK
  <2>3. \A d \in Dirs : Relies(p, d)' <=> Relies(p, d)
    BY <2>1, <2>2 DEF Relies
  <2>4. ASSUME NEW d \in Dirs
        PROVE  /\ Relies(p, d)' => lock'[d] = p /\ d \notin stuck'
               /\ lock'[d] = p => d \in stuck' \/ Relies(p, d)'
               /\ d \in stuck' => lock'[d] # Nothing
    <3>1. Relies(p, d) => lock[d] = p /\ d \notin stuck BY <1>1 DEF RelyInv
    <3>2. lock[d] = p => d \in stuck \/ Relies(p, d)
      <4>1. lock[d] = p => d \in stuck \/ stage[lock[d]] = "dead" \/ Relies(lock[d], d) BY <1>1, <1>2 DEF LeftInv
      <4> QED BY <2>1, <4>1
    <3>3. d \in stuck => lock[d] # Nothing BY <1>1 DEF LeftInv
    <3> QED BY <2>1, <2>3, <3>1, <3>2, <3>3
  <2> QED BY <2>4 DEF Accounts
<1>8. BindingInv'
  BY <1>1, <1>2 DEF ResumeChecked, BoundSuite, Enter, LocksTypeOK, CallInv, InCall, BindingInv, Plans, Calls
<1> QED BY <1>3, <1>4, <1>5, <1>6, <1>7, <1>8, LockConjuncts DEF LocksInv

\* A task is launched.
LEMMA LaunchTaskStep ==
    ASSUME LocksInv, NEW p \in Runners, LaunchTask(p)
    PROVE  LocksInv' /\ OthersRest(p) /\ Touches(p)
<1>1. LocksTypeOK /\ CallInv /\ RelyInv /\ LeftInv /\ BindingInv
  BY DEF LocksInv
<1>2. /\ Nothing \notin Dirs /\ Nothing \notin Runners /\ p # Nothing
      /\ root[p] \in Roots /\ (root[p] # Nothing => root[p] \in Dirs)
      /\ InCall(p) => call[p] \in Calls /\ call[p].dir \in Dirs
  BY <1>1, Facts
<1>3. LocksTypeOK'
  BY <1>1, <1>2 DEF LaunchTask, LocksTypeOK, Stages, InCall
<1>4. CallInv'
  BY <1>1, <1>2 DEF LaunchTask, LocksTypeOK, CallInv, InCall, RelyInv, Relies
<1>5. OthersRest(p)
  BY <1>1 DEF LaunchTask, LocksTypeOK, OthersRest
<1>6. Touches(p)
  BY <1>1, <1>2 DEF LaunchTask, LocksTypeOK, InCall, CallInv, RelyInv, Relies, Touches
<1>7. Accounts(p)
  BY <1>1, <1>2 DEF LaunchTask, LocksTypeOK, InCall, CallInv, RelyInv, LeftInv, Relies, Accounts
<1>8. BindingInv'
  BY <1>1, <1>2 DEF LaunchTask, LocksTypeOK, CallInv, InCall, BindingInv, Plans, Calls
<1> QED BY <1>3, <1>4, <1>5, <1>6, <1>7, <1>8, LockConjuncts DEF LocksInv

\* The operation ends.
LEMMA LeaveStep ==
    ASSUME LocksInv, NEW p \in Runners, Leave(p)
    PROVE  LocksInv' /\ OthersRest(p) /\ Touches(p)
<1>1. LocksTypeOK /\ CallInv /\ RelyInv /\ LeftInv /\ BindingInv
  BY DEF LocksInv
<1>2. /\ Nothing \notin Dirs /\ Nothing \notin Runners /\ p # Nothing
      /\ root[p] \in Roots /\ (root[p] # Nothing => root[p] \in Dirs)
      /\ InCall(p) => call[p] \in Calls /\ call[p].dir \in Dirs
  BY <1>1, Facts
<1>3. LocksTypeOK'
  BY <1>1, <1>2 DEF Leave, Enter, LocksTypeOK, Stages, InCall
<1>4. CallInv'
  BY SMTT(60), <1>1, <1>2 DEF Leave, Enter, LocksTypeOK, CallInv, InCall, RelyInv, Relies
<1>5. OthersRest(p)
  BY <1>1 DEF Leave, Enter, LocksTypeOK, OthersRest
<1>6. Touches(p)
  BY <1>1, <1>2 DEF Leave, Enter, LocksTypeOK, InCall, CallInv, RelyInv, Relies, Touches
<1>7. Accounts(p)
  BY SMTT(60), <1>1, <1>2 DEF Leave, Enter, LocksTypeOK, InCall, CallInv, RelyInv, LeftInv, Relies, Accounts
<1>8. BindingInv'
  BY <1>1, <1>2 DEF Leave, Enter, LocksTypeOK, CallInv, InCall, BindingInv, Plans, Calls
<1> QED BY <1>3, <1>4, <1>5, <1>6, <1>7, <1>8, LockConjuncts DEF LocksInv

\* The workspace lock is released.
LEMMA ReleaseWorkspaceStep ==
    ASSUME LocksInv, NEW p \in Runners, ReleaseWorkspace(p)
    PROVE  LocksInv' /\ OthersRest(p) /\ Touches(p)
<1>1. LocksTypeOK /\ CallInv /\ RelyInv /\ LeftInv /\ BindingInv
  BY DEF LocksInv
<1>2. /\ Nothing \notin Dirs /\ Nothing \notin Runners /\ p # Nothing
      /\ root[p] \in Roots /\ (root[p] # Nothing => root[p] \in Dirs)
      /\ InCall(p) => call[p] \in Calls /\ call[p].dir \in Dirs
  BY <1>1, Facts
<1>3. LocksTypeOK'
  BY <1>1, <1>2 DEF ReleaseWorkspace, Enter, LocksTypeOK, Stages, InCall
<1>4. CallInv'
  BY <1>1, <1>2 DEF ReleaseWorkspace, Enter, LocksTypeOK, CallInv, InCall, RelyInv, Relies
<1>5. OthersRest(p)
  BY <1>1 DEF ReleaseWorkspace, Enter, LocksTypeOK, OthersRest
<1>6. Touches(p)
  BY <1>1, <1>2 DEF ReleaseWorkspace, Enter, LocksTypeOK, InCall, CallInv, RelyInv, Relies, Touches
<1>7. Accounts(p)
  BY SMTT(60), <1>1, <1>2 DEF ReleaseWorkspace, Enter, LocksTypeOK, InCall, CallInv, RelyInv, LeftInv, Relies, Accounts
<1>8. BindingInv'
  BY <1>1, <1>2 DEF ReleaseWorkspace, Enter, LocksTypeOK, CallInv, InCall, BindingInv, Plans, Calls
<1> QED BY <1>3, <1>4, <1>5, <1>6, <1>7, <1>8, LockConjuncts DEF LocksInv

\* The workspace lock cannot be removed.
LEMMA ReleaseWorkspaceFailsStep ==
    ASSUME LocksInv, NEW p \in Runners, ReleaseWorkspaceFails(p)
    PROVE  LocksInv' /\ OthersRest(p) /\ Touches(p)
<1>1. LocksTypeOK /\ CallInv /\ RelyInv /\ LeftInv /\ BindingInv
  BY DEF LocksInv
<1>2. /\ Nothing \notin Dirs /\ Nothing \notin Runners /\ p # Nothing
      /\ root[p] \in Roots /\ (root[p] # Nothing => root[p] \in Dirs)
      /\ InCall(p) => call[p] \in Calls /\ call[p].dir \in Dirs
  BY <1>1, Facts
<1>3. LocksTypeOK'
  BY <1>1, <1>2 DEF ReleaseWorkspaceFails, Enter, LocksTypeOK, CallInv, Stages, InCall
<1>4. CallInv'
  BY SMTT(60), <1>1, <1>2 DEF ReleaseWorkspaceFails, Enter, LocksTypeOK, CallInv, InCall, RelyInv, Relies
<1>5. OthersRest(p)
  BY <1>1 DEF ReleaseWorkspaceFails, Enter, LocksTypeOK, OthersRest
<1>6. Touches(p)
  BY <1>1, <1>2 DEF ReleaseWorkspaceFails, Enter, LocksTypeOK, InCall, CallInv, RelyInv, Relies, Touches
<1>7. Accounts(p)
  BY SMTT(60), <1>1, <1>2 DEF ReleaseWorkspaceFails, Enter, LocksTypeOK, InCall, CallInv, RelyInv, LeftInv, Relies, Accounts
<1>8. BindingInv'
  BY <1>1, <1>2 DEF ReleaseWorkspaceFails, Enter, LocksTypeOK, CallInv, InCall, BindingInv, Plans, Calls
<1> QED BY <1>3, <1>4, <1>5, <1>6, <1>7, <1>8, LockConjuncts DEF LocksInv

\* The run lock is released.
LEMMA ReleaseRunStep ==
    ASSUME LocksInv, NEW p \in Runners, ReleaseRun(p)
    PROVE  LocksInv' /\ OthersRest(p) /\ Touches(p)
<1>1. LocksTypeOK /\ CallInv /\ RelyInv /\ LeftInv /\ BindingInv
  BY DEF LocksInv
<1>2. /\ Nothing \notin Dirs /\ Nothing \notin Runners /\ p # Nothing
      /\ root[p] \in Roots /\ (root[p] # Nothing => root[p] \in Dirs)
      /\ InCall(p) => call[p] \in Calls /\ call[p].dir \in Dirs
  BY <1>1, Facts
<1>3. LocksTypeOK'
  BY <1>1, <1>2 DEF ReleaseRun, Return, Enter, LocksTypeOK, Stages, InCall, Roots
<1>4. CallInv'
  BY <1>1, <1>2 DEF ReleaseRun, Return, Enter, LocksTypeOK, CallInv, InCall, RelyInv, Relies
<1>5. OthersRest(p)
  BY <1>1 DEF ReleaseRun, Return, Enter, LocksTypeOK, OthersRest
<1>6. Touches(p)
  BY <1>1, <1>2 DEF ReleaseRun, Return, Enter, LocksTypeOK, InCall, CallInv, RelyInv, Relies, Touches
<1>7. Accounts(p)
  BY SMTT(60), <1>1, <1>2 DEF ReleaseRun, Return, Enter, LocksTypeOK, InCall, CallInv, RelyInv, LeftInv, Relies, Accounts
<1>8. BindingInv'
  BY <1>1, <1>2 DEF ReleaseRun, Return, Enter, LocksTypeOK, CallInv, InCall, BindingInv, Plans, Calls
<1> QED BY <1>3, <1>4, <1>5, <1>6, <1>7, <1>8, LockConjuncts DEF LocksInv

\* The run lock cannot be removed.
LEMMA ReleaseRunFailsStep ==
    ASSUME LocksInv, NEW p \in Runners, ReleaseRunFails(p)
    PROVE  LocksInv' /\ OthersRest(p) /\ Touches(p)
<1>1. LocksTypeOK /\ CallInv /\ RelyInv /\ LeftInv /\ BindingInv
  BY DEF LocksInv
<1>2. /\ Nothing \notin Dirs /\ Nothing \notin Runners /\ p # Nothing
      /\ root[p] \in Roots /\ (root[p] # Nothing => root[p] \in Dirs)
      /\ InCall(p) => call[p] \in Calls /\ call[p].dir \in Dirs
  BY <1>1, Facts
<1>3. LocksTypeOK'
  BY <1>1, <1>2 DEF ReleaseRunFails, Return, Enter, LocksTypeOK, Stages, InCall, Roots
<1>4. CallInv'
  BY <1>1, <1>2 DEF ReleaseRunFails, Return, Enter, LocksTypeOK, CallInv, InCall, RelyInv, Relies
<1>5. OthersRest(p)
  BY <1>1 DEF ReleaseRunFails, Return, Enter, LocksTypeOK, OthersRest
<1>6. Touches(p)
  BY <1>1, <1>2 DEF ReleaseRunFails, Return, Enter, LocksTypeOK, InCall, CallInv, RelyInv, Relies, Touches
<1>7. Accounts(p)
  BY <1>1, <1>2 DEF ReleaseRunFails, Return, Enter, LocksTypeOK, InCall, CallInv, RelyInv, LeftInv, Relies, Accounts
<1>8. BindingInv'
  BY <1>1, <1>2 DEF ReleaseRunFails, Return, Enter, LocksTypeOK, CallInv, InCall, BindingInv, Plans, Calls
<1> QED BY <1>3, <1>4, <1>5, <1>6, <1>7, <1>8, LockConjuncts DEF LocksInv

\* A runner dies.
LEMMA DieStep ==
    ASSUME LocksInv, NEW p \in Runners, Die(p)
    PROVE  LocksInv' /\ OthersRest(p) /\ Touches(p)
<1>1. LocksTypeOK /\ CallInv /\ RelyInv /\ LeftInv /\ BindingInv
  BY DEF LocksInv
<1>2. /\ Nothing \notin Dirs /\ Nothing \notin Runners /\ p # Nothing
      /\ root[p] \in Roots /\ (root[p] # Nothing => root[p] \in Dirs)
      /\ InCall(p) => call[p] \in Calls /\ call[p].dir \in Dirs
  BY <1>1, Facts
<1>3. LocksTypeOK'
  BY <1>1, <1>2 DEF Die, Return, Enter, LocksTypeOK, Stages, InCall, Roots
<1>4. CallInv'
  BY <1>1, <1>2 DEF Die, Return, Enter, LocksTypeOK, CallInv, InCall, RelyInv, Relies
<1>5. OthersRest(p)
  BY <1>1 DEF Die, Return, Enter, LocksTypeOK, OthersRest
<1>6. Touches(p)
  BY <1>1, <1>2 DEF Die, Return, Enter, LocksTypeOK, InCall, CallInv, RelyInv, Relies, Touches
<1>7. Accounts(p)
  BY SMTT(60), <1>1, <1>2 DEF Die, Return, Enter, LocksTypeOK, InCall, CallInv, RelyInv, LeftInv, Relies, Accounts
<1>8. BindingInv'
  BY <1>1, <1>2 DEF Die, Return, Enter, LocksTypeOK, CallInv, InCall, BindingInv, Plans, Calls
<1> QED BY <1>3, <1>4, <1>5, <1>6, <1>7, <1>8, LockConjuncts DEF LocksInv

\* What no runner does: suites are edited, tasks end, operators recover, calls begin.
LEMMA BeginStep == ASSUME LocksInv, NEW p \in Runners, NEW c \in Calls, Begin(p, c)
                   PROVE  LocksInv' /\ OthersRest(p) /\ Touches(p)
<1>1. LocksTypeOK /\ CallInv /\ RelyInv /\ LeftInv /\ BindingInv
  BY DEF LocksInv
<1>2. LocksTypeOK'
  BY SMTT(60), <1>1, Constants DEF Begin, Enter, LocksTypeOK, Stages
<1>3. c # Nothing
  BY LocksAssumption
<1>4. CallInv'
  BY <1>1, <1>3 DEF Begin, Enter, LocksTypeOK, CallInv, InCall
<1>5. OthersRest(p) /\ Touches(p)
  BY <1>1 DEF Begin, Enter, LocksTypeOK, OthersRest, Touches
<1>6. Accounts(p)
  BY <1>1, Constants DEF Begin, Enter, LocksTypeOK, RelyInv, LeftInv, Relies, Accounts
<1>7. BindingInv'
  BY <1>1 DEF Begin, Enter, LocksTypeOK, BindingInv
<1> QED BY <1>2, <1>4, <1>5, <1>6, <1>7, LockConjuncts DEF LocksInv

LEMMA OutsideStep ==
    ASSUME LocksInv,
           \/ \E d \in Dirs : TaskEnds(d)
           \/ \E s \in Suites, w \in Roots : EditSuite(s, w)
    PROVE  LocksInv'
<1>1. LocksTypeOK'
  BY SMTT(60), Constants DEF LocksInv, LocksTypeOK, TaskEnds, EditSuite
<1>2. UNCHANGED <<lock, bound, stage, call, root, stuck>>
  BY DEF TaskEnds, EditSuite
<1> QED BY <1>1, <1>2 DEF LocksInv, CallInv, InCall, RelyInv, LeftInv, BindingInv, Relies

LEMMA RecoverStep == ASSUME LocksInv, NEW e \in Dirs, Recover(e) PROVE LocksInv'
<1>1. LocksTypeOK /\ CallInv /\ RelyInv /\ LeftInv /\ BindingInv
  BY DEF LocksInv
<1>2. /\ lock[e] \in Runners /\ stage[lock[e]] = "dead" /\ lock' = [lock EXCEPT ![e] = Nothing]
      /\ stuck' = stuck \ {e} /\ UNCHANGED <<suite, bound, task, stage, call, root, calls, edits>>
  BY DEF Recover
<1>3. LocksTypeOK' /\ CallInv' /\ BindingInv'
  BY <1>1, <1>2 DEF LocksTypeOK, CallInv, InCall, BindingInv
<1>4. \A q \in Runners, d \in Dirs : Relies(q, d)' <=> Relies(q, d)
  BY <1>2 DEF Relies
<1>5. \A q \in Runners : ~Relies(q, e)
  BY <1>1, <1>2 DEF RelyInv, Relies
<1>6. \A d \in Dirs : d # e => lock'[d] = lock[d] /\ (d \in stuck' <=> d \in stuck)
  BY <1>1, <1>2 DEF LocksTypeOK
<1>7. lock'[e] = Nothing /\ e \notin stuck'
  BY <1>1, <1>2 DEF LocksTypeOK
<1>8. RelyInv'
  BY <1>1, <1>4, <1>5, <1>6 DEF RelyInv
<1>9. LeftInv'
  <2>1. ASSUME NEW d \in Dirs, lock'[d] # Nothing
        PROVE  d \in stuck' \/ stage'[lock'[d]] = "dead" \/ Relies(lock[d], d)'
    <3>1. d # e /\ lock'[d] = lock[d] /\ lock[d] \in Runners
      BY <1>1, <1>6, <1>7, <2>1 DEF LocksTypeOK
    <3> QED BY <1>1, <1>2, <1>4, <1>6, <2>1, <3>1 DEF LeftInv
  <2>2. ASSUME NEW d \in Dirs, d \in stuck' PROVE lock'[d] # Nothing
    BY <1>1, <1>6, <1>7, <2>2 DEF LeftInv
  <2> QED BY <2>1, <2>2 DEF LeftInv
<1> QED BY <1>3, <1>8, <1>9 DEF LocksInv

\* Every step of a runner, the beginning of a call and its death included.
LEMMA RunnerStep ==
    ASSUME LocksInv, NEW p \in Runners, Step(p) \/ Die(p) \/ \E c \in Calls : Begin(p, c)
    PROVE  LocksInv' /\ OthersRest(p) /\ Touches(p)
<1>1. CASE Step(p)
  BY <1>1, LockRunStep, LockRunFailsStep, LoadSuiteStep, ReadBoundSuiteStep, LockWorkspaceStep,
     NoWorkspaceStep, LockWorkspaceFailsStep, StartCheckedStep, ResumeCheckedStep, LaunchTaskStep, LeaveStep,
     ReleaseWorkspaceStep, ReleaseWorkspaceFailsStep, ReleaseRunStep, ReleaseRunFailsStep DEF Step
<1> QED BY <1>1, DieStep, BeginStep

LEMMA StutterStep == ASSUME LocksInv, UNCHANGED locksVars PROVE LocksInv'
BY DEF locksVars, LocksInv, LocksTypeOK, CallInv, InCall, RelyInv, LeftInv, BindingInv, Relies

\* LocksInv is inductive.
THEOREM LocksInvariant == LocksSpec => []LocksInv
<1>1. ASSUME LocksInv, [LocksNext]_locksVars PROVE LocksInv'
  BY <1>1, RunnerStep, StutterStep, OutsideStep, RecoverStep DEF LocksNext
<1> QED BY InitLocks, <1>1, PTL DEF LocksSpec

(***************************************************************************)
(* Whoever executes tasks holds the lock of its run directory and of the   *)
(* workspace its plan binds, although the root was read before the lock.   *)
(***************************************************************************)
THEOREM ExecutesTheorem == LocksSpec => []ExecutesUnderBothLocks
<1>1. LocksInv => ExecutesUnderBothLocks
  <2> SUFFICES ASSUME LocksInv, NEW p \in Runners, stage[p] = "execute"
               PROVE  /\ bound[call[p].dir] # Nothing /\ lock[call[p].dir] = p
                      /\ bound[call[p].dir].root # Nothing => lock[bound[call[p].dir].root] = p
    BY DEF ExecutesUnderBothLocks
  <2>1. bound[call[p].dir] # Nothing /\ bound[call[p].dir].root = root[p]
    BY DEF LocksInv, BindingInv
  <2>2. call[p].dir \in Dirs /\ (root[p] # Nothing => root[p] \in Dirs)
    BY Facts DEF LocksInv, InCall
  <2>3. Relies(p, call[p].dir) /\ Relies(p, root[p])
    BY DEF Relies
  <2> QED BY <2>1, <2>2, <2>3 DEF LocksInv, RelyInv
<1> QED BY <1>1, LocksInvariant, PTL

(***************************************************************************)
(* Of the task processes in one workspace at most one has a runner that    *)
(* attends to it, for any number of runs and runners.                      *)
(***************************************************************************)
THEOREM OneAttendedTheorem == LocksSpec => []OneAttendedTask
<1>1. ExecutesUnderBothLocks => OneAttendedTask
  BY SMTT(60) DEF ExecutesUnderBothLocks, OneAttendedTask, Attended
<1> QED BY <1>1, ExecutesTheorem, PTL

(***************************************************************************)
(* A runner outside a call keeps no lock it did not fail to remove.        *)
(***************************************************************************)
THEOREM NoLockForgottenTheorem == LocksSpec => []NoLockForgotten
<1>1. LocksInv => NoLockForgotten
  BY DEF LocksInv, LeftInv, Relies, NoLockForgotten
<1> QED BY <1>1, LocksInvariant, PTL

\* One lock through a step of runner p.
LEMMA ServiceOfRunner ==
    ASSUME LocksInv, LocksInv', NEW p \in Runners, OthersRest(p), Touches(p), stage[p] # "dead"
    PROVE  PerDirectory!Next
<1> DEFINE U(d) == {q \in Runners : Relies(q, d)}
<1>1. ASSUME NEW d \in Dirs
      PROVE  \/ /\ lock'[d] = Nothing <=> lock[d] = Nothing
                /\ U(d)' = U(d)
             \/ /\ lock[d] = Nothing /\ lock'[d] # Nothing /\ U(d) = {}
                /\ U(d)' = {p} \/ U(d)' = {}
             \/ /\ lock[d] # Nothing /\ lock'[d] = Nothing /\ U(d)' = {}
                /\ U(d) = {p} \/ U(d) = {}
             \/ lock[d] # Nothing /\ lock'[d] # Nothing /\ U(d) = {p} /\ U(d)' = {}
  <2>1. /\ \A q \in Runners : Relies(q, d) => lock[d] = q /\ d \notin stuck
        /\ \A q \in Runners : Relies(q, d)' => lock'[d] = q /\ d \notin stuck'
        /\ lock[d] # Nothing => d \in stuck \/ stage[lock[d]] = "dead" \/ Relies(lock[d], d)
        /\ \A q \in Runners \ {p} : Relies(q, d)' <=> Relies(q, d)
        /\ Nothing \notin Runners
    BY <1>1, Constants DEF LocksInv, RelyInv, LeftInv, OthersRest, Relies
  <2>2. CASE lock[d] \notin {Nothing, p}
    BY <1>1, <2>1, <2>2 DEF Touches
  <2>3. CASE lock[d] = Nothing
    <3>1. U(d) = {} /\ lock'[d] \in {Nothing, p}
      BY <1>1, <2>1, <2>3 DEF Touches
    <3>2. CASE lock'[d] = Nothing
      BY <2>1, <2>3, <3>1, <3>2
    <3>3. CASE lock'[d] = p
      BY <2>1, <2>3, <3>1, <3>3
    <3> QED BY <3>1, <3>2, <3>3
  <2>4. CASE lock[d] = p
    <3>1. (U(d) = {p} \/ U(d) = {}) /\ lock'[d] \in {Nothing, p}
      BY SMTT(60), <1>1, <2>1, <2>4 DEF Touches
    <3>2. CASE lock'[d] = Nothing
      BY <2>1, <2>4, <3>1, <3>2
    <3>3. CASE lock'[d] = p
      <4>1. U(d)' = {p} \/ U(d)' = {}
        BY <2>1, <3>3
      <4>2. ASSUME U(d) = {} PROVE U(d)' = {}
        <5>1. d \in stuck
          BY <2>1, <2>4, <4>2
        <5> QED BY <2>1, <4>1, <5>1 DEF Touches
      <4> QED BY <2>1, <2>4, <3>1, <3>3, <4>1, <4>2
    <3> QED BY <3>1, <3>2, <3>3
  <2> QED BY <2>2, <2>3, <2>4
<1> QED BY <1>1 DEF PerDirectory!Next, PerDirectory!Same, PerDirectory!Take, PerDirectory!Spoil, PerDirectory!Give, PerDirectory!Leave,
                    PerDirectory!Recover

LEMMA DeadRunnersRest ==
    ASSUME NEW p \in Runners, Step(p) \/ Die(p) \/ \E c \in Calls : Begin(p, c)
    PROVE  stage[p] # "dead"
BY DEF Step, LockRun, LockRunFails, LoadSuite, ReadBoundSuite, LockWorkspace, NoWorkspace, LockWorkspaceFails,
       StartChecked, ResumeChecked, LaunchTask, Leave, ReleaseWorkspace, ReleaseWorkspaceFails, ReleaseRun,
       ReleaseRunFails, Die, Begin

\* The locks through a step that is no runner's.
LEMMA ServiceOfOthers ==
    ASSUME LocksInv,
           \/ \E e \in Dirs : Recover(e)
           \/ \E d \in Dirs : TaskEnds(d)
           \/ \E s \in Suites, w \in Roots : EditSuite(s, w)
           \/ UNCHANGED locksVars
    PROVE  PerDirectory!Next
<1> DEFINE U(d) == {q \in Runners : Relies(q, d)}
<1>1. \A d \in Dirs : U(d)' = U(d)
  BY DEF Recover, TaskEnds, EditSuite, locksVars, Relies
<1>2. CASE \E e \in Dirs : Recover(e)
  <2>1. PICK e \in Dirs : Recover(e)
    BY <1>2
  <2>2. lock[e] # Nothing /\ lock'[e] = Nothing /\ U(e) = {}
    BY SMTT(60), <2>1, Constants DEF Recover, LocksInv, LocksTypeOK, RelyInv, Relies
  <2>3. \A d \in Dirs : d # e => lock'[d] = lock[d]
    BY <2>1 DEF Recover, LocksInv, LocksTypeOK
  <2> QED BY <1>1, <2>2, <2>3 DEF PerDirectory!Next, PerDirectory!Same, PerDirectory!Recover
<1>3. CASE lock' = lock
  BY <1>1, <1>3 DEF PerDirectory!Next, PerDirectory!Same
<1> QED BY <1>2, <1>3 DEF TaskEnds, EditSuite, locksVars

(***************************************************************************)
(* The composition uses each of its locks as LockService allows, for any   *)
(* number of runners and directories: WriterLock may stand in for it.      *)
(***************************************************************************)
THEOREM UsedAsServiceTheorem == LocksSpec => UsedAsService
<1>1. LocksInit => PerDirectory!Init
  BY DEF LocksInit, PerDirectory!Init, Relies
<1>2. ASSUME LocksInv, LocksInv', [LocksNext]_locksVars PROVE PerDirectory!Next
  <2>1. ASSUME NEW p \in Runners, Step(p) \/ Die(p) \/ \E c \in Calls : Begin(p, c) PROVE PerDirectory!Next
    <3>1. OthersRest(p) /\ Touches(p)
      BY <1>2, <2>1, RunnerStep
    <3>2. stage[p] # "dead"
      BY <2>1, DeadRunnersRest
    <3> QED BY <1>2, <3>1, <3>2, ServiceOfRunner
  <2> QED BY <1>2, <2>1, ServiceOfOthers DEF LocksNext
<1> QED BY <1>1, <1>2, LocksInvariant, PTL DEF LocksSpec, UsedAsService, PerDirectory!Spec

-----------------------------------------------------------------------------
(***************************************************************************)
(* ProcessScope.  The inductive invariant ScopeInv says what an            *)
(* enumeration in progress has already established, and during how many    *)
(* enumerations members must have forked if the family is still alive at a *)
(* given place of the runner.                                              *)
(***************************************************************************)
\* An enumeration that has found nobody has every live member still before it, unless one
\* forked meanwhile; a live leader is before it in any case.
Ahead ==
  scan.on /\ ~scan.found =>
    /\ ~scan.forked => LiveKin \subseteq scan.todo
    /\ Leader \in LiveKin => Leader \in scan.todo

\* After SIGKILL nobody forks, so enumerations are exact.
AfterKill ==
  killed => /\ place # "ready"
            /\ \A p \in LiveKin : st[p] = "doomed"
            /\ ~scan.forked
            /\ place \in {"status", "done"} => LiveKin = {}

\* The enumerations behind the runner: in how many somebody forked if somebody is still alive.
Debt == CASE place = "close" /\ then = "hash" -> 1
          [] place = "close" /\ then = "failed" -> 2
          [] place = "recheck" -> 1
          [] place = "status" /\ ~inClose -> 1
          [] place \in {"probe", "term", "kill"} /\ inClose /\ then = "hash" -> 1
          [] place \in {"probe", "term", "kill"} /\ inClose /\ then = "failed" -> 2
          [] place = "status" /\ inClose /\ then = "hash" -> 2
          [] place = "status" /\ inClose /\ then = "failed" -> 3
          [] place = "done" /\ then = "hash" -> 2
          [] place = "done" /\ then = "failed" -> 3
          [] place = "admitted" -> 1
          [] OTHER -> 0

Counted == LiveKin # {} => raced >= Debt

Control ==
  /\ place = "ready" => kin = {}
  /\ scan.on => place \in WaitLoops \union Queries
  /\ ~scan.on => ~scan.forked
  /\ place = "done" => then \in {"hash", "failed"}
  /\ place = "status" => Leader \notin LiveKin
  /\ inClose => place \in {"probe", "term", "kill", "status"}
  /\ place \in {"close", "probe", "term", "kill", "status", "recheck"}
       => then \in {"hash", "failed", "raise"}
  /\ place \in {"probe", "term", "kill", "status"} /\ ~inClose => then \in {"failed", "raise"}
  /\ place = "recheck" => then \in {"failed", "raise"}

ScopeInv == ScopeTypeOK /\ Ahead /\ AfterKill /\ Counted /\ Control

\* Verdict closes the enumeration and counts.
LEMMA VerdictType ==
  ASSUME ScopeTypeOK, NEW empty \in BOOLEAN, Verdict(empty)
  PROVE  /\ scan' = NoScan
         /\ scan' \in [on: BOOLEAN, todo: SUBSET Pids, found: BOOLEAN, forked: BOOLEAN]
         /\ raced' \in Nat
BY SMTT(60) DEF ScopeTypeOK, Verdict, NoScan

\* Between two enumerations there is nothing to say of one.
LEMMA VerdictAhead ==
  ASSUME NEW empty \in BOOLEAN, Verdict(empty)
  PROVE  Ahead'
BY DEF Verdict, NoScan, Ahead

\* Reaping the leader removes it from the family and changes nobody else.
LEMMA PollType ==
  ASSUME ScopeTypeOK, Poll
  PROVE  /\ st' \in [Pids -> {"free", "live", "doomed", "zombie"}]
         /\ kin' \subseteq {p \in Pids : st'[p] # "free"}
         /\ LiveKin' = LiveKin
         /\ \A p \in LiveKin : st'[p] = st[p]
BY ScopeConstants DEF ScopeTypeOK, Poll, LeaderDone, LiveKin, Live

\* An error leads to the finally clause or out.
LEMMA RaiseType ==
  ASSUME ScopeTypeOK, Raise
  PROVE  /\ place' \in {"close", "down"} /\ then' \in {"none", "hash", "failed", "raise"}
         /\ inClose' = FALSE /\ unwinding' \in BOOLEAN
BY DEF ScopeTypeOK, Raise

LEMMA ForkKeeps == ASSUME NEW p \in Pids, ScopeInv, Fork(p) PROVE ScopeInv'
<1> USE ScopeConstants DEF ScopeInv
<1>1. ScopeTypeOK'
  BY SMTT(60) DEF ScopeTypeOK, Fork, Available, kernel, Places, Live, LiveKin, Group, NoScan
<1>2. Ahead'
  BY SMTT(60), <1>1 DEF ScopeTypeOK, Ahead, Control, Fork, Available, kernel, Live, LiveKin, Group, NoScan
<1>3. AfterKill'
  BY <1>1 DEF ScopeTypeOK, Ahead, AfterKill, Control, Fork, Available, kernel, Live, LiveKin,
       Group, NoScan
<1>4. Counted'
  BY <1>1 DEF ScopeTypeOK, Ahead, Counted, Debt, Control, Fork, Available, kernel, Live,
       LiveKin, Group, NoScan
<1>5. Control'
  BY SMTT(60), <1>1 DEF ScopeTypeOK, Ahead, Control, Fork, Available, kernel, Live, LiveKin, Group,
       NoScan, WaitLoops, Queries
<1>6. QED  BY <1>1, <1>2, <1>3, <1>4, <1>5

LEMMA ExitKeeps == ASSUME NEW p \in Pids, ScopeInv, Exit(p) PROVE ScopeInv'
<1> USE ScopeConstants DEF ScopeInv
<1>1. ScopeTypeOK'
  BY DEF ScopeTypeOK, Exit, runner, Places, Live, LiveKin, Group, NoScan
<1>2. Ahead'
  BY <1>1 DEF ScopeTypeOK, Ahead, Control, Exit, runner, Live, LiveKin, Group, NoScan
<1>3. AfterKill'
  BY <1>1 DEF ScopeTypeOK, Ahead, AfterKill, Control, Exit, runner, Live, LiveKin, Group, NoScan
<1>4. Counted'
  BY <1>1 DEF ScopeTypeOK, Ahead, Counted, Debt, Control, Exit, runner, Live, LiveKin, Group, NoScan
<1>5. Control'
  BY <1>1 DEF ScopeTypeOK, Ahead, Control, Exit, runner, Live, LiveKin, Group, NoScan,
       WaitLoops, Queries
<1>6. QED  BY <1>1, <1>2, <1>3, <1>4, <1>5

LEMMA ReapKeeps == ASSUME NEW p \in Pids, ScopeInv, Reap(p) PROVE ScopeInv'
<1> USE ScopeConstants DEF ScopeInv
<1>1. ScopeTypeOK'
  BY DEF ScopeTypeOK, Reap, RunnerUp, runner, Places, Live, LiveKin, Group, NoScan
<1>2. Ahead'
  BY <1>1 DEF ScopeTypeOK, Ahead, Control, Reap, RunnerUp, runner, Live, LiveKin, Group, NoScan
<1>3. AfterKill'
  BY <1>1 DEF ScopeTypeOK, Ahead, AfterKill, Control, Reap, RunnerUp, runner, Live, LiveKin,
       Group, NoScan
<1>4. Counted'
  BY <1>1 DEF ScopeTypeOK, Ahead, Counted, Debt, Control, Reap, RunnerUp, runner, Live,
       LiveKin, Group, NoScan
<1>5. Control'
  BY <1>1 DEF ScopeTypeOK, Ahead, Control, Reap, RunnerUp, runner, Live, LiveKin, Group,
       NoScan, WaitLoops, Queries
<1>6. QED  BY <1>1, <1>2, <1>3, <1>4, <1>5

LEMMA ReuseKeeps == ASSUME NEW p \in Pids, ScopeInv, Reuse(p) PROVE ScopeInv'
<1> USE ScopeConstants DEF ScopeInv
<1>1. ScopeTypeOK'
  BY SMTT(60) DEF ScopeTypeOK, Reuse, Available, runner, Places, Live, LiveKin, Group, NoScan
<1>2. Ahead'
  BY SMTT(60), <1>1 DEF ScopeTypeOK, Ahead, Control, Reuse, Available, runner, Live, LiveKin, Group, NoScan
<1>3. AfterKill'
  BY <1>1 DEF ScopeTypeOK, Ahead, AfterKill, Control, Reuse, Available, runner, Live, LiveKin,
       Group, NoScan
<1>4. Counted'
  BY <1>1 DEF ScopeTypeOK, Ahead, Counted, Debt, Control, Reuse, Available, runner, Live,
       LiveKin, Group, NoScan
<1>5. Control'
  BY <1>1 DEF ScopeTypeOK, Ahead, Control, Reuse, Available, runner, Live, LiveKin, Group,
       NoScan, WaitLoops, Queries
<1>6. QED  BY <1>1, <1>2, <1>3, <1>4, <1>5

LEMMA LaunchKeeps == ASSUME ScopeInv, Launch PROVE ScopeInv'
<1> USE ScopeConstants DEF ScopeInv
<1>1. ScopeTypeOK'
  BY SMTT(60) DEF ScopeTypeOK, Launch, Places, Live, LiveKin, Group, NoScan
<1>2. Ahead'
  BY <1>1 DEF ScopeTypeOK, Ahead, Control, Launch, Live, LiveKin, Group, NoScan, WaitLoops, Queries
<1>3. AfterKill'
  BY <1>1 DEF ScopeTypeOK, Ahead, AfterKill, Control, Launch, Live, LiveKin, Group, NoScan
<1>4. Counted'
  BY SMTT(60), <1>1 DEF ScopeTypeOK, Ahead, Counted, Debt, Control, Launch, Live, LiveKin, Group, NoScan
<1>5. Control'
  BY <1>1 DEF ScopeTypeOK, Ahead, Control, Launch, Live, LiveKin, Group, NoScan, WaitLoops, Queries
<1>6. QED  BY <1>1, <1>2, <1>3, <1>4, <1>5

LEMMA LaunchFailsKeeps == ASSUME ScopeInv, LaunchFails PROVE ScopeInv'
<1> USE ScopeConstants DEF ScopeInv
<1>1. ScopeTypeOK'
  BY DEF ScopeTypeOK, LaunchFails, kernel, Places, Live, LiveKin, Group, NoScan
<1>2. Ahead'
  BY <1>1 DEF ScopeTypeOK, Ahead, Control, LaunchFails, kernel, Live, LiveKin, Group, NoScan
<1>3. AfterKill'
  BY <1>1 DEF ScopeTypeOK, Ahead, AfterKill, Control, LaunchFails, kernel, Live, LiveKin,
       Group, NoScan
<1>4. Counted'
  BY <1>1 DEF ScopeTypeOK, Ahead, Counted, Debt, Control, LaunchFails, kernel, Live, LiveKin,
       Group, NoScan
<1>5. Control'
  BY <1>1 DEF ScopeTypeOK, Ahead, Control, LaunchFails, kernel, Live, LiveKin, Group, NoScan,
       WaitLoops, Queries
<1>6. QED  BY <1>1, <1>2, <1>3, <1>4, <1>5

LEMMA PersistIdentityKeeps == ASSUME ScopeInv, PersistIdentity PROVE ScopeInv'
<1> USE ScopeConstants DEF ScopeInv
<1>1. ScopeTypeOK'
  BY DEF ScopeTypeOK, PersistIdentity, kernel, Places, Live, LiveKin, Group, NoScan
<1>2. Ahead'
  BY <1>1 DEF ScopeTypeOK, Ahead, Control, PersistIdentity, kernel, Live, LiveKin, Group, NoScan
<1>3. AfterKill'
  BY <1>1 DEF ScopeTypeOK, Ahead, AfterKill, Control, PersistIdentity, kernel, Live, LiveKin,
       Group, NoScan
<1>4. Counted'
  BY <1>1 DEF ScopeTypeOK, Ahead, Counted, Debt, Control, PersistIdentity, kernel, Live,
       LiveKin, Group, NoScan
<1>5. Control'
  BY <1>1 DEF ScopeTypeOK, Ahead, Control, PersistIdentity, kernel, Live, LiveKin, Group,
       NoScan, WaitLoops, Queries
<1>6. QED  BY <1>1, <1>2, <1>3, <1>4, <1>5

LEMMA IdentityFailsKeeps == ASSUME ScopeInv, IdentityFails PROVE ScopeInv'
<1> USE ScopeConstants DEF ScopeInv
<1>1. ScopeTypeOK'
  BY DEF ScopeTypeOK, IdentityFails, kernel, Places, Live, LiveKin, Group, NoScan
<1>2. Ahead'
  BY <1>1 DEF ScopeTypeOK, Ahead, Control, IdentityFails, kernel, Live, LiveKin, Group, NoScan
<1>3. AfterKill'
  BY <1>1 DEF ScopeTypeOK, Ahead, AfterKill, Control, IdentityFails, kernel, Live, LiveKin,
       Group, NoScan
<1>4. Counted'
  BY <1>1 DEF ScopeTypeOK, Ahead, Counted, Debt, Control, IdentityFails, kernel, Live, LiveKin,
       Group, NoScan
<1>5. Control'
  BY <1>1 DEF ScopeTypeOK, Ahead, Control, IdentityFails, kernel, Live, LiveKin, Group, NoScan,
       WaitLoops, Queries
<1>6. QED  BY <1>1, <1>2, <1>3, <1>4, <1>5

LEMMA LeaderReturnsKeeps == ASSUME ScopeInv, LeaderReturns PROVE ScopeInv'
<1> USE ScopeConstants DEF ScopeInv
<1>1. ScopeTypeOK'
  BY PollType DEF ScopeTypeOK, LeaderReturns, Places
<1>2. Ahead'
  BY <1>1 DEF ScopeTypeOK, Ahead, Control, LeaderReturns, Poll, LeaderDone, Live, LiveKin,
       Group, NoScan
<1>3. AfterKill'
  BY <1>1 DEF ScopeTypeOK, Ahead, AfterKill, Control, LeaderReturns, Poll, LeaderDone, Live,
       LiveKin, Group, NoScan
<1>4. Counted'
  BY <1>1 DEF ScopeTypeOK, Ahead, Counted, Debt, Control, LeaderReturns, Poll, LeaderDone,
       Live, LiveKin, Group, NoScan
<1>5. Control'
  BY <1>1 DEF ScopeTypeOK, Ahead, Control, LeaderReturns, Poll, LeaderDone, Live, LiveKin,
       Group, NoScan, WaitLoops, Queries
<1>6. QED  BY <1>1, <1>2, <1>3, <1>4, <1>5

LEMMA WaitInterruptedKeeps == ASSUME ScopeInv, WaitInterrupted PROVE ScopeInv'
<1> USE ScopeConstants DEF ScopeInv
<1>1. ScopeTypeOK'
  BY DEF ScopeTypeOK, WaitInterrupted, kernel, Places, Live, LiveKin, Group, NoScan
<1>2. Ahead'
  BY <1>1 DEF ScopeTypeOK, Ahead, Control, WaitInterrupted, kernel, Live, LiveKin, Group, NoScan
<1>3. AfterKill'
  BY <1>1 DEF ScopeTypeOK, Ahead, AfterKill, Control, WaitInterrupted, kernel, Live, LiveKin,
       Group, NoScan
<1>4. Counted'
  BY <1>1 DEF ScopeTypeOK, Ahead, Counted, Debt, Control, WaitInterrupted, kernel, Live,
       LiveKin, Group, NoScan
<1>5. Control'
  BY <1>1 DEF ScopeTypeOK, Ahead, Control, WaitInterrupted, kernel, Live, LiveKin, Group,
       NoScan, WaitLoops, Queries
<1>6. QED  BY <1>1, <1>2, <1>3, <1>4, <1>5

LEMMA BeginScanKeeps == ASSUME ScopeInv, BeginScan PROVE ScopeInv'
<1> USE ScopeConstants DEF ScopeInv
<1>1. ScopeTypeOK'
  BY DEF ScopeTypeOK, BeginScan, Poll, LeaderDone, WaitLoops, Queries, Places, NoScan
<1>2. Ahead'
  BY <1>1 DEF ScopeTypeOK, Ahead, Control, BeginScan, Poll, LeaderDone, WaitLoops, Queries,
       Live, LiveKin, Group, NoScan
<1>3. AfterKill'
  BY <1>1 DEF ScopeTypeOK, Ahead, AfterKill, Control, BeginScan, Poll, LeaderDone, WaitLoops,
       Queries, Live, LiveKin, Group, NoScan
<1>4. Counted'
  BY <1>1 DEF ScopeTypeOK, Ahead, Counted, Debt, Control, BeginScan, Poll, LeaderDone,
       WaitLoops, Queries, Live, LiveKin, Group, NoScan
<1>5. Control'
  BY <1>1 DEF ScopeTypeOK, Ahead, Control, BeginScan, Poll, LeaderDone, WaitLoops, Queries,
       Live, LiveKin, Group, NoScan, WaitLoops, Queries
<1>6. QED  BY <1>1, <1>2, <1>3, <1>4, <1>5

LEMMA ReadEntryKeeps == ASSUME ScopeInv, ReadEntry PROVE ScopeInv'
<1> USE ScopeConstants DEF ScopeInv
<1>1. ScopeTypeOK'
  BY DEF ScopeTypeOK, ReadEntry, kernel, Places, Live, LiveKin, Group, NoScan
<1>2. Ahead'
  BY <1>1 DEF ScopeTypeOK, Ahead, Control, ReadEntry, kernel, Live, LiveKin, Group, NoScan
<1>3. AfterKill'
  BY <1>1 DEF ScopeTypeOK, Ahead, AfterKill, Control, ReadEntry, kernel, Live, LiveKin, Group,
       NoScan
<1>4. Counted'
  BY <1>1 DEF ScopeTypeOK, Ahead, Counted, Debt, Control, ReadEntry, kernel, Live, LiveKin,
       Group, NoScan
<1>5. Control'
  BY <1>1 DEF ScopeTypeOK, Ahead, Control, ReadEntry, kernel, Live, LiveKin, Group, NoScan,
       WaitLoops, Queries
<1>6. QED  BY <1>1, <1>2, <1>3, <1>4, <1>5

LEMMA ReadFailsKeeps == ASSUME ScopeInv, ReadFails PROVE ScopeInv'
<1> USE ScopeConstants DEF ScopeInv
<1>1. ScopeTypeOK'
  <2>1. scan' \in [on: BOOLEAN, todo: SUBSET Pids, found: BOOLEAN, forked: BOOLEAN]
    BY DEF ReadFails, NoScan
  <2>2. failures' \in 0..MaxFailures  BY SMTT(60) DEF ScopeTypeOK, ReadFails
  <2>3. CASE place = "groupScan"  BY <2>1, <2>2, <2>3 DEF ScopeTypeOK, ReadFails, Places
  <2>4. CASE place # "groupScan"  BY <2>1, <2>2, <2>4, RaiseType DEF ScopeTypeOK, ReadFails, Places
  <2>5. QED  BY <2>3, <2>4
<1>2. Ahead'
  BY <1>1 DEF ScopeTypeOK, Ahead, Control, ReadFails, Raise, Live, LiveKin, Group, NoScan
<1>3. AfterKill'
  BY <1>1 DEF ScopeTypeOK, Ahead, AfterKill, Control, ReadFails, Raise, Live, LiveKin, Group, NoScan
<1>4. Counted'
  BY SMTT(60), <1>1 DEF ScopeTypeOK, Ahead, Counted, Debt, Control, ReadFails, Raise, Live, LiveKin,
       Group, NoScan
<1>5. Control'
  BY <1>1 DEF ScopeTypeOK, Ahead, Control, ReadFails, Raise, Live, LiveKin, Group, NoScan,
       WaitLoops, Queries
<1>6. QED  BY <1>1, <1>2, <1>3, <1>4, <1>5

LEMMA SettledKeeps == ASSUME ScopeInv, Settled PROVE ScopeInv'
<1> USE ScopeConstants DEF ScopeInv
<1>1. ScopeTypeOK'
  BY VerdictType DEF ScopeTypeOK, Settled, kernel, Places
<1>2. Ahead'
  BY VerdictAhead DEF Settled
<1>3. AfterKill'
  <2>1. /\ scan' = NoScan /\ st' = st /\ kin' = kin /\ killed' = killed /\ place' \in {"close", "settle"}
    BY VerdictType DEF Settled, kernel
  <2>2. LiveKin' = LiveKin  BY <2>1 DEF LiveKin, Live
  <2>3. QED  BY <2>1, <2>2 DEF AfterKill, NoScan
<1>4. Counted'
  BY SMTT(60), <1>1 DEF ScopeTypeOK, Ahead, Counted, Debt, Control, Settled, Verdict, kernel, Live,
       LiveKin, Group, NoScan
<1>5. Control'
  BY SMTT(60), <1>1 DEF ScopeTypeOK, Ahead, Control, Settled, Verdict, kernel, Live, LiveKin, Group,
       NoScan, WaitLoops, Queries
<1>6. QED  BY <1>1, <1>2, <1>3, <1>4, <1>5

LEMMA SettleDeadlineKeeps == ASSUME ScopeInv, SettleDeadline PROVE ScopeInv'
<1> USE ScopeConstants DEF ScopeInv
<1>1. ScopeTypeOK'
  BY VerdictType DEF ScopeTypeOK, SettleDeadline, kernel, Places
<1>2. Ahead'
  BY <1>1 DEF ScopeTypeOK, Ahead, Control, SettleDeadline, Verdict, kernel, Live, LiveKin,
       Group, NoScan
<1>3. AfterKill'
  BY <1>1 DEF ScopeTypeOK, Ahead, AfterKill, Control, SettleDeadline, Verdict, kernel, Live,
       LiveKin, Group, NoScan
<1>4. Counted'
  BY SMTT(60), <1>1 DEF ScopeTypeOK, Ahead, Counted, Debt, Control, SettleDeadline, Verdict, kernel,
       Live, LiveKin, Group, NoScan
<1>5. Control'
  BY <1>1 DEF ScopeTypeOK, Ahead, Control, SettleDeadline, Verdict, kernel, Live, LiveKin,
       Group, NoScan, WaitLoops, Queries
<1>6. QED  BY <1>1, <1>2, <1>3, <1>4, <1>5

LEMMA ProbedKeeps == ASSUME ScopeInv, Probed PROVE ScopeInv'
<1> USE ScopeConstants DEF ScopeInv
<1>1. ScopeTypeOK'
  BY VerdictType DEF ScopeTypeOK, Probed, kernel, Places
<1>2. Ahead'
  BY VerdictAhead DEF Probed
<1>3. AfterKill'
  BY SMTT(60), <1>1 DEF ScopeTypeOK, Ahead, AfterKill, Control, Probed, Verdict, kernel, Live, LiveKin,
       Group, NoScan
<1>4. Counted'
  BY SMTT(60), <1>1 DEF ScopeTypeOK, Ahead, Counted, Debt, Control, Probed, Verdict, kernel, Live,
       LiveKin, Group, NoScan
<1>5. Control'
  BY SMTT(60), <1>1 DEF ScopeTypeOK, Ahead, Control, Probed, Verdict, kernel, Live, LiveKin, Group,
       NoScan, WaitLoops, Queries
<1>6. QED  BY <1>1, <1>2, <1>3, <1>4, <1>5

LEMMA SignalRefusedKeeps == ASSUME ScopeInv, SignalRefused PROVE ScopeInv'
<1> USE ScopeConstants DEF ScopeInv
<1>1. ScopeTypeOK'
  <2>1. Verdict(FALSE) /\ Raise  BY DEF SignalRefused
  <2>2. failures' \in 0..MaxFailures  BY SMTT(60) DEF ScopeTypeOK, SignalRefused
  <2>3. QED  BY <2>1, <2>2, VerdictType, RaiseType DEF ScopeTypeOK, SignalRefused, Places
<1>2. Ahead'
  BY <1>1 DEF ScopeTypeOK, Ahead, Control, SignalRefused, Verdict, Raise, Live, LiveKin, Group,
       NoScan
<1>3. AfterKill'
  BY <1>1 DEF ScopeTypeOK, Ahead, AfterKill, Control, SignalRefused, Verdict, Raise, Live,
       LiveKin, Group, NoScan
<1>4. Counted'
  BY SMTT(60), <1>1 DEF ScopeTypeOK, Ahead, Counted, Debt, Control, SignalRefused, Verdict, Raise, Live,
       LiveKin, Group, NoScan
<1>5. Control'
  BY <1>1 DEF ScopeTypeOK, Ahead, Control, SignalRefused, Verdict, Raise, Live, LiveKin, Group,
       NoScan, WaitLoops, Queries
<1>6. QED  BY <1>1, <1>2, <1>3, <1>4, <1>5

LEMMA TerminatedKeeps == ASSUME ScopeInv, Terminated PROVE ScopeInv'
<1> USE ScopeConstants DEF ScopeInv
<1>1. ScopeTypeOK'
  BY VerdictType DEF ScopeTypeOK, Terminated, kernel, Places
<1>2. Ahead'
  BY VerdictAhead DEF Terminated
<1>A. /\ scan' = NoScan /\ st' = st /\ kin' = kin /\ killed' = killed /\ then' = then /\ inClose' = inClose
      /\ place \in {"term", "kill"}
  BY VerdictType DEF Terminated, kernel
<1>B. LiveKin' = LiveKin
  BY <1>A DEF LiveKin, Live
<1>C. \/ place' = "status" /\ (killed => LiveKin = {}) /\ Leader \notin LiveKin
      \/ place' = place
  <2>1. CASE Verdict(TRUE) /\ place' = "status"  BY <2>1 DEF Ahead, AfterKill, Verdict
  <2>2. QED  BY <2>1 DEF Terminated
<1>3. AfterKill'
  BY <1>A, <1>B, <1>C DEF AfterKill, NoScan
<1>4. Counted'
  BY SMTT(60), <1>1 DEF ScopeTypeOK, Ahead, Counted, Debt, Control, Terminated, Verdict, kernel, Live,
       LiveKin, Group, NoScan
<1>5. Control'
  BY <1>A, <1>B, <1>C DEF Control, NoScan
<1>6. QED  BY <1>1, <1>2, <1>3, <1>4, <1>5

LEMMA KillGroupKeeps == ASSUME ScopeInv, KillGroup PROVE ScopeInv'
<1> USE ScopeConstants DEF ScopeInv
<1>1. ScopeTypeOK'
  BY VerdictType DEF ScopeTypeOK, KillGroup, Places
<1>2. Ahead'
  BY <1>1 DEF ScopeTypeOK, Ahead, Control, KillGroup, Verdict, Live, LiveKin, Group, NoScan
<1>3. AfterKill'
  BY <1>1 DEF ScopeTypeOK, Ahead, AfterKill, Control, KillGroup, Verdict, Live, LiveKin, Group,
       NoScan
<1>4. Counted'
  BY SMTT(60), <1>1 DEF ScopeTypeOK, Ahead, Counted, Debt, Control, KillGroup, Verdict, Live, LiveKin,
       Group, NoScan
<1>5. Control'
  BY <1>1 DEF ScopeTypeOK, Ahead, Control, KillGroup, Verdict, Live, LiveKin, Group, NoScan,
       WaitLoops, Queries
<1>6. QED  BY <1>1, <1>2, <1>3, <1>4, <1>5

LEMMA KillDeadlineKeeps == ASSUME ScopeInv, KillDeadline PROVE ScopeInv'
<1> USE ScopeConstants DEF ScopeInv
<1>1. ScopeTypeOK'
  BY VerdictType, RaiseType DEF ScopeTypeOK, KillDeadline, kernel, Places
<1>2. Ahead'
  BY <1>1 DEF ScopeTypeOK, Ahead, Control, KillDeadline, Verdict, Raise, kernel, Live, LiveKin,
       Group, NoScan
<1>3. AfterKill'
  BY <1>1 DEF ScopeTypeOK, Ahead, AfterKill, Control, KillDeadline, Verdict, Raise, kernel,
       Live, LiveKin, Group, NoScan
<1>4. Counted'
  BY SMTT(60), <1>1 DEF ScopeTypeOK, Ahead, Counted, Debt, Control, KillDeadline, Verdict, Raise, kernel,
       Live, LiveKin, Group, NoScan
<1>5. Control'
  BY <1>1 DEF ScopeTypeOK, Ahead, Control, KillDeadline, Verdict, Raise, kernel, Live, LiveKin,
       Group, NoScan, WaitLoops, Queries
<1>6. QED  BY <1>1, <1>2, <1>3, <1>4, <1>5

LEMMA ReadStatusKeeps == ASSUME ScopeInv, ReadStatus PROVE ScopeInv'
<1> USE ScopeConstants DEF ScopeInv
<1>1. ScopeTypeOK'
  BY PollType DEF ScopeTypeOK, ReadStatus, Places
<1>2. Ahead'
  BY <1>1 DEF ScopeTypeOK, Ahead, Control, ReadStatus, Poll, LeaderDone, Live, LiveKin, Group,
       NoScan
<1>3. AfterKill'
  BY <1>1 DEF ScopeTypeOK, Ahead, AfterKill, Control, ReadStatus, Poll, LeaderDone, Live,
       LiveKin, Group, NoScan
<1>4. Counted'
  BY <1>1 DEF ScopeTypeOK, Ahead, Counted, Debt, Control, ReadStatus, Poll, LeaderDone, Live,
       LiveKin, Group, NoScan
<1>5. Control'
  BY <1>1 DEF ScopeTypeOK, Ahead, Control, ReadStatus, Poll, LeaderDone, Live, LiveKin, Group,
       NoScan, WaitLoops, Queries
<1>6. QED  BY <1>1, <1>2, <1>3, <1>4, <1>5

LEMMA RecheckedKeeps == ASSUME ScopeInv, Rechecked PROVE ScopeInv'
<1> USE ScopeConstants DEF ScopeInv
<1>1. ScopeTypeOK'
  BY VerdictType, RaiseType DEF ScopeTypeOK, Rechecked, kernel, Places
<1>2. Ahead'
  BY VerdictAhead DEF Rechecked
<1>3. AfterKill'
  BY SMTT(60), <1>1 DEF ScopeTypeOK, Ahead, AfterKill, Control, Rechecked, Verdict, Raise, kernel, Live,
       LiveKin, Group, NoScan
<1>4. Counted'
  BY SMTT(60), <1>1 DEF ScopeTypeOK, Ahead, Counted, Debt, Control, Rechecked, Verdict, Raise, kernel,
       Live, LiveKin, Group, NoScan
<1>5. Control'
  BY SMTT(60), <1>1 DEF ScopeTypeOK, Ahead, Control, Rechecked, Verdict, Raise, kernel, Live, LiveKin,
       Group, NoScan, WaitLoops, Queries
<1>6. QED  BY <1>1, <1>2, <1>3, <1>4, <1>5

LEMMA ClosedKeeps == ASSUME ScopeInv, Closed PROVE ScopeInv'
<1> USE ScopeConstants DEF ScopeInv
<1>1. ScopeTypeOK'
  BY VerdictType, PollType DEF ScopeTypeOK, Closed, Places
<1>2. Ahead'
  BY VerdictAhead DEF Closed
<1>3. AfterKill'
  <2>1. CASE Verdict(TRUE) /\ Poll /\ place' = (IF then = "raise" THEN "down" ELSE "done")
    <3>1. killed => LiveKin = {}  BY <2>1 DEF Ahead, AfterKill, Verdict, LiveKin
    <3>2. killed' = killed /\ scan' = NoScan  BY <2>1 DEF Closed, Verdict
    <3>3. QED  BY <2>1, <3>1, <3>2, PollType DEF AfterKill, NoScan
  <2>2. CASE Verdict(FALSE) /\ UNCHANGED <<st, kin>> /\ place' = "probe"
    BY <2>2 DEF AfterKill, Closed, Verdict, NoScan, LiveKin, Live
  <2>3. QED  BY <2>1, <2>2 DEF Closed
<1>4. Counted'
  BY SMTT(60), <1>1 DEF ScopeTypeOK, Ahead, Counted, Debt, Control, Closed, Verdict, Poll, LeaderDone,
       Live, LiveKin, Group, NoScan
<1>5. Control'
  <2>1. scan' = NoScan /\ then' = then /\ then \in {"hash", "failed", "raise"} /\ ~inClose
    BY VerdictType DEF Closed, Control
  <2>2. \/ place' \in {"down", "done"} /\ (place' = "done" => then # "raise") /\ ~inClose'
        \/ place' = "probe" /\ inClose' = TRUE
    BY <2>1 DEF Closed
  <2>3. QED  BY <2>1, <2>2 DEF Control, NoScan
<1>6. QED  BY <1>1, <1>2, <1>3, <1>4, <1>5

LEMMA CrashKeeps == ASSUME ScopeInv, RunnerCrash PROVE ScopeInv'
<1> USE ScopeConstants DEF ScopeInv
<1>1. ScopeTypeOK'
  BY DEF ScopeTypeOK, RunnerCrash, RunnerUp, kernel, Places, Live, LiveKin, Group, NoScan
<1>2. Ahead'
  BY <1>1 DEF ScopeTypeOK, Ahead, Control, RunnerCrash, RunnerUp, kernel, Live, LiveKin, Group, NoScan
<1>3. AfterKill'
  BY <1>1 DEF ScopeTypeOK, Ahead, AfterKill, Control, RunnerCrash, RunnerUp, kernel, Live, LiveKin,
       Group, NoScan
<1>4. Counted'
  BY SMTT(60), <1>1 DEF ScopeTypeOK, Ahead, Counted, Debt, Control, RunnerCrash, RunnerUp, kernel, Live,
       LiveKin, Group, NoScan
<1>5. Control'
  BY <1>1 DEF ScopeTypeOK, Ahead, Control, RunnerCrash, RunnerUp, kernel, Live, LiveKin, Group,
       NoScan, WaitLoops, Queries
<1>6. QED  BY <1>1, <1>2, <1>3, <1>4, <1>5

LEMMA ReadTokenKeeps == ASSUME ScopeInv, ReadToken PROVE ScopeInv'
<1> USE ScopeConstants DEF ScopeInv
<1>1. ScopeTypeOK'
  BY DEF ScopeTypeOK, ReadToken, kernel, Places, Live, LiveKin, Group, NoScan
<1>2. Ahead'
  BY <1>1 DEF ScopeTypeOK, Ahead, Control, ReadToken, kernel, Live, LiveKin, Group, NoScan
<1>3. AfterKill'
  BY <1>1 DEF ScopeTypeOK, Ahead, AfterKill, Control, ReadToken, kernel, Live, LiveKin, Group,
       NoScan
<1>4. Counted'
  BY SMTT(60), <1>1 DEF ScopeTypeOK, Ahead, Counted, Debt, Control, ReadToken, kernel, Live, LiveKin,
       Group, NoScan
<1>5. Control'
  BY <1>1 DEF ScopeTypeOK, Ahead, Control, ReadToken, kernel, Live, LiveKin, Group, NoScan,
       WaitLoops, Queries
<1>6. QED  BY <1>1, <1>2, <1>3, <1>4, <1>5

LEMMA CheckLivenessKeeps == ASSUME ScopeInv, CheckLiveness PROVE ScopeInv'
<1> USE ScopeConstants DEF ScopeInv
<1>1. ScopeTypeOK'
  BY DEF ScopeTypeOK, CheckLiveness, kernel, Places, Live, LiveKin, Group, NoScan
<1>2. Ahead'
  BY <1>1 DEF ScopeTypeOK, Ahead, Control, CheckLiveness, kernel, Live, LiveKin, Group, NoScan
<1>3. AfterKill'
  BY <1>1 DEF ScopeTypeOK, Ahead, AfterKill, Control, CheckLiveness, kernel, Live, LiveKin,
       Group, NoScan
<1>4. Counted'
  BY <1>1 DEF ScopeTypeOK, Ahead, Counted, Debt, Control, CheckLiveness, kernel, Live, LiveKin,
       Group, NoScan
<1>5. Control'
  BY <1>1 DEF ScopeTypeOK, Ahead, Control, CheckLiveness, kernel, Live, LiveKin, Group, NoScan,
       WaitLoops, Queries
<1>6. QED  BY <1>1, <1>2, <1>3, <1>4, <1>5

LEMMA GroupScannedKeeps == ASSUME ScopeInv, GroupScanned PROVE ScopeInv'
<1> USE ScopeConstants DEF ScopeInv
<1>1. ScopeTypeOK'
  BY VerdictType DEF ScopeTypeOK, GroupScanned, kernel, Places
<1>2. Ahead'
  BY SMTT(60), <1>1 DEF ScopeTypeOK, Ahead, Control, GroupScanned, Verdict, kernel, Live, LiveKin, Group,
       NoScan
<1>3. AfterKill'
  BY SMTT(60), <1>1 DEF ScopeTypeOK, Ahead, AfterKill, Control, GroupScanned, Verdict, kernel, Live,
       LiveKin, Group, NoScan
<1>4. Counted'
  BY SMTT(60), <1>1 DEF ScopeTypeOK, Ahead, Counted, Debt, Control, GroupScanned, Verdict, kernel, Live,
       LiveKin, Group, NoScan
<1>5. Control'
  BY SMTT(60), <1>1 DEF ScopeTypeOK, Ahead, Control, GroupScanned, Verdict, kernel, Live, LiveKin, Group,
       NoScan, WaitLoops, Queries
<1>6. QED  BY <1>1, <1>2, <1>3, <1>4, <1>5

-----------------------------------------------------------------------------

LEMMA InitScopeInv == InitScope => ScopeInv
<1> SUFFICES ASSUME InitScope PROVE ScopeInv
  OBVIOUS
<1>1. LiveKin = {}  BY DEF InitScope, LiveKin
<1>2. scan \in [on: BOOLEAN, todo: SUBSET Pids, found: BOOLEAN, forked: BOOLEAN]
  BY DEF InitScope, NoScan
<1>3. ScopeTypeOK
  <2>1. st \in [Pids -> {"free", "live", "doomed", "zombie"}]  BY DEF InitScope
  <2>2. forks \in 0..MaxForks /\ reuses \in 0..MaxReuses /\ failures \in 0..MaxFailures
    BY SMTT(60), ScopeConstants DEF InitScope
  <2>3. {inClose, unwinding, guard, reused, killed} \subseteq BOOLEAN  BY DEF InitScope
  <2>4. QED  BY <1>2, <2>1, <2>2, <2>3 DEF InitScope, ScopeTypeOK, Places
<1>4. Ahead /\ AfterKill /\ Counted  BY <1>1 DEF InitScope, NoScan, Ahead, AfterKill, Counted
<1>5. Control  BY <1>1 DEF InitScope, NoScan, Control
<1>6. QED  BY <1>3, <1>4, <1>5 DEF ScopeInv

LEMMA NextScopeInv == ScopeInv /\ [NextScope]_scopeVars => ScopeInv'
<1> SUFFICES ASSUME ScopeInv, [NextScope]_scopeVars PROVE ScopeInv'
  OBVIOUS
<1>1. CASE Kernel
  BY <1>1, ForkKeeps, ExitKeeps, ReapKeeps, ReuseKeeps DEF Kernel
<1>2. CASE Start \/ LeaderReturns \/ WaitInterrupted
  BY <1>2, LaunchKeeps, LaunchFailsKeeps, PersistIdentityKeeps, IdentityFailsKeeps,
     LeaderReturnsKeeps, WaitInterruptedKeeps DEF Start
<1>3. CASE Scanning \/ ReadFails
  BY <1>3, BeginScanKeeps, ReadEntryKeeps, ReadFailsKeeps DEF Scanning
<1>4. CASE Decide
  BY <1>4, SettledKeeps, ProbedKeeps, TerminatedKeeps, ReadStatusKeeps, RecheckedKeeps,
     ClosedKeeps DEF Decide
<1>5. CASE Deadline \/ SignalRefused
  BY <1>5, SettleDeadlineKeeps, KillGroupKeeps, KillDeadlineKeeps, SignalRefusedKeeps
  DEF Deadline
<1>6. CASE RunnerCrash \/ Resume
  BY <1>6, CrashKeeps, ReadTokenKeeps, CheckLivenessKeeps, GroupScannedKeeps DEF Resume
<1>7. CASE UNCHANGED scopeVars
  BY SMTT(60), <1>7 DEF scopeVars, kernel, runner, ScopeInv, ScopeTypeOK, Ahead, AfterKill, Counted, Debt,
              Control, LiveKin, Live
<1>8. QED
  BY <1>1, <1>2, <1>3, <1>4, <1>5, <1>6, <1>7 DEF NextScope

\* The inductive invariant holds in every reachable state.
THEOREM ScopeInvariant == ScopeSpec => []ScopeInv
BY InitScopeInv, NextScopeInv, PTL DEF ScopeSpec

\* One enumeration of /proc that finds the group empty is right unless a member forked after
\* the listing was taken (_linux_process_group_members).
THEOREM ScanExactTheorem == ScopeSpec => []ScanExactWithoutFork
<1>1. ScopeInv => ScanExactWithoutFork
  BY DEF ScopeInv, Ahead, ScanExactWithoutFork
<1>2. QED  BY <1>1, ScopeInvariant, PTL

\* An attempt ends, or a resume is admitted, with a member alive only if members forked during
\* each of the separate enumerations on its path: without such a fork the family is empty, as
\* documented (_run_task, stop_managed_process, _assert_recovery_liveness).
THEOREM EmptyUnlessForkingTheorem == ScopeSpec => []EmptyUnlessForking
<1>1. ScopeInv => EmptyUnlessForking
  BY DEF ScopeInv, ScopeTypeOK, Counted, Debt, Control, EmptyUnlessForking
<1>2. QED  BY <1>1, ScopeInvariant, PTL

\* After killpg(SIGKILL) the family cannot grow, so an attempt that ends after it ends with the
\* family gone (_PosixProcessGroupScope.terminate).
THEOREM KillIsFinalTheorem == ScopeSpec => []KillIsFinal
<1>1. ScopeInv => KillIsFinal
  BY DEF ScopeInv, AfterKill, KillIsFinal
<1>2. QED  BY <1>1, ScopeInvariant, PTL

\* The exit status is asked for only when the leader has exited (_confirmed_return_code).
THEOREM StatusIsThereTheorem == ScopeSpec => []StatusIsThere
<1>1. ScopeInv => StatusIsThere
  BY DEF ScopeInv, Control, StatusIsThere, LiveKin
<1>2. QED  BY <1>1, ScopeInvariant, PTL

=============================================================================
