----------------------------- MODULE EventFiles -----------------------------
(***************************************************************************)
(* The two files of an event transition, state.json and events.jsonl, as   *)
(* src/src/benchhandoff/storage.py publishes them: atomic_write_bytes      *)
(* writes a temporary file, flushes it, renames it over the target and     *)
(* flushes the directory.  RunEngine takes such a write to be one step;    *)
(* here every system call is one, any of them may fail, the process may    *)
(* stop, and the machine may lose its power.                               *)
(*                                                                         *)
(* External, on a POSIX system: a loss of power leaves the directory as it *)
(* was at some moment since its last flush (the changes reach the disk in  *)
(* their order), and may tear every file whose data were not flushed.      *)
(* On Windows _fsync_directory does nothing.                               *)
(***************************************************************************)
EXTENDS Naturals, FiniteSets, Sequences

CONSTANTS
    NoEvent,        \* no pending event
    Torn,        \* the content of a file that is not wholly written
    MaxFiles,    \* bound: files ever created
    MaxEvents,   \* bound: transitions ever begun
    MaxFailedCalls,   \* bound: calls that fail
    MaxCrashes   \* bound: crashes, losses of power and failed removals

ASSUME FilesAssumption ==
    /\ MaxFiles \in Nat /\ MaxFiles >= 2 /\ MaxEvents \in Nat
    /\ MaxFailedCalls \in Nat /\ MaxCrashes \in Nat
    /\ NoEvent \notin Nat /\ Torn \notin [log : Seq(Nat), pending : Nat \cup {NoEvent}]

Files == 1..MaxFiles

Directories == [state : Files, log : Files, temps : SUBSET Files]

VARIABLES
    rundir,   \* the run directory: the files named state.json and events.jsonl, and the temporaries
    lost,     \* the directories a loss of power may leave
    data,     \* the content of each file
    disk,     \* the files whose data are on the disk
    made,     \* files created so far
    issued,   \* events so far
    mem,      \* context.state: the acknowledged log and the pending event
    call,     \* the next call of the process
    stage,    \* which of the three writes of a transition it serves
    acked,    \* history: the log when the last transition was committed
    failedCalls,
    crashes

fileVars == <<rundir, lost, data, disk, made, issued, mem, call, stage, acked, failedCalls, crashes>>

\* The content of either file; a log has no pending event.
Record(log, pending) == [log |-> log, pending |-> pending]

EmptyFile == Record(<<>>, NoEvent)

\* After the creation of the run: file 1 is the state, file 2 the log.
InitFiles ==
    /\ rundir = [state |-> 1, log |-> 2, temps |-> {}] /\ lost = {rundir}
    /\ data = [f \in Files |-> IF f <= 2 THEN EmptyFile ELSE Torn]
    /\ disk = {1, 2} /\ made = 2 /\ issued = 0
    /\ mem = EmptyFile /\ call = "idle" /\ stage = "intent" /\ acked = <<>>
    /\ failedCalls = 0 /\ crashes = 0

\* The content of a file that is whole.
Contents == [log : Seq(1..MaxEvents), pending : 1..MaxEvents \cup {NoEvent}]

\* A change of the directory: it is seen at once, and is on the disk after some flush.
Change(d) == rundir' = d /\ lost' = lost \cup {d}

\* _event_transition_status of a state and a log.
EventTransitionStatus(state, log) ==
    CASE log.log = state.log /\ state.pending = NoEvent -> "stable"
      [] log.log = state.log /\ state.pending # NoEvent -> "pending_before_log"
      [] state.pending # NoEvent /\ log.log = Append(state.log, state.pending) -> "pending_after_log"
      [] OTHER -> "diverged"

(***************************************************************************)
(* _commit_transition: the intent goes into the state, the event into the  *)
(* log, the acknowledgement into the state.                                *)
(***************************************************************************)
CommitTransition ==
    /\ call = "idle" /\ issued < MaxEvents
    /\ mem.pending = NoEvent /\ EventTransitionStatus(mem, data[rundir.log]) = "stable"
    /\ issued' = issued + 1
    /\ mem' = Record(mem.log, issued + 1)
    /\ call' = "open" /\ stage' = "intent"
    /\ UNCHANGED <<rundir, lost, data, disk, made, acked, failedCalls, crashes>>

\* What the write of this stage publishes.
Payload ==
    IF stage = "append" THEN Record(Append(data[rundir.log].log, mem.pending), NoEvent) ELSE mem

(***************************************************************************)
(* atomic_write_bytes.                                                     *)
(***************************************************************************)
OpenTemporary ==
    /\ call = "open" /\ made < MaxFiles
    /\ made' = made + 1
    /\ Change([rundir EXCEPT !.temps = @ \cup {made + 1}])
    /\ call' = "write"
    /\ UNCHANGED <<data, disk, issued, mem, stage, acked, failedCalls, crashes>>

WritePayload ==
    /\ call = "write"
    /\ data' = [data EXCEPT ![made] = Payload]
    /\ call' = "sync"
    /\ UNCHANGED <<rundir, lost, disk, made, issued, mem, stage, acked, failedCalls, crashes>>

\* Mutant: the data are not flushed.
SyncFileSkipped ==
    /\ call = "sync"
    /\ call' = "replace"
    /\ UNCHANGED <<rundir, lost, data, disk, made, issued, mem, stage, acked, failedCalls, crashes>>

SyncFile ==
    /\ call = "sync"
    /\ disk' = disk \cup {made}
    /\ call' = "replace"
    /\ UNCHANGED <<rundir, lost, data, made, issued, mem, stage, acked, failedCalls, crashes>>

Replace ==
    /\ call = "replace"
    /\ LET rest == rundir.temps \ {made}
       IN  Change(IF stage = "append" THEN [rundir EXCEPT !.log = made, !.temps = rest]
                  ELSE [rundir EXCEPT !.state = made, !.temps = rest])
    /\ call' = "syncdir"
    /\ UNCHANGED <<data, disk, made, issued, mem, stage, acked, failedCalls, crashes>>

\* The observation of the log as it now is.
Observed == Record(data[rundir.log].log, NoEvent)

\* Where the transition goes on after a write.
Continue ==
    \/ /\ stage = "intent"
       /\ stage' = "append" /\ call' = "open" /\ UNCHANGED <<mem, acked>>
    \/ /\ stage = "append"
       /\ stage' = "acknowledge" /\ call' = "open" /\ mem' = Observed /\ UNCHANGED acked
    \/ /\ stage = "acknowledge"
       /\ call' = "idle" /\ acked' = mem.log /\ UNCHANGED <<mem, stage>>

SyncDirectory ==
    /\ call = "syncdir"
    /\ lost' = {rundir}
    /\ Continue
    /\ UNCHANGED <<rundir, data, disk, made, issued, failedCalls, crashes>>

(***************************************************************************)
(* A call fails.  The finally clause removes the temporary if it is still  *)
(* there; a failed intent is withdrawn from memory, unless it was an       *)
(* interrupt.  With an event pending no transition can begin any more, and *)
(* the exception ends the program.                                         *)
(***************************************************************************)
WriteRaises ==
    \E m \in {mem, IF stage = "intent" THEN Record(mem.log, NoEvent) ELSE mem} :
        /\ mem' = m
        /\ call' = IF m.pending = NoEvent THEN "idle" ELSE "down"

CallFails == failedCalls < MaxFailedCalls /\ failedCalls' = failedCalls + 1

OpenFails ==
    /\ call = "open" /\ CallFails
    /\ WriteRaises
    /\ UNCHANGED <<rundir, lost, data, disk, made, issued, stage, acked, crashes>>

\* Mutant: a call that fails leaves its temporary file.
WriteFailsUntidily ==
    /\ call \in {"write", "sync", "replace", "syncdir"} /\ CallFails
    /\ WriteRaises
    /\ UNCHANGED <<rundir, lost, data, disk, made, issued, stage, acked, crashes>>

WriteCallFails ==
    /\ call \in {"write", "sync", "replace", "syncdir"} /\ CallFails
    /\ call' = "cleanup"
    /\ UNCHANGED <<rundir, lost, data, disk, made, issued, mem, stage, acked, crashes>>

Unlink ==
    /\ call = "cleanup"
    /\ IF made \in rundir.temps THEN Change([rundir EXCEPT !.temps = @ \ {made}]) ELSE UNCHANGED <<rundir, lost>>
    /\ WriteRaises
    /\ UNCHANGED <<data, disk, made, issued, stage, acked, failedCalls, crashes>>

Crashes == crashes < MaxCrashes /\ crashes' = crashes + 1

UnlinkFails ==
    /\ call = "cleanup" /\ made \in rundir.temps /\ Crashes
    /\ WriteRaises
    /\ UNCHANGED <<rundir, lost, data, disk, made, issued, stage, acked, failedCalls>>

(***************************************************************************)
(* The process stops; the machine stops.                                   *)
(***************************************************************************)
Crash ==
    /\ call \notin {"down", "refused"} /\ Crashes
    /\ call' = "down"
    /\ UNCHANGED <<rundir, lost, data, disk, made, issued, mem, stage, acked, failedCalls>>

PowerLoss ==
    /\ Crashes
    /\ rundir' \in lost /\ lost' = {rundir'}
    /\ \E torn \in SUBSET (1..made \ disk) :
          data' = [f \in Files |-> IF f \in torn THEN Torn ELSE data[f]]
    /\ disk' = 1..made
    /\ call' = "down"
    /\ UNCHANGED <<made, issued, mem, stage, acked, failedCalls>>

Whole(f) == data[f] # Torn

\* _load_context: the topology is exact, both files parse and agree.
Loads ==
    /\ rundir.temps = {} /\ Whole(rundir.state) /\ Whole(rundir.log)
    /\ EventTransitionStatus(data[rundir.state], data[rundir.log]) # "diverged"

\* Mutant: a pending event is left to a later run.
ResumeLater ==
    /\ call = "down" /\ Loads
    /\ mem' = data[rundir.state] /\ call' = "idle"
    /\ UNCHANGED <<rundir, lost, data, disk, made, issued, stage, acked, failedCalls, crashes>>

\* A later program loads the run; _reconcile_pending_event finishes the transition.
ResumeProgram ==
    /\ call = "down" /\ Loads
    /\ LET status == EventTransitionStatus(data[rundir.state], data[rundir.log])
       IN  \/ /\ status = "stable"
              /\ mem' = data[rundir.state] /\ call' = "idle" /\ UNCHANGED stage
           \/ /\ status = "pending_before_log"
              /\ mem' = data[rundir.state] /\ call' = "open" /\ stage' = "append"
           \/ /\ status = "pending_after_log"
              /\ mem' = Observed /\ call' = "open" /\ stage' = "acknowledge"
    /\ UNCHANGED <<rundir, lost, data, disk, made, issued, acked, failedCalls, crashes>>

ResumeRefused ==
    /\ call = "down" /\ ~Loads
    /\ call' = "refused"
    /\ UNCHANGED <<rundir, lost, data, disk, made, issued, mem, stage, acked, failedCalls, crashes>>

\* The program ends, whether its last transition was committed or has raised.
EndProgram ==
    /\ call = "idle"
    /\ call' = "down"
    /\ UNCHANGED <<rundir, lost, data, disk, made, issued, mem, stage, acked, failedCalls, crashes>>

Step ==
    \/ OpenTemporary \/ WritePayload \/ SyncFile \/ Replace \/ SyncDirectory
    \/ Unlink \/ EndProgram \/ ResumeProgram \/ ResumeRefused

NextFiles == CommitTransition \/ Step \/ OpenFails \/ WriteCallFails \/ UnlinkFails \/ Crash \/ PowerLoss

FilesSpec == InitFiles /\ [][NextFiles]_fileVars

\* A program that runs goes on to its end; whoever needs the run resumes it.
FilesLiveSpec == FilesSpec /\ WF_fileVars(Step)

-----------------------------------------------------------------------------
FilesTypeOK ==
    /\ rundir \in Directories /\ lost \subseteq Directories
    /\ DOMAIN data = Files /\ disk \subseteq Files
    /\ made \in Files /\ issued \in 0..MaxEvents
    /\ mem \in Contents
    /\ call \in {"idle", "open", "write", "sync", "replace", "syncdir", "cleanup", "down", "refused"}
    /\ stage \in {"intent", "append", "acknowledge"}
    /\ acked \in Seq(1..MaxEvents)
    /\ failedCalls \in 0..MaxFailedCalls /\ crashes \in 0..MaxCrashes

\* Whatever a loss of power leaves now, both files are whole and the two are in one of the
\* three observations of a transition, so that a resume can finish it: the file is flushed
\* before the rename of atomic_write_bytes, and the three writes are ordered.
ReadableAfterLoss ==
    \A d \in lost :
        /\ {d.state, d.log} \subseteq disk /\ Whole(d.state) /\ Whole(d.log)
        /\ EventTransitionStatus(data[d.state], data[d.log]) # "diverged"

\* In terms of lengths and SubSeq, the operators the provers know.
IsPrefix(s, t) == Len(s) <= Len(t) /\ SubSeq(s, 1, Len(s)) = SubSeq(t, 1, Len(s))

\* An event whose transition was committed stays in the log, whatever a loss of power leaves:
\* _commit_transition returns only after the flush of the directory.
CommittedSurvives ==
    \A d \in lost : IsPrefix(acked, data[d.log].log)

\* The temporary file atomic_write_bytes is working on.
InHand == IF call \in {"write", "sync", "replace", "cleanup"} THEN {made} ELSE {}

\* A temporary file that no call is working on was left by a crash, a loss of power or a
\* failed removal: every way out of atomic_write_bytes removes its own.
LeftoversExplained == Cardinality(rundir.temps \ InHand) <= crashes

\* A resume is refused for nothing but such a leftover, which the exact topology check of
\* _load_context does not admit.
RefusedForLeftover == call = "refused" => rundir.temps # {}

\* An event that the state file announces is settled: the state says so, or a leftover has
\* made the run unreadable.
AnnouncedIsSettled ==
    (data[rundir.state].pending # NoEvent) ~> (data[rundir.state].pending = NoEvent \/ call = "refused")

=============================================================================
