----------------------------- MODULE StepResult -----------------------------
(***************************************************************************)
(* The termination message protocol between the runner bridge              *)
(* (src/src/benchhandoff/controller_step.py) and the controller            *)
(* (src/controller/internal/controller/result_protocol.go), composed over  *)
(* the Jobs of one AgentRun.  AgentRun takes an invocation of the bridge   *)
(* to be one step with a message of three fields; here main runs call by   *)
(* call, others may change the suite, the run and its bundle in between,   *)
(* the write of the message may fail half way, and all nine fields go      *)
(* through the parser, the binding and acceptStepResult.                   *)
(*                                                                         *)
(* Contents and identities are numbers; a change makes a new one, so that  *)
(* nobody puts an earlier content back between two reads.  Empty is the    *)
(* empty string.  start_run, resume_run, inspect_resume and verify_run do  *)
(* their work in one step or raise; RunEngine models what they do inside.  *)
(***************************************************************************)
EXTENDS Naturals

CONSTANTS
    Empty,      \* an empty field
    MaxChanges  \* bound: contents and identities that appear after the first

Values == 0..MaxChanges

ErrorCodes == {"invalid_request", "execution_failed", "evidence_invalid", "internal_error"}

ASSUME StepAssumption ==
    /\ MaxChanges \in Nat
    /\ Empty \notin Nat /\ Empty \notin {"start", "resume", "verify", "uid", "spec"} \cup ErrorCodes

VARIABLES
    phase,   \* the phase of the AgentRun; the Job of a phase has its action
    published, \* run, decision and bundle of the status subresource
    suite,   \* the content of the suite file; 0 is the one the spec names
    bundle,  \* the content of the bundle, or Empty
    runId,   \* the identity of the run in the run directory
    pc,      \* the next step of main
    result,  \* what the steps have found: run, decision and bundle
    looked,  \* history: run and bundle of the last verify_run, run of the decision
    message, \* the termination message main has decided on
    log,     \* how much of it the termination log of the container holds
    exit,    \* its exit code
    changes

stepVars == <<phase, published, suite, bundle, runId, pc, result, looked, message, log, exit, changes>>

NoResult == [run |-> Empty, decision |-> Empty, bundle |-> Empty]

NothingSeen == [run |-> Empty, bundle |-> Empty, decisionOf |-> Empty]

Action == CASE phase = "Start" -> "start" [] phase = "Resume" -> "resume" [] OTHER -> "verify"

Running == phase \in {"Start", "Resume", "Verify"}

InitStep ==
    /\ phase = "Start" /\ published = NoResult
    /\ suite = 0 /\ bundle = Empty /\ runId = Empty
    /\ pc = "parse" /\ result = NoResult /\ looked = NothingSeen
    /\ message = Empty /\ log = "empty" /\ exit = Empty /\ changes = 0

Logs == {"empty", "partial", "whole"}

Fresh == changes < MaxChanges /\ changes' = changes + 1

(***************************************************************************)
(* The nine fields, as _termination builds them.                           *)
(***************************************************************************)
Termination(action, uid, spec, outcome, run, decision, sealed, code) ==
    [protocol |-> "v1", action |-> action, outcome |-> outcome, agent_run_uid |-> uid,
     execution_spec_sha256 |-> spec, run_id |-> run, resume_decision_sha256 |-> decision,
     bundle_sha256 |-> sealed, error_code |-> code]

\* _classify_error: the exit code of each class of exception.
ExitCode(code) ==
    CASE code = "invalid_request" -> 10 [] code = "execution_failed" -> 20
      [] code = "evidence_invalid" -> 30 [] code = "internal_error" -> 70

\* main ends with a message; the fields that were not validated yet are empty.
Emit(m, code) == message' = m /\ exit' = code /\ pc' = "emit"

EmitBlocked(action, uid, spec, code) ==
    Emit(Termination(action, uid, spec, "blocked", Empty, Empty, Empty, code), ExitCode(code))

Raise(code) == EmitBlocked(Action, "uid", "spec", code) /\ UNCHANGED <<result, looked>>

Found(r, label) == result' = r /\ pc' = label /\ UNCHANGED <<message, exit>>

(***************************************************************************)
(* main: arguments, paths, suite.                                          *)
(***************************************************************************)
Parse ==
    /\ Running /\ pc = "parse"
    /\ \/ pc' = "suite" /\ UNCHANGED <<message, exit>>
       \/ EmitBlocked(Empty, Empty, Empty, "invalid_request")
       \/ EmitBlocked(Action, Empty, Empty, "invalid_request")
       \/ EmitBlocked(Action, "uid", Empty, "invalid_request")
       \/ \E code \in {"invalid_request", "internal_error"} : EmitBlocked(Action, "uid", "spec", code)
    /\ UNCHANGED <<phase, published, suite, bundle, runId, result, looked, log, changes>>

\* _validate_suite_source compares the bytes of the file,
CompareSuite ==
    /\ pc = "suite"
    /\ \/ suite = 0 /\ Found(result, "load") /\ UNCHANGED looked
       \/ suite # 0 /\ Raise("evidence_invalid")
       \/ \E code \in {"invalid_request", "internal_error"} : Raise(code)
    /\ UNCHANGED <<phase, published, suite, bundle, runId, log, changes>>

\* then loads it, which reads it once more, and wants version 3.
LoadSuite ==
    /\ pc = "load"
    /\ \/ suite = 0 /\ Found(result, Action) /\ UNCHANGED looked
       \/ suite # 0 /\ Raise("evidence_invalid")
       \/ \E code \in {"invalid_request", "internal_error"} : Raise(code)
    /\ UNCHANGED <<phase, published, suite, bundle, runId, log, changes>>

(***************************************************************************)
(* _execute: the engine does its work, or raises.                          *)
(***************************************************************************)
Fails == \E code \in ErrorCodes : Raise(code)

\* start_run reads the suite a third time; the run fails with a decision to take, or completes.
StartRun ==
    /\ pc = "start"
    /\ \/ /\ suite = 0 /\ runId = Empty /\ Fresh
          /\ runId' = changes' /\ UNCHANGED looked
          /\ \/ bundle' = Empty /\ Found([result EXCEPT !.run = changes'], "inspect")
             \/ bundle' = changes' /\ Found([result EXCEPT !.run = changes'], "before")
       \/ Fails /\ UNCHANGED <<bundle, runId, changes>>
    /\ UNCHANGED <<phase, published, suite, log>>

\* resume_run accepts the decision only in the run it was taken in; one that fails again raises.
ResumeRun ==
    /\ pc = "resume"
    /\ \/ /\ runId = published.run /\ bundle = Empty /\ Fresh
          /\ bundle' = changes' /\ UNCHANGED looked
          /\ Found([result EXCEPT !.run = runId, !.decision = published.decision], "before")
       \/ Fails /\ UNCHANGED <<bundle, changes>>
    /\ UNCHANGED <<phase, published, suite, runId, log>>

VerifyRun ==
    /\ pc = "verify"
    /\ Found(result, "before")
    /\ UNCHANGED <<phase, published, suite, bundle, runId, looked, log, changes>>

Decided ==
    /\ Fresh /\ looked' = [looked EXCEPT !.decisionOf = runId]
    /\ Found([result EXCEPT !.decision = changes'], "done")

\* _awaiting_approval: inspect_resume must speak of the run that was started.
AwaitingApproval ==
    /\ pc = "inspect"
    /\ \/ runId = result.run /\ Decided
       \/ runId # result.run /\ Raise("evidence_invalid") /\ UNCHANGED changes
       \/ Fails /\ UNCHANGED changes
    /\ UNCHANGED <<phase, published, suite, bundle, runId, log>>

(***************************************************************************)
(* _verify_stable_bundle: the bundle before, verify_run, the bundle after. *)
(***************************************************************************)
ReadBefore ==
    /\ pc = "before"
    /\ \/ bundle # Empty /\ Found([result EXCEPT !.bundle = bundle], "check") /\ UNCHANGED looked
       \/ \E code \in {"invalid_request", "internal_error"} : Raise(code)
    /\ UNCHANGED <<phase, published, suite, bundle, runId, log, changes>>

VerifyBundle ==
    /\ pc = "check"
    /\ \/ /\ bundle # Empty /\ Found(result, "after")
          /\ looked' = [looked EXCEPT !.run = runId, !.bundle = bundle]
       \/ Fails
    /\ UNCHANGED <<phase, published, suite, bundle, runId, log, changes>>

\* Mutant: the bundle is not read a second time.
ReadAfterSkipped ==
    /\ pc = "after"
    /\ Found(result, "done")
    /\ UNCHANGED <<phase, published, suite, bundle, runId, looked, log, changes>>

ReadAfter ==
    /\ pc = "after"
    /\ \/ bundle = result.bundle /\ Found(result, "done") /\ UNCHANGED looked
       \/ bundle \notin {Empty, result.bundle} /\ Raise("evidence_invalid")
       \/ \E code \in {"invalid_request", "internal_error"} : Raise(code)
    /\ UNCHANGED <<phase, published, suite, bundle, runId, log, changes>>

Outcome ==
    IF Action = "verify" THEN "verified" ELSE IF result.bundle = Empty THEN "awaiting_approval" ELSE "completed"

\* The run that was verified must be the one that was started or resumed; a verify reports its own.
Execute ==
    /\ pc = "done"
    /\ LET run == IF Action = "verify" THEN looked.run ELSE result.run
       IN  IF Outcome = "completed" /\ run # looked.run
           THEN EmitBlocked(Action, "uid", "spec", "evidence_invalid")
           ELSE Emit(Termination(Action, "uid", "spec", Outcome, run, result.decision, result.bundle, Empty), 0)
    /\ UNCHANGED <<phase, published, suite, bundle, runId, result, looked, log, changes>>

(***************************************************************************)
(* The message goes to the termination log.                                *)
(***************************************************************************)
WriteTermination ==
    /\ pc = "emit"
    /\ log' = "whole" /\ pc' = "exited"
    /\ UNCHANGED <<phase, published, suite, bundle, runId, result, looked, message, exit, changes>>

\* Mutant: the exit code does not tell of a failed write.
WriteFailsQuietly ==
    /\ pc = "emit"
    /\ log' \in Logs
    /\ pc' = "exited"
    /\ UNCHANGED <<phase, published, suite, bundle, runId, result, looked, message, exit, changes>>

\* An error in the write: the log has nothing, a part or all of the message.
WriteFails ==
    /\ pc = "emit"
    /\ log' \in Logs
    /\ exit' = 70 /\ pc' = "exited"
    /\ UNCHANGED <<phase, published, suite, bundle, runId, result, looked, message, changes>>

\* The container is killed, while the message is written or before or after that.
Killed ==
    /\ Running /\ pc # "exited"
    /\ exit' = 137 /\ pc' = "exited"
    /\ log' \in IF pc = "emit" THEN Logs ELSE {log}
    /\ UNCHANGED <<phase, published, suite, bundle, runId, result, looked, message, changes>>

(***************************************************************************)
(* The controller.                                                         *)
(***************************************************************************)
\* validateStepResultInvariants: which fields each outcome carries.
Carried(m) ==
    CASE m.outcome = "completed" ->
            /\ m.action \in {"start", "resume"} /\ m.run_id # Empty /\ m.bundle_sha256 # Empty
            /\ m.error_code = Empty /\ (m.resume_decision_sha256 # Empty <=> m.action = "resume")
      [] m.outcome = "awaiting_approval" ->
            /\ m.action = "start" /\ m.run_id # Empty /\ m.resume_decision_sha256 # Empty
            /\ m.bundle_sha256 = Empty /\ m.error_code = Empty
      [] m.outcome = "verified" ->
            /\ m.action = "verify" /\ m.run_id # Empty /\ m.bundle_sha256 # Empty
            /\ m.resume_decision_sha256 = Empty /\ m.error_code = Empty
      [] m.outcome = "blocked" ->
            /\ m.run_id = Empty /\ m.resume_decision_sha256 = Empty /\ m.bundle_sha256 = Empty
            /\ m.error_code \in ErrorCodes

\* decodeExactTerminationObject: nine keys and the end of the object, which a part does not have.
Decodes == log = "whole"

\* ParseTerminationMessage, of what was decoded.
Parses(m) ==
    /\ m.protocol = "v1" /\ m.action # Empty /\ m.agent_run_uid # Empty /\ m.execution_spec_sha256 # Empty
    /\ Carried(m)

\* ValidateStepResult: the message is of this Job.
Belongs(m) == m.agent_run_uid = "uid" /\ m.action = Action /\ m.execution_spec_sha256 = "spec"

\* A Job for the next action, with a container of its own.
NextPhase(p, s) ==
    /\ phase' = p /\ published' = s
    /\ pc' = "parse" /\ result' = NoResult /\ looked' = looked
    /\ message' = Empty /\ log' = "empty" /\ exit' = Empty

BlockRun == NextPhase("Blocked", published)

\* Mutant: the verification is compared with nothing.
AcceptAnyVerification(m) ==
    CASE m.action = "start" /\ m.outcome = "awaiting_approval" ->
            NextPhase("AwaitingApproval",
                      [run |-> m.run_id, decision |-> m.resume_decision_sha256, bundle |-> Empty])
      [] m.action = "start" /\ m.outcome = "completed" ->
            NextPhase("Verify", [published EXCEPT !.run = m.run_id, !.bundle = m.bundle_sha256])
      [] m.action = "resume" /\ m.outcome = "completed" ->
            NextPhase("Verify", [published EXCEPT !.bundle = m.bundle_sha256])
      [] m.action = "verify" /\ m.outcome = "verified" -> NextPhase("Succeeded", published)
      [] OTHER -> BlockRun

\* Mutant: a run that completes at once is not verified by a Job of its own.
AcceptUnverifiedResult(m) ==
    IF m.outcome = "completed"
    THEN NextPhase("Succeeded", [published EXCEPT !.run = m.run_id, !.bundle = m.bundle_sha256])
    ELSE AcceptAnyVerification(m)

\* acceptStepResult.
AcceptStepResult(m) ==
    CASE m.action = "start" /\ m.outcome = "awaiting_approval" ->
            NextPhase("AwaitingApproval",
                      [run |-> m.run_id, decision |-> m.resume_decision_sha256, bundle |-> Empty])
      [] m.action = "start" /\ m.outcome = "completed" ->
            NextPhase("Verify", [published EXCEPT !.run = m.run_id, !.bundle = m.bundle_sha256])
      [] m.action = "resume" /\ m.outcome = "completed" /\ m.run_id = published.run
            /\ m.resume_decision_sha256 = published.decision ->
            NextPhase("Verify", [published EXCEPT !.bundle = m.bundle_sha256])
      [] m.action = "verify" /\ m.outcome = "verified" /\ m.run_id = published.run
            /\ m.bundle_sha256 = published.bundle -> NextPhase("Succeeded", published)
      [] OTHER -> BlockRun

\* A failed Job blocks; the message of a complete one is read.
ReadResult ==
    /\ pc = "exited"
    /\ IF exit = 0 /\ Decodes /\ Parses(message) /\ Belongs(message) THEN AcceptStepResult(message) ELSE BlockRun
    /\ UNCHANGED <<suite, bundle, runId, changes>>

\* The spec names the published decision (AgentRun models how it gets there).
ApproveDecision ==
    /\ phase = "AwaitingApproval"
    /\ NextPhase("Resume", published)
    /\ UNCHANGED <<suite, bundle, runId, changes>>

(***************************************************************************)
(* Others change the suite, the bundle, or put another run in the place.   *)
(***************************************************************************)
SuiteChanged ==
    /\ Fresh /\ suite' = changes'
    /\ UNCHANGED <<phase, published, bundle, runId, pc, result, looked, message, log, exit>>

BundleChanged ==
    /\ bundle # Empty /\ Fresh /\ bundle' \in {changes', Empty}
    /\ UNCHANGED <<phase, published, suite, runId, pc, result, looked, message, log, exit>>

RunExchanged ==
    /\ runId # Empty /\ Fresh /\ runId' = changes' /\ bundle' \in {changes', Empty}
    /\ UNCHANGED <<phase, published, suite, pc, result, looked, message, log, exit>>

Main ==
    \/ Parse \/ CompareSuite \/ LoadSuite \/ StartRun \/ ResumeRun \/ VerifyRun \/ AwaitingApproval
    \/ ReadBefore \/ VerifyBundle \/ ReadAfter \/ Execute \/ WriteTermination \/ WriteFails \/ Killed

NextStep == Main \/ ReadResult \/ ApproveDecision \/ SuiteChanged \/ BundleChanged \/ RunExchanged

StepSpec == InitStep /\ [][NextStep]_stepVars

-----------------------------------------------------------------------------
Results == [run : Values \cup {Empty}, decision : Values \cup {Empty}, bundle : Values \cup {Empty}]

StepTypeOK ==
    /\ phase \in {"Start", "AwaitingApproval", "Resume", "Verify", "Succeeded", "Blocked"}
    /\ published \in Results /\ result \in Results
    /\ suite \in Values /\ bundle \in Values \cup {Empty} /\ runId \in Values \cup {Empty}
    /\ pc \in {"parse", "suite", "load", "start", "resume", "verify", "inspect", "before", "check",
               "after", "done", "emit", "exited"}
    /\ looked \in [run : Values \cup {Empty}, bundle : Values \cup {Empty}, decisionOf : Values \cup {Empty}]
    /\ log \in Logs /\ exit \in {Empty, 0, 10, 20, 30, 70, 137} /\ changes \in Values

\* main and ParseTerminationMessage agree on nine fields.  Every message that main decides on
\* once its arguments are valid parses and belongs to the Job, refusals included; and a
\* container that exits with 0 has written the whole of a message that is no refusal, whatever
\* fails on the way.
ProtocolAgreed ==
    /\ message # Empty /\ message.execution_spec_sha256 # Empty => Parses(message) /\ Belongs(message)
    /\ pc = "exited" /\ exit = 0 => Decodes /\ Belongs(message) /\ message.outcome # "blocked"

\* The digest that a completed or verified message reports is that of the bundle verify_run
\* looked at, and its run the one verify_run saw, although main reads the bundle itself before
\* and after, and others change it or exchange the run meanwhile.
ReportedIsVerified ==
    pc = "exited" /\ exit = 0 /\ message.bundle_sha256 # Empty =>
        message.bundle_sha256 = looked.bundle /\ message.run_id = looked.run

\* The status names together only what was seen together: the decision that waits for approval
\* was taken in the run beside it, and a run is Succeeded only when the last verify_run, in a
\* Job of its own, saw the very run and bundle that the status has named since the start or
\* the resume completed.
StatusAsSeen ==
    /\ phase \in {"AwaitingApproval", "Resume"} => published.run = looked.decisionOf
    /\ phase = "Succeeded" => published.run = looked.run /\ published.bundle = looked.bundle /\ published.run # Empty

=============================================================================
