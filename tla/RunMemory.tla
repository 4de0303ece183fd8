----------------------------- MODULE RunMemory -----------------------------
(***************************************************************************)
(* One coding run and the durable record of it.  An invocation of          *)
(* coding-task.ps1 runs three processes one after the other,               *)
(* run-memory-start, local-edit and run-memory-finalize, each with a       *)
(* RunMemoryRecorder (run_memory.py) of its own over the same session.     *)
(* Each recorder works in find-then-append steps, and the invocation may   *)
(* stop anywhere: a step raises, or everything dies.  An operator may then *)
(* invoke coding-task again for the same run, or finalize once more with   *)
(* the summary of the interrupted invocation.                              *)
(*                                                                         *)
(* One writer owns a session, so there is one invocation at a time.  The   *)
(* store is the one of MemoryLog: an event that was appended but not       *)
(* projected is projected by the constructor of the next process, and the  *)
(* process that failed to project it appends nothing more.                 *)
(***************************************************************************)
EXTENDS Naturals, Sequences

CONSTANTS
    MaxInvocations, \* bound: invocations for one run
    Resumes,        \* how a run is resumed: {"task", "finalize"} or less
    ReportsLost     \* whether local-edit may end and leave no report

ASSUME RunMemoryAssumption ==
    /\ MaxInvocations \in Nat
    /\ Resumes \subseteq {"task", "finalize"}
    /\ ReportsLost \in BOOLEAN

VARIABLES
    log,         \* the events of the run's session
    proc,        \* the process that the invocation is running
    at,          \* the step that process has come to
    facts,       \* what coding-task knows; in the end, the finalization
    result,      \* what the last finalization returned
    invocations, \* invocations so far
    posted,      \* requests sent to the model (history)
    answered,    \* a response of the model was read (history)
    passed       \* the authoritative test passed (history)

history == <<invocations, posted, answered, passed>>
vars == <<log, proc, at, facts, result, invocations, posted, answered, passed>>

\* The steps of the three processes; "post" and "work" are local-edit's own.
Steps == [start |-> <<"started", "state">>,
          edit  |-> <<"started", "state", "request", "post", "response",
                      "work", "edited", "tested">>,
          final |-> <<"started", "state", "request", "response", "edited",
                      "tested", "verifier", "restore", "terminal", "episode",
                      "final_state">>]

Processes == {"start", "edit", "final"}
Pauses == {"switch", "review", "restore"}  \* of coding-task between them

Tests == {"none", "passed", "broke"}       \* no test_exit, zero, nonzero
Checks == {"not_run", "accepted", "rejected", "failed"}
Verdicts == {"verified", "rejected", "failed"}

\* called: model_calls > 0; observed: response_observed; good: editPassed.
Facts == [called : BOOLEAN, observed : BOOLEAN, test : Tests,
          good : BOOLEAN, check : Checks, status : Verdicts]

\* What coding-task assumes of a local-edit that left no report.
NoReport == [called |-> FALSE, observed |-> FALSE, test |-> "none",
             good |-> FALSE, check |-> "not_run", status |-> "failed"]

Kinds == {"started", "state", "request", "response", "edited", "tested",
          "verifier", "restore", "completed", "failed", "episode",
          "final_state"}

\* An event keeps what its writer knew when it was appended.
Event == [kind : Kinds, says : Facts]

TypeOK ==
    /\ log \in Seq(Event)
    /\ proc \in {"none"} \cup Processes \cup Pauses
    /\ at \in 1..(Len(Steps.final) + 1)
    /\ facts \in Facts
    /\ result \in {"none", "recorded", "failed"}
    /\ invocations \in 0..MaxInvocations
    /\ posted \in 0..MaxInvocations
    /\ answered \in BOOLEAN
    /\ passed \in BOOLEAN

Init ==
    /\ log = <<>>
    /\ proc = "none" /\ at = 1
    /\ facts = NoReport
    /\ result = "none"
    /\ invocations = 0 /\ posted = 0
    /\ answered = FALSE /\ passed = FALSE

-----------------------------------------------------------------------------
(* What a recorder finds in the session and what it appends                *)

Found(kind) == \E i \in DOMAIN log : log[i].kind = kind
TheEvent(kind) == log[CHOOSE i \in DOMAIN log : log[i].kind = kind]

\* Mutant of Classification: an unmatched request counts as never sent.
ClassifiedByResponse == IF Found("response") THEN "recorded" ELSE "not_started"

\* resume_classification()
Classification ==
    CASE ~Found("request")                       -> "not_started"
      [] Found("request") /\ ~Found("response")  -> "outcome_unknown"
      [] Found("request") /\ Found("response")   -> "recorded"

\* Mutant of TerminalKind: the verdict names the event.
TerminalKindByVerdict == facts.status

TerminalKind == IF facts.status = "verified" THEN "completed" ELSE "failed"
OtherTerminal == IF facts.status = "verified" THEN "failed" ELSE "completed"

Step == IF at <= Len(Steps[proc]) THEN Steps[proc][at] ELSE "done"
Kind == IF Step = "terminal" THEN TerminalKind ELSE Step

\* Whether the step appends: its event is not there yet, and a recovery has
\* something to record.
Due ==
    /\ Step \notin {"post", "work", "done"}
    /\ ~Found(Kind)
    /\ proc = "final" /\ Step = "request" => facts.called
    /\ proc = "final" /\ Step = "response" => facts.called /\ facts.observed

\* Mutant of Refused: a task may end in two ways.
RefusedDispatchOnly ==
    Step = "request" /\ proc = "edit" /\ Classification # "not_started"

\* "model dispatch is not safe to repeat"; the reducer of the store lets a
\* task end once.
Refused ==
    \/ Step = "request" /\ proc = "edit" /\ Classification # "not_started"
    \/ Step = "terminal" /\ Found(OtherTerminal)

-----------------------------------------------------------------------------
(* The invocation                                                          *)

\* coding-task.ps1 with the identifiers of the run.
InvokeTask ==
    /\ proc = "none"
    /\ invocations < MaxInvocations
    /\ invocations > 0 => "task" \in Resumes
    /\ invocations' = invocations + 1
    /\ proc' = "start" /\ at' = 1
    /\ facts' = NoReport
    /\ result' = "none"
    /\ UNCHANGED <<log, posted, answered, passed>>

\* run-memory-finalize with the same input as before.
InvokeFinalize ==
    /\ proc = "none"
    /\ result = "failed"
    /\ invocations < MaxInvocations
    /\ "finalize" \in Resumes
    /\ invocations' = invocations + 1
    /\ proc' = "final" /\ at' = 1
    /\ result' = "none"
    /\ UNCHANGED <<log, facts, posted, answered, passed>>

\* Everything dies, whatever it was doing.
Die ==
    /\ proc # "none"
    /\ proc' = "none" /\ at' = 1
    /\ result' = IF proc = "final" THEN "failed" ELSE "none"
    /\ UNCHANGED <<log, facts, history>>

Advance == at' = at + 1 /\ UNCHANGED proc

\* The event of this step is already there, or there is nothing to record.
FindEvent ==
    /\ proc \in Processes
    /\ Step \notin {"post", "work", "done"}
    /\ ~Due /\ ~Refused
    /\ Advance
    /\ UNCHANGED <<log, facts, result, history>>

Recorded == Append(log, [kind |-> Kind, says |-> facts])

\* Nothing was found, and the event is appended and projected.
AppendEvent ==
    /\ proc \in Processes
    /\ Due /\ ~Refused
    /\ log' = Recorded
    /\ Advance
    /\ UNCHANGED <<facts, result, history>>

\* connection.request(...) to the local model, and what comes back.
PostRequest ==
    /\ proc = "edit" /\ Step = "post"
    /\ posted' = posted + 1
    /\ answered' = TRUE
    /\ Advance
    /\ UNCHANGED <<log, facts, result, invocations, passed>>

\* The edits are applied to the stage and the authoritative test is run.
DoWork ==
    /\ proc = "edit" /\ Step = "work"
    /\ \E t \in {"passed", "broke"} :
         /\ facts' = [facts EXCEPT !.called = TRUE, !.observed = TRUE,
                                   !.test = t, !.good = (t = "passed")]
         /\ passed' = (passed \/ t = "passed")
    /\ Advance
    /\ UNCHANGED <<log, result, invocations, posted, answered>>

\* Mutant of FailureReport: a request is taken for a response.
FailureReportTooSure(events) ==
    LET Has(kind) == \E i \in DOMAIN events : events[i].kind = kind
    IN  [NoReport EXCEPT !.called = Has("request"), !.observed = Has("request")]

\* failure_report() of a fresh recorder, after LocalEditError.
FailureReport(events) ==
    LET Has(kind) == \E i \in DOMAIN events : events[i].kind = kind
    IN  [NoReport EXCEPT !.called = Has("request"), !.observed = Has("response")]

\* What a step that fails may have left in the log.
Remains == {log} \cup (IF Due /\ ~Refused THEN {Recorded} ELSE {})

\* run-memory-start fails: coding-task reports it and stops.
StartFails ==
    /\ proc = "start"
    /\ log' \in Remains
    /\ proc' = "none" /\ at' = 1
    /\ UNCHANGED <<facts, result, history>>

\* local-edit fails at any step: with a report about the failure, or, once
\* the test was run, with its own report and "memory_failure"; or, killed or
\* cut off, with none.
EditFails ==
    /\ proc = "edit"
    /\ log' \in Remains
    /\ posted' \in IF Step = "post" THEN {posted, posted + 1} ELSE {posted}
    /\ facts' \in (IF ReportsLost THEN {NoReport} ELSE {}) \cup
         CASE Step \in {"edited", "tested"} -> {[facts EXCEPT !.good = FALSE]}
           [] Step = "done"                 -> {}
           [] OTHER                         -> {FailureReport(log')}
    /\ proc' = "review" /\ at' = 1
    /\ UNCHANGED <<result, invocations, answered, passed>>

\* finalize() raises.
FinalizeFails ==
    /\ proc = "final"
    /\ log' \in Remains
    /\ proc' = "none" /\ at' = 1
    /\ result' = "failed"
    /\ UNCHANGED <<facts, history>>

StartReturns ==
    /\ proc = "start" /\ Step = "done"
    /\ proc' = "switch" /\ at' = 1
    /\ UNCHANGED <<log, facts, result, history>>

\* The backend is switched; if that fails, local-edit is never run.
SwitchBackend ==
    /\ proc = "switch"
    /\ proc' \in {"edit", "restore"}
    /\ UNCHANGED <<log, at, facts, result, history>>

EditReturns ==
    /\ proc = "edit" /\ Step = "done"
    /\ proc' = "review" /\ at' = 1
    /\ UNCHANGED <<log, facts, result, history>>

\* The independent verifier looks at an edit that passed, unless the
\* execution verifier or the switch of the backend fails first.
Review ==
    /\ proc = "review"
    /\ \E check \in IF facts.good THEN Checks ELSE {"not_run"} :
         facts' = [facts EXCEPT !.check = check]
    /\ proc' = "restore"
    /\ UNCHANGED <<log, at, result, history>>

\* The idle backend is restored, and the finalization is made up.
Restore ==
    /\ proc = "restore"
    /\ \E ready \in BOOLEAN :
         facts' = [facts EXCEPT !.status =
                     CASE ready /\ facts.check = "accepted" -> "verified"
                       [] ready /\ facts.check = "rejected" -> "rejected"
                       [] OTHER                             -> "failed"]
    /\ proc' = "final"
    /\ UNCHANGED <<log, at, result, history>>

\* Mutant of FinalizeReturns: a run that has ended needs nothing more.
FinalizeReturnsEarly ==
    /\ proc = "final" /\ Found(TerminalKind)
    /\ proc' = "none" /\ at' = 1
    /\ result' = "recorded"
    /\ UNCHANGED <<log, facts, history>>

FinalizeReturns ==
    /\ proc = "final" /\ Step = "done"
    /\ proc' = "none" /\ at' = 1
    /\ result' = "recorded"
    /\ UNCHANGED <<log, facts, history>>

Next ==
    \/ InvokeTask \/ InvokeFinalize \/ Die
    \/ FindEvent \/ AppendEvent \/ PostRequest \/ DoWork
    \/ StartFails \/ EditFails \/ FinalizeFails
    \/ StartReturns \/ SwitchBackend \/ EditReturns \/ Review \/ Restore
    \/ FinalizeReturns

Spec == Init /\ [][Next]_vars

-----------------------------------------------------------------------------
(* Properties                                                              *)

\* "An unmatched model request ... is never replayed": however often a run is
\* interrupted and resumed, the model is asked once, and not before the
\* intent to ask it is durable.
DispatchedOnce ==
    /\ posted <= 1
    /\ posted = 1 => Found("request")

\* "... or fabricated as completed": a response is recorded only if one was
\* read; a run is completed only if its test has passed; the final state
\* closes the model call only over a recorded response; and a finalization
\* that returns "recorded" has left a complete record, and the run has ended
\* in the way this finalization asked for.
NothingFabricated ==
    /\ Found("response") => answered
    /\ Found("completed") => answered /\ passed
    /\ Found("final_state") /\ TheEvent("final_state").says.observed =>
         Found("response")
    /\ result = "recorded" =>
         /\ \A k \in {"tested", "verifier", "restore", "episode", "final_state"} :
              Found(k)
         /\ Found(TerminalKind)

\* A resume repeats nothing: every event of the run is recorded once, and the
\* run ends in one way only.
RecordedOnce ==
    /\ \A i, j \in DOMAIN log : log[i].kind = log[j].kind => i = j
    /\ ~(Found("completed") /\ Found("failed"))

\* The episode says of its evidence what the cited events say, and of the
\* outcome what the terminal event says; so does the final state.
EvidenceAgrees ==
    /\ Found("episode") =>
         LET episode == TheEvent("episode").says
         IN  /\ episode.test = TheEvent("tested").says.test
             /\ episode.check = TheEvent("verifier").says.check
    /\ Found("final_state") =>
         \A k \in {"completed", "failed"} :
           Found(k) => TheEvent("final_state").says.status
                         = TheEvent(k).says.status
=============================================================================
