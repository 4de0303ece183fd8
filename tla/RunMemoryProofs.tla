-------------------------- MODULE RunMemoryProofs --------------------------
(***************************************************************************)
(* Proofs about RunMemory for any number of invocations.  That the model   *)
(* is asked once is not inductive: a recorder decides on what it finds and *)
(* acts two steps later.  DispatchInv adds what holds at the step between. *)
(* That the record is true is carried by Truth: each event of the log and  *)
(* each fact coding-task holds is tied to what was read and what passed,   *)
(* and a step is reached only with the facts it goes on to record.         *)
(***************************************************************************)
EXTENDS RunMemory, TLAPS

\* Types, without the bounds that depend on other facts.
ShapeInv ==
    /\ log \in Seq(Event)
    /\ proc \in {"none"} \cup Processes \cup Pauses
    /\ at \in Nat \ {0}
    /\ proc \in Pauses => at = 1
    /\ facts \in Facts
    /\ posted \in Nat

\* When local-edit is about to send the request (step 4), the intent is
\* durable and nothing has been sent before.
DispatchInv ==
    /\ posted <= 1
    /\ posted = 1 => Found("request")
    /\ proc = "edit" /\ at = 4 => Found("request") /\ posted = 0

Inv == ShapeInv /\ DispatchInv /\ RecordedOnce

-----------------------------------------------------------------------------

\* The names of the steps.
Names == {"started", "state", "request", "post", "response", "work", "edited",
          "tested", "verifier", "restore", "terminal", "episode",
          "final_state", "done"}

\* Which step a position is, as far as the proofs look.
LEMMA StepOf ==
    ASSUME proc \in Processes, at \in Nat \ {0}
    PROVE  /\ Step \in Names
           /\ proc = "edit" => /\ Step = "request" <=> at = 3
                               /\ Step = "post" <=> at = 4
                               /\ Step # "terminal"
<1>1. CASE proc = "start"
  <2>1. Step = IF at <= 2 THEN <<"started", "state">>[at] ELSE "done"
    BY <1>1 DEF Step, Steps
  <2>2. at = 1 \/ at = 2 \/ at > 2
    OBVIOUS
  <2> QED
    BY <1>1, <2>1, <2>2 DEF Names
<1>2. CASE proc = "edit"
  <2> DEFINE s == <<"started", "state", "request", "post", "response",
                    "work", "edited", "tested">>
  <2>1. Step = IF at <= 8 THEN s[at] ELSE "done"
    BY <1>2 DEF Step, Steps
  <2>2. at \in 1..8 \/ at > 8
    OBVIOUS
  <2> QED
    BY <1>2, <2>1, <2>2 DEF Names
<1>3. CASE proc = "final"
  <2> DEFINE s == <<"started", "state", "request", "response", "edited",
                    "tested", "verifier", "restore", "terminal", "episode",
                    "final_state">>
  <2>1. Step = IF at <= 11 THEN s[at] ELSE "done"
    BY <1>3 DEF Step, Steps
  <2>2. at \in 1..11 \/ at > 11
    OBVIOUS
  <2> QED
    BY <1>3, <2>1, <2>2 DEF Names
<1> QED
  BY <1>1, <1>2, <1>3 DEF Processes

\* Steps that append have an event of their own kind, and only the step
\* "terminal" ends the run.
LEMMA KindOf ==
    ASSUME Step \in Names \ {"post", "work", "done"}
    PROVE  /\ Kind \in Kinds
           /\ Kind \in {"completed", "failed"} => Step = "terminal"
           /\ Kind = "request" <=> Step = "request"
  BY DEF Kind, Kinds, Names, TerminalKind

\* What one more event changes in what is found.
LEMMA FoundAfterAppend ==
    ASSUME log \in Seq(Event), NEW e \in Event, log' = Append(log, e)
    PROVE  \A k \in Kinds : Found(k)' <=> Found(k) \/ e.kind = k
  BY DEF Found, Event

\* The event that a step leaves is a new one of its kind, and does not end
\* a run that has ended.
LEMMA AppendKeepsInv ==
    ASSUME Inv, proc \in Processes, Due, ~Refused, log' = Recorded
    PROVE  /\ log' \in Seq(Event)
           /\ RecordedOnce'
           /\ Found("request") => Found("request")'
           /\ Step = "request" => Found("request")'
<1> DEFINE e == [kind |-> Kind, says |-> facts]
<1>1. Step \in Names \ {"post", "work", "done"}
  BY StepOf DEF Due, Inv, ShapeInv
<1>2. Kind \in Kinds /\ e \in Event /\ e.kind = Kind
  BY <1>1, KindOf DEF Event, Inv, ShapeInv
<1>3. log \in Seq(Event) /\ log' = Append(log, e)
  BY DEF Recorded, Inv, ShapeInv
<1>4. \A k \in Kinds : Found(k)' <=> Found(k) \/ Kind = k
  BY <1>2, <1>3, FoundAfterAppend
<1>5. \A i, j \in DOMAIN log' : log'[i].kind = log'[j].kind => i = j
  <2>1. \A i \in DOMAIN log : log[i].kind # Kind
    BY DEF Due, Found
  <2>2. \A i, j \in DOMAIN log : log[i].kind = log[j].kind => i = j
    BY DEF Inv, RecordedOnce
  <2> QED
    BY <1>2, <1>3, <2>1, <2>2
<1>6. ~(Found("completed")' /\ Found("failed")')
  <2>1. CASE Kind \notin {"completed", "failed"}
    BY <1>4, <2>1 DEF Kinds, Inv, RecordedOnce
  <2>2. CASE Kind \in {"completed", "failed"}
    <3>1. Step = "terminal"
      BY <1>1, <2>2, KindOf
    <3>2. ~Found(OtherTerminal) /\ Kind = TerminalKind
      BY <3>1 DEF Refused, Kind
    <3> QED
      BY <1>4, <3>2 DEF Kinds, OtherTerminal, TerminalKind
  <2> QED
    BY <2>1, <2>2
<1>7. Step = "request" => Kind = "request"
  BY DEF Kind
<1> QED
  BY <1>3, <1>2, <1>4, <1>5, <1>6, <1>7 DEF RecordedOnce, Kinds

\* A step that leaves the log alone changes nothing that is found.
LEMMA SameLog ==
    ASSUME Inv, log' = log
    PROVE  /\ log' \in Seq(Event)
           /\ RecordedOnce'
           /\ \A k \in Kinds : Found(k)' <=> Found(k)
  BY DEF Inv, ShapeInv, RecordedOnce, Found

\* What a step that fails leaves behind.
LEMMA RemainsKeepInv ==
    ASSUME Inv, proc \in Processes, log' \in Remains
    PROVE  /\ log' \in Seq(Event)
           /\ RecordedOnce'
           /\ Found("request") => Found("request")'
<1>1. CASE log' = log
  BY <1>1, SameLog DEF Kinds
<1>2. CASE Due /\ ~Refused /\ log' = Recorded
  BY <1>2, AppendKeepsInv
<1> QED
  BY <1>1, <1>2 DEF Remains

\* coding-task's own facts have their type.
LEMMA FactsTyped ==
    /\ NoReport \in Facts
    /\ \A f \in Facts :
         /\ [f EXCEPT !.good = FALSE] \in Facts
         /\ \A t \in Tests, b \in BOOLEAN :
              [f EXCEPT !.called = TRUE, !.observed = TRUE,
                        !.test = t, !.good = b] \in Facts
         /\ \A c \in Checks : [f EXCEPT !.check = c] \in Facts
         /\ \A v \in Verdicts : [f EXCEPT !.status = v] \in Facts
    /\ \A events : FailureReport(events) \in Facts
  BY DEF NoReport, Facts, Tests, Checks, Verdicts, FailureReport

-----------------------------------------------------------------------------

\* No invocation, no event.
LEMMA InitInv == Init => Inv
<1> SUFFICES ASSUME Init PROVE Inv
  OBVIOUS
<1>1. log \in Seq(Event) /\ DOMAIN log = {}
  BY DEF Init
<1>2. \A k : ~Found(k)
  BY <1>1 DEF Found
<1>3. RecordedOnce
  BY <1>1, <1>2 DEF RecordedOnce
<1>4. facts \in Facts
  BY FactsTyped DEF Init
<1> QED
  BY <1>1, <1>3, <1>4 DEF Init, Inv, ShapeInv, DispatchInv

\* The steps of a recorder that find or append an event.
LEMMA AppendEventInv == Inv /\ AppendEvent => Inv'
<1> SUFFICES ASSUME Inv, AppendEvent PROVE Inv'
  OBVIOUS
<1>1. /\ log' \in Seq(Event)
      /\ RecordedOnce'
      /\ Found("request") => Found("request")'
      /\ Step = "request" => Found("request")'
  BY AppendKeepsInv DEF AppendEvent
<1>2. ShapeInv'
  BY <1>1 DEF AppendEvent, Advance, Processes, Pauses, history, Inv, ShapeInv
<1>3. proc = "edit" /\ at = 3 => posted = 0
  BY StepOf DEF AppendEvent, Refused, Classification, Inv, ShapeInv, DispatchInv
<1>4. proc' = "edit" /\ at' = 4 => Found("request")' /\ posted' = 0
  BY <1>1, <1>3, StepOf DEF AppendEvent, Advance, history, Inv, ShapeInv
<1> QED
  BY <1>1, <1>2, <1>4 DEF AppendEvent, history, Inv, DispatchInv

\* A step that finds its event leaves the log alone.
LEMMA FindEventInv == Inv /\ FindEvent => Inv'
<1> SUFFICES ASSUME Inv, FindEvent PROVE Inv'
  OBVIOUS
<1>1. /\ log' \in Seq(Event) /\ RecordedOnce'
      /\ Found("request")' <=> Found("request")
  BY SameLog DEF FindEvent, Kinds
<1>2. ~(proc = "edit" /\ at = 3)
  BY StepOf DEF FindEvent, Due, Refused, Kind, Classification, Inv
<1>3. proc' = "edit" => at' # 4
  BY <1>2 DEF FindEvent, Advance, Inv, ShapeInv
<1> QED
  BY <1>1, <1>3 DEF FindEvent, Advance, Processes, Pauses, history, Inv,
                    ShapeInv, DispatchInv

\* The request is sent once: its intent is in the log and nothing was sent.
LEMMA PostRequestInv == Inv /\ PostRequest => Inv'
<1> SUFFICES ASSUME Inv, PostRequest PROVE Inv'
  OBVIOUS
<1>1. /\ log' \in Seq(Event) /\ RecordedOnce'
      /\ Found("request")' <=> Found("request")
  BY SameLog DEF PostRequest, Kinds
<1>2. at = 4
  BY StepOf DEF PostRequest, Processes, Inv, ShapeInv
<1> QED
  BY <1>1, <1>2 DEF PostRequest, Advance, Inv, ShapeInv, DispatchInv

\* A local-edit that fails has sent at most the request that was due.
LEMMA EditFailsInv == Inv /\ EditFails => Inv'
<1> SUFFICES ASSUME Inv, EditFails PROVE Inv'
  OBVIOUS
<1>1. /\ log' \in Seq(Event) /\ RecordedOnce'
      /\ Found("request") => Found("request")'
  BY RemainsKeepInv DEF EditFails, Processes
<1>2. facts' \in Facts
  BY FactsTyped DEF EditFails, Inv, ShapeInv
<1>3. posted' \in Nat /\ posted' <= 1 /\ (posted' = 1 => Found("request")')
  BY <1>1, StepOf DEF EditFails, Processes, Inv, ShapeInv, DispatchInv
<1> QED
  BY <1>1, <1>2, <1>3 DEF EditFails, Inv, ShapeInv, DispatchInv, Pauses

\* Whatever fails or ends without a dispatch.
LEMMA OtherStepsInv ==
    ASSUME Inv, log' = log \/ (proc \in Processes /\ log' \in Remains),
           proc' \in {"none"} \cup Processes \cup Pauses,
           at' \in Nat \ {0}, proc' = "edit" => at' # 4,
           proc' \in Pauses => at' = 1,
           facts' \in Facts, posted' = posted
    PROVE  Inv'
<1>1. /\ log' \in Seq(Event) /\ RecordedOnce'
      /\ Found("request") => Found("request")'
  BY SameLog, RemainsKeepInv DEF Kinds
<1> QED
  BY <1>1 DEF Inv, ShapeInv, DispatchInv

\* Every step preserves the invariant.
LEMMA NextInv == Inv /\ [Next]_vars => Inv'
<1> SUFFICES ASSUME Inv, [Next]_vars PROVE Inv'
  OBVIOUS
<1> DEFINE Quiet ==
      /\ log' = log \/ (proc \in Processes /\ log' \in Remains)
      /\ proc' \in {"none"} \cup Processes \cup Pauses
      /\ at' \in Nat \ {0}
      /\ proc' = "edit" => at' # 4
      /\ proc' \in Pauses => at' = 1
      /\ facts' \in Facts
      /\ posted' = posted
<1>1. CASE InvokeTask
  <2>1. NoReport \in Facts
    BY FactsTyped
  <2>2. Quiet
    BY <1>1, <2>1 DEF InvokeTask, Inv, Processes
  <2> QED
    BY <2>2, OtherStepsInv
<1>2. CASE InvokeFinalize
  <2>1. Quiet
    BY <1>2 DEF InvokeFinalize, Inv, ShapeInv, Processes
  <2> QED
    BY <2>1, OtherStepsInv
<1>3. CASE Die
  <2>1. Quiet
    BY <1>3 DEF Die, history, Inv, ShapeInv
  <2> QED
    BY <2>1, OtherStepsInv
<1>4. CASE FindEvent
  BY <1>4, FindEventInv
<1>5. CASE AppendEvent
  BY <1>5, AppendEventInv
<1>6. CASE PostRequest
  BY <1>6, PostRequestInv
<1>7. CASE DoWork
  <2>1. facts' \in Facts
    <3>1. PICK t \in {"passed", "broke"} :
            facts' = [facts EXCEPT !.called = TRUE, !.observed = TRUE,
                                   !.test = t, !.good = (t = "passed")]
      BY <1>7 DEF DoWork
    <3>2. t \in Tests /\ (t = "passed") \in BOOLEAN /\ facts \in Facts
      BY DEF Tests, Inv, ShapeInv
    <3> QED
      BY <3>1, <3>2, FactsTyped
  <2>2. at # 3
    BY <1>7, StepOf DEF DoWork, Inv, ShapeInv, Processes
  <2>3. Quiet
    BY <1>7, <2>1, <2>2 DEF DoWork, Advance, Inv, ShapeInv, Pauses
  <2> QED
    BY <2>3, OtherStepsInv
<1>8. CASE StartFails
  <2>1. Quiet
    BY <1>8 DEF StartFails, history, Inv, ShapeInv, Pauses
  <2> QED
    BY <2>1, OtherStepsInv
<1>9. CASE EditFails
  BY <1>9, EditFailsInv
<1>10. CASE FinalizeFails
  <2>1. Quiet
    BY <1>10 DEF FinalizeFails, history, Inv, ShapeInv, Pauses
  <2> QED
    BY <2>1, OtherStepsInv
<1>11. CASE StartReturns
  <2>1. Quiet
    BY <1>11 DEF StartReturns, history, Inv, ShapeInv, Pauses
  <2> QED
    BY <2>1, OtherStepsInv
<1>12. CASE SwitchBackend
  <2>1. Quiet
    BY <1>12 DEF SwitchBackend, history, Inv, ShapeInv, Processes, Pauses
  <2> QED
    BY <2>1, OtherStepsInv
<1>13. CASE EditReturns
  <2>1. Quiet
    BY <1>13 DEF EditReturns, history, Inv, ShapeInv, Pauses
  <2> QED
    BY <2>1, OtherStepsInv
<1>14. CASE Review
  <2>1. facts' \in Facts
    BY <1>14, FactsTyped DEF Review, Inv, ShapeInv, Checks
  <2>2. Quiet
    BY <1>14, <2>1 DEF Review, history, Inv, ShapeInv, Pauses
  <2> QED
    BY <2>2, OtherStepsInv
<1>15. CASE Restore
  <2>1. facts' \in Facts
    BY <1>15, FactsTyped DEF Restore, Inv, ShapeInv, Verdicts
  <2>2. Quiet
    BY <1>15, <2>1 DEF Restore, history, Inv, ShapeInv, Processes
  <2> QED
    BY <2>2, OtherStepsInv
<1>16. CASE FinalizeReturns
  <2>1. Quiet
    BY <1>16 DEF FinalizeReturns, history, Inv, ShapeInv
  <2> QED
    BY <2>1, OtherStepsInv
<1>17. CASE UNCHANGED vars
  BY <1>17, SameLog DEF vars, Inv, ShapeInv, DispatchInv, Found
<1> QED
  BY <1>1, <1>2, <1>3, <1>4, <1>5, <1>6, <1>7, <1>8, <1>9, <1>10, <1>11,
     <1>12, <1>13, <1>14, <1>15, <1>16, <1>17 DEF Next

-----------------------------------------------------------------------------

\* The strengthened invariant holds in every behaviour: however a run is
\* interrupted and resumed, what a recorder decided at one step still holds
\* when it acts at the next.
THEOREM RunInvariance == Spec => []Inv
<1> QED
  BY InitInv, NextInv, PTL DEF Spec

\* However often a run is interrupted and resumed (record_model_intent,
\* resume_classification), the model is asked at most once, and only after
\* the intent is durable.
THEOREM AskedOnce == Spec => []DispatchedOnce
<1>1. Inv => DispatchedOnce
  BY DEF Inv, DispatchInv, DispatchedOnce
<1> QED
  BY <1>1, RunInvariance, PTL

\* However often it is resumed, each event of a run (_find_event before every
\* _append) is recorded once, and the run ends once.
THEOREM NothingRepeated == Spec => []RecordedOnce
<1>1. Inv => RecordedOnce
  BY DEF Inv
<1> QED
  BY <1>1, RunInvariance, PTL

-----------------------------------------------------------------------------
(* What the record says.  A recorder writes what coding-task knows, and    *)
(* coding-task knows it from the log or from what it did: each conjunct    *)
(* follows one of these links.                                             *)

\* The bounds that ShapeInv leaves out.
BoundInv ==
    /\ at <= 12
    /\ result \in {"none", "recorded", "failed"}
    /\ invocations \in 0..MaxInvocations
    /\ proc # "none" => invocations >= 1
    /\ posted = 1 => invocations >= 1
    /\ answered \in BOOLEAN /\ passed \in BOOLEAN

\* The log.
LogInv ==
    /\ Found("response") => answered /\ Found("request")
    /\ Found("completed") => passed
    /\ \A i \in DOMAIN log :
         log[i].kind = "final_state" /\ log[i].says.observed => Found("response")
    /\ passed => answered

\* What coding-task knows.
FactsInv ==
    /\ facts.observed => answered /\ facts.called
    /\ facts.good => passed
    /\ facts.check = "accepted" => passed
    /\ facts.status = "verified" => passed

\* What a recorder has left behind it: local-edit, and then the finalization.
EditInv ==
    proc = "edit" => /\ at >= 4 => Found("request")
                     /\ at >= 5 => answered

FinalInv ==
    proc = "final" => /\ at >= 4 /\ facts.called => Found("request")
                      /\ at >= 5 /\ facts.observed => Found("response")
                      /\ at >= 7 => Found("tested")
                      /\ at >= 8 => Found("verifier")
                      /\ at >= 9 => Found("restore")
                      /\ at >= 10 => Found(TerminalKind)
                      /\ at >= 11 => Found("episode")
                      /\ at >= 12 => Found("final_state")

Complete ==
    result = "recorded" =>
      /\ proc = "none" /\ Found(TerminalKind)
      /\ \A k \in {"tested", "verifier", "restore", "episode", "final_state"} : Found(k)

Truth == BoundInv /\ LogInv /\ FactsInv /\ EditInv /\ FinalInv /\ Complete

IInv == Inv /\ Truth

\* Which step each position of a process is.
LEMMA StartSteps ==
    ASSUME proc = "start", at \in Nat \ {0}
    PROVE  Step \in {"started", "state", "done"} /\ (at > 2 => Step = "done")
<1>1. Step = IF at <= 2 THEN <<"started", "state">>[at] ELSE "done"
  BY DEF Step, Steps
<1>2. at = 1 \/ at = 2 \/ at > 2
  OBVIOUS
<1> QED
  BY <1>1, <1>2

\* The steps of local-edit at their positions.
LEMMA EditSteps ==
    ASSUME proc = "edit", at \in Nat \ {0}
    PROVE  /\ Step = "request" <=> at = 3
           /\ Step = "post" <=> at = 4
           /\ Step = "response" <=> at = 5
           /\ Step = "work" <=> at = 6
           /\ at > 8 <=> Step = "done"
           /\ Step \notin {"terminal", "final_state"}
<1> DEFINE s == <<"started", "state", "request", "post", "response",
                  "work", "edited", "tested">>
<1>1. Step = IF at <= 8 THEN s[at] ELSE "done"
  BY DEF Step, Steps
<1>2. at \in 1..8 \/ at > 8
  OBVIOUS
<1> QED
  BY <1>1, <1>2

\* The steps of a finalization at their positions.
LEMMA FinalSteps ==
    ASSUME proc = "final", at \in Nat \ {0}
    PROVE  /\ Step = "request" <=> at = 3
           /\ Step = "response" <=> at = 4
           /\ Step = "tested" <=> at = 6
           /\ Step = "verifier" <=> at = 7
           /\ Step = "restore" <=> at = 8
           /\ Step = "terminal" <=> at = 9
           /\ Step = "episode" <=> at = 10
           /\ Step = "final_state" <=> at = 11
           /\ at > 11 <=> Step = "done"
           /\ Step \notin {"post", "work"}
<1> DEFINE s == <<"started", "state", "request", "response", "edited",
                  "tested", "verifier", "restore", "terminal", "episode",
                  "final_state">>
<1>1. Step = IF at <= 11 THEN s[at] ELSE "done"
  BY DEF Step, Steps
<1>2. at \in 1..11 \/ at > 11
  OBVIOUS
<1> QED
  BY <1>1, <1>2

\* A step finds what was found before it, and adds at most its own event.
LEMMA Grows ==
    ASSUME Inv, log' = log \/ (proc \in Processes /\ log' \in Remains)
    PROVE  /\ log' \in Seq(Event)
           /\ \A k \in Kinds : Found(k) => Found(k)'
           /\ \A k \in Kinds : Found(k)' => \/ Found(k)
                                            \/ proc \in Processes /\ Due /\ k = Kind
           /\ \A i \in DOMAIN log' :
                \/ i \in DOMAIN log /\ log'[i] = log[i]
                \/ proc \in Processes /\ Due /\ log'[i].kind = Kind /\ log'[i].says = facts
<1>1. CASE log' = log
  <2>1. log' \in Seq(Event) /\ \A k \in Kinds : Found(k)' <=> Found(k)
    BY <1>1, SameLog
  <2>2. \A i \in DOMAIN log' : i \in DOMAIN log /\ log'[i] = log[i]
    BY <1>1
  <2> QED
    BY <2>1, <2>2
<1>2. CASE proc \in Processes /\ Due /\ ~Refused /\ log' = Recorded
  <2> DEFINE e == [kind |-> Kind, says |-> facts]
  <2>1. Step \in Names \ {"post", "work", "done"}
    BY <1>2, StepOf DEF Due, Inv, ShapeInv
  <2>2. e \in Event /\ e.kind = Kind /\ e.says = facts
    BY <2>1, KindOf DEF Event, Inv, ShapeInv
  <2>3. log \in Seq(Event) /\ log' = Append(log, e)
    BY <1>2 DEF Recorded, Inv, ShapeInv
  <2>4. \A k \in Kinds : Found(k)' <=> Found(k) \/ Kind = k
    BY <2>2, <2>3, FoundAfterAppend
  <2> HIDE DEF e
  <2>5. log' \in Seq(Event) /\ \A i \in DOMAIN log' : (i \in DOMAIN log /\ log'[i] = log[i]) \/ log'[i] = e
    BY <2>2, <2>3
  <2>6. \A i \in DOMAIN log' : \/ i \in DOMAIN log /\ log'[i] = log[i]
                               \/ log'[i].kind = Kind /\ log'[i].says = facts
    BY <2>2, <2>5
  <2> QED
    BY <1>2, <2>4, <2>5, <2>6
<1> QED
  BY <1>1, <1>2 DEF Remains

\* What a recorder may append is true when it does.
LEMMA AppendsTruth ==
    ASSUME IInv, proc \in Processes, Due
    PROVE  /\ Kind = "response" => answered /\ Found("request")
           /\ Kind = "completed" => passed
           /\ Kind = "final_state" /\ facts.observed => Found("response")
<1>1. /\ at \in Nat \ {0} /\ Step \in Names \ {"post", "work", "done"} /\ LogInv /\ FactsInv
      /\ EditInv /\ FinalInv
  BY StepOf DEF IInv, Truth, Inv, ShapeInv, Due
<1>2. Kind = "response" => Step = "response"
  BY <1>1 DEF Kind, TerminalKind
<1>3. Kind = "completed" => Step = "terminal" /\ facts.status = "verified"
  BY <1>1 DEF Kind, TerminalKind, Names
<1>4. Kind = "final_state" => Step = "final_state"
  BY <1>1 DEF Kind, TerminalKind
<1>5. CASE proc = "start"
  BY <1>1, <1>2, <1>3, <1>4, <1>5, StartSteps
<1>6. CASE proc = "edit"
  BY <1>1, <1>2, <1>3, <1>4, <1>6, EditSteps DEF EditInv
<1>7. CASE proc = "final"
  <2>1. Step = "response" => at = 4 /\ facts.called /\ facts.observed
    BY <1>1, <1>7, FinalSteps DEF Due
  <2>2. Step = "final_state" => at = 11
    BY <1>1, <1>7, FinalSteps
  <2> QED
    BY <1>1, <1>2, <1>3, <1>4, <1>7, <2>1, <2>2 DEF FinalInv, FactsInv
<1> QED
  BY <1>5, <1>6, <1>7 DEF Processes

\* The log stays true, whatever a step leaves in it.
LEMMA LogStaysTrue ==
    ASSUME IInv, log' = log \/ (proc \in Processes /\ log' \in Remains),
           answered => answered', passed => passed', passed' => answered'
    PROVE  LogInv'
<1>1. Inv /\ LogInv
  BY DEF IInv, Truth
<1>2. /\ \A k \in Kinds : Found(k) => Found(k)'
      /\ \A k \in Kinds : Found(k)' => \/ Found(k)
                                       \/ proc \in Processes /\ Due /\ k = Kind
      /\ \A i \in DOMAIN log' :
           \/ i \in DOMAIN log /\ log'[i] = log[i]
           \/ proc \in Processes /\ Due /\ log'[i].kind = Kind /\ log'[i].says = facts
  BY <1>1, Grows
<1>3. {"response", "request", "completed"} \subseteq Kinds
  BY DEF Kinds
<1>4. Found("response")' => answered' /\ Found("request")'
  BY <1>1, <1>2, <1>3, AppendsTruth DEF LogInv
<1>5. Found("completed")' => passed'
  BY <1>1, <1>2, <1>3, AppendsTruth DEF LogInv
<1>6. ASSUME NEW i \in DOMAIN log', log'[i].kind = "final_state", log'[i].says.observed
      PROVE  Found("response")'
  BY <1>1, <1>2, <1>3, <1>6, AppendsTruth DEF LogInv
<1> QED
  BY <1>4, <1>5, <1>6 DEF LogInv

\* A step after which no recorder has anything behind it.
LEMMA FreshStep ==
    ASSUME IInv, log' = log \/ (proc \in Processes /\ log' \in Remains),
           at' \in 1..12, proc' = "edit" => at' <= 3, proc' = "final" => at' <= 3,
           FactsInv', result' \in {"none", "failed"},
           invocations' \in 1..MaxInvocations, posted' \in Nat,
           UNCHANGED <<answered, passed>>
    PROVE  Truth'
<1>1. LogInv'
  BY LogStaysTrue DEF IInv, Truth, LogInv
<1>2. MaxInvocations \in Nat
  BY RunMemoryAssumption
<1>3. BoundInv'
  BY <1>2 DEF IInv, Truth, BoundInv
<1>4. EditInv' /\ FinalInv' /\ Complete'
  BY DEF EditInv, FinalInv, Complete
<1> QED
  BY <1>1, <1>3, <1>4 DEF Truth

\* Facts that stay are facts that hold.
LEMMA SameFacts ==
    ASSUME IInv, facts' = facts, answered' = answered, passed' = passed PROVE FactsInv'
  BY DEF IInv, Truth, FactsInv

\* Between invocations and within one, what holds of the counters.
LEMMA InInvocation ==
    ASSUME IInv
    PROVE  /\ invocations \in 0..MaxInvocations /\ MaxInvocations \in Nat
           /\ proc # "none" => /\ invocations \in 1..MaxInvocations
                               /\ result # "recorded" /\ result \in {"none", "failed"}
           /\ posted \in Nat /\ at \in 1..12 /\ facts \in Facts
<1>1. MaxInvocations \in Nat
  BY RunMemoryAssumption
<1>2. at \in 1..12
  BY DEF IInv, Inv, Truth, BoundInv, ShapeInv
<1>3. invocations \in 0..MaxInvocations /\ posted \in Nat /\ facts \in Facts
  BY DEF IInv, Inv, Truth, BoundInv, ShapeInv
<1>4. proc # "none" => invocations >= 1
  BY DEF IInv, Truth, BoundInv
<1>5. proc # "none" => invocations \in 1..MaxInvocations
  BY <1>1, <1>3, <1>4
<1>6. proc # "none" => result # "recorded" /\ result \in {"none", "failed"}
  BY DEF IInv, Truth, BoundInv, Complete
<1> QED
  BY <1>1, <1>2, <1>3, <1>5, <1>6

\* The terminal event stays found while the verdict is the same.
LEMMA EndStays ==
    ASSUME IInv, log' = log \/ (proc \in Processes /\ log' \in Remains), facts' = facts
    PROVE  /\ Found(TerminalKind) => Found(TerminalKind)'
           /\ \A k \in Kinds : Found(k) => Found(k)'
<1>1. \A k \in Kinds : Found(k) => Found(k)'
  BY Grows DEF IInv
<1>2. TerminalKind' = TerminalKind /\ TerminalKind \in {"completed", "failed"}
  BY DEF TerminalKind
<1>3. CASE TerminalKind = "completed"
  BY <1>1, <1>2, <1>3 DEF Kinds
<1>4. CASE TerminalKind = "failed"
  BY <1>1, <1>2, <1>4 DEF Kinds
<1> QED
  BY <1>1, <1>2, <1>3, <1>4

\* A recorder that finds its event or appends it has it behind it.
LEMMA RecorderStep ==
    ASSUME IInv, FindEvent \/ AppendEvent PROVE Truth'
<1>1. /\ proc \in Processes /\ proc' = proc /\ at' = at + 1 /\ at \in Nat \ {0}
      /\ Step \notin {"post", "work", "done"}
      /\ UNCHANGED <<facts, result, invocations, posted, answered, passed>>
      /\ log' = log \/ (proc \in Processes /\ log' \in Remains)
  BY DEF FindEvent, AppendEvent, Advance, history, Due, Remains, IInv, Inv, ShapeInv
<1>2. LogInv'
  BY <1>1, LogStaysTrue DEF IInv, Truth, LogInv
<1>3. FactsInv'
  BY <1>1, SameFacts
<1>4. \A k \in Kinds : Found(k) => Found(k)'
  BY <1>1, Grows DEF IInv
<1>5. PICK k : k = Kind
  OBVIOUS
<1>6. k \in Kinds /\ Step \in Names
  BY <1>1, <1>5, StepOf, KindOf
<1>7. \/ Found(k)'
      \/ proc = "final" /\ Step = "request" /\ ~facts.called
      \/ proc = "final" /\ Step = "response" /\ ~(facts.called /\ facts.observed)
  <2>1. CASE FindEvent
    BY <1>1, <1>4, <1>5, <1>6, <2>1 DEF FindEvent, Due
  <2>2. CASE AppendEvent
    <3>1. PICK e : e = [kind |-> k, says |-> facts]
      OBVIOUS
    <3>2. e \in Event /\ e.kind = k /\ log \in Seq(Event) /\ log' = Append(log, e)
      BY <1>5, <1>6, <2>2, <3>1 DEF AppendEvent, Recorded, Event, IInv, Inv, ShapeInv
    <3> QED
      BY <1>6, <3>2, FoundAfterAppend
  <2> QED
    BY <2>1, <2>2
<1>8. Step \in {"tested", "verifier", "restore", "episode", "final_state",
                "request", "response"} => k = Step
  BY <1>5 DEF Kind
<1>9. EditInv'
  <2> SUFFICES ASSUME proc = "edit"
               PROVE  /\ at' >= 4 => Found("request")'
                      /\ at' >= 5 => answered
    BY <1>1 DEF EditInv
  <2>1. EditInv /\ at # 4 /\ (at = 3 => Step = "request")
    BY <1>1, EditSteps DEF IInv, Truth
  <2>2. at' >= 4 => at >= 4 \/ at = 3
    BY <1>1
  <2>3. at' >= 5 => at >= 5
    BY <1>1, <2>1
  <2>4. "request" \in Kinds
    BY DEF Kinds
  <2> QED
    BY <1>4, <1>7, <1>8, <2>1, <2>2, <2>3, <2>4 DEF EditInv
<1>10. FinalInv'
  <2> SUFFICES ASSUME proc = "final" PROVE FinalInv'
    BY <1>1 DEF FinalInv
  <2>1. FinalInv /\ facts' = facts /\ at' = at + 1
    BY <1>1 DEF IInv, Truth
  <2>2. {"request", "response", "tested", "verifier", "restore", "episode", "final_state"}
           \subseteq Kinds
    BY DEF Kinds
  <2>3. Found(TerminalKind) => Found(TerminalKind)'
    BY <1>1, EndStays
  <2>4. /\ at = 3 => Step = "request"
        /\ at = 4 => Step = "response"
        /\ at = 6 => Step = "tested"
        /\ at = 7 => Step = "verifier"
        /\ at = 8 => Step = "restore"
        /\ at = 9 => Step = "terminal"
        /\ at = 10 => Step = "episode"
        /\ at = 11 => Step = "final_state"
    BY <1>1, FinalSteps
  <2>5. at = 9 => Found(TerminalKind)'
    <3> SUFFICES ASSUME at = 9 PROVE Found(TerminalKind)'
      OBVIOUS
    <3>1. k = TerminalKind /\ TerminalKind' = TerminalKind
      BY <1>5, <2>1, <2>4 DEF Kind, TerminalKind
    <3>2. Found(k)'
      BY <1>7, <2>4
    <3> QED
      BY <3>1, <3>2
  <2>6. /\ at' >= 4 /\ facts.called => Found("request")'
        /\ at' >= 5 /\ facts.observed => Found("response")'
    <3>1. facts.observed => facts.called
      BY DEF IInv, Truth, FactsInv
    <3> QED
      BY <1>1, <1>4, <1>7, <1>8, <2>1, <2>2, <2>4, <3>1 DEF FinalInv
  <2>7. /\ at' >= 7 => Found("tested")'
        /\ at' >= 8 => Found("verifier")'
        /\ at' >= 9 => Found("restore")'
    BY <1>1, <1>4, <1>7, <1>8, <2>1, <2>2, <2>4 DEF FinalInv
  <2>8. /\ at' >= 10 => Found(TerminalKind)'
        /\ at' >= 11 => Found("episode")'
        /\ at' >= 12 => Found("final_state")'
    BY <1>1, <1>4, <1>7, <1>8, <2>1, <2>2, <2>3, <2>4, <2>5 DEF FinalInv
  <2> QED
    BY <2>1, <2>6, <2>7, <2>8 DEF FinalInv
<1>11. at' \in 1..12
  <2>1. at \in 1..11
    BY <1>1, StartSteps, EditSteps, FinalSteps DEF Processes, IInv, Truth, BoundInv
  <2> QED
    BY <1>1, <2>1
<1>12. BoundInv' /\ Complete'
  BY <1>1, <1>11, InInvocation DEF IInv, Truth, BoundInv, Complete, Processes
<1> QED
  BY <1>2, <1>3, <1>9, <1>10, <1>12 DEF Truth

\* The script learns of a failed edit only what is so.
LEMMA EditFailsTruth == ASSUME IInv, EditFails PROVE Truth'
<1>1. /\ proc = "edit" /\ log' \in Remains /\ proc' = "review" /\ at' = 1
      /\ posted' \in {posted, posted + 1} /\ result' = result
      /\ UNCHANGED <<invocations, answered, passed>>
  BY DEF EditFails
<1>2. invocations' \in 1..MaxInvocations /\ posted' \in Nat /\ result' \in {"none", "failed"}
  BY <1>1, InInvocation
<1>3. LogInv'
  BY <1>1, LogStaysTrue DEF IInv, Truth, LogInv, Processes
<1>4. facts \in Facts /\ FactsInv
  BY InInvocation DEF IInv, Truth
<1>5. FactsInv'
  <2>1. \/ facts' = NoReport
        \/ facts' = [facts EXCEPT !.good = FALSE]
        \/ facts' = FailureReport(log')
    BY DEF EditFails
  <2>2. CASE facts' = NoReport
    BY <2>2 DEF FactsInv, NoReport
  <2>3. CASE facts' = [facts EXCEPT !.good = FALSE]
    BY <1>1, <1>4, <2>3 DEF FactsInv, Facts
  <2>4. CASE facts' = FailureReport(log')
    <3>1. /\ facts'.called = Found("request")' /\ facts'.observed = Found("response")'
          /\ facts'.good = FALSE /\ facts'.check = "not_run" /\ facts'.status = "failed"
      BY <2>4 DEF FailureReport, NoReport, Found
    <3> QED
      BY <1>3, <3>1 DEF FactsInv, LogInv
  <2> QED
    BY <2>1, <2>2, <2>3, <2>4
<1> QED
  BY <1>1, <1>2, <1>5, FreshStep DEF Processes

\* A response is read after its request, and only then known.
LEMMA PostRequestTruth == ASSUME IInv, PostRequest PROVE Truth'
<1>1. /\ proc = "edit" /\ proc' = "edit" /\ at' = at + 1 /\ log' = log /\ posted' = posted + 1
      /\ answered' = TRUE /\ UNCHANGED <<facts, result, invocations, passed>> /\ Step = "post"
  BY DEF PostRequest, Advance
<1>2. at = 4 /\ Found("request")
  BY <1>1, EditSteps DEF IInv, Inv, ShapeInv, DispatchInv
<1>3. LogInv'
  BY <1>1, LogStaysTrue
<1>4. FactsInv'
  BY <1>1 DEF IInv, Truth, FactsInv
<1>5. EditInv' /\ FinalInv'
  BY <1>1, <1>2 DEF EditInv, FinalInv, Found
<1>6. BoundInv' /\ Complete'
  BY <1>1, <1>2, InInvocation DEF IInv, Truth, BoundInv, Complete
<1> QED
  BY <1>3, <1>4, <1>5, <1>6 DEF Truth

\* Whether the test passed is known from the test.
LEMMA DoWorkTruth == ASSUME IInv, DoWork PROVE Truth'
<1>1. /\ proc = "edit" /\ proc' = "edit" /\ at' = at + 1 /\ log' = log /\ Step = "work"
      /\ UNCHANGED <<result, invocations, posted, answered>>
  BY DEF DoWork, Advance
<1>2. at = 6 /\ answered /\ Found("request") /\ facts \in Facts
  BY <1>1, EditSteps DEF IInv, Inv, ShapeInv, Truth, EditInv
<1>3. PICK t \in {"passed", "broke"} :
        /\ facts' = [facts EXCEPT !.called = TRUE, !.observed = TRUE,
                                  !.test = t, !.good = (t = "passed")]
        /\ passed' = (passed \/ t = "passed")
  BY DEF DoWork
<1>4. LogInv'
  BY <1>1, <1>2, <1>3, LogStaysTrue DEF IInv, Truth, BoundInv
<1>5. FactsInv'
  <2>1. /\ facts'.called = TRUE /\ facts'.observed = TRUE /\ facts'.good = (t = "passed")
        /\ facts'.check = facts.check /\ facts'.status = facts.status
    BY <1>2, <1>3 DEF Facts
  <2> QED
    BY <1>1, <1>2, <1>3, <2>1 DEF IInv, Truth, FactsInv
<1>6. EditInv' /\ FinalInv'
  BY <1>1, <1>2 DEF EditInv, FinalInv, Found
<1>7. BoundInv' /\ Complete'
  BY <1>1, <1>2, <1>3, InInvocation DEF IInv, Truth, BoundInv, Complete
<1> QED
  BY <1>4, <1>5, <1>6, <1>7 DEF Truth

\* Every step keeps the record true.
LEMMA NextTruth == ASSUME IInv, [Next]_vars PROVE Truth'
<1> DEFINE Fresh ==
      /\ log' = log \/ (proc \in Processes /\ log' \in Remains)
      /\ at' \in 1..12
      /\ proc' = "edit" => at' <= 3
      /\ proc' = "final" => at' <= 3
      /\ result' \in {"none", "failed"}
      /\ invocations' \in 1..MaxInvocations
      /\ posted' \in Nat
      /\ UNCHANGED <<answered, passed>>
<1>0. ASSUME Fresh, FactsInv' PROVE Truth'
  BY <1>0, FreshStep
<1>1. CASE InvokeTask
  <2>1. Fresh
    BY <1>1, InInvocation DEF InvokeTask
  <2>2. FactsInv'
    BY <1>1 DEF InvokeTask, FactsInv, NoReport
  <2> QED
    BY <1>0, <2>1, <2>2
<1>2. CASE InvokeFinalize
  <2>1. Fresh
    BY <1>2, InInvocation DEF InvokeFinalize
  <2>2. FactsInv'
    BY <1>2, SameFacts DEF InvokeFinalize
  <2> QED
    BY <1>0, <2>1, <2>2
<1>3. CASE Die
  <2>1. Fresh
    BY <1>3, InInvocation DEF Die, history
  <2>2. FactsInv'
    BY <1>3, SameFacts DEF Die, history
  <2> QED
    BY <1>0, <2>1, <2>2
<1>4. CASE FindEvent \/ AppendEvent
  BY <1>4, RecorderStep
<1>5. CASE PostRequest
  BY <1>5, PostRequestTruth
<1>6. CASE DoWork
  BY <1>6, DoWorkTruth
<1>7. CASE StartFails
  <2>1. Fresh
    BY <1>7, InInvocation DEF StartFails, history, Processes
  <2>2. FactsInv'
    BY <1>7, SameFacts DEF StartFails, history
  <2> QED
    BY <1>0, <2>1, <2>2
<1>8. CASE EditFails
  BY <1>8, EditFailsTruth
<1>9. CASE FinalizeFails
  <2>1. Fresh
    BY <1>9, InInvocation DEF FinalizeFails, history, Processes
  <2>2. FactsInv'
    BY <1>9, SameFacts DEF FinalizeFails, history
  <2> QED
    BY <1>0, <2>1, <2>2
<1>10. CASE StartReturns
  <2>1. Fresh
    BY <1>10, InInvocation DEF StartReturns, history
  <2>2. FactsInv'
    BY <1>10, SameFacts DEF StartReturns, history
  <2> QED
    BY <1>0, <2>1, <2>2
<1>11. CASE SwitchBackend
  <2>1. at = 1
    BY <1>11 DEF SwitchBackend, IInv, Inv, ShapeInv, Pauses
  <2>2. Fresh
    BY <1>11, <2>1, InInvocation DEF SwitchBackend, history
  <2>3. FactsInv'
    BY <1>11, SameFacts DEF SwitchBackend, history
  <2> QED
    BY <1>0, <2>2, <2>3
<1>12. CASE EditReturns
  <2>1. Fresh
    BY <1>12, InInvocation DEF EditReturns, history
  <2>2. FactsInv'
    BY <1>12, SameFacts DEF EditReturns, history
  <2> QED
    BY <1>0, <2>1, <2>2
<1>13. CASE Review
  <2>1. at = 1 /\ facts \in Facts /\ FactsInv
    BY <1>13, InInvocation DEF Review, IInv, Inv, ShapeInv, Pauses, Truth
  <2>2. Fresh
    BY <1>13, <2>1, InInvocation DEF Review, history
  <2>3. PICK check \in IF facts.good THEN Checks ELSE {"not_run"} :
          facts' = [facts EXCEPT !.check = check]
    BY <1>13 DEF Review
  <2>4. /\ facts'.called = facts.called /\ facts'.observed = facts.observed
        /\ facts'.good = facts.good /\ facts'.status = facts.status /\ facts'.check = check
    BY <2>1, <2>3 DEF Facts
  <2>5. check = "accepted" => facts.good
    BY <2>3
  <2>6. FactsInv'
    BY <1>13, <2>1, <2>4, <2>5 DEF FactsInv, Review, history
  <2> QED
    BY <1>0, <2>2, <2>6
<1>14. CASE Restore
  <2>1. at = 1 /\ facts \in Facts /\ FactsInv
    BY <1>14, InInvocation DEF Restore, IInv, Inv, ShapeInv, Pauses, Truth
  <2>2. Fresh
    BY <1>14, <2>1, InInvocation DEF Restore, history
  <2>3. PICK ready \in BOOLEAN :
          facts' = [facts EXCEPT !.status =
                     CASE ready /\ facts.check = "accepted" -> "verified"
                       [] ready /\ facts.check = "rejected" -> "rejected"
                       [] OTHER                             -> "failed"]
    BY <1>14 DEF Restore
  <2>4. /\ facts'.called = facts.called /\ facts'.observed = facts.observed
        /\ facts'.good = facts.good /\ facts'.check = facts.check
        /\ facts'.status = "verified" => facts.check = "accepted"
    BY <2>1, <2>3 DEF Facts
  <2>5. FactsInv'
    BY <1>14, <2>1, <2>4 DEF FactsInv, Restore, history
  <2> QED
    BY <1>0, <2>2, <2>5
<1>15. CASE FinalizeReturns
  <2>1. /\ proc = "final" /\ Step = "done" /\ proc' = "none" /\ at' = 1 /\ result' = "recorded"
        /\ UNCHANGED <<log, facts, invocations, posted, answered, passed>>
    BY <1>15 DEF FinalizeReturns, history
  <2>2. at = 12
    BY <2>1, FinalSteps, InInvocation
  <2>3. /\ Found(TerminalKind)
        /\ \A k \in {"tested", "verifier", "restore", "episode", "final_state"} : Found(k)
    <3>1. FinalInv
      BY DEF IInv, Truth
    <3> QED
      BY <2>1, <2>2, <3>1 DEF FinalInv
  <2>4. Complete'
    <3>1. Found(TerminalKind)' /\ \A k \in Kinds : Found(k) => Found(k)'
      BY <2>1, <2>3, EndStays
    <3> QED
      BY <2>1, <2>3, <3>1 DEF Complete, Kinds
  <2>5. FactsInv' /\ LogInv'
    BY <2>1, SameFacts, LogStaysTrue DEF IInv, Truth, LogInv
  <2>6. EditInv' /\ FinalInv' /\ BoundInv'
    BY <2>1, InInvocation DEF EditInv, FinalInv, BoundInv, IInv, Truth
  <2> QED
    BY <2>4, <2>5, <2>6 DEF Truth
<1>16. CASE UNCHANGED vars
  <2>1. UNCHANGED <<log, proc, at, facts, result, invocations, posted, answered, passed>>
    BY <1>16 DEF vars
  <2>2. FactsInv' /\ LogInv'
    BY <2>1, SameFacts, LogStaysTrue DEF IInv, Truth, LogInv
  <2>3. EditInv' /\ FinalInv' /\ BoundInv' /\ Complete'
    BY <2>1 DEF EditInv, FinalInv, BoundInv, Complete, IInv, Truth, Found, TerminalKind
  <2> QED
    BY <2>2, <2>3 DEF Truth
<1> QED
  BY <1>1, <1>2, <1>3, <1>4, <1>5, <1>6, <1>7, <1>8, <1>9, <1>10, <1>11,
     <1>12, <1>13, <1>14, <1>15, <1>16 DEF Next

\* Nothing is known and nothing is recorded.
LEMMA InitTruth == Init => Truth
<1> SUFFICES ASSUME Init PROVE Truth
  OBVIOUS
<1>1. \A k : ~Found(k)
  BY DEF Init, Found
<1>2. BoundInv
  <2>1. invocations \in 0..MaxInvocations
    BY RunMemoryAssumption DEF Init
  <2>2. at <= 12
    <3>1. at = 1
      BY DEF Init
    <3> QED
      BY <3>1
  <2>3. proc = "none" /\ posted = 0
    BY DEF Init
  <2>4. ~(proc # "none") /\ ~(posted = 1)
    BY <2>3
  <2>5. /\ result \in {"none", "recorded", "failed"}
        /\ answered \in BOOLEAN
        /\ passed \in BOOLEAN
    BY DEF Init
  <2> QED
    BY <2>1, <2>2, <2>4, <2>5 DEF BoundInv
<1>3. LogInv /\ EditInv /\ FinalInv /\ Complete
  BY <1>1 DEF Init, LogInv, EditInv, FinalInv, Complete
<1>4. FactsInv
  BY DEF Init, FactsInv, NoReport
<1> QED
  BY <1>2, <1>3, <1>4 DEF Truth

\* What the record says, coding-task knew, and what it knew had happened:
\* the invariant that carries the truth of the record through every
\* interruption.
THEOREM RecordInvariance == Spec => []IInv
<1>1. Init => IInv
  BY InitInv, InitTruth DEF IInv
<1>2. IInv /\ [Next]_vars => IInv'
  BY NextInv, NextTruth DEF IInv
<1> QED
  BY <1>1, <1>2, PTL DEF Spec

\* Every event is of its type and every process at one of its steps, and the
\* model is asked no more often than coding-task is invoked.
THEOREM TypeCorrect == Spec => []TypeOK
<1>1. ASSUME IInv PROVE TypeOK
  <2>1. at \in 1..12 /\ invocations \in 0..MaxInvocations /\ MaxInvocations \in Nat
    BY <1>1, InInvocation
  <2>2. Len(Steps.final) + 1 = 12
    BY DEF Steps
  <2>3. posted \in 0..MaxInvocations
    <3>1. posted \in Nat /\ posted <= 1 /\ (posted = 1 => invocations >= 1)
      BY <1>1 DEF IInv, Inv, ShapeInv, DispatchInv, Truth, BoundInv
    <3> QED
      BY <2>1, <3>1
  <2> QED
    BY <1>1, <2>1, <2>2, <2>3 DEF IInv, Inv, ShapeInv, Truth, BoundInv, TypeOK
<1> QED
  BY <1>1, RecordInvariance, PTL

\* RunMemoryRecorder (record_model_response, finalize): a response is recorded
\* only if one was read, a run is completed only if its test has passed, and
\* a finalization that returns has left a complete record.
THEOREM RecordIsTruthful == Spec => []NothingFabricated
<1>1. ASSUME IInv PROVE NothingFabricated
  <2>1. LogInv /\ Complete
    BY <1>1 DEF IInv, Truth
  <2>2. ASSUME Found("final_state"), TheEvent("final_state").says.observed
        PROVE  Found("response")
    <3>1. PICK i \in DOMAIN log : log[i].kind = "final_state" /\ TheEvent("final_state") = log[i]
      BY <2>2 DEF Found, TheEvent
    <3> QED
      BY <2>1, <2>2, <3>1 DEF LogInv
  <2> QED
    BY <2>1, <2>2 DEF LogInv, Complete, NothingFabricated
<1> QED
  BY <1>1, RecordInvariance, PTL
=============================================================================
