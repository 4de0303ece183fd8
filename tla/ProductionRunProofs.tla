------------------------ MODULE ProductionRunProofs ------------------------
(***************************************************************************)
(* Proofs about ProductionRun, for any repository, any routes and budgets  *)
(* and any number of faults and edits by others.                           *)
(*                                                                         *)
(* What is promoted was seen to pass: HarnessInv follows the stage through *)
(* the harness.  What becomes of it is carried by WorkerInv, which says at *)
(* each step of the worker what is in the repository, in the backup, in    *)
(* the report and in the journal.                                          *)
(***************************************************************************)
EXTENDS ProductionRun, FiniteSetTheorems, FunctionTheorems, TLAPS

-----------------------------------------------------------------------------
(* The inductive invariant                                                 *)

\* The plugin and the runner count a call before they count its kind; the
\* controller stops the run before a repair too many.
CountInv ==
    /\ child.edits <= child.calls /\ child.tests <= child.calls
    /\ audit.edits <= audit.calls /\ audit.tests <= audit.calls
    /\ repair.repairs <= MaxRepairs

\* Only a DeepSeek run has the independent verifier.
LateInv == tree.late \/ "verifier" \in tree.background => harness = "deepseek"

\* When the loop of the runner is over, nobody reads what a child still writes.
LoopInv ==
    /\ runner.phase # "reading" => child.phase \in {"exited", "gone"}
    /\ child.phase = "gone" => child.code = 2 /\ runner.phase # "reading"
    /\ runner.phase \in {"reading", "waiting", "closing", "verifying"}
         => runner.verifier = "none"
    /\ runner.phase = "verifying" => harness = "deepseek"
    /\ LateInv

\* The checks after the loop, on the routes with the guards of the plugin.
VerdictInv ==
    harness # "qwen" =>
      /\ runner.phase # "reading" /\ runner.owned = "job"
           => "child" \notin tree.background
      /\ runner.phase \in {"verifying", "judging", "passed"}
           /\ runner.error = "none" /\ runner.owned = "job" => ~tree.outside
      /\ runner.phase \in {"judging", "passed"} /\ runner.verifier = "passed"
           /\ runner.owned = "job" => tree.verified
      /\ runner.phase = "passed" => runner.owned = "job" /\ runner.error = "none"

\* A Swift run has no verification of its own: its test only reads the stage,
\* the plugin refuses the shell and lets the agent end only after a test that no edit followed.
SwiftInv ==
    harness = "swift" /\ harness \notin TornWriters =>
      /\ child.phase # "gone" =>
           tree.background = {} /\ (child.tested => tree.verified)
      /\ child.phase = "exited" /\ child.code = 0 => child.tested
      /\ child.phase = "tool" /\ child.tool = "pwsh" => child.denied # "no"
      /\ runner.phase \in {"waiting", "closing", "judging", "passed"}
           /\ runner.error = "none" => child.phase = "exited"
      /\ runner.phase \in {"judging", "passed"} /\ runner.error = "none"
           => child.code = 0

\* The evidence of a failed command is in its event.
Known(e) == e.kind = "end" /\ e.failed => e.sig \in Sigs
PipeInv == \A i \in DOMAIN pipe : Known(pipe[i])

HarnessInv == CountInv /\ LoopInv /\ VerdictInv /\ SwiftInv /\ PipeInv

\* The steps of the worker, by what it may have done.
BeforeHarness == {"started", "state1", "switch", "retrieved", "request", "harness"}
BeforeIdle == BeforeHarness \cup {"response", "review", "idle"}
BeforePromotion == BeforeIdle \cup {"decide", "escaped"}
Copying == {"check", "backup", "manifest"}
Promoting == Copying \cup {"replace", "compare", "rollback", "report"}
Closing == {"memory", "verification", "episode", "state2", "terminal", "recover",
            "result"}
AfterPromotion == {"applied", "cleanup"} \cup Closing

\* The backup manifest overwrites the copy of a file of its name.
Ordinary == Paths \ {ManifestPath}

Untouched == \A p \in Paths : source[p] \in {before[p], "user"}

\* The source is what was staged, but for what others edited since.
Promoted == \A p \in Paths : source[p] \in {staged[p], "user"}

Kept(p) == backup[p] = before[p] \/ (backup[p] = "user" /\ userEdits > 0)
AllKept == \A p \in Changed \cap Ordinary : Kept(p)

\* Who wrote what is in the source, and where the rest of it is.
SourceInv ==
    /\ \A p \in Paths : staged[p] # "user" /\ (source[p] = "user" => userEdits > 0)
    /\ \A p \in Paths : backup[p] = "user" => userEdits > 0
    /\ pc \in BeforePromotion \cup Copying => Untouched /\ applied = <<>>
    /\ pc = "backup" => \A p \in Changed \cap Ordinary : p \in Range(todo) \/ Kept(p)
    /\ pc = "manifest" => AllKept
    /\ pc \in Promoting \ Copying => AllKept
    /\ pc \in {"backup", "replace", "rollback"} => Range(todo) \subseteq Changed
    /\ Range(applied) \subseteq Changed
    /\ Untouched \/ final.applied \/ AllKept

\* How far a rollback that meets no error has come, if nobody else edits.
RollbackInv ==
    userEdits = 0 =>
      /\ pc \in {"replace", "compare"} =>
           \A p \in Ordinary : source[p] = before[p] \/ p \in Range(applied)
      /\ pc = "rollback" /\ ~final.rollbackError =>
           \A p \in Ordinary : source[p] = before[p] \/ p \in Range(todo)
      /\ (pc = "report" \/ final.promotion = "failed") /\ ~final.rollbackError =>
           \A p \in Ordinary : source[p] = before[p]

\* What the report says of the promotion and of the backend.
ReportInv ==
    /\ pc \in BeforePromotion \cup Promoting =>
         final.promotion = "not_attempted" /\ ~final.applied
    /\ pc \in AfterPromotion \cup {"ended"} /\ ~final.applied =>
         Untouched \/ (final.promotion = "failed" /\ ~final.rolledBack)
    /\ final.applied => Promoted
    /\ final.restored => backend = "Off"
    /\ pc \in BeforeIdle => ~final.restored

\* The verdict on the run, and on what it rests.
StatusInv ==
    /\ pc \in BeforeHarness => ~final.ok
    /\ pc \in BeforeIdle \cup {"decide"} => final.status = "none"
    /\ pc \in Promoting => final.status = "verified" /\ ~final.stageOnly
    /\ final.status = "verified" => final.ok
    /\ applied # <<>> \/ final.applied => final.ok
    /\ pc = "applied" => final.applied \/ final.status = "failed"
    /\ pc = "cleanup" => final.applied
    /\ pc \in Closing \cup {"ended"} /\ final.status = "verified" =>
         final.stageOnly \/ (final.applied /\ final.clean)
    /\ pc = "recover" => final.status = "failed"
    /\ final.ok /\ harness # "qwen" /\ "swift" \notin TornWriters
         => tree.verified /\ ~tree.outside
    /\ LateInv

Verified == final.status = "verified"
EpisodeVerified ==
    \E i \in DOMAIN log : log[i] = [kind |-> "episode", status |-> "verified"]
Terminated == Logged("completed") \/ Logged("failed")

\* The journal of the task.
JournalInv ==
    /\ pc \notin {"escaped", "recover", "result", "ended", "crashed"} => ~stuck
    /\ Terminated => pc \in {"recover", "result", "ended", "crashed"}
    /\ pc = "recover" /\ Terminated => stuck
    /\ ~(Logged("completed") /\ Logged("failed"))
    /\ Logged("completed") => final.ok /\ (final.stageOnly \/ final.applied)
    /\ pc \in {"state2", "terminal"} /\ Verified => EpisodeVerified
    /\ pc \in {"result", "ended"} /\ Verified =>
         /\ ~stuck /\ EpisodeVerified
         /\ log # <<>> /\ log[Len(log)].kind = "completed"

WorkerInv ==
    /\ pc \in BeforeHarness => HarnessInv
    /\ SourceInv /\ RollbackInv /\ ReportInv /\ StatusInv /\ JournalInv

IInv == TypeOK /\ WorkerInv
-----------------------------------------------------------------------------
(* The harness                                                             *)

\* What an event of each kind carries.
LEMMA EventOf ==
    ASSUME NEW e \in Event
    PROVE  /\ e.kind = "start" => e.tool \in Tools /\ e.denied \in Denials
           /\ e.kind = "end" => /\ e.tool \in Tools /\ e.failed \in BOOLEAN
                                /\ e.sig \in Sigs \cup {"none"}
BY DEF Event

\* What the parent takes, and what it leaves in the pipe.
LEMMA TakenEvent ==
    ASSUME pipe \in Seq(Event), Len(pipe) <= PipeSize, pipe # <<>>
    PROVE  /\ Next1 \in Event /\ Tail(pipe) \in Seq(Event)
           /\ Len(Tail(pipe)) <= PipeSize
           /\ PipeInv => Known(Next1) /\ \A i \in DOMAIN Tail(pipe) : Known(Tail(pipe)[i])
<1>1. Len(Tail(pipe)) = Len(pipe) - 1 /\ Len(pipe) \in Nat /\ PipeSize \in Nat
  BY HarnessAssumption
<1>2. Next1 = pipe[1] /\ 1 \in DOMAIN pipe
  BY DEF Next1
<1>3. \A i \in DOMAIN Tail(pipe) : i + 1 \in DOMAIN pipe /\ Tail(pipe)[i] = pipe[i + 1]
  OBVIOUS
<1>4. PipeInv => Known(Next1) /\ \A i \in DOMAIN Tail(pipe) : Known(Tail(pipe)[i])
  BY <1>2, <1>3 DEF PipeInv
<1> QED
  BY <1>1, <1>2, <1>4

\* An event that was written found its place.
LEMMA WrittenEvent ==
    ASSUME pipe \in Seq(Event), NEW e \in Event, Write(e)
    PROVE  /\ pipe' \in Seq(Event) /\ Len(pipe') <= PipeSize
           /\ PipeInv /\ Known(e) => PipeInv'
<1>1. Len(pipe') = Len(pipe) + 1 /\ Len(pipe) \in Nat /\ PipeSize \in Nat
  BY HarnessAssumption DEF Write
<1>2. /\ pipe' \in Seq(Event)
      /\ \A i \in DOMAIN pipe' : pipe'[i] = e \/ (i \in DOMAIN pipe /\ pipe'[i] = pipe[i])
  BY DEF Write
<1>3. PipeInv /\ Known(e) => PipeInv'
  BY <1>2 DEF PipeInv, Known
<1> QED
  BY <1>1, <1>2, <1>3 DEF Write

\* The event that ends a call is an event.
LEMMA FinishedEvent ==
    ASSUME pipe \in Seq(Event), NEW failed \in BOOLEAN, Finished(failed),
           child.tool \in Tools, PipeInv
    PROVE  pipe' \in Seq(Event) /\ Len(pipe') <= PipeSize /\ PipeInv'
<1>1. PICK sig \in IF failed THEN Sigs ELSE {"none"} :
        Write([kind |-> "end", tool |-> child.tool, failed |-> failed, sig |-> sig])
  BY DEF Finished
<1>2. PICK e : e = [kind |-> "end", tool |-> child.tool, failed |-> failed, sig |-> sig]
  OBVIOUS
<1>3. e \in Event /\ Known(e)
  BY <1>2 DEF Event, Known
<1> QED
  BY <1>1, <1>2, <1>3, WrittenEvent

\* Sets of the records of the harness.
Trees == [changed : BOOLEAN, outside : BOOLEAN, verified : BOOLEAN,
          late : BOOLEAN, background : SUBSET Writers]
Children == [phase : {"idle", "turn", "tool", "exited", "gone"},
             turns : 0..(MaxTurns + 1), calls : 0..(MaxCalls + 1),
             edits : 0..(MaxCalls + 1), tests : 0..(MaxCalls + 1),
             edited : BOOLEAN, tested : BOOLEAN,
             effects : SUBSET SideEffects, tool : Tools,
             denied : Denials, code : 0..2]
Audits == [turns : 0..MaxTurns, calls : 0..MaxCalls,
           edits : 0..MaxCalls, tests : 0..MaxCalls,
           open : SUBSET Tools, denied : Denials, edited : BOOLEAN,
           tested : BOOLEAN, ended : BOOLEAN]
Runners == [phase : {"reading", "waiting", "closing", "verifying", "judging"}
                      \cup Ended,
            owned : Ownerships, error : Errors, last : Outcomes, verifier : Outcomes]
Repairs == [edited : BOOLEAN, repairs : 0..(MaxRepairs + 1),
            pending : BOOLEAN, seen : SUBSET Sigs]

\* The types of the harness, in the sets above.
LEMMA HarnessTypes ==
    HarnessTypeOK <=> /\ harness \in Harnesses /\ tree \in Trees
                      /\ child \in Children
                      /\ pipe \in Seq(Event) /\ Len(pipe) <= PipeSize
                      /\ audit \in Audits /\ runner \in Runners /\ repair \in Repairs
BY DEF HarnessTypeOK, Trees, Children, Audits, Runners, Repairs

\* The same after a step.
LEMMA HarnessTypesNext ==
    HarnessTypeOK' <=> /\ harness' \in Harnesses /\ tree' \in Trees
                       /\ child' \in Children
                       /\ pipe' \in Seq(Event) /\ Len(pipe') <= PipeSize
                       /\ audit' \in Audits /\ runner' \in Runners
                       /\ repair' \in Repairs
BY DEF HarnessTypeOK, Trees, Children, Audits, Runners, Repairs

\* The budgets are positive numbers.
LEMMA Budgets ==
    /\ MaxTurns \in Nat /\ MaxCalls \in Nat /\ MaxEdits \in Nat /\ MaxTests \in Nat
    /\ MaxTurns > 0 /\ MaxCalls > 0 /\ MaxRepairs \in Nat /\ PipeSize \in Nat
BY HarnessAssumption

\* A harness that has not begun.
LEMMA NewHarness ==
    /\ NewTree \in Trees /\ NewChild \in Children /\ NewAudit \in Audits
    /\ NewRunner \in Runners /\ NewRepair \in Repairs
<1>1. NewTree \in Trees
  BY DEF NewTree, Trees, Writers
<1>2. NewChild \in Children
  BY Budgets DEF NewChild, Children, Tools, Denials
<1>3. NewAudit \in Audits
  BY Budgets DEF NewAudit, Audits, Denials
<1>4. NewRunner \in Runners
  BY DEF NewRunner, Runners, Errors, Outcomes, Ownerships
<1>5. NewRepair \in Repairs
  BY Budgets DEF NewRepair, Repairs
<1> QED
  BY <1>1, <1>2, <1>3, <1>4, <1>5

\* A harness that has not begun meets the invariant.
LEMMA HarnessBegins ==
    ASSUME HarnessInit PROVE HarnessTypeOK /\ HarnessInv
<1>1. HarnessTypeOK
  <2>1. pipe = <<>> /\ <<>> \in Seq(Event) /\ Len(<<>>) = 0 /\ PipeSize \in Nat
    BY HarnessAssumption DEF HarnessInit
  <2>2. Len(pipe) <= PipeSize
    BY <2>1
  <2> QED
    BY <2>1, <2>2, NewHarness, HarnessTypes DEF HarnessInit
<1>2. CountInv
  BY Budgets DEF HarnessInit, CountInv, NewChild, NewAudit, NewRepair
<1>3. LoopInv /\ VerdictInv
  BY DEF HarnessInit, LoopInv, LateInv, VerdictInv, NewTree, NewChild, NewRunner
<1>4. SwiftInv
  BY DEF HarnessInit, SwiftInv, NewTree, NewChild, NewRunner
<1>5. PipeInv
  BY DEF HarnessInit, PipeInv
<1> QED
  BY <1>1, <1>2, <1>3, <1>4, <1>5 DEF HarnessInv

\* The steps of the child: it writes its record and the stage, and the parent
\* is still reading.
LEMMA TurnHarness ==
    ASSUME HarnessTypeOK, HarnessInv, ChildTurn PROVE HarnessTypeOK' /\ HarnessInv'
<1> USE DEF ChildTurn
<1>1. child' \in Children /\ child'.calls = child.calls /\ child'.edits = child.edits
      /\ child'.tests = child.tests /\ child'.phase = "turn"
      /\ child'.tested = child.tested
  <2>1. child \in Children
    BY HarnessTypes
  <2>2. PICK turns \in 0..(MaxTurns + 1) : turns = child.turns + 1
    BY <2>1, Budgets DEF Children
  <2>3. child' = [child EXCEPT !.phase = "turn", !.turns = turns]
    BY <2>2
  <2> QED
    BY <2>1, <2>3 DEF Children
<1>2. pipe' \in Seq(Event) /\ Len(pipe') <= PipeSize /\ PipeInv'
  <2>1. PICK retried \in BOOLEAN : Write([kind |-> "turn", retried |-> retried])
    OBVIOUS
  <2>2. PICK e : e = [kind |-> "turn", retried |-> retried]
    OBVIOUS
  <2>3. e \in Event /\ Known(e)
    BY <2>2 DEF Event, Known
  <2> QED
    BY <2>1, <2>2, <2>3, WrittenEvent, HarnessTypes DEF HarnessInv
<1>3. HarnessTypeOK'
  BY <1>1, <1>2, HarnessTypes, HarnessTypesNext
<1>4. runner.phase = "reading"
  BY DEF HarnessInv, LoopInv
<1>5. CountInv' /\ LoopInv' /\ VerdictInv'
  BY <1>1, <1>4 DEF HarnessInv, CountInv, LoopInv, LateInv, VerdictInv
<1>6. SwiftInv'
  BY <1>1, <1>4 DEF HarnessInv, SwiftInv
<1> QED
  BY <1>2, <1>3, <1>5, <1>6 DEF HarnessInv

\* A call is counted and passes the guards of the plugin, or is denied.
LEMMA CallHarness ==
    ASSUME HarnessTypeOK, HarnessInv, ChildCall PROVE HarnessTypeOK' /\ HarnessInv'
<1>1. PICK tool \in Tools, fresh \in BOOLEAN, permitted \in BOOLEAN,
           repeated \in BOOLEAN :
        LET denied == Denial(tool, fresh, permitted, repeated)
        IN /\ harness = "qwen" => tool # "test" /\ permitted
           /\ repeated => tool \in child.effects
           /\ tool = "test" => repeated = (tool \in child.effects)
           /\ Write([kind |-> "start", tool |-> tool, fresh |-> fresh,
                      repeated |-> repeated, denied |-> denied])
           /\ child' = [child EXCEPT
                   !.phase = "tool", !.tool = tool, !.denied = denied,
                   !.calls = @ + 1,
                   !.edits = IF tool = "edit" THEN @ + 1 ELSE @,
                   !.tests = IF tool = "test" THEN @ + 1 ELSE @,
                   !.effects = @ \cup ({tool} \cap SideEffects)]
  BY DEF ChildCall
<1>2. PICK denied : denied = Denial(tool, fresh, permitted, repeated)
  OBVIOUS
<1>3. denied \in Denials /\ (harness = "swift" /\ tool = "pwsh" => denied # "no")
  BY <1>2 DEF Denial, Denials, Guarded
<1>4. PICK effects : effects = child.effects \cup ({tool} \cap SideEffects)
  OBVIOUS
<1>5. effects \in SUBSET SideEffects
  BY <1>4, HarnessTypes DEF Children
<1>6. child.calls <= MaxCalls /\ child.phase = "turn"
      /\ UNCHANGED <<harness, tree, audit, runner, repair>>
  BY DEF ChildCall
<1>7. child \in Children /\ child.edits <= child.calls /\ child.tests <= child.calls
      /\ child.calls \in Nat /\ child.edits \in Nat /\ child.tests \in Nat
  BY HarnessTypes DEF HarnessInv, CountInv, Children
<1>8. PICK calls \in 0..(MaxCalls + 1), edits \in 0..(MaxCalls + 1),
           tests \in 0..(MaxCalls + 1) :
        /\ calls = child.calls + 1
        /\ edits = IF tool = "edit" THEN child.edits + 1 ELSE child.edits
        /\ tests = IF tool = "test" THEN child.tests + 1 ELSE child.tests
  BY <1>6, <1>7, Budgets
<1>9. child' \in Children /\ child'.edits <= child'.calls /\ child'.tests <= child'.calls
      /\ child'.phase = "tool" /\ child'.tool = tool /\ child'.denied = denied
      /\ child'.tested = child.tested
  <2>1. child' = [child EXCEPT !.phase = "tool", !.tool = tool, !.denied = denied,
                     !.calls = calls, !.edits = edits, !.tests = tests,
                     !.effects = effects]
    BY <1>1, <1>2, <1>4, <1>8
  <2>2. edits <= calls /\ tests <= calls
    BY <1>7, <1>8
  <2> QED
    BY <1>3, <1>5, <1>7, <2>1, <2>2 DEF Children
<1>10. pipe' \in Seq(Event) /\ Len(pipe') <= PipeSize /\ PipeInv'
  <2>1. PICK e : e = [kind |-> "start", tool |-> tool, fresh |-> fresh,
                      repeated |-> repeated, denied |-> denied]
    OBVIOUS
  <2>2. e \in Event /\ Known(e)
    BY <1>3, <2>1 DEF Event, Known
  <2> QED
    BY <1>1, <1>2, <2>1, <2>2, WrittenEvent, HarnessTypes DEF HarnessInv
<1>11. HarnessTypeOK'
  BY <1>6, <1>9, <1>10, HarnessTypes, HarnessTypesNext
<1>12. runner.phase = "reading"
  BY <1>6 DEF HarnessInv, LoopInv
<1>13. CountInv' /\ LoopInv' /\ VerdictInv'
  BY <1>6, <1>9, <1>12 DEF HarnessInv, CountInv, LoopInv, LateInv, VerdictInv
<1>14. SwiftInv'
  BY <1>3, <1>6, <1>9, <1>12 DEF HarnessInv, SwiftInv
<1> QED
  BY <1>10, <1>11, <1>13, <1>14 DEF HarnessInv

\* A call ends: what it did to the stage and to the record of the child is
\* what the invariant asks of a Swift run.
LEMMA ToolEnds ==
    ASSUME HarnessTypeOK, HarnessInv, child.phase = "tool",
           NEW failed \in BOOLEAN, Finished(failed),
           child' \in Children, child'.phase = "turn", child'.calls = child.calls,
           child'.edits = child.edits, child'.tests = child.tests,
           tree' \in Trees, UNCHANGED <<harness, audit, runner, repair>>,
           tree'.late = tree.late,
           "verifier" \in tree'.background => "verifier" \in tree.background,
           harness = "swift" /\ harness \notin TornWriters =>
             tree'.background = {} /\ (child'.tested => tree'.verified)
    PROVE  HarnessTypeOK' /\ HarnessInv'
<1>1. HarnessTypeOK' /\ PipeInv'
  <2>1. child.tool \in Tools
    BY HarnessTypes DEF Children
  <2> QED
    BY <2>1, FinishedEvent, HarnessTypes, HarnessTypesNext DEF HarnessInv
<1>2. runner.phase = "reading"
  BY DEF HarnessInv, LoopInv
<1>3. CountInv' /\ LoopInv' /\ VerdictInv'
  BY <1>2 DEF HarnessInv, CountInv, LoopInv, LateInv, VerdictInv
<1>4. SwiftInv'
  BY <1>2 DEF SwiftInv
<1> QED
  BY <1>1, <1>3, <1>4 DEF HarnessInv

\* The child between two calls.
LEMMA IdleChild ==
    ASSUME HarnessTypeOK
    PROVE  /\ Idle \in Children /\ Idle.phase = "turn" /\ Idle.calls = child.calls
           /\ Idle.edits = child.edits /\ Idle.tests = child.tests
           /\ Idle.tested = child.tested
BY HarnessTypes DEF Idle, Children, Tools, Denials

\* What the invariant says of the stage while a call of a Swift run is open.
LEMMA SwiftStage ==
    ASSUME HarnessInv, child.phase = "tool", harness = "swift",
           harness \notin TornWriters
    PROVE  /\ tree.background = {} /\ (child.tested => tree.verified)
           /\ child.tool = "pwsh" => child.denied # "no"
BY DEF HarnessInv, SwiftInv

\* A call that was denied, or reads, writes nothing.
LEMMA NoEffectHarness ==
    ASSUME HarnessTypeOK, HarnessInv, ChildNoEffect
    PROVE  HarnessTypeOK' /\ HarnessInv'
<1>1. PICK failed \in BOOLEAN : Finished(failed)
  BY DEF ChildNoEffect
<1>2. child' = Idle /\ child.phase = "tool"
      /\ UNCHANGED <<harness, tree, audit, runner, repair>>
  BY DEF ChildNoEffect
<1>3. tree' \in Trees
  BY <1>2, HarnessTypes
<1> QED
  BY <1>1, <1>2, <1>3, IdleChild, SwiftStage, ToolEnds

\* An edit is counted; what was tested before it no longer is.
LEMMA EditHarness ==
    ASSUME HarnessTypeOK, HarnessInv, ChildEdit
    PROVE  HarnessTypeOK' /\ HarnessInv'
<1>1. Finished(FALSE) /\ child' = Edited /\ child.phase = "tool"
      /\ tree' = [tree EXCEPT !.changed = TRUE, !.verified = FALSE]
      /\ UNCHANGED <<harness, audit, runner, repair>>
  BY DEF ChildEdit, Executes
<1>2. tree' \in Trees /\ tree'.late = tree.late
      /\ tree'.background = tree.background
  BY <1>1, HarnessTypes DEF Trees
<1>3. child' \in Children /\ child'.phase = "turn" /\ child'.calls = child.calls
      /\ child'.edits = child.edits /\ child'.tests = child.tests /\ ~child'.tested
  BY <1>1, IdleChild DEF Edited, Children
<1> QED
  BY <1>1, <1>2, <1>3, SwiftStage, ToolEnds

\* A torn edit has changed the stage and reports a failure; the plugin does not
\* see it.
LEMMA TornEditHarness ==
    ASSUME HarnessTypeOK, HarnessInv, ChildTornEdit
    PROVE  HarnessTypeOK' /\ HarnessInv'
<1>1. Finished(TRUE) /\ child' = Idle /\ child.phase = "tool" /\ harness \in TornWriters
      /\ tree' = [tree EXCEPT !.changed = TRUE, !.verified = FALSE]
      /\ UNCHANGED <<harness, audit, runner, repair>>
  BY DEF ChildTornEdit, Executes
<1>2. tree' \in Trees /\ tree'.late = tree.late
      /\ tree'.background = tree.background
  BY <1>1, HarnessTypes DEF Trees
<1> QED
  BY <1>1, <1>2, IdleChild, ToolEnds

\* What a command does to the stage.
LEMMA AfterEffect ==
    ASSUME HarnessTypeOK, NEW effect \in Effect
    PROVE  /\ After(effect) \in Trees /\ After(effect).late = tree.late
           /\ "verifier" \in After(effect).background
                => "verifier" \in tree.background
           /\ effect = NoEffect => /\ After(effect).background = tree.background
                                   /\ After(effect).verified = tree.verified
<1>1. tree \in Trees /\ effect.writes \in BOOLEAN /\ effect.outside \in BOOLEAN
      /\ effect.stays \in BOOLEAN
  BY HarnessTypes DEF Effect
<1>2. PICK a \in BOOLEAN, b \in BOOLEAN, c \in BOOLEAN :
        /\ a = (tree.changed \/ effect.writes) /\ b = (tree.verified /\ ~effect.writes)
        /\ c = (tree.outside \/ effect.outside)
  BY Zenon
<1>3. PICK d : d = tree.background \cup IF effect.stays THEN {"child"} ELSE {}
  OBVIOUS
<1>4. d \in SUBSET Writers /\ ("verifier" \in d => "verifier" \in tree.background)
  BY <1>1, <1>3 DEF Trees, Writers
<1>5. PICK t : t = After(effect)
  OBVIOUS
<1>6. t = [tree EXCEPT !.changed = a, !.verified = b, !.outside = c,
                       !.background = d]
  BY <1>2, <1>3, <1>5 DEF After
<1>7. t \in Trees /\ t.late = tree.late /\ t.background = d /\ t.verified = b
  BY <1>1, <1>4, <1>6 DEF Trees
<1>8. effect = NoEffect => d = tree.background /\ b = tree.verified
  <2>1. ASSUME effect = NoEffect PROVE ~effect.writes /\ ~effect.stays
    BY <2>1 DEF NoEffect
  <2>2. tree.verified \in BOOLEAN
    BY <1>1 DEF Trees
  <2> QED
    BY <1>2, <1>3, <2>1, <2>2
<1> QED
  BY <1>4, <1>5, <1>7, <1>8

\* A test that passes verifies the stage as it leaves it.
LEMMA TestHarness ==
    ASSUME HarnessTypeOK, HarnessInv, ChildTest
    PROVE  HarnessTypeOK' /\ HarnessInv'
<1>1. PICK effect \in Effect, result \in {"passed", "failed", "raised"} :
         /\ harness = "swift" => effect = NoEffect
         /\ IF result = "raised"
            THEN tree' = After(effect) /\ child' = Idle
            ELSE /\ tree' = [After(effect) EXCEPT !.verified = result = "passed"]
                 /\ child' = [Idle EXCEPT !.tested = result = "passed"]
         /\ Finished(result # "passed")
  BY DEF ChildTest
<1>2. child.phase = "tool" /\ UNCHANGED <<harness, audit, runner, repair>>
  BY DEF ChildTest, Executes
<1>3. PICK failed \in BOOLEAN : failed = (result # "passed")
  OBVIOUS
<1>4. Finished(failed)
  BY <1>1, <1>3
<1>5. CASE result = "raised"
  <2>1. tree' = After(effect) /\ child' = Idle
    BY <1>1, <1>5
  <2> QED
    BY <1>1, <1>2, <1>4, <2>1, AfterEffect, IdleChild, SwiftStage, ToolEnds
<1>6. CASE result # "raised"
  <2>1. PICK passed \in BOOLEAN : passed = (result = "passed")
    OBVIOUS
  <2>2. PICK t : t = After(effect)
    OBVIOUS
  <2>3. tree' = [t EXCEPT !.verified = passed] /\ child' = [Idle EXCEPT !.tested = passed]
    BY <1>1, <1>6, <2>1, <2>2
  <2>4. t \in Trees /\ t.late = tree.late
        /\ ("verifier" \in t.background => "verifier" \in tree.background)
        /\ (harness = "swift" => t.background = tree.background)
    BY <1>1, <2>2, AfterEffect
  <2>5. tree' \in Trees /\ tree'.late = t.late /\ tree'.background = t.background
        /\ tree'.verified = passed
    BY <2>3, <2>4 DEF Trees
  <2>6. child' \in Children /\ child'.phase = "turn" /\ child'.calls = child.calls
        /\ child'.edits = child.edits /\ child'.tests = child.tests
        /\ child'.tested = passed
    BY <2>3, IdleChild DEF Children
  <2> QED
    BY <1>2, <1>4, <2>4, <2>5, <2>6, SwiftStage, ToolEnds
<1> QED
  BY <1>5, <1>6

\* A shell command may write anywhere, and leave a descendant behind.
LEMMA ShellHarness ==
    ASSUME HarnessTypeOK, HarnessInv, ChildShell
    PROVE  HarnessTypeOK' /\ HarnessInv'
<1>1. PICK effect \in Effect, failed \in BOOLEAN :
        tree' = After(effect) /\ Finished(failed)
  BY DEF ChildShell
<1>2. child' = Idle /\ child.phase = "tool" /\ child.tool = "pwsh"
      /\ child.denied = "no" /\ UNCHANGED <<harness, audit, runner, repair>>
  BY DEF ChildShell, Executes
<1> QED
  BY <1>1, <1>2, AfterEffect, IdleChild, SwiftStage, ToolEnds

\* The agent ends by itself; a Swift run only after its test.
LEMMA EndHarness ==
    ASSUME HarnessTypeOK, HarnessInv, ChildEnd
    PROVE  HarnessTypeOK' /\ HarnessInv'
<1>1. PICK stopped \in BOOLEAN :
        LET completed == stopped /\ Completed
        IN /\ Write([kind |-> "agent_end", completed |-> completed])
           /\ child' = [child EXCEPT !.phase = "exited",
                                      !.code = IF completed THEN 0 ELSE 1]
  BY DEF ChildEnd
<1>2. PICK completed \in BOOLEAN : completed = (stopped /\ Completed)
  BY Zenon
<1>3. /\ Write([kind |-> "agent_end", completed |-> completed])
      /\ child' = [child EXCEPT !.phase = "exited",
                                !.code = IF completed THEN 0 ELSE 1]
  BY <1>1, <1>2
<1>4. child.phase = "turn" /\ UNCHANGED <<harness, tree, audit, runner, repair>>
  BY DEF ChildEnd
<1>5. child' \in Children /\ child'.phase = "exited" /\ child'.calls = child.calls
      /\ child'.edits = child.edits /\ child'.tests = child.tests
      /\ child'.tested = child.tested /\ (child'.code = 0 => completed)
  <2>1. child \in Children
    BY HarnessTypes
  <2>2. PICK code \in 0..2 : code = IF completed THEN 0 ELSE 1
    OBVIOUS
  <2>3. child' = [child EXCEPT !.phase = "exited", !.code = code]
    BY <1>3, <2>2
  <2>4. child' \in Children
    BY <2>1, <2>3 DEF Children
  <2> QED
    BY <2>1, <2>2, <2>3, <2>4 DEF Children
<1>6. pipe' \in Seq(Event) /\ Len(pipe') <= PipeSize /\ PipeInv'
  <2>1. PICK e : e = [kind |-> "agent_end", completed |-> completed]
    OBVIOUS
  <2>2. e \in Event /\ Known(e)
    BY <2>1 DEF Event, Known
  <2> QED
    BY <1>3, <2>1, <2>2, WrittenEvent, HarnessTypes DEF HarnessInv
<1>7. HarnessTypeOK'
  BY <1>4, <1>5, <1>6, HarnessTypes, HarnessTypesNext
<1>8. runner.phase = "reading"
  BY <1>4 DEF HarnessInv, LoopInv
<1>9. CountInv' /\ LoopInv' /\ VerdictInv'
  BY <1>4, <1>5, <1>8 DEF HarnessInv, CountInv, LoopInv, LateInv, VerdictInv
<1>10. SwiftInv'
  <2>1. harness = "swift" /\ completed => child.tested
    BY <1>2 DEF Completed, Guarded
  <2> QED
    BY <1>4, <1>5, <1>8, <2>1 DEF HarnessInv, SwiftInv
<1> QED
  BY <1>6, <1>7, <1>9, <1>10 DEF HarnessInv

\* The child dies with an error of its own.
LEMMA FailsHarness ==
    ASSUME HarnessTypeOK, HarnessInv, ChildFails
    PROVE  HarnessTypeOK' /\ HarnessInv'
<1>1. child.phase \in {"idle", "turn", "tool"}
      /\ child' = [child EXCEPT !.phase = "exited", !.code = 1]
      /\ UNCHANGED <<harness, tree, pipe, audit, runner, repair>>
  BY DEF ChildFails
<1>2. child' \in Children /\ child'.phase = "exited" /\ child'.calls = child.calls
      /\ child'.edits = child.edits /\ child'.tests = child.tests
      /\ child'.tested = child.tested /\ child'.code = 1
  <2>1. child \in Children
    BY HarnessTypes
  <2>2. PICK code \in 0..2 : code = 1
    OBVIOUS
  <2>3. child' = [child EXCEPT !.phase = "exited", !.code = code]
    BY <1>1, <2>2
  <2> QED
    BY <2>1, <2>2, <2>3 DEF Children
<1>3. HarnessTypeOK'
  BY <1>1, <1>2, HarnessTypes, HarnessTypesNext
<1>4. runner.phase = "reading"
  BY <1>1 DEF HarnessInv, LoopInv
<1>5. CountInv' /\ LoopInv' /\ VerdictInv' /\ PipeInv'
  BY <1>1, <1>2, <1>4 DEF HarnessInv, CountInv, LoopInv, LateInv, VerdictInv, PipeInv
<1>6. SwiftInv'
  BY <1>1, <1>2, <1>4 DEF HarnessInv, SwiftInv
<1> QED
  BY <1>3, <1>5, <1>6 DEF HarnessInv

\* Once the loop is over only the verifier's descendant writes in an owned
\* tree, and that is told apart.
LEMMA BackgroundHarness ==
    ASSUME HarnessTypeOK, HarnessInv, Background
    PROVE  HarnessTypeOK' /\ HarnessInv'
<1>1. PICK writer \in tree.background, outside \in BOOLEAN :
         tree' = IF writer = "verifier"
                 THEN [tree EXCEPT !.changed = TRUE, !.late = TRUE]
                 ELSE [tree EXCEPT !.changed = TRUE, !.verified = FALSE,
                                   !.outside = @ \/ outside]
  BY DEF Background
<1>2. UNCHANGED <<harness, child, pipe, audit, runner, repair>>
  BY DEF Background
<1>3. tree \in Trees /\ writer \in Writers
  BY HarnessTypes DEF Trees
<1>4. /\ tree' \in Trees /\ tree'.background = tree.background
      /\ tree'.late => tree.late \/ "verifier" \in tree.background
      /\ "child" \notin tree.background
           => tree'.verified = tree.verified /\ tree'.outside = tree.outside
  <2>1. CASE writer = "verifier"
    <3>1. tree' = [tree EXCEPT !.changed = TRUE, !.late = TRUE]
      BY <1>1, <2>1
    <3> QED
      BY <1>3, <2>1, <3>1 DEF Trees
  <2>2. CASE writer # "verifier"
    <3>1. PICK o \in BOOLEAN : o = (tree.outside \/ outside)
      BY Zenon
    <3>2. tree' = [tree EXCEPT !.changed = TRUE, !.verified = FALSE, !.outside = o]
      BY <1>1, <2>2, <3>1
    <3>3. tree' \in Trees /\ tree'.background = tree.background /\ tree'.late = tree.late
      BY <1>3, <3>2 DEF Trees
    <3>4. "child" \in tree.background
      BY <1>3, <2>2 DEF Writers
    <3> QED
      BY <3>3, <3>4
  <2> QED
    BY <2>1, <2>2
<1>5. HarnessTypeOK'
  BY <1>2, <1>4, HarnessTypes, HarnessTypesNext
<1>6. CountInv' /\ LoopInv' /\ PipeInv'
  BY <1>2, <1>4 DEF HarnessInv, CountInv, LoopInv, LateInv, PipeInv
<1>7. VerdictInv'
  BY <1>2, <1>4 DEF HarnessInv, VerdictInv
<1>8. SwiftInv'
  BY <1>2, <1>4 DEF HarnessInv, SwiftInv
<1> QED
  BY <1>5, <1>6, <1>7, <1>8 DEF HarnessInv

\* It ends, and leaves the stage as it is.
LEMMA BackgroundEndsHarness ==
    ASSUME HarnessTypeOK, HarnessInv, BackgroundEnds
    PROVE  HarnessTypeOK' /\ HarnessInv'
<1>1. PICK writer \in tree.background :
        tree' = [tree EXCEPT !.background = tree.background \ {writer}]
  BY DEF BackgroundEnds
<1>2. UNCHANGED <<harness, child, pipe, audit, runner, repair>>
  BY DEF BackgroundEnds
<1>3. tree' \in Trees /\ tree'.background = tree.background \ {writer}
      /\ tree'.late = tree.late /\ tree'.verified = tree.verified
      /\ tree'.outside = tree.outside
  BY <1>1, HarnessTypes DEF Trees
<1>4. HarnessTypeOK'
  BY <1>2, <1>3, HarnessTypes, HarnessTypesNext
<1>5. CountInv' /\ LoopInv' /\ PipeInv'
  BY <1>2, <1>3 DEF HarnessInv, CountInv, LoopInv, LateInv, PipeInv
<1>6. VerdictInv'
  BY <1>2, <1>3 DEF HarnessInv, VerdictInv
<1>7. SwiftInv'
  BY <1>2, <1>3 DEF HarnessInv, SwiftInv
<1> QED
  BY <1>4, <1>5, <1>6, <1>7 DEF HarnessInv

\* How the loop is left: what is left running is known.
LEMMA LoopLeft ==
    ASSUME HarnessTypeOK, HarnessInv, runner.phase = "reading",
           NEW error \in Errors, NEW owned \in Ownerships, NEW ends \in BOOLEAN,
           Leave(error, owned, ends)
    PROVE  /\ tree' \in Trees /\ tree'.outside = tree.outside
           /\ tree'.verified = tree.verified /\ tree'.late = tree.late
           /\ "verifier" \in tree'.background => "verifier" \in tree.background
           /\ ~Alive /\ tree.background = {} => tree'.background = {}
           /\ owned = "job" => tree'.background = {}
           /\ runner' \in Runners /\ runner'.error = error /\ runner'.owned = owned
           /\ runner'.phase \in {"waiting", "raised", "closing"}
           /\ runner'.verifier = "none"
<1>1. PICK left : left = IF owned = "job" THEN {}
                         ELSE tree.background \cup
                                IF Alive /\ (~ends \/ child.phase = "tool")
                                THEN {"child"} ELSE {}
  OBVIOUS
<1>2. tree \in Trees /\ runner \in Runners /\ runner.verifier = "none"
  BY HarnessTypes DEF HarnessInv, LoopInv
<1>3. /\ left \in SUBSET Writers
      /\ "verifier" \in left => "verifier" \in tree.background
      /\ ~Alive /\ tree.background = {} => left = {}
      /\ owned = "job" => left = {}
  BY <1>1, <1>2 DEF Trees, Writers
<1>4. tree' = [tree EXCEPT !.background = left]
  BY <1>1 DEF Leave
<1>5. PICK phase \in {"waiting", "raised", "closing"} :
        phase = IF left # {} THEN "waiting"
                ELSE IF error = "raised" THEN "raised" ELSE "closing"
  OBVIOUS
<1>6. runner' = [runner EXCEPT !.error = error, !.owned = owned, !.phase = phase]
  BY <1>1, <1>5 DEF Leave
<1>7. tree' \in Trees /\ tree'.outside = tree.outside /\ tree'.late = tree.late
      /\ tree'.verified = tree.verified /\ tree'.background = left
  BY <1>2, <1>3, <1>4 DEF Trees
<1>8. runner' \in Runners /\ runner'.error = error /\ runner'.owned = owned
      /\ runner'.phase = phase /\ runner'.verifier = "none"
  BY <1>2, <1>6 DEF Runners, Ended
<1> QED
  BY <1>3, <1>5, <1>7, <1>8

\* The runner leaves the loop with an error, and reads no more.
LEMMA LoopStops ==
    ASSUME HarnessTypeOK, HarnessInv, runner.phase = "reading",
           NEW owned \in Ownerships, NEW ends \in BOOLEAN,
           NEW error \in Errors \ {"none"},
           Leave(error, owned, ends), Silenced, UNCHANGED harness
    PROVE  HarnessTypeOK' /\ HarnessInv'
<1>1. child' \in Children /\ child'.phase = "gone" /\ child'.code = 2
      /\ child'.edits = 0 /\ child'.tests = 0 /\ child'.calls = 0
  <2>1. PICK code \in 0..2 : code = 2
    OBVIOUS
  <2>2. child' = [NewChild EXCEPT !.phase = "gone", !.code = code]
    BY <2>1 DEF Silenced
  <2>3. child' \in Children
    BY <2>2, NewHarness DEF Children
  <2> QED
    BY <2>1, <2>2, <2>3 DEF NewChild
<1>2. pipe' = <<>> /\ pipe' \in Seq(Event) /\ Len(pipe') <= PipeSize /\ PipeInv'
  <2>1. pipe' = <<>>
    BY DEF Silenced
  <2>2. Len(pipe') = 0 /\ pipe' \in Seq(Event)
    BY <2>1
  <2> QED
    BY <2>1, <2>2, Budgets DEF PipeInv
<1>3. audit' = NewAudit /\ repair' = NewRepair
  BY DEF Silenced
<1>4. /\ tree' \in Trees /\ tree'.late = tree.late
      /\ "verifier" \in tree'.background => "verifier" \in tree.background
      /\ owned = "job" => tree'.background = {}
      /\ runner' \in Runners /\ runner'.error = error /\ runner'.owned = owned
      /\ runner'.phase \in {"waiting", "raised", "closing"}
      /\ runner'.verifier = "none"
  BY LoopLeft
<1>5. HarnessTypeOK'
  BY <1>1, <1>2, <1>3, <1>4, NewHarness, HarnessTypes, HarnessTypesNext
<1>6. CountInv'
  BY <1>1, <1>3, Budgets DEF CountInv, NewAudit, NewRepair
<1>7. LoopInv' /\ VerdictInv'
  BY <1>1, <1>4 DEF HarnessInv, LoopInv, LateInv, VerdictInv
<1>8. SwiftInv'
  BY <1>1, <1>4 DEF SwiftInv
<1> QED
  BY <1>2, <1>5, <1>6, <1>7, <1>8 DEF HarnessInv

\* An error or the deadline: the tree is killed, if it can be.
LEMMA Stopped ==
    ASSUME HarnessTypeOK, HarnessInv, runner.phase = "reading",
           NEW error \in Errors \ {"none"}, Stop(error), UNCHANGED harness
    PROVE  HarnessTypeOK' /\ HarnessInv'
<1>1. PICK owned \in Ownerships, ends \in BOOLEAN :
        Leave(IF ends THEN error ELSE "raised", owned, ends)
  BY DEF Stop
<1>2. PICK e : e = IF ends THEN error ELSE "raised"
  OBVIOUS
<1>3. e \in Errors \ {"none"} /\ Leave(e, owned, ends)
  BY <1>1, <1>2 DEF Errors
<1>4. Silenced
  BY DEF Stop
<1> QED
  BY <1>3, <1>4, LoopStops

\* The controller raised: nobody kills an unowned child.
LEMMA Raised ==
    ASSUME HarnessTypeOK, HarnessInv, runner.phase = "reading", Raise,
           UNCHANGED harness
    PROVE  HarnessTypeOK' /\ HarnessInv'
<1>1. PICK owned \in Ownerships : Leave("raised", owned, owned = "job")
  BY DEF Raise
<1>2. PICK ends \in BOOLEAN : ends = (owned = "job")
  OBVIOUS
<1>3. Leave("raised", owned, ends) /\ Silenced
  BY <1>1, <1>2 DEF Raise
<1>4. "raised" \in Errors \ {"none"}
  BY DEF Errors
<1> QED
  BY <1>3, <1>4, LoopStops

\* The runner takes an event and goes on.
LEMMA LoopGoesOn ==
    ASSUME HarnessTypeOK, HarnessInv, runner.phase = "reading", pipe # <<>>,
           pipe' = Tail(pipe), UNCHANGED <<harness, tree, child>>,
           runner' \in Runners, runner'.phase = "reading",
           runner'.verifier = runner.verifier,
           audit' \in Audits, audit'.edits <= audit'.calls,
           audit'.tests <= audit'.calls,
           repair' \in Repairs, repair'.repairs <= MaxRepairs
    PROVE  HarnessTypeOK' /\ HarnessInv'
<1>1. pipe' \in Seq(Event) /\ Len(pipe') <= PipeSize /\ PipeInv'
  BY TakenEvent, HarnessTypes DEF HarnessInv, PipeInv
<1>2. HarnessTypeOK'
  BY <1>1, HarnessTypes, HarnessTypesNext
<1>3. CountInv' /\ LoopInv' /\ VerdictInv'
  BY DEF HarnessInv, CountInv, LoopInv, LateInv, VerdictInv
<1>4. SwiftInv'
  BY DEF HarnessInv, SwiftInv
<1> QED
  BY <1>1, <1>2, <1>3, <1>4 DEF HarnessInv

\* What the invariant says of the counters of the parent.
LEMMA ParentCounts ==
    ASSUME HarnessTypeOK, HarnessInv
    PROVE  /\ audit \in Audits /\ audit.edits <= audit.calls
           /\ audit.tests <= audit.calls
           /\ audit.calls \in Nat /\ audit.edits \in Nat /\ audit.tests \in Nat
           /\ repair \in Repairs /\ repair.repairs <= MaxRepairs
           /\ runner \in Runners
<1>1. audit \in Audits /\ repair \in Repairs /\ runner \in Runners
  BY HarnessTypes
<1>2. audit.calls \in 0..MaxCalls /\ audit.edits \in 0..MaxCalls
      /\ audit.tests \in 0..MaxCalls
  BY <1>1 DEF Audits
<1> QED
  BY <1>1, <1>2, Budgets DEF HarnessInv, CountInv

\* An event that its audit rejects ends the loop.
LEMMA TakeRejectedHarness ==
    ASSUME HarnessTypeOK, HarnessInv, TakeRejected
    PROVE  HarnessTypeOK' /\ HarnessInv'
<1>1. runner.phase = "reading" /\ Stop("provider") /\ UNCHANGED harness
  BY DEF TakeRejected
<1> QED
  BY <1>1, Stopped DEF Errors

\* The deadline ends the loop.
LEMMA TimeoutHarness ==
    ASSUME HarnessTypeOK, HarnessInv, Timeout
    PROVE  HarnessTypeOK' /\ HarnessInv'
<1>1. runner.phase = "reading" /\ Stop("timeout") /\ UNCHANGED harness
  BY DEF Timeout
<1> QED
  BY <1>1, Stopped DEF Errors

\* A turn is counted within the budget of turns.
LEMMA TakeTurnHarness ==
    ASSUME HarnessTypeOK, HarnessInv, TakeTurn
    PROVE  HarnessTypeOK' /\ HarnessInv'
<1>1. runner.phase = "reading" /\ pipe # <<>> /\ Next1.kind = "turn" /\ ~Rejected
      /\ pipe' = Tail(pipe) /\ UNCHANGED <<harness, tree, child, runner, repair>>
  BY DEF TakeTurn, Taking
<1>2. audit.turns \in 0..MaxTurns
  BY ParentCounts DEF Audits
<1>3. Guarded => audit.turns # MaxTurns
  BY <1>1 DEF Rejected, AuditRejects
<1>4. PICK turns \in 0..MaxTurns :
        turns = IF Guarded THEN audit.turns + 1 ELSE audit.turns
  BY <1>2, <1>3, Budgets
<1>5. audit' = [audit EXCEPT !.turns = turns]
  BY <1>4 DEF TakeTurn
<1>6. audit' \in Audits /\ audit'.edits = audit.edits /\ audit'.tests = audit.tests
      /\ audit'.calls = audit.calls
  BY <1>5, ParentCounts DEF Audits
<1> QED
  BY <1>1, <1>6, ParentCounts, LoopGoesOn

\* A call that passes its audit is counted within the budget of calls.
LEMMA CountedAudit ==
    ASSUME HarnessTypeOK, HarnessInv, pipe # <<>>, Next1.kind = "start", ~Rejected
    PROVE  /\ Counted(Next1) \in Audits
           /\ Counted(Next1).edits <= Counted(Next1).calls
           /\ Counted(Next1).tests <= Counted(Next1).calls
<1>1. Next1 \in Event /\ Next1.tool \in Tools /\ Next1.denied \in Denials
  BY TakenEvent, EventOf, HarnessTypes
<1>2. Guarded => audit.calls # MaxCalls
  BY DEF Rejected, AuditRejects
<1>3. audit.calls \in 0..MaxCalls
  BY ParentCounts DEF Audits
<1>4. PICK calls \in 0..MaxCalls, edits \in 0..MaxCalls, tests \in 0..MaxCalls :
        /\ calls = IF Guarded THEN audit.calls + 1 ELSE audit.calls
        /\ edits = IF Guarded /\ Next1.tool = "edit" THEN audit.edits + 1
                   ELSE audit.edits
        /\ tests = IF Guarded /\ Next1.tool = "test" THEN audit.tests + 1
                   ELSE audit.tests
        /\ edits <= calls /\ tests <= calls
  BY <1>2, <1>3, ParentCounts, Budgets
<1>5. PICK open \in SUBSET Tools : open = audit.open \cup {Next1.tool}
  BY <1>1, ParentCounts DEF Audits
<1>6. PICK a : a = Counted(Next1)
  OBVIOUS
<1>7. a = [audit EXCEPT !.calls = calls, !.edits = edits, !.tests = tests,
                        !.open = open, !.denied = Next1.denied]
  BY <1>4, <1>5, <1>6 DEF Counted
<1>8. a \in Audits /\ a.edits <= a.calls /\ a.tests <= a.calls
  BY <1>1, <1>4, <1>7, ParentCounts DEF Audits
<1> QED
  BY <1>6, <1>8

\* The controller allows no repair pass beyond its bound.
LEMMA RepairAllowed ==
    ASSUME HarnessTypeOK, HarnessInv, NEW tool, ~RepairForbidden(tool)
    PROVE  RepairAfterCall(tool) \in Repairs
           /\ RepairAfterCall(tool).repairs <= MaxRepairs
<1>1. CASE tool # "edit"
  BY <1>1, ParentCounts DEF RepairAfterCall
<1>2. CASE tool = "edit"
  <2>1. repair.pending => repair.repairs # MaxRepairs
    BY <1>2 DEF RepairForbidden
  <2>2. repair.repairs \in 0..(MaxRepairs + 1)
    BY ParentCounts DEF Repairs
  <2>3. PICK repairs \in 0..MaxRepairs :
          repairs = IF repair.pending THEN repair.repairs + 1 ELSE repair.repairs
    BY <2>1, <2>2, ParentCounts, Budgets
  <2>4. repairs \in 0..(MaxRepairs + 1) /\ repairs <= MaxRepairs
    BY <2>3, Budgets
  <2>5. PICK r : r = RepairAfterCall(tool)
    OBVIOUS
  <2>6. r = [repair EXCEPT !.edited = TRUE, !.pending = FALSE, !.repairs = repairs]
    BY <1>2, <2>3, <2>5 DEF RepairAfterCall
  <2>7. r \in Repairs /\ r.repairs = repairs
    BY <2>4, <2>6, ParentCounts DEF Repairs
  <2> QED
    BY <2>4, <2>5, <2>7
<1> QED
  BY <1>1, <1>2

\* A call that the audit and the controller admit is counted.
LEMMA TakeStartHarness ==
    ASSUME HarnessTypeOK, HarnessInv, TakeStart
    PROVE  HarnessTypeOK' /\ HarnessInv'
<1>1. runner.phase = "reading" /\ pipe # <<>> /\ Next1.kind = "start" /\ ~Rejected
      /\ UNCHANGED harness
  BY DEF TakeStart, Taking
<1>2. CASE RepairForbidden(Next1.tool)
  <2>1. Raise
    BY <1>2 DEF TakeStart
  <2> QED
    BY <1>1, <2>1, Raised
<1>3. CASE ~RepairForbidden(Next1.tool) /\ OverBudget(Counted(Next1))
  <2>1. Stop("budget")
    BY <1>3 DEF TakeStart
  <2> QED
    BY <1>1, <2>1, Stopped DEF Errors
<1>4. CASE ~RepairForbidden(Next1.tool) /\ ~OverBudget(Counted(Next1))
  <2>1. audit' = Counted(Next1) /\ repair' = RepairAfterCall(Next1.tool)
        /\ pipe' = Tail(pipe) /\ UNCHANGED <<tree, child, runner>>
    BY <1>4 DEF TakeStart
  <2>2. audit' \in Audits /\ audit'.edits <= audit'.calls /\ audit'.tests <= audit'.calls
    BY <1>1, <2>1, CountedAudit
  <2>3. repair' \in Repairs /\ repair'.repairs <= MaxRepairs
    BY <1>4, <2>1, RepairAllowed
  <2> QED
    BY <1>1, <2>1, <2>2, <2>3, ParentCounts, LoopGoesOn
<1> QED
  BY <1>2, <1>3, <1>4

\* A result closes its call and counts nothing.
LEMMA SettledAudit ==
    ASSUME HarnessTypeOK, HarnessInv, NEW e \in Event, e.kind = "end"
    PROVE  /\ Settled(e) \in Audits /\ Settled(e).calls = audit.calls
           /\ Settled(e).edits = audit.edits /\ Settled(e).tests = audit.tests
<1>1. PICK open \in SUBSET Tools : open = audit.open \ {e.tool}
  BY ParentCounts DEF Audits
<1>2. PICK edited \in BOOLEAN :
        edited = (audit.edited \/ (e.tool = "edit" /\ ~e.failed /\ audit.denied = "no"))
  BY Zenon
<1>3. PICK tested \in BOOLEAN :
        tested = (audit.tested \/ (e.tool = "test" /\ ~e.failed /\ audit.denied = "no"))
  BY Zenon
<1>4. PICK a : a = Settled(e)
  OBVIOUS
<1>5. a = [audit EXCEPT !.open = open, !.denied = "no", !.edited = edited,
                        !.tested = tested]
  BY <1>1, <1>2, <1>3, <1>4 DEF Settled
<1>6. a \in Audits /\ a.calls = audit.calls /\ a.edits = audit.edits
      /\ a.tests = audit.tests
  BY <1>5, ParentCounts DEF Audits, Denials
<1> QED
  BY <1>4, <1>6

\* What the controller remembers of a result allows no more repair passes than
\* before.
LEMMA RepairSettled ==
    ASSUME HarnessTypeOK, HarnessInv, NEW e \in Event, e.kind = "end", Known(e)
    PROVE  RepairAfterResult(e) \in Repairs
           /\ RepairAfterResult(e).repairs <= MaxRepairs
<1>1. CASE ~IsCommand(e.tool)
  BY <1>1, ParentCounts DEF RepairAfterResult
<1>2. CASE IsCommand(e.tool) /\ ~e.failed
  <2>1. PICK r : r = RepairAfterResult(e)
    OBVIOUS
  <2>2. r = [repair EXCEPT !.pending = FALSE]
    BY <1>2, <2>1 DEF RepairAfterResult
  <2>3. r \in Repairs /\ r.repairs = repair.repairs
    BY <2>2, ParentCounts DEF Repairs
  <2> QED
    BY <2>1, <2>3, ParentCounts
<1>3. CASE IsCommand(e.tool) /\ e.failed
  <2>1. e.sig \in Sigs
    BY <1>3 DEF Known
  <2>2. PICK seen \in SUBSET Sigs : seen = repair.seen \cup {e.sig}
    BY <2>1, ParentCounts DEF Repairs
  <2>3. PICK pending \in BOOLEAN : pending = (repair.pending \/ repair.edited)
    BY Zenon
  <2>4. PICK r : r = RepairAfterResult(e)
    OBVIOUS
  <2>5. r = [repair EXCEPT !.seen = seen, !.pending = pending]
    BY <1>3, <2>2, <2>3, <2>4 DEF RepairAfterResult
  <2>6. r \in Repairs /\ r.repairs = repair.repairs
    BY <2>5, ParentCounts DEF Repairs
  <2> QED
    BY <2>4, <2>6, ParentCounts
<1> QED
  BY <1>1, <1>2, <1>3

\* A result closes its call; that of a check is the last outcome.
LEMMA TakeEndHarness ==
    ASSUME HarnessTypeOK, HarnessInv, TakeEnd
    PROVE  HarnessTypeOK' /\ HarnessInv'
<1>1. runner.phase = "reading" /\ pipe # <<>> /\ Next1.kind = "end" /\ ~Rejected
      /\ UNCHANGED harness
  BY DEF TakeEnd, Taking
<1>2. Next1 \in Event /\ Known(Next1)
  BY <1>1, TakenEvent, HarnessTypes DEF HarnessInv
<1>3. CASE SameFailure(Next1)
  <2>1. Raise
    BY <1>3 DEF TakeEnd
  <2> QED
    BY <1>1, <2>1, Raised
<1>4. Settled(Next1) \in Audits /\ Settled(Next1).edits <= Settled(Next1).calls
      /\ Settled(Next1).tests <= Settled(Next1).calls
  BY <1>1, <1>2, SettledAudit, ParentCounts
<1>5. CASE ~SameFailure(Next1)
  <2>0. audit' = Settled(Next1)
    BY <1>5 DEF TakeEnd
  <2>1. repair' \in Repairs /\ repair'.repairs <= MaxRepairs
    BY <1>1, <1>2, <1>5, RepairSettled DEF TakeEnd
  <2>2. PICK last \in Outcomes :
          last = IF ~IsCheck(Next1.tool) THEN runner.last
                 ELSE IF Next1.failed THEN "failed" ELSE "passed"
    BY ParentCounts DEF Runners, Outcomes
  <2>3. runner' = [runner EXCEPT !.last = last]
    BY <1>5, <2>2 DEF TakeEnd
  <2>4. runner' \in Runners /\ runner'.phase = "reading"
        /\ runner'.verifier = runner.verifier
    BY <1>1, <2>3, ParentCounts DEF Runners
  <2>5. pipe' = Tail(pipe) /\ UNCHANGED <<tree, child>>
    BY <1>5 DEF TakeEnd
  <2> QED
    BY <1>1, <1>4, <2>0, <2>1, <2>4, <2>5, LoopGoesOn
<1> QED
  BY <1>3, <1>5

\* The last event of the child.
LEMMA TakeAgentEndHarness ==
    ASSUME HarnessTypeOK, HarnessInv, TakeAgentEnd
    PROVE  HarnessTypeOK' /\ HarnessInv'
<1>1. runner.phase = "reading" /\ pipe # <<>> /\ pipe' = Tail(pipe)
      /\ audit' = [audit EXCEPT !.ended = TRUE]
      /\ UNCHANGED <<harness, tree, child, runner, repair>>
  BY DEF TakeAgentEnd, Taking
<1>2. audit' \in Audits /\ audit'.edits = audit.edits /\ audit'.tests = audit.tests
      /\ audit'.calls = audit.calls
  BY <1>1, ParentCounts DEF Audits
<1> QED
  BY <1>1, <1>2, ParentCounts, LoopGoesOn

\* The loop is left, or the checks after it run: of the harness only the record
\* of the runner and the stage change.
LEMMA AfterLoop ==
    ASSUME HarnessTypeOK, HarnessInv, UNCHANGED <<harness, child, pipe, repair>>,
           UNCHANGED audit \/ audit' = NewAudit,
           tree' \in Trees, runner' \in Runners,
           runner'.phase # "reading", child.phase \in {"exited", "gone"},
           runner'.phase \in {"waiting", "closing", "verifying"}
             => runner'.verifier = "none",
           runner'.phase = "verifying" => harness = "deepseek",
           tree'.late \/ "verifier" \in tree'.background => harness = "deepseek",
           VerdictInv',
           harness = "swift" /\ harness \notin TornWriters =>
             /\ child.phase # "gone" =>
                  tree'.background = {} /\ tree'.verified = tree.verified
             /\ runner'.phase \in {"waiting", "closing", "judging", "passed"}
                  /\ runner'.error = "none" => child.phase = "exited"
             /\ runner'.phase \in {"judging", "passed"} /\ runner'.error = "none"
                  => child.code = 0
    PROVE  HarnessTypeOK' /\ HarnessInv'
<1>1. audit' \in Audits /\ audit'.edits <= audit'.calls /\ audit'.tests <= audit'.calls
  <2>1. NewAudit.edits <= NewAudit.calls /\ NewAudit.tests <= NewAudit.calls
    BY DEF NewAudit
  <2> QED
    BY <2>1, ParentCounts, NewHarness
<1>2. HarnessTypeOK'
  BY <1>1, HarnessTypes, HarnessTypesNext
<1>3. CountInv' /\ PipeInv'
  BY <1>1 DEF HarnessInv, CountInv, PipeInv, Known
<1>4. LoopInv'
  BY DEF HarnessInv, LoopInv, LateInv
<1>5. SwiftInv'
  BY DEF HarnessInv, SwiftInv
<1> QED
  BY <1>2, <1>3, <1>4, <1>5 DEF HarnessInv

\* The child closed its stream: the loop is left.
LEMMA StreamEndsHarness ==
    ASSUME HarnessTypeOK, HarnessInv, StreamEnds
    PROVE  HarnessTypeOK' /\ HarnessInv'
<1>1. runner.phase = "reading" /\ child.phase = "exited"
      /\ UNCHANGED <<harness, child, pipe, audit, repair>>
  BY DEF StreamEnds
<1>2. PICK error \in Errors : error = IF audit.ended THEN "none" ELSE "provider"
  BY DEF Errors
<1>3. PICK owned \in Ownerships : Leave(error, owned, TRUE)
  BY <1>2 DEF StreamEnds
<1>4. /\ tree' \in Trees
      /\ tree'.verified = tree.verified /\ tree'.late = tree.late
      /\ "verifier" \in tree'.background => "verifier" \in tree.background
      /\ tree.background = {} => tree'.background = {}
      /\ owned = "job" => tree'.background = {}
      /\ runner' \in Runners /\ runner'.error = error /\ runner'.owned = owned
      /\ runner'.phase \in {"waiting", "raised", "closing"}
      /\ runner'.verifier = "none"
  BY <1>1, <1>3, LoopLeft DEF Alive
<1>5. VerdictInv'
  BY <1>4 DEF VerdictInv
<1>6. harness = "swift" /\ harness \notin TornWriters => tree.background = {}
  BY <1>1 DEF HarnessInv, SwiftInv
<1>7. tree'.late \/ "verifier" \in tree'.background => harness = "deepseek"
  BY <1>4 DEF HarnessInv, LoopInv, LateInv
<1> QED
  BY <1>1, <1>4, <1>5, <1>6, <1>7, AfterLoop

\* The pipes are closed: nothing else changes.
LEMMA LeftHarness ==
    ASSUME HarnessTypeOK, HarnessInv, Left
    PROVE  HarnessTypeOK' /\ HarnessInv'
<1>1. runner.phase = "waiting" /\ UNCHANGED <<harness, tree, child, pipe, audit, repair>>
  BY DEF Left
<1>2. PICK phase \in {"raised", "closing"} :
        phase = IF runner.error = "raised" THEN "raised" ELSE "closing"
  OBVIOUS
<1>3. runner' = [runner EXCEPT !.phase = phase]
  BY <1>2 DEF Left
<1>4. child.phase \in {"exited", "gone"} /\ runner.verifier = "none"
      /\ (tree'.late \/ "verifier" \in tree'.background => harness = "deepseek")
  BY <1>1 DEF HarnessInv, LoopInv, LateInv
<1>5. runner' \in Runners /\ runner'.phase = phase /\ runner'.error = runner.error
      /\ runner'.owned = runner.owned /\ runner'.verifier = "none"
  BY <1>3, <1>4, ParentCounts DEF Runners, Ended
<1>6. tree' \in Trees
  BY <1>1, HarnessTypes
<1>7. VerdictInv'
  BY <1>1, <1>5 DEF HarnessInv, VerdictInv
<1>8. harness = "swift" /\ harness \notin TornWriters =>
        /\ child.phase # "gone" => tree.background = {}
        /\ runner.error = "none" => child.phase = "exited"
  BY <1>1 DEF HarnessInv, SwiftInv
<1> QED
  BY <1>1, <1>4, <1>5, <1>6, <1>7, <1>8, AfterLoop

\* The checks after the loop leave a verdict only for a run without an error.
LEMMA CloseHarness ==
    ASSUME HarnessTypeOK, HarnessInv, Close
    PROVE  HarnessTypeOK' /\ HarnessInv'
<1>1. runner.phase = "closing" /\ Guarded /\ audit' = NewAudit
      /\ UNCHANGED <<harness, tree, child, pipe, repair>>
  BY DEF Close
<1>2. PICK error :
        /\ error = IF runner.error # "none" THEN runner.error
                   ELSE IF tree.outside THEN "scope"
                   ELSE IF child.code # 0 THEN "exit"
                   ELSE IF ~audit.ended \/ audit.open # {} THEN "protocol"
                   ELSE "none"
        /\ runner' = [runner EXCEPT !.error = error,
              !.phase = IF error = "none" /\ Verifies THEN "verifying"
                        ELSE "judging"]
  BY DEF Close
<1>3. error \in Errors
      /\ (error = "none" => runner.error = "none" /\ ~tree.outside /\ child.code = 0)
  BY <1>2, ParentCounts DEF Runners, Errors
<1>4. PICK phase \in {"verifying", "judging"} :
        phase = IF error = "none" /\ Verifies THEN "verifying" ELSE "judging"
  OBVIOUS
<1>5. runner.verifier = "none" /\ child.phase \in {"exited", "gone"}
      /\ (tree'.late \/ "verifier" \in tree'.background => harness = "deepseek")
  BY <1>1 DEF HarnessInv, LoopInv, LateInv
<1>6. runner' \in Runners /\ runner'.phase = phase /\ runner'.error = error
      /\ runner'.verifier = "none" /\ runner'.owned = runner.owned
  <2>1. runner' = [runner EXCEPT !.error = error, !.phase = phase]
    BY <1>2, <1>4
  <2> QED
    BY <1>3, <1>5, <2>1, ParentCounts DEF Runners
<1>7. tree' \in Trees
  BY <1>1, HarnessTypes
<1>8. VerdictInv'
  BY <1>1, <1>3, <1>6 DEF HarnessInv, VerdictInv
<1>9. phase = "verifying" => harness = "deepseek"
  BY <1>4 DEF Verifies
<1>10. harness = "swift" /\ harness \notin TornWriters =>
         /\ child.phase # "gone" => tree.background = {}
         /\ runner.error = "none" => child.phase = "exited"
  BY <1>1 DEF HarnessInv, SwiftInv
<1> QED
  BY <1>1, <1>3, <1>5, <1>6, <1>7, <1>8, <1>9, <1>10, AfterLoop

\* After a run of Qwen Code neither scope nor ownership is checked.
LEMMA CloseQwenHarness ==
    ASSUME HarnessTypeOK, HarnessInv, CloseQwen
    PROVE  HarnessTypeOK' /\ HarnessInv'
<1>1. runner.phase = "closing" /\ harness = "qwen" /\ audit' = NewAudit
      /\ UNCHANGED <<harness, tree, child, pipe, repair>>
  BY DEF CloseQwen, Guarded
<1>2. PICK error :
        /\ error = IF runner.error # "none" THEN runner.error
                   ELSE IF child.code # 0 THEN "exit"
                   ELSE IF audit.open # {} THEN "protocol"
                   ELSE "none"
        /\ runner' = [runner EXCEPT !.error = error,
              !.phase = IF error = "none" THEN "passed" ELSE "failed"]
  BY DEF CloseQwen
<1>3. error \in Errors
  BY <1>2, ParentCounts DEF Runners, Errors
<1>4. PICK phase \in {"passed", "failed"} :
        phase = IF error = "none" THEN "passed" ELSE "failed"
  OBVIOUS
<1>5. child.phase \in {"exited", "gone"}
      /\ (tree'.late \/ "verifier" \in tree'.background => harness = "deepseek")
  BY <1>1 DEF HarnessInv, LoopInv, LateInv
<1>6. runner' \in Runners /\ runner'.phase = phase
  <2>1. runner' = [runner EXCEPT !.error = error, !.phase = phase]
    BY <1>2, <1>4
  <2> QED
    BY <1>3, <2>1, ParentCounts DEF Runners, Ended
<1>7. tree' \in Trees
  BY <1>1, HarnessTypes
<1>8. VerdictInv'
  BY <1>1 DEF VerdictInv
<1> QED
  BY <1>1, <1>5, <1>6, <1>7, <1>8, AfterLoop

\* The runner verifies the stage itself: what its command passed is verified,
\* and what it wrote is set apart.
LEMMA VerifyHarness ==
    ASSUME HarnessTypeOK, HarnessInv, Verify
    PROVE  HarnessTypeOK' /\ HarnessInv'
<1>1. PICK result \in {"passed", "failed", "raised"}, writes \in BOOLEAN,
           stays \in BOOLEAN :
         /\ tree' = [tree EXCEPT
                !.changed = @ \/ writes, !.late = @ \/ writes,
                !.verified = result = "passed",
                !.background = @ \cup IF stays THEN {"verifier"} ELSE {}]
         /\ runner' =
              IF result = "raised"
              THEN [runner EXCEPT !.error = "raised",
                        !.phase = IF stays THEN "waiting" ELSE "raised"]
              ELSE [runner EXCEPT !.phase = "judging", !.verifier = result,
                        !.error = IF result = "passed" THEN @ ELSE "verifier"]
  BY DEF Verify
<1>2. runner.phase = "verifying" /\ UNCHANGED <<harness, child, pipe, audit, repair>>
  BY DEF Verify
<1>3. harness = "deepseek" /\ child.phase \in {"exited", "gone"}
      /\ runner.verifier = "none"
  BY <1>2 DEF HarnessInv, LoopInv
<1>4. PICK passed \in BOOLEAN : passed = (result = "passed")
  OBVIOUS
<1>5. tree' \in Trees /\ tree'.outside = tree.outside /\ tree'.verified = passed
      /\ ("child" \in tree'.background => "child" \in tree.background)
  <2>1. tree \in Trees
    BY HarnessTypes
  <2>2. PICK a \in BOOLEAN, b \in BOOLEAN :
          a = (tree.changed \/ writes) /\ b = (tree.late \/ writes)
    BY Zenon
  <2>3. PICK d : d = tree.background \cup IF stays THEN {"verifier"} ELSE {}
    OBVIOUS
  <2>4. d \in SUBSET Writers /\ ("child" \in d => "child" \in tree.background)
    BY <2>1, <2>3 DEF Trees, Writers
  <2>5. tree' = [tree EXCEPT !.changed = a, !.late = b, !.verified = passed,
                             !.background = d]
    BY <1>1, <1>4, <2>2, <2>3
  <2> QED
    BY <2>1, <2>4, <2>5 DEF Trees
<1>6. CASE result = "raised"
  <2>1. PICK phase \in {"waiting", "raised"} :
          phase = IF stays THEN "waiting" ELSE "raised"
    OBVIOUS
  <2>2. runner' = [runner EXCEPT !.error = "raised", !.phase = phase]
    BY <1>1, <1>6, <2>1
  <2>3. runner' \in Runners /\ runner'.phase = phase /\ runner'.verifier = "none"
        /\ runner'.owned = runner.owned /\ runner'.error = "raised"
    BY <1>3, <2>2, ParentCounts DEF Runners, Ended, Errors
  <2>4. VerdictInv'
    BY <1>2, <1>5, <2>3 DEF HarnessInv, VerdictInv
  <2> QED
    BY <1>2, <1>3, <1>5, <2>3, <2>4, AfterLoop
<1>7. CASE result # "raised"
  <2>1. PICK error \in Errors : error = IF passed THEN runner.error ELSE "verifier"
    BY ParentCounts DEF Runners, Errors
  <2>2. runner' = [runner EXCEPT !.phase = "judging", !.verifier = result,
                                 !.error = error]
    BY <1>1, <1>4, <1>7, <2>1
  <2>3. result \in Outcomes
    BY <1>7 DEF Outcomes
  <2>4. runner' \in Runners /\ runner'.phase = "judging" /\ runner'.verifier = result
        /\ runner'.error = error /\ runner'.owned = runner.owned
    BY <2>2, <2>3, ParentCounts DEF Runners
  <2>5. error = "none" => runner.error = "none"
    BY <2>1
  <2>6. VerdictInv'
    BY <1>2, <1>4, <1>5, <2>4, <2>5 DEF HarnessInv, VerdictInv
  <2> QED
    BY <1>2, <1>3, <1>5, <2>4, <2>6, AfterLoop
<1> QED
  BY <1>6, <1>7

\* A run passes only without an error, in a tree that is owned.
LEMMA JudgeHarness ==
    ASSUME HarnessTypeOK, HarnessInv, Judge
    PROVE  HarnessTypeOK' /\ HarnessInv'
<1>1. runner.phase = "judging"
      /\ UNCHANGED <<harness, tree, child, pipe, audit, repair>>
  BY DEF Judge
<1>2. PICK ledger \in BOOLEAN :
        LET error == IF runner.error # "none" THEN runner.error
                     ELSE IF ~Owned THEN "ownership"
                     ELSE IF ~ledger THEN "ledger"
                     ELSE "none"
        IN runner' = [runner EXCEPT !.error = error,
                !.phase = IF error = "none" THEN "passed" ELSE "failed"]
  BY DEF Judge
<1>3. PICK error :
        /\ error = IF runner.error # "none" THEN runner.error
                   ELSE IF runner.owned # "job" THEN "ownership"
                   ELSE IF ~ledger THEN "ledger"
                   ELSE "none"
        /\ runner' = [runner EXCEPT !.error = error,
                !.phase = IF error = "none" THEN "passed" ELSE "failed"]
  BY <1>2 DEF Owned
<1>4. error \in Errors
      /\ (error = "none" => runner.error = "none" /\ runner.owned = "job")
  BY <1>3, ParentCounts DEF Runners, Errors
<1>5. PICK phase \in {"passed", "failed"} :
        phase = IF error = "none" THEN "passed" ELSE "failed"
  OBVIOUS
<1>6. runner' \in Runners /\ runner'.phase = phase /\ runner'.error = error
      /\ runner'.owned = runner.owned /\ runner'.verifier = runner.verifier
  <2>1. runner' = [runner EXCEPT !.error = error, !.phase = phase]
    BY <1>3, <1>5
  <2> QED
    BY <1>4, <2>1, ParentCounts DEF Runners, Ended
<1>7. child.phase \in {"exited", "gone"} /\ tree' \in Trees
      /\ (tree'.late \/ "verifier" \in tree'.background => harness = "deepseek")
  BY <1>1, HarnessTypes DEF HarnessInv, LoopInv, LateInv
<1>8. VerdictInv'
  BY <1>1, <1>4, <1>5, <1>6 DEF HarnessInv, VerdictInv
<1>9. harness = "swift" /\ harness \notin TornWriters =>
        /\ child.phase # "gone" => tree.background = {}
        /\ runner.error = "none" => child.phase = "exited" /\ child.code = 0
  BY <1>1 DEF HarnessInv, SwiftInv
<1> QED
  BY <1>1, <1>4, <1>5, <1>6, <1>7, <1>8, <1>9, AfterLoop

\* No step of the child, of a descendant or of the parent breaks it.
LEMMA HarnessStep ==
    ASSUME HarnessTypeOK, HarnessInv, HarnessNext
    PROVE  HarnessTypeOK' /\ HarnessInv'
<1>1. CASE Child
  BY <1>1, TurnHarness, CallHarness, NoEffectHarness, EditHarness, TornEditHarness,
     TestHarness, ShellHarness, EndHarness, FailsHarness DEF Child
<1>2. CASE Background \/ BackgroundEnds
  BY <1>2, BackgroundHarness, BackgroundEndsHarness
<1>3. CASE Parent
  BY <1>3, TakeRejectedHarness, TakeTurnHarness, TakeStartHarness, TakeEndHarness,
     TakeAgentEndHarness, TimeoutHarness, StreamEndsHarness, LeftHarness,
     CloseHarness, CloseQwenHarness, VerifyHarness, JudgeHarness
     DEF Parent, PipesClose
<1>4. CASE PipesLetGo
  BY <1>4, LeftHarness DEF PipesLetGo
<1> QED
  BY <1>1, <1>2, <1>3, <1>4 DEF HarnessNext

\* A run that passes on a route with guards saw its stage pass as it is.
LEMMA PassedIsVerified ==
    ASSUME HarnessTypeOK, HarnessInv, runner.phase = "passed", VerificationPassed,
           harness # "qwen", "swift" \notin TornWriters
    PROVE  tree.verified /\ ~tree.outside
<1>1. harness = "deepseek" \/ harness = "swift"
  BY HarnessTypes, HarnessAssumption
<1>2. runner.owned = "job" /\ runner.error = "none" /\ ~tree.outside
  BY DEF HarnessInv, VerdictInv
<1>3. CASE harness = "deepseek"
  BY <1>2, <1>3 DEF HarnessInv, VerdictInv, VerificationPassed
<1>4. CASE harness = "swift"
  <2>1. child.phase = "exited" /\ child.code = 0
    BY <1>2, <1>4 DEF HarnessInv, SwiftInv
  <2> QED
    BY <1>2, <1>4, <2>1 DEF HarnessInv, SwiftInv
<1> QED
  BY <1>1, <1>3, <1>4

-----------------------------------------------------------------------------
(* What a step of the worker is made of                                    *)

\* The elements of a sequence and of what the worker makes of it.
LEMMA EmptyRange == Range(<<>>) = {}
BY DEF Range

\* What is left of a list.
LEMMA TailRange ==
    ASSUME NEW S, NEW s \in Seq(S), s # <<>>
    PROVE  /\ Head(s) \in S /\ Head(s) \in Range(s) /\ Tail(s) \in Seq(S)
           /\ Range(Tail(s)) \subseteq Range(s)
           /\ \A x \in Range(s) : x = Head(s) \/ x \in Range(Tail(s))
<1>1. Len(s) \in Nat /\ Len(s) >= 1 /\ DOMAIN s = 1..Len(s) /\ Head(s) = s[1]
      /\ Tail(s) \in Seq(S) /\ DOMAIN Tail(s) = 1..(Len(s) - 1)
      /\ \A i \in 1..(Len(s) - 1) : Tail(s)[i] = s[i + 1]
  OBVIOUS
<1>2. Head(s) \in S /\ Head(s) \in Range(s)
  BY <1>1 DEF Range
<1>3. ASSUME NEW x \in Range(Tail(s)) PROVE x \in Range(s)
  <2>1. PICK i \in 1..(Len(s) - 1) : x = s[i + 1]
    BY <1>1 DEF Range
  <2>2. i + 1 \in DOMAIN s
    BY <1>1
  <2> QED
    BY <2>1, <2>2 DEF Range
<1>4. ASSUME NEW x \in Range(s), x # Head(s) PROVE x \in Range(Tail(s))
  <2>1. PICK i \in DOMAIN s : x = s[i]
    BY DEF Range
  <2>2. i # 1
    BY <1>1, <1>4, <2>1
  <2>3. i - 1 \in DOMAIN Tail(s) /\ Tail(s)[i - 1] = x
    BY <1>1, <2>1, <2>2
  <2> QED
    BY <2>3 DEF Range
<1> QED
  BY <1>1, <1>2, <1>3, <1>4

\* A list with one more at its end.
LEMMA AppendRange ==
    ASSUME NEW S, NEW s \in Seq(S), NEW e \in S
    PROVE  /\ Append(s, e) \in Seq(S) /\ Append(s, e) # <<>>
           /\ Range(Append(s, e)) = Range(s) \cup {e}
<1>1. /\ Append(s, e) \in Seq(S) /\ Len(Append(s, e)) = Len(s) + 1
      /\ DOMAIN s = 1..Len(s) /\ Len(s) \in Nat
      /\ DOMAIN Append(s, e) = 1..(Len(s) + 1)
      /\ \A i \in 1..Len(s) : Append(s, e)[i] = s[i]
      /\ Append(s, e)[Len(s) + 1] = e
  OBVIOUS
<1>2. Append(s, e) # <<>>
  BY <1>1
<1>3. ASSUME NEW x \in Range(Append(s, e)) PROVE x \in Range(s) \cup {e}
  BY <1>1 DEF Range
<1>4. ASSUME NEW x \in Range(s) PROVE x \in Range(Append(s, e))
  BY <1>1 DEF Range
<1>5. e \in Range(Append(s, e))
  BY <1>1 DEF Range
<1> QED
  BY <1>1, <1>2, <1>3, <1>4, <1>5

\* A list read backwards.
LEMMA ReverseRange ==
    ASSUME NEW S, NEW s \in Seq(S)
    PROVE  Reverse(s) \in Seq(S) /\ Range(Reverse(s)) = Range(s)
<1>1. Len(s) \in Nat /\ DOMAIN s = 1..Len(s) /\ \A i \in 1..Len(s) : s[i] \in S
  OBVIOUS
<1>2. PICK r : r = [i \in 1..Len(s) |-> s[(Len(s) - i) + 1]]
  OBVIOUS
<1>3. DOMAIN r = 1..Len(s)
      /\ \A i \in 1..Len(s) : (Len(s) - i) + 1 \in 1..Len(s) /\ r[i] = s[(Len(s) - i) + 1]
  BY <1>1, <1>2
<1>4. r \in Seq(S)
  BY <1>1, <1>2, <1>3
<1>5. ASSUME NEW x \in Range(r) PROVE x \in Range(s)
  BY <1>1, <1>3 DEF Range
<1>6. ASSUME NEW x \in Range(s) PROVE x \in Range(r)
  <2>1. PICK i \in 1..Len(s) : x = s[i]
    BY <1>1 DEF Range
  <2>2. (Len(s) - i) + 1 \in 1..Len(s) /\ (Len(s) - ((Len(s) - i) + 1)) + 1 = i
    BY <1>1
  <2>3. r[(Len(s) - i) + 1] = x
    BY <1>3, <2>1, <2>2
  <2> QED
    BY <1>3, <2>2, <2>3 DEF Range
<1> QED
  BY <1>2, <1>4, <1>5, <1>6 DEF Reverse

\* The changed paths, as a list.
LEMMA ListOfChanged == ChangedList \in Seq(Paths) /\ Range(ChangedList) = Changed
<1>1. Changed \subseteq Paths /\ IsFiniteSet(Changed)
  BY ProductionAssumption, FS_Subset DEF Changed
<1>2. PICK n : n = Cardinality(Changed)
  OBVIOUS
<1>3. n \in Nat /\ ExistsBijection(1..n, Changed)
  BY <1>1, <1>2, FS_CardinalityType
<1>4. \E f \in [1..n -> Changed] : IsInjective(f)
  BY <1>3 DEF ExistsBijection, Bijection, Injection
<1>5. ChangedList \in [1..n -> Changed] /\ IsInjective(ChangedList)
  BY <1>2, <1>4 DEF ChangedList, SetToSeq
<1>6. PICK s : s = ChangedList
  OBVIOUS
<1>7. s \in Injection(1..n, Changed)
  BY <1>5, <1>6 DEF Injection
<1>8. DOMAIN s = 1..n /\ \A i \in 1..n : s[i] \in Changed
  BY <1>5, <1>6
<1>9. s \in Seq(Paths)
  BY <1>1, <1>3, <1>5, <1>6
<1>10. Range(s) = Changed
  <2>1. Range(s) \in SUBSET Changed
    BY <1>8 DEF Range
  <2>2. ExistsBijection(1..n, Range(s))
    BY <1>7, Fun_InjMeansBijImage DEF ExistsBijection
  <2>3. Cardinality(Range(s)) = n
    BY <1>3, <2>2, FS_CountingElements
  <2> QED
    BY <1>1, <1>2, <2>1, <2>3, FS_Subset
<1> QED
  BY <1>6, <1>9, <1>10

\* The types of what the worker changes.
LEMMA WorkerTypes ==
    TypeOK <=> /\ HarnessTypeOK /\ pc \in Steps
               /\ source \in [Paths -> Contents] /\ staged \in [Paths -> Contents]
               /\ backup \in [Paths -> Contents]
               /\ todo \in Seq(Paths) /\ applied \in Seq(Paths)
               /\ backend \in Backends /\ log \in Seq(Entry) /\ stuck \in BOOLEAN
               /\ final \in Final /\ resultFile \in Final
               /\ faults \in 0..MaxFaults /\ userEdits \in 0..MaxUserEdits
BY DEF TypeOK

\* The same after a step.
LEMMA WorkerTypesNext ==
    TypeOK' <=> /\ HarnessTypeOK' /\ pc' \in Steps
                /\ source' \in [Paths -> Contents] /\ staged' \in [Paths -> Contents]
                /\ backup' \in [Paths -> Contents]
                /\ todo' \in Seq(Paths) /\ applied' \in Seq(Paths)
                /\ backend' \in Backends /\ log' \in Seq(Entry) /\ stuck' \in BOOLEAN
                /\ final' \in Final /\ resultFile' \in Final
                /\ faults' \in 0..MaxFaults /\ userEdits' \in 0..MaxUserEdits
BY DEF TypeOK

\* A fault is one of those the bound allows.
LEMMA FaultBound ==
    ASSUME TypeOK, Fault PROVE faults' \in 0..MaxFaults
BY WorkerTypes, ProductionAssumption DEF Fault

\* Who does not touch the harness keeps what is known of it.
LEMMA HarnessKept ==
    ASSUME UNCHANGED harnessVars
    PROVE  /\ HarnessTypeOK => HarnessTypeOK'
           /\ HarnessInv => HarnessInv'
           /\ UNCHANGED <<harness, tree, runner>>
<1>1. UNCHANGED <<harness, tree, child, pipe, audit, runner, repair>>
  BY DEF harnessVars
<1>2. HarnessTypeOK => HarnessTypeOK'
  BY <1>1 DEF HarnessTypeOK
<1>3. HarnessInv => HarnessInv'
  BY <1>1 DEF HarnessInv, CountInv, LoopInv, LateInv, VerdictInv, SwiftInv, PipeInv
<1> QED
  BY <1>1, <1>2, <1>3

\* The report a failing operation leaves.
LEMMA FailingFinal ==
    ASSUME final \in Final
    PROVE  /\ Failing(final) \in Final /\ Failing(final).status = "failed"
           /\ Failing(final).stageOnly = final.stageOnly /\ Failing(final).ok = final.ok
           /\ Failing(final).restored = final.restored
           /\ Failing(final).applied = final.applied
           /\ Failing(final).promotion = final.promotion
           /\ Failing(final).rolledBack = final.rolledBack
           /\ Failing(final).rollbackError = final.rollbackError
           /\ Failing(final).clean = final.clean
BY DEF Final, Failing

\* The journal after an append: the event at its end, the others before it.
LEMMA Journaled ==
    ASSUME log \in Seq(Entry), final \in Final, NEW kind \in Kinds, Journal(kind)
    PROVE  /\ log' \in Seq(Entry) /\ log' # <<>> /\ log'[Len(log')].kind = kind
           /\ \A k : Logged(k)' <=> Logged(k) \/ k = kind
           /\ EpisodeVerified => EpisodeVerified'
           /\ kind = "episode" /\ final.status = "verified" => EpisodeVerified'
<1>1. PICK e : e = [kind |-> kind, status |-> final.status]
  OBVIOUS
<1>2. e \in Entry /\ e.kind = kind
  BY <1>1 DEF Entry, Final
<1>3. log' = Append(log, e)
  BY <1>1 DEF Journal
<1>4. /\ log' \in Seq(Entry) /\ Len(log') = Len(log) + 1 /\ Len(log) \in Nat
      /\ DOMAIN log = 1..Len(log) /\ DOMAIN log' = 1..(Len(log) + 1)
      /\ \A i \in 1..Len(log) : log'[i] = log[i]
      /\ log'[Len(log) + 1] = e
  BY <1>2, <1>3
<1>5. log' # <<>> /\ log'[Len(log')].kind = kind
  BY <1>2, <1>4
<1>6. ASSUME NEW k PROVE Logged(k)' <=> Logged(k) \/ k = kind
  <2>1. Logged(k)' => Logged(k) \/ k = kind
    BY <1>2, <1>4 DEF Logged
  <2>2. Logged(k) => Logged(k)'
    BY <1>4 DEF Logged
  <2>3. k = kind => Logged(k)'
    BY <1>2, <1>4 DEF Logged
  <2> QED
    BY <2>1, <2>2, <2>3
<1>7. EpisodeVerified => EpisodeVerified'
  BY <1>4 DEF EpisodeVerified
<1>8. kind = "episode" /\ final.status = "verified" => EpisodeVerified'
  BY <1>1, <1>4 DEF EpisodeVerified
<1> QED
  BY <1>4, <1>5, <1>6, <1>7, <1>8

\* The kinds of append: one that succeeds, and one that raises.
LEMMA AppendTypes ==
    ASSUME TypeOK, NEW kind \in Kinds, Appended(kind) \/ AppendRaises(kind)
    PROVE  /\ log' \in Seq(Entry) /\ stuck' \in BOOLEAN /\ faults' \in 0..MaxFaults
           /\ Appended(kind) => ~stuck /\ ~stuck' /\ Journal(kind)
           /\ UNCHANGED log \/ Journal(kind)
           /\ AppendRaises(kind) => UNCHANGED log \/ (~stuck /\ stuck' /\ Journal(kind))
           /\ UNCHANGED stuck \/ stuck'
<1>1. UNCHANGED log \/ Journal(kind)
  BY DEF Appended, AppendRaises
<1>2. log' \in Seq(Entry)
  BY <1>1, Journaled, WorkerTypes
<1>3. faults' \in 0..MaxFaults
  BY FaultBound, WorkerTypes DEF Appended, AppendRaises
<1>4. stuck' \in BOOLEAN
  BY WorkerTypes DEF Appended, AppendRaises
<1> QED
  BY <1>1, <1>2, <1>3, <1>4 DEF Appended, AppendRaises

\* The journal of a task that has not ended, after one more step.
LEMMA JournalOpen ==
    ASSUME TypeOK, JournalInv, NEW kind \in Kinds \ {"completed", "failed"},
           UNCHANGED log \/ Journal(kind),
           pc \notin {"recover", "result", "ended", "crashed"},
           pc' \in {"escaped", "recover", "ended", "crashed"} \/ ~stuck',
           pc' \in {"state2", "terminal"} /\ Verified' => EpisodeVerified',
           pc' \in {"result", "ended"} => ~Verified'
    PROVE  JournalInv'
<1>1. ~Logged("completed") /\ ~Logged("failed")
  BY DEF JournalInv, Terminated
<1>2. ~Logged("completed")' /\ ~Logged("failed")'
  <2>1. CASE UNCHANGED log
    BY <1>1, <2>1 DEF Logged
  <2>2. CASE Journal(kind)
    BY <1>1, <2>2, Journaled, WorkerTypes
  <2> QED
    BY <2>1, <2>2
<1>3. ~Terminated'
  BY <1>2 DEF Terminated
<1>4. pc' = "result" => ~stuck'
  OBVIOUS
<1> QED
  BY <1>2, <1>3, <1>4 DEF JournalInv

\* A step that touches no file, and does not promote.
LEMMA FilesKept ==
    ASSUME SourceInv, RollbackInv,
           UNCHANGED <<source, staged, applied, backup, userEdits>>,
           pc' \notin Promoting \ {"check"},
           pc' \in BeforePromotion \cup {"check"} => pc \in BeforePromotion,
           final'.applied = final.applied, final'.promotion = final.promotion,
           final'.rollbackError = final.rollbackError
    PROVE  SourceInv' /\ RollbackInv' /\ (Untouched' <=> Untouched)
           /\ (Promoted' <=> Promoted)
<1>1. /\ Untouched' <=> Untouched
      /\ AllKept' <=> AllKept
      /\ Promoted' <=> Promoted
  BY DEF Untouched, AllKept, Kept, Changed, Promoted
<1>2. pc' \notin {"backup", "manifest", "replace", "compare", "rollback", "report"}
  BY DEF Promoting, Copying
<1>3. Changed' = Changed /\ before' = before
  BY DEF Changed, before
<1>4. SourceInv'
  <2>1. /\ \A p \in Paths : staged'[p] # "user" /\ (source'[p] = "user" => userEdits' > 0)
        /\ \A p \in Paths : backup'[p] = "user" => userEdits' > 0
    BY DEF SourceInv
  <2>2. pc' \in BeforePromotion \cup Copying => Untouched' /\ applied' = <<>>
    BY <1>1, <1>2 DEF SourceInv, Copying
  <2>3. pc' \notin Promoting \ Copying
    BY <1>2 DEF Promoting, Copying
  <2>4. Range(applied') \subseteq Changed' /\ (Untouched' \/ final'.applied \/ AllKept')
    BY <1>1, <1>3 DEF SourceInv
  <2> QED
    BY <1>2, <2>1, <2>2, <2>3, <2>4 DEF SourceInv
<1>5. RollbackInv'
  BY <1>2, <1>3 DEF RollbackInv
<1> QED
  BY <1>1, <1>4, <1>5

\* A step that touches no file and not the harness: what is left to show of it.
LEMMA QuietStep ==
    ASSUME IInv, UNCHANGED <<harnessVars, source, staged, todo, applied, backup,
                             userEdits>>,
           pc' \in Steps, backend' \in Backends, log' \in Seq(Entry),
           stuck' \in BOOLEAN, final' \in Final, resultFile' \in Final,
           faults' \in 0..MaxFaults,
           pc' \notin Promoting \ {"check"},
           pc' \in BeforePromotion \cup {"check"} => pc \in BeforePromotion,
           pc' \in BeforeHarness => pc \in BeforeHarness,
           final'.applied = final.applied, final'.promotion = final.promotion,
           final'.rollbackError = final.rollbackError,
           (Untouched' <=> Untouched) /\ (Promoted' <=> Promoted) => ReportInv',
           StatusInv', JournalInv'
    PROVE  IInv'
<1>1. TypeOK /\ WorkerInv
  BY DEF IInv
<1>2. HarnessTypeOK' /\ (pc' \in BeforeHarness => HarnessInv')
  BY <1>1, HarnessKept, WorkerTypes DEF WorkerInv
<1>3. TypeOK'
  BY <1>1, <1>2, WorkerTypes, WorkerTypesNext
<1>4. SourceInv' /\ RollbackInv' /\ (Untouched' <=> Untouched)
      /\ (Promoted' <=> Promoted)
  BY <1>1, FilesKept DEF WorkerInv
<1> QED
  BY <1>2, <1>3, <1>4 DEF IInv, WorkerInv

\* As QuietStep, for a step before the promotion that leaves the report alone.
LEMMA EarlyStep ==
    ASSUME IInv, UNCHANGED <<harnessVars, source, staged, todo, applied, backup,
                             userEdits, final, resultFile>>,
           pc \in BeforePromotion \ {"decide", "escaped"},
           pc' \in BeforePromotion \ {"started", "decide"},
           pc' \in BeforeHarness => pc \in BeforeHarness,
           backend' \in Backends, log' \in Seq(Entry),
           stuck' \in BOOLEAN, faults' \in 0..MaxFaults,
           NEW kind \in Kinds \ {"completed", "failed"},
           UNCHANGED log \/ Journal(kind),
           pc' = "escaped" \/ ~stuck'
    PROVE  IInv'
<1> USE DEF BeforePromotion, BeforeIdle, BeforeHarness
<1>1. TypeOK /\ ReportInv /\ StatusInv /\ JournalInv
  BY DEF IInv, WorkerInv
<1>2. pc \in BeforeIdle /\ pc' \in Steps
  BY DEF Steps
<1>3. pc' \notin Promoting /\ pc' \notin AfterPromotion \cup {"ended"}
      /\ pc' \notin Closing \cup {"applied", "cleanup"}
  BY DEF Promoting, Copying, AfterPromotion, Closing
<1>4. UNCHANGED <<harness, tree>>
  BY HarnessKept
<1>5. ~final.restored /\ ~final.applied /\ final.promotion = "not_attempted"
  BY <1>1, <1>2 DEF ReportInv
<1>6. ReportInv'
  BY <1>3, <1>5 DEF ReportInv
<1>7. final.status = "none" /\ (pc' \in BeforeHarness => ~final.ok)
  BY <1>1, <1>2 DEF StatusInv
<1>8. StatusInv'
  BY <1>1, <1>3, <1>4, <1>7 DEF StatusInv, LateInv
<1>9. ~Verified'
  BY <1>7 DEF Verified
<1>10. JournalInv'
  BY <1>1, <1>9, JournalOpen
<1>11. final' \in Final /\ resultFile' \in Final
  BY <1>1, WorkerTypes
<1> QED
  BY <1>2, <1>3, <1>6, <1>8, <1>10, <1>11, QuietStep

-----------------------------------------------------------------------------
(* The steps before the promotion                                          *)

\* An append outside any try is an early step.
LEMMA PlainAppendStep ==
    ASSUME IInv, NEW kind, NEW next, PlainAppend(kind, next),
           \/ kind = "started" /\ next = "state1"
           \/ kind = "state1" /\ next = "switch"
           \/ kind = "retrieved" /\ next = "request"
           \/ kind = "request" /\ next = "harness"
           \/ kind = "response" /\ next = "review"
    PROVE  IInv'
<1>1. kind \in Kinds \ {"completed", "failed"}
  BY DEF Kinds
<1>2. UNCHANGED <<harnessVars, source, staged, todo, applied, backup, userEdits,
                  final, resultFile, backend>> /\ pc = kind
  BY DEF PlainAppend, KeepFiles, KeepRun, KeepUser
<1>3. pc' \in {next, "escaped"} /\ (Appended(kind) \/ AppendRaises(kind))
      /\ (pc' # "escaped" => Appended(kind))
  BY DEF PlainAppend
<1>4. TypeOK
  BY DEF IInv
<1>5. log' \in Seq(Entry) /\ stuck' \in BOOLEAN /\ faults' \in 0..MaxFaults
      /\ (UNCHANGED log \/ Journal(kind)) /\ (pc' # "escaped" => ~stuck')
  BY <1>1, <1>3, <1>4, AppendTypes
<1>6. /\ pc \in BeforePromotion \ {"decide", "escaped"}
      /\ pc' \in BeforePromotion \ {"started", "decide"}
      /\ pc' \in BeforeHarness => pc \in BeforeHarness
  BY <1>2, <1>3 DEF BeforePromotion, BeforeIdle, BeforeHarness
<1>7. backend' \in Backends
  BY <1>2, <1>4, WorkerTypes
<1> QED
  BY <1>1, <1>2, <1>5, <1>6, <1>7, EarlyStep

\* Reading from memory writes nothing; it may raise.
LEMMA RetrieveStep == ASSUME IInv, Retrieve PROVE IInv'
<1>1. CASE PlainAppend("retrieved", "request")
  BY <1>1, PlainAppendStep
<1>2. CASE /\ pc = "retrieved" /\ Fault /\ pc' = "escaped"
           /\ UNCHANGED <<backend, log, stuck, final, resultFile>>
           /\ KeepFiles /\ KeepRun /\ KeepUser
  <2>1. UNCHANGED <<harnessVars, source, staged, todo, applied, backup, userEdits,
                    final, resultFile, backend, log, stuck>>
    BY <1>2 DEF KeepFiles, KeepRun, KeepUser
  <2>2. TypeOK /\ faults' \in 0..MaxFaults
    BY <1>2, FaultBound DEF IInv
  <2>3. backend' \in Backends /\ log' \in Seq(Entry) /\ stuck' \in BOOLEAN
    BY <2>1, <2>2, WorkerTypes
  <2>4. "state1" \in Kinds \ {"completed", "failed"}
    BY DEF Kinds
  <2> QED
    BY <1>2, <2>1, <2>2, <2>3, <2>4, EarlyStep
       DEF BeforePromotion, BeforeIdle, BeforeHarness
<1> QED
  BY <1>1, <1>2 DEF Retrieve

\* A switch of the backend and a review write nothing.
LEMMA UnloggedStep ==
    ASSUME IInv, UNCHANGED <<log, stuck, final, resultFile>>,
           KeepFiles, KeepRun, KeepUser, backend' \in Backends,
           faults' \in 0..MaxFaults,
           \/ pc = "switch" /\ pc' \in {"retrieved", "escaped"}
           \/ pc = "review" /\ pc' = "idle"
    PROVE  IInv'
<1>1. UNCHANGED <<harnessVars, source, staged, todo, applied, backup, userEdits>>
  BY DEF KeepFiles, KeepRun, KeepUser
<1>2. TypeOK /\ JournalInv
  BY DEF IInv, WorkerInv
<1>3. log' \in Seq(Entry) /\ stuck' \in BOOLEAN
  BY <1>2, WorkerTypes
<1>4. ~stuck
  BY <1>2 DEF JournalInv
<1>5. "state1" \in Kinds \ {"completed", "failed"}
  BY DEF Kinds
<1>6. /\ pc \in BeforePromotion \ {"decide", "escaped"}
      /\ pc' \in BeforePromotion \ {"started", "decide"}
      /\ pc' \in BeforeHarness => pc \in BeforeHarness
  BY DEF BeforePromotion, BeforeIdle, BeforeHarness
<1> QED
  BY <1>1, <1>3, <1>4, <1>5, <1>6, EarlyStep

\* The backend is switched on, or the worker escapes.
LEMMA SwitchOnStep == ASSUME IInv, SwitchOn PROVE IInv'
<1>1. TypeOK
  BY DEF IInv
<1>2. backend' \in Backends
  BY <1>1, WorkerTypes DEF SwitchOn, Backends
<1>3. faults' \in 0..MaxFaults
  BY <1>1, FaultBound, WorkerTypes DEF SwitchOn
<1> QED
  BY <1>2, <1>3, UnloggedStep DEF SwitchOn

\* What the worker forgets of the harness that is over.
LEMMA OverHarness ==
    ASSUME HarnessTypeOK, HarnessOver
    PROVE  /\ HarnessTypeOK' /\ UNCHANGED harness
           /\ tree'.verified = tree.verified /\ tree'.outside = tree.outside
           /\ tree'.late = tree.late /\ tree'.background = {}
<1>1. /\ child' = NewChild /\ pipe' = <<>> /\ audit' = NewAudit
      /\ repair' = NewRepair
      /\ runner' = [NewRunner EXCEPT !.phase = runner.phase]
      /\ tree' = [tree EXCEPT !.background = {}]
      /\ UNCHANGED harness
  BY DEF HarnessOver
<1>2. tree' \in Trees /\ tree'.verified = tree.verified
      /\ tree'.outside = tree.outside /\ tree'.late = tree.late
      /\ tree'.background = {}
  BY <1>1, HarnessTypes DEF Trees
<1>3. runner' \in Runners
  BY <1>1, NewHarness, HarnessTypes DEF Runners
<1>4. pipe' \in Seq(Event) /\ Len(pipe') <= PipeSize
  <2>1. Len(pipe') = 0 /\ pipe' \in Seq(Event)
    BY <1>1
  <2> QED
    BY <2>1, Budgets
<1> QED
  BY <1>1, <1>2, <1>3, <1>4, NewHarness, HarnessTypes, HarnessTypesNext

\* The exception of a harness leaves the run, which has written nothing.
LEMMA HarnessRaisedStep == ASSUME IInv, HarnessRaised PROVE IInv'
<1>1. /\ pc = "harness" /\ pc' = "escaped" /\ HarnessOver
      /\ UNCHANGED <<source, staged, todo, applied, backup, backend, log, stuck,
                     final, resultFile, faults, userEdits>>
  BY DEF HarnessRaised, KeepFiles, KeepUser
<1>2. TypeOK /\ HarnessInv /\ SourceInv /\ RollbackInv /\ ReportInv /\ StatusInv
      /\ JournalInv
  BY <1>1 DEF IInv, WorkerInv, BeforeHarness
<1>3. HarnessTypeOK' /\ UNCHANGED harness
      /\ tree'.late = tree.late /\ tree'.background = {}
  BY <1>1, <1>2, OverHarness, WorkerTypes
<1>4. TypeOK'
  <2>1. pc' \in Steps
    BY <1>1 DEF Steps
  <2> QED
    BY <1>1, <1>2, <1>3, <2>1, WorkerTypes, WorkerTypesNext
<1>5. pc' \notin BeforeHarness /\ pc' \notin Promoting /\ pc' \notin BeforeIdle
      /\ pc' \notin AfterPromotion \cup {"ended"}
      /\ pc' \notin Closing \cup {"applied", "cleanup", "decide", "recover"}
      /\ pc \in BeforePromotion
  BY <1>1 DEF BeforePromotion, BeforeIdle, BeforeHarness, Promoting, Copying,
     AfterPromotion, Closing
<1>6. SourceInv' /\ RollbackInv'
  <2>1. pc' \notin Promoting \ {"check"}
    BY <1>5
  <2> QED
    BY <1>1, <1>2, <1>5, <2>1, FilesKept
<1>7. ~final.ok /\ final.status = "none" /\ ~final.applied
      /\ final.promotion = "not_attempted" /\ ~final.restored
  BY <1>1, <1>2 DEF StatusInv, ReportInv, BeforePromotion, BeforeIdle, BeforeHarness
<1>8. ReportInv'
  BY <1>1, <1>5, <1>7 DEF ReportInv
<1>9. StatusInv'
  BY <1>1, <1>2, <1>3, <1>5, <1>7 DEF StatusInv, LateInv
<1>10. JournalInv'
  <2>1. "state1" \in Kinds \ {"completed", "failed"}
    BY DEF Kinds
  <2> QED
    BY <1>1, <1>2, <2>1, JournalOpen
<1> QED
  BY <1>4, <1>5, <1>6, <1>8, <1>9, <1>10 DEF IInv, WorkerInv

\* The review may switch the backend, and writes no file.
LEMMA ReviewStep == ASSUME IInv, Review PROVE IInv'
<1>1. TypeOK
  BY DEF IInv
<1>2. backend' \in Backends
  BY <1>1, WorkerTypes DEF Review, Backends
<1>3. faults' \in 0..MaxFaults
  BY <1>1, FaultBound, WorkerTypes DEF Review
<1> QED
  BY <1>2, <1>3, UnloggedStep DEF Review

\* The harness works on its own variables.
LEMMA HarnessStepsKeep == ASSUME IInv, HarnessSteps PROVE IInv'
<1>1. pc = "harness" /\ HarnessNext
      /\ UNCHANGED <<pc, source, staged, todo, applied, backup, backend, log,
                     stuck, final, resultFile, faults, userEdits>>
  BY DEF HarnessSteps, workerVars
<1>2. TypeOK /\ HarnessInv /\ SourceInv /\ RollbackInv /\ ReportInv /\ StatusInv
      /\ JournalInv
  BY <1>1 DEF IInv, WorkerInv, BeforeHarness
<1>3. HarnessTypeOK' /\ HarnessInv'
  BY <1>1, <1>2, HarnessStep, WorkerTypes
<1>4. TypeOK'
  BY <1>1, <1>2, <1>3, WorkerTypes, WorkerTypesNext
<1>5. SourceInv' /\ RollbackInv' /\ (Untouched' <=> Untouched)
      /\ (Promoted' <=> Promoted)
  BY <1>1, <1>2, FilesKept DEF Promoting, Copying
<1>6. ReportInv'
  BY <1>1, <1>2, <1>5 DEF ReportInv
<1>7. ~final.ok
  BY <1>1, <1>2 DEF StatusInv, BeforeHarness
<1>8. StatusInv'
  <2>1. LateInv'
    BY <1>3 DEF HarnessInv, LoopInv
  <2> QED
    BY <1>1, <1>2, <1>7, <2>1 DEF StatusInv
<1>9. JournalInv'
  <2>1. "state1" \in Kinds \ {"completed", "failed"}
    BY DEF Kinds
  <2>2. ~stuck
    BY <1>1, <1>2 DEF JournalInv
  <2> QED
    BY <1>1, <1>2, <2>1, <2>2, JournalOpen
<1> QED
  BY <1>3, <1>4, <1>5, <1>6, <1>8, <1>9 DEF IInv, WorkerInv

\* The stage the harness leaves, and the verdict over it.
LEMMA HarnessDoneStep == ASSUME IInv, HarnessDone PROVE IInv'
<1>1. PICK stage \in [Paths -> {"absent", "old", "new"}] :
        /\ staged' = stage
        /\ final' = [final EXCEPT !.ok = ImplementationOk(stage)]
  BY DEF HarnessDone
<1>2. /\ pc = "harness" /\ pc' = "response" /\ HarnessOver
      /\ UNCHANGED <<source, todo, applied, backup, backend, log,
                     stuck, resultFile, faults, userEdits>>
  BY DEF HarnessDone, KeepUser
<1>3. TypeOK /\ HarnessInv /\ SourceInv /\ RollbackInv /\ ReportInv /\ StatusInv
      /\ JournalInv
  BY <1>2 DEF IInv, WorkerInv, BeforeHarness
<1>4. PICK ok \in BOOLEAN : ok = ImplementationOk(stage)
  BY Zenon DEF ImplementationOk
<1>5. final \in Final /\ final' = [final EXCEPT !.ok = ok]
  BY <1>1, <1>3, <1>4, WorkerTypes
<1>6. /\ final' \in Final /\ final'.ok = ok
      /\ final'.applied = final.applied /\ final'.promotion = final.promotion
      /\ final'.rollbackError = final.rollbackError /\ final'.status = final.status
      /\ final'.restored = final.restored /\ final'.stageOnly = final.stageOnly
  BY <1>5 DEF Final
<1>7. UNCHANGED harness /\ tree'.late = tree.late /\ tree'.background = {}
      /\ tree'.verified = tree.verified /\ tree'.outside = tree.outside
  BY <1>2, <1>3, OverHarness, WorkerTypes
<1>8. HarnessTypeOK'
  BY <1>2, <1>3, OverHarness, WorkerTypes
<1>9. TypeOK'
  <2>1. staged' \in [Paths -> Contents]
    BY <1>1 DEF Contents
  <2>2. pc' \in Steps
    BY <1>2 DEF Steps
  <2> QED
    BY <1>2, <1>3, <1>6, <1>8, <2>1, <2>2, WorkerTypes, WorkerTypesNext
<1>10. Untouched /\ applied = <<>> /\ ~final.applied
       /\ final.promotion = "not_attempted" /\ ~final.restored /\ final.status = "none"
       /\ ~stuck
  BY <1>2, <1>3 DEF SourceInv, ReportInv, StatusInv, JournalInv, BeforePromotion,
     BeforeIdle, BeforeHarness
<1>11. pc' \notin BeforeHarness /\ pc' \notin Promoting
       /\ pc' \notin AfterPromotion \cup Copying \cup {"ended"}
       /\ pc' \notin Closing \cup {"applied", "cleanup"}
  BY <1>2 DEF BeforeHarness, Promoting, Copying, AfterPromotion, Closing
<1>12. SourceInv'
  <2>1. Untouched' /\ applied' = <<>>
    BY <1>2, <1>10 DEF Untouched, before
  <2>2. /\ \A p \in Paths : staged'[p] # "user" /\ (source'[p] = "user" => userEdits' > 0)
        /\ \A p \in Paths : backup'[p] = "user" => userEdits' > 0
    BY <1>1, <1>2, <1>3 DEF SourceInv
  <2>3. Range(applied') \subseteq Changed'
    BY <2>1, EmptyRange
  <2> QED
    BY <1>2, <1>11, <2>1, <2>2, <2>3 DEF SourceInv
<1>13. RollbackInv'
  BY <1>2, <1>6, <1>10 DEF RollbackInv
<1>14. ReportInv'
  BY <1>2, <1>6, <1>10, <1>11 DEF ReportInv
<1>15. StatusInv'
  <2>1. ok /\ harness # "qwen" /\ "swift" \notin TornWriters
          => tree'.verified /\ ~tree'.outside
    BY <1>3, <1>4, <1>7, PassedIsVerified, WorkerTypes DEF ImplementationOk
  <2> QED
    BY <1>2, <1>3, <1>6, <1>7, <1>10, <1>11, <2>1 DEF StatusInv, LateInv
<1>16. JournalInv'
  <2>1. "state1" \in Kinds \ {"completed", "failed"}
    BY DEF Kinds
  <2>2. ~Verified'
    BY <1>6, <1>10 DEF Verified
  <2> QED
    BY <1>2, <1>3, <1>10, <2>1, <2>2, JournalOpen
<1> QED
  BY <1>9, <1>11, <1>12, <1>13, <1>14, <1>15, <1>16 DEF IInv, WorkerInv

\* The backend is off, or the report does not say so.
LEMMA SwitchOffStep == ASSUME IInv, SwitchOff PROVE IInv'
<1>1. /\ pc = "idle" /\ pc' = "decide"
      /\ UNCHANGED <<log, stuck, resultFile>> /\ KeepFiles /\ KeepRun /\ KeepUser
  BY DEF SwitchOff
<1>2. UNCHANGED <<harnessVars, source, staged, todo, applied, backup, userEdits>>
  BY <1>1 DEF KeepFiles, KeepRun, KeepUser
<1>3. TypeOK /\ ReportInv /\ StatusInv /\ JournalInv /\ SourceInv
  BY DEF IInv, WorkerInv
<1>4. final \in Final
  BY <1>3, WorkerTypes
<1>5. /\ final' \in Final
      /\ final'.applied = final.applied /\ final'.promotion = final.promotion
      /\ final'.rollbackError = final.rollbackError /\ final'.status = final.status
      /\ final'.ok => final.ok
      /\ final'.restored => final.restored \/ backend' = "Off"
      /\ backend' \in Backends /\ faults' \in 0..MaxFaults
  <2>1. CASE /\ backend' = "Off" /\ UNCHANGED faults
             /\ final' = [final EXCEPT !.restored = TRUE]
    BY <1>3, <1>4, <2>1, WorkerTypes DEF Final, Backends
  <2>2. CASE /\ Fault /\ backend' \in {backend, "Off"}
             /\ final' = [final EXCEPT !.ok = FALSE]
    <3>1. backend' \in Backends /\ faults' \in 0..MaxFaults
      BY <1>3, <2>2, FaultBound, WorkerTypes DEF Backends
    <3> QED
      BY <1>4, <2>2, <3>1 DEF Final
  <2> QED
    BY <2>1, <2>2 DEF SwitchOff
<1>6. ~final.restored /\ ~final.applied /\ final.promotion = "not_attempted"
      /\ final.status = "none" /\ ~stuck /\ applied = <<>>
  BY <1>1, <1>3 DEF ReportInv, StatusInv, JournalInv, SourceInv, BeforePromotion, BeforeIdle
<1>7. pc' \notin BeforeHarness /\ pc' \notin BeforeIdle /\ pc' \notin Promoting
      /\ pc' \notin AfterPromotion \cup {"ended"}
      /\ pc' \notin Closing \cup {"applied", "cleanup"}
  BY <1>1 DEF BeforeHarness, BeforeIdle, Promoting, Copying, AfterPromotion, Closing
<1>8. ReportInv'
  BY <1>5, <1>6, <1>7 DEF ReportInv
<1>9. UNCHANGED <<harness, tree>>
  BY <1>2, HarnessKept
<1>10. StatusInv'
  BY <1>1, <1>2, <1>3, <1>5, <1>6, <1>7, <1>9 DEF StatusInv, LateInv
<1>11. JournalInv'
  <2>1. "state1" \in Kinds \ {"completed", "failed"}
    BY DEF Kinds
  <2>2. ~Verified'
    BY <1>5, <1>6 DEF Verified
  <2> QED
    BY <1>1, <1>3, <1>6, <2>1, <2>2, JournalOpen
<1>12. log' \in Seq(Entry) /\ stuck' \in BOOLEAN /\ resultFile' \in Final /\ pc' \in Steps
  BY <1>1, <1>3, WorkerTypes DEF Steps
<1>13. pc \in BeforePromotion
  BY <1>1 DEF BeforePromotion, BeforeIdle
<1> QED
  BY <1>2, <1>5, <1>7, <1>8, <1>10, <1>11, <1>12, <1>13, QuietStep

\* An error between verdict and promotion leaves the repository untouched.
LEMMA DecideRaisesStep == ASSUME IInv, DecideRaises PROVE IInv'
<1>1. /\ pc = "decide" /\ pc' = "escaped" /\ Fault
      /\ UNCHANGED <<backend, log, stuck, final, resultFile>>
      /\ UNCHANGED <<harnessVars, source, staged, todo, applied, backup, userEdits>>
  BY DEF DecideRaises, KeepFiles, KeepRun, KeepUser
<1>2. TypeOK /\ ReportInv /\ StatusInv /\ JournalInv
  BY DEF IInv, WorkerInv
<1>3. pc \in BeforePromotion /\ pc' \in BeforePromotion /\ pc' \notin BeforeIdle
      /\ pc' \notin BeforeHarness /\ pc' \notin Promoting
      /\ pc' \notin AfterPromotion \cup {"ended"}
      /\ pc' \notin Closing \cup {"applied", "cleanup"}
  BY <1>1 DEF BeforePromotion, BeforeHarness, BeforeIdle, Promoting, Copying,
     AfterPromotion, Closing
<1>4. final.status = "none"
  BY <1>1, <1>2 DEF StatusInv
<1>5. ReportInv'
  BY <1>1, <1>2, <1>3, FilesKept DEF ReportInv, IInv, WorkerInv
<1>6. UNCHANGED <<harness, tree>>
  BY <1>1, HarnessKept
<1>7. StatusInv'
  BY <1>1, <1>2, <1>3, <1>6 DEF StatusInv, LateInv
<1>8. JournalInv'
  <2>1. "state1" \in Kinds \ {"completed", "failed"}
    BY DEF Kinds
  <2> QED
    BY <1>1, <1>2, <2>1, JournalOpen
<1>9. pc' \in Steps /\ faults' \in 0..MaxFaults /\ backend' \in Backends
      /\ log' \in Seq(Entry) /\ stuck' \in BOOLEAN /\ final' \in Final
      /\ resultFile' \in Final
  BY <1>1, <1>2, FaultBound, WorkerTypes DEF Steps
<1> QED
  BY <1>1, <1>3, <1>5, <1>7, <1>8, <1>9, QuietStep

\* The verdict decides whether there is a promotion.
LEMMA DecideStep == ASSUME IInv, Decide PROVE IInv'
<1>1. PICK accepted \in BOOLEAN, stageOnly \in BOOLEAN :
        LET ok == final.ok /\ accepted
            decided == [final EXCEPT !.ok = ok, !.stageOnly = stageOnly,
                            !.status = IF ok THEN "verified" ELSE "failed"]
        IN /\ ~accepted /\ final.ok => Fault
           /\ accepted \/ ~final.ok => UNCHANGED faults
           /\ final' = decided
           /\ resultFile' = decided
           /\ pc' = IF ok /\ ~stageOnly THEN "check" ELSE "memory"
  BY DEF Decide
<1>2. PICK ok \in BOOLEAN : ok = (final.ok /\ accepted)
  BY Zenon
<1>3. PICK status \in {"verified", "failed"} : status = IF ok THEN "verified" ELSE "failed"
  OBVIOUS
<1>4. /\ pc = "decide" /\ pc' = IF ok /\ ~stageOnly THEN "check" ELSE "memory"
      /\ final' = [final EXCEPT !.ok = ok, !.stageOnly = stageOnly, !.status = status]
      /\ resultFile' = final'
      /\ Fault \/ UNCHANGED faults
      /\ UNCHANGED <<backend, log, stuck>>
      /\ UNCHANGED <<harnessVars, source, staged, todo, applied, backup, userEdits>>
  BY <1>1, <1>2, <1>3 DEF Decide, KeepFiles, KeepRun, KeepUser
<1>5. TypeOK /\ ReportInv /\ StatusInv /\ JournalInv /\ SourceInv
  BY DEF IInv, WorkerInv
<1>6. final \in Final
  BY <1>5, WorkerTypes
<1>7. /\ final' \in Final /\ final'.ok = ok /\ final'.status = status
      /\ final'.stageOnly = stageOnly
      /\ final'.applied = final.applied /\ final'.promotion = final.promotion
      /\ final'.rollbackError = final.rollbackError
      /\ final'.restored = final.restored
  BY <1>4, <1>6 DEF Final
<1>8. ~final.applied /\ final.promotion = "not_attempted" /\ applied = <<>> /\ Untouched
      /\ ~stuck
  BY <1>4, <1>5 DEF ReportInv, SourceInv, BeforePromotion, JournalInv
<1>9. pc' \in {"check", "memory"} /\ (pc' = "check" => ok /\ ~stageOnly)
      /\ (ok => pc' = "check" \/ stageOnly)
  BY <1>4
<1>10. pc' \notin BeforePromotion /\ pc' \notin BeforeIdle /\ pc' \notin BeforeHarness
       /\ (pc' \in Promoting => pc' = "check") /\ (pc' \in Closing => pc' = "memory")
       /\ pc' \notin {"applied", "cleanup", "recover", "decide", "ended", "escaped"}
  BY <1>9 DEF BeforePromotion, BeforeIdle, BeforeHarness, Promoting, Copying, Closing
<1>11. ASSUME Untouched' <=> Untouched PROVE ReportInv'
  BY <1>4, <1>5, <1>7, <1>8, <1>10, <1>11 DEF ReportInv
<1>12. UNCHANGED <<harness, tree>>
  BY <1>4, HarnessKept
<1>13. status = "verified" <=> ok
  BY <1>3
<1>14. StatusInv'
  BY <1>2, <1>4, <1>5, <1>7, <1>8, <1>9, <1>10, <1>12, <1>13 DEF StatusInv, LateInv
<1>15. JournalInv'
  <2>1. "state1" \in Kinds \ {"completed", "failed"}
    BY DEF Kinds
  <2> QED
    BY <1>4, <1>5, <1>8, <1>9, <2>1, JournalOpen
<1>16. pc' \in Steps /\ faults' \in 0..MaxFaults /\ backend' \in Backends
      /\ log' \in Seq(Entry) /\ stuck' \in BOOLEAN /\ resultFile' \in Final
  BY <1>4, <1>5, <1>7, <1>9, FaultBound, WorkerTypes DEF Steps
<1>17. pc \in BeforePromotion
  BY <1>4 DEF BeforePromotion
<1>18. pc' \notin Promoting \ {"check"}
  BY <1>10
<1> QED
  BY <1>4, <1>7, <1>10, <1>11, <1>14, <1>15, <1>16, <1>17, <1>18, QuietStep

-----------------------------------------------------------------------------
(* The promotion                                                           *)

\* What a step of the promotion leaves to show: the files and the report.
LEMMA PromotionStep ==
    ASSUME IInv, UNCHANGED <<harnessVars, staged, userEdits, backend, log, stuck,
                             resultFile>>,
           pc \in Promoting, pc' \in Promoting \cup {"applied"},
           source' \in [Paths -> Contents], backup' \in [Paths -> Contents],
           todo' \in Seq(Paths), applied' \in Seq(Paths), faults' \in 0..MaxFaults,
           final' \in Final, final'.ok = final.ok, final'.stageOnly = final.stageOnly,
           final'.restored = final.restored,
           pc' \in Promoting =>
             /\ final'.promotion = final.promotion /\ final'.applied = final.applied
             /\ final'.status = final.status,
           pc' = "applied" =>
             \/ final'.applied /\ Promoted' /\ final'.status = final.status
             \/ /\ ~final'.applied /\ final'.status = "failed"
                /\ Untouched' \/ (final'.promotion = "failed" /\ ~final'.rolledBack),
           SourceInv', RollbackInv'
    PROVE  IInv'
<1> USE DEF Promoting, Copying
<1>1. TypeOK /\ ReportInv /\ StatusInv /\ JournalInv
  BY DEF IInv, WorkerInv
<1>2. pc' \in Steps
  BY DEF Steps
<1>3. HarnessTypeOK' /\ UNCHANGED <<harness, tree>>
  BY <1>1, HarnessKept, WorkerTypes
<1>4. TypeOK'
  BY <1>1, <1>2, <1>3, WorkerTypes, WorkerTypesNext
<1>5. pc' \notin BeforePromotion /\ pc' \notin BeforeIdle /\ pc' \notin BeforeHarness
      /\ pc' \notin Closing \cup {"ended", "cleanup", "decide", "recover"}
      /\ (pc' \in AfterPromotion => pc' = "applied")
  BY DEF BeforePromotion, BeforeIdle, BeforeHarness, Closing, AfterPromotion
<1>6. final.ok /\ final.status = "verified" /\ ~final.stageOnly /\ ~final.applied
      /\ final.promotion = "not_attempted"
  BY <1>1 DEF ReportInv, StatusInv
<1>7. ReportInv'
  BY <1>1, <1>5, <1>6 DEF ReportInv
<1>8. StatusInv'
  BY <1>1, <1>3, <1>5, <1>6 DEF StatusInv, LateInv
<1>9. JournalInv'
  <2>1. "state1" \in Kinds \ {"completed", "failed"}
    BY DEF Kinds
  <2>2. ~stuck
    BY <1>1 DEF JournalInv
  <2> QED
    BY <1>1, <2>1, <2>2, JournalOpen
<1> QED
  BY <1>4, <1>5, <1>7, <1>8, <1>9 DEF IInv, WorkerInv

\* What holds of the files until one is replaced.
LEMMA BeforeReplacing ==
    ASSUME SourceInv, pc \in Copying
    PROVE  /\ Untouched /\ applied = <<>>
           /\ userEdits = 0 => \A p \in Paths : source[p] = before[p]
<1>1. Untouched /\ applied = <<>>
  BY DEF SourceInv
<1>2. \A p \in Paths : source[p] = "user" => userEdits > 0
  BY DEF SourceInv
<1> QED
  BY <1>1, <1>2 DEF Untouched

\* An error before a file was replaced leaves the repository as it was.
LEMMA PromotionFailsStep ==
    ASSUME IInv, UNCHANGED <<harnessVars, staged, userEdits, backend, log, stuck,
                             resultFile, source, applied, backup>>,
           pc \in Copying, PromotionFails, faults' \in 0..MaxFaults
    PROVE  IInv'
<1>1. TypeOK /\ SourceInv /\ ReportInv
  BY DEF IInv, WorkerInv
<1>2. PICK restored \in BOOLEAN : restored = (source = before)
  OBVIOUS
<1>3. pc' = "applied" /\ todo' = <<>>
      /\ final' = [final EXCEPT !.promotion = "failed", !.status = "failed",
                                !.rolledBack = restored]
  BY <1>2 DEF PromotionFails
<1>4. final \in Final
  BY <1>1, WorkerTypes
<1>5. /\ final' \in Final /\ final'.ok = final.ok /\ final'.stageOnly = final.stageOnly
      /\ final'.restored = final.restored /\ final'.applied = final.applied
      /\ final'.status = "failed"
  BY <1>3, <1>4 DEF Final
<1>6. pc \in Promoting /\ pc' \notin Promoting
  BY <1>3 DEF Promoting, Copying
<1>7. ~final.applied
  BY <1>1, <1>6 DEF ReportInv
<1>8. Untouched /\ applied = <<>> /\ (userEdits = 0 => \A p \in Paths : source[p] = before[p])
  BY <1>1, BeforeReplacing
<1>9. Untouched'
  BY <1>8 DEF Untouched, before
<1>10. SourceInv'
  <2>1. /\ \A p \in Paths : staged'[p] # "user" /\ (source'[p] = "user" => userEdits' > 0)
        /\ \A p \in Paths : backup'[p] = "user" => userEdits' > 0
    BY <1>1 DEF SourceInv
  <2>2. Range(applied') \subseteq Changed'
    BY <1>8, EmptyRange
  <2> QED
    BY <1>3, <1>8, <1>9, <2>1, <2>2 DEF SourceInv, Promoting
<1>11. RollbackInv'
  <2>1. before' = before
    BY DEF before
  <2> QED
    BY <1>3, <1>8, <2>1 DEF RollbackInv, Ordinary
<1>12. todo' \in Seq(Paths) /\ applied' \in Seq(Paths)
       /\ source' \in [Paths -> Contents] /\ backup' \in [Paths -> Contents]
  BY <1>1, <1>3, WorkerTypes
<1> QED
  BY <1>3, <1>5, <1>6, <1>7, <1>9, <1>10, <1>11, <1>12, PromotionStep

\* Nothing but the copies changes until a file is replaced.
LEMMA CopyingStep ==
    ASSUME IInv, UNCHANGED <<harnessVars, staged, userEdits, backend, log, stuck,
                             resultFile, source, applied, final, faults>>,
           pc \in Copying, pc' \in {"backup", "manifest", "replace"},
           todo' \in Seq(Paths), backup' \in [Paths -> Contents],
           \A p \in Paths : backup'[p] = "user" => userEdits > 0,
           pc' \in {"backup", "replace"} => Range(todo') \subseteq Changed,
           pc' = "backup" => \A p \in Changed \cap Ordinary : p \in Range(todo') \/ Kept(p)',
           pc' # "backup" => AllKept'
    PROVE  IInv'
<1>1. TypeOK /\ SourceInv
  BY DEF IInv, WorkerInv
<1>2. Untouched /\ applied = <<>> /\ (userEdits = 0 => \A p \in Paths : source[p] = before[p])
  BY <1>1, BeforeReplacing
<1>3. Untouched' /\ Changed' = Changed /\ before' = before
  BY <1>2 DEF Untouched, before, Changed
<1>4. SourceInv'
  <2>1. /\ \A p \in Paths : staged'[p] # "user" /\ (source'[p] = "user" => userEdits' > 0)
        /\ \A p \in Paths : backup'[p] = "user" => userEdits' > 0
    BY <1>1 DEF SourceInv
  <2>2. Range(applied') \subseteq Changed'
    BY <1>2, EmptyRange
  <2>3. pc' = "backup" => \A p \in Changed' \cap Ordinary : p \in Range(todo') \/ Kept(p)'
    BY <1>3
  <2>4. pc' \in Promoting \ Copying => pc' = "replace"
    BY DEF Promoting, Copying
  <2>5. pc' \in {"backup", "replace", "rollback"} => Range(todo') \subseteq Changed'
    BY <1>3
  <2> QED
    BY <1>2, <1>3, <2>1, <2>2, <2>3, <2>4, <2>5 DEF SourceInv
<1>5. RollbackInv'
  <2>1. final.promotion # "failed"
    BY DEF IInv, WorkerInv, ReportInv, Promoting
  <2> QED
    BY <1>2, <1>3, <2>1 DEF RollbackInv, Ordinary
<1>6. pc \in Promoting /\ pc' \in Promoting /\ pc' # "applied"
  BY DEF Promoting, Copying
<1>7. source' \in [Paths -> Contents] /\ applied' \in Seq(Paths)
      /\ faults' \in 0..MaxFaults /\ final' \in Final
  BY <1>1, WorkerTypes
<1> QED
  BY <1>4, <1>5, <1>6, <1>7, PromotionStep

\* A repository that has changed since the staging is not promoted to.
LEMMA CheckSourceStep == ASSUME IInv, CheckSource PROVE IInv'
<1>1. /\ pc = "check"
      /\ UNCHANGED <<harnessVars, staged, userEdits, backend, log, stuck,
                     resultFile, source, applied, backup, faults>>
  BY DEF CheckSource, KeepCopies, KeepOutcome, KeepRun, KeepUser
<1>2. pc \in Copying /\ TypeOK
  BY <1>1 DEF Copying, IInv
<1>3. CASE source = before
  <2>1. pc' = "backup" /\ todo' = ChangedList /\ UNCHANGED final
    BY <1>3 DEF CheckSource
  <2>2. todo' \in Seq(Paths) /\ Range(todo') = Changed
    BY <2>1, ListOfChanged
  <2>3. /\ backup' \in [Paths -> Contents]
        /\ \A p \in Paths : backup'[p] = "user" => userEdits > 0
    BY <1>1, <1>2, WorkerTypes DEF IInv, WorkerInv, SourceInv
  <2> QED
    BY <1>1, <1>2, <2>1, <2>2, <2>3, CopyingStep
<1>4. CASE source # before
  <2>1. PromotionFails
    BY <1>4 DEF CheckSource
  <2>2. faults' \in 0..MaxFaults
    BY <1>1, <1>2, WorkerTypes
  <2> QED
    BY <1>1, <1>2, <2>1, <2>2, PromotionFailsStep
<1> QED
  BY <1>3, <1>4

\* One file more is in the backup.
LEMMA BackupOneStep == ASSUME IInv, BackupOne PROVE IInv'
<1>1. /\ pc = "backup"
      /\ UNCHANGED <<harnessVars, staged, userEdits, backend, log, stuck,
                     resultFile, source, applied>>
  BY DEF BackupOne, KeepCopies, KeepOutcome, KeepRun, KeepUser
<1>2. pc \in Copying /\ TypeOK /\ SourceInv
  BY <1>1 DEF Copying, IInv, WorkerInv
<1>3. todo \in Seq(Paths) /\ Range(todo) \subseteq Changed
      /\ backup \in [Paths -> Contents] /\ source \in [Paths -> Contents]
      /\ \A p \in Changed \cap Ordinary : p \in Range(todo) \/ Kept(p)
  BY <1>1, <1>2, WorkerTypes DEF SourceInv
<1>4. CASE todo = <<>>
  <2>1. pc' = "manifest" /\ UNCHANGED <<todo, backup, final, faults>>
    BY <1>4 DEF BackupOne
  <2>2. \A p \in Changed \cap Ordinary : Kept(p)
    BY <1>3, <1>4, EmptyRange
  <2>3. AllKept' /\ \A p \in Paths : backup'[p] = "user" => userEdits > 0
    BY <1>1, <1>2, <2>1, <2>2 DEF AllKept, Kept, Changed, SourceInv
  <2> QED
    BY <1>1, <1>2, <1>3, <2>1, <2>3, CopyingStep
<1>5. CASE /\ todo # <<>>
           /\ backup' = [backup EXCEPT ![Head(todo)] = Copied(Head(todo))]
           /\ todo' = Tail(todo)
           /\ UNCHANGED <<pc, final, faults>>
  <2>1. /\ Head(todo) \in Paths /\ Tail(todo) \in Seq(Paths)
        /\ Range(Tail(todo)) \subseteq Range(todo)
        /\ \A p \in Range(todo) : p = Head(todo) \/ p \in Range(Tail(todo))
    BY <1>3, <1>5, TailRange
  <2>2. backup'[Head(todo)] = source[Head(todo)] /\ backup' \in [Paths -> Contents]
        /\ \A p \in Paths \ {Head(todo)} : backup'[p] = backup[p]
    BY <1>3, <1>5, <2>1 DEF Copied
  <2>3. \A p \in Paths : backup'[p] = "user" => userEdits > 0
    BY <1>2, <2>1, <2>2 DEF SourceInv
  <2>4. ASSUME NEW p \in Changed \cap Ordinary PROVE p \in Range(todo') \/ Kept(p)'
    <3>1. p \in Paths
      BY DEF Ordinary
    <3>2. CASE p = Head(todo)
      <4>1. source[p] \in {before[p], "user"}
        BY <1>2, <3>1, BeforeReplacing DEF Untouched
      <4>2. source[p] = "user" => userEdits > 0
        BY <1>2, <3>1 DEF SourceInv
      <4> QED
        BY <1>1, <2>2, <3>2, <4>1, <4>2 DEF Kept, before
    <3>3. CASE p # Head(todo) /\ Kept(p)
      BY <1>1, <2>2, <3>1, <3>3 DEF Kept, before
    <3> QED
      BY <1>3, <1>5, <2>1, <3>2, <3>3
  <2>5. pc' = "backup" /\ todo' \in Seq(Paths) /\ Range(todo') \subseteq Changed
    BY <1>1, <1>3, <1>5, <2>1
  <2> QED
    BY <1>1, <1>2, <1>5, <2>2, <2>3, <2>4, <2>5, CopyingStep
<1>6. CASE Fault /\ PromotionFails /\ UNCHANGED backup
  <2>1. faults' \in 0..MaxFaults
    BY <1>2, <1>6, FaultBound
  <2> QED
    BY <1>1, <1>2, <1>6, <2>1, PromotionFailsStep
<1> QED
  BY <1>4, <1>5, <1>6 DEF BackupOne

\* The manifest completes the backup; it may displace one file of its name
\* only.
LEMMA BackupManifestStep == ASSUME IInv, BackupManifest PROVE IInv'
<1>1. /\ pc = "manifest"
      /\ UNCHANGED <<harnessVars, staged, userEdits, backend, log, stuck,
                     resultFile, source, applied>>
  BY DEF BackupManifest, KeepCopies, KeepOutcome, KeepRun, KeepUser
<1>2. /\ pc \in Copying /\ TypeOK /\ AllKept
      /\ \A p \in Paths : backup[p] = "user" => userEdits > 0
  BY <1>1 DEF Copying, IInv, WorkerInv, SourceInv
<1>3. CASE /\ backup' = [p \in Paths |->
                          IF p = ManifestPath THEN "manifest" ELSE backup[p]]
           /\ pc' = "replace" /\ todo' = ChangedList
           /\ UNCHANGED <<final, faults>>
  <2>1. todo' \in Seq(Paths) /\ Range(todo') = Changed
    BY <1>3, ListOfChanged
  <2>2. backup' \in [Paths -> Contents]
    BY <1>2, <1>3, WorkerTypes DEF Contents
  <2>3. AllKept'
    BY <1>1, <1>2, <1>3 DEF AllKept, Kept, Ordinary, Changed
  <2>4. \A p \in Paths : backup'[p] = "user" => userEdits > 0
    BY <1>2, <1>3
  <2> QED
    BY <1>1, <1>2, <1>3, <2>1, <2>2, <2>3, <2>4, CopyingStep
<1>4. CASE Fault /\ PromotionFails /\ UNCHANGED backup
  <2>1. faults' \in 0..MaxFaults
    BY <1>2, <1>4, FaultBound
  <2> QED
    BY <1>1, <1>2, <1>4, <2>1, PromotionFailsStep
<1> QED
  BY <1>3, <1>4 DEF BackupManifest

\* While files are replaced or brought back: the copies are complete.
LEMMA ReplacingStep ==
    ASSUME IInv, UNCHANGED <<harnessVars, staged, userEdits, backend, log, stuck,
                             resultFile, backup>>,
           pc \in {"replace", "compare", "rollback"},
           pc' \in {"replace", "compare", "rollback", "report"},
           source' \in [Paths -> Contents], faults' \in 0..MaxFaults,
           \A p \in Paths : source'[p] = "user" => userEdits > 0,
           todo' \in Seq(Paths), applied' \in Seq(Paths),
           pc' \in {"replace", "rollback"} => Range(todo') \subseteq Changed,
           Range(applied') \subseteq Changed,
           final' \in Final, final'.ok = final.ok, final'.stageOnly = final.stageOnly,
           final'.restored = final.restored, final'.promotion = final.promotion,
           final'.applied = final.applied, final'.status = final.status,
           userEdits = 0 =>
             /\ pc' \in {"replace", "compare"} =>
                  \A p \in Ordinary : source'[p] = before[p] \/ p \in Range(applied')
             /\ pc' = "rollback" /\ ~final'.rollbackError =>
                  \A p \in Ordinary : source'[p] = before[p] \/ p \in Range(todo')
             /\ pc' = "report" /\ ~final'.rollbackError =>
                  \A p \in Ordinary : source'[p] = before[p]
    PROVE  IInv'
<1>1. pc \in Promoting /\ pc \in Promoting \ Copying /\ pc' \in Promoting \ Copying
      /\ pc' \in Promoting /\ pc' # "applied"
      /\ pc' \notin BeforePromotion \cup Copying
  BY DEF Promoting, Copying, BeforePromotion, BeforeIdle, BeforeHarness
<1>2. SourceInv /\ AllKept /\ final.promotion = "not_attempted"
  BY <1>1 DEF IInv, WorkerInv, SourceInv, ReportInv
<1>3. AllKept' /\ Changed' = Changed /\ before' = before
  BY <1>2 DEF AllKept, Kept, Changed, before
<1>4. SourceInv'
  <2>1. /\ \A p \in Paths : staged'[p] # "user" /\ (source'[p] = "user" => userEdits' > 0)
        /\ \A p \in Paths : backup'[p] = "user" => userEdits' > 0
    BY <1>2 DEF SourceInv
  <2> QED
    BY <1>1, <1>3, <2>1 DEF SourceInv
<1>5. RollbackInv'
  BY <1>2, <1>3 DEF RollbackInv
<1>6. backup' \in [Paths -> Contents]
  BY WorkerTypes DEF IInv
<1> QED
  BY <1>1, <1>4, <1>5, <1>6, PromotionStep

\* What holds of the files while they are replaced.
LEMMA WhileReplacing ==
    ASSUME IInv, pc \in {"replace", "compare", "rollback"}
    PROVE  /\ source \in [Paths -> Contents] /\ staged \in [Paths -> Contents]
           /\ backup \in [Paths -> Contents]
           /\ todo \in Seq(Paths) /\ applied \in Seq(Paths) /\ final \in Final
           /\ faults \in 0..MaxFaults
           /\ pc \in {"replace", "rollback"} => Range(todo) \subseteq Changed
           /\ Range(applied) \subseteq Changed
           /\ AllKept
           /\ \A p \in Paths : staged[p] # "user" /\ (source[p] = "user" => userEdits > 0)
           /\ \A p \in Paths : backup[p] = "user" => userEdits > 0
<1>1. TypeOK /\ SourceInv
  BY DEF IInv, WorkerInv
<1>2. pc \in Promoting \ Copying
  BY DEF Promoting, Copying
<1> QED
  BY <1>1, <1>2, WorkerTypes DEF SourceInv

\* The rollback begins with what was replaced, in the reverse order.
LEMMA RollbackBeginsStep ==
    ASSUME IInv, UNCHANGED <<harnessVars, staged, userEdits, backend, log, stuck,
                             resultFile, backup, source, applied, final>>,
           pc \in {"replace", "compare"}, RollbackBegins, faults' \in 0..MaxFaults
    PROVE  IInv'
<1>1. pc' = "rollback" /\ todo' = Reverse(applied)
  BY DEF RollbackBegins
<1>2. todo' \in Seq(Paths) /\ Range(todo') = Range(applied)
  BY <1>1, WhileReplacing, ReverseRange
<1>3. userEdits = 0 => \A p \in Ordinary : source[p] = before[p] \/ p \in Range(applied)
  BY DEF IInv, WorkerInv, RollbackInv
<1> QED
  BY <1>1, <1>2, <1>3, WhileReplacing, ReplacingStep

\* A file that is replaced is among those to roll back, also when the
\* replacement fails.
LEMMA ReplaceOneStep == ASSUME IInv, ReplaceOne PROVE IInv'
<1>1. /\ pc = "replace"
      /\ UNCHANGED <<harnessVars, staged, userEdits, backend, log, stuck,
                     resultFile, backup, final>>
  BY DEF ReplaceOne, KeepCopies, KeepOutcome, KeepRun, KeepUser
<1>2. TypeOK /\ (userEdits = 0 =>
        \A p \in Ordinary : source[p] = before[p] \/ p \in Range(applied))
  BY <1>1 DEF IInv, WorkerInv, RollbackInv
<1>3. CASE todo = <<>>
  <2>1. pc' = "compare" /\ UNCHANGED <<todo, source, applied, faults>>
    BY <1>3 DEF ReplaceOne
  <2> QED
    BY <1>1, <1>2, <2>1, WhileReplacing, ReplacingStep
<1>4. CASE /\ todo # <<>>
           /\ source' = [source EXCEPT ![Head(todo)] = staged[Head(todo)]]
           /\ applied' = Append(applied, Head(todo))
           /\ todo' = Tail(todo)
           /\ UNCHANGED <<pc, faults>>
  <2>1. /\ Head(todo) \in Paths /\ Head(todo) \in Range(todo) /\ Tail(todo) \in Seq(Paths)
        /\ Range(Tail(todo)) \subseteq Range(todo)
    BY <1>1, <1>4, WhileReplacing, TailRange
  <2>2. Range(todo) \subseteq Changed /\ Range(applied) \subseteq Changed
    BY <1>1, WhileReplacing
  <2>3. applied' \in Seq(Paths) /\ Range(applied') = Range(applied) \cup {Head(todo)}
    BY <1>1, <1>4, <2>1, WhileReplacing, AppendRange
  <2>4. source' \in [Paths -> Contents] /\ source'[Head(todo)] = staged[Head(todo)]
        /\ \A p \in Paths \ {Head(todo)} : source'[p] = source[p]
    BY <1>1, <1>4, <2>1, WhileReplacing
  <2>5. \A p \in Paths : source'[p] = "user" => userEdits > 0
    BY <1>1, <2>4, WhileReplacing
  <2>6. userEdits = 0 =>
          \A p \in Ordinary : source'[p] = before[p] \/ p \in Range(applied')
    BY <1>2, <2>3, <2>4 DEF Ordinary
  <2> QED
    BY <1>1, <1>4, <2>1, <2>2, <2>3, <2>4, <2>5, <2>6, WhileReplacing, ReplacingStep
<1>5. CASE Fault /\ RollbackBegins /\ UNCHANGED <<source, applied>>
  <2>1. faults' \in 0..MaxFaults
    BY <1>2, <1>5, FaultBound
  <2> QED
    BY <1>1, <1>5, <2>1, RollbackBeginsStep
<1> QED
  BY <1>3, <1>4, <1>5 DEF ReplaceOne

\* The promotion counts only when the repository is what was staged.
LEMMA CompareStep == ASSUME IInv, Compare PROVE IInv'
<1>1. /\ pc = "compare"
      /\ UNCHANGED <<harnessVars, staged, userEdits, backend, log, stuck,
                     resultFile, backup, source, applied, faults>>
  BY DEF Compare, KeepCopies, KeepOutcome, KeepRun, KeepUser
<1>2. TypeOK
  BY DEF IInv
<1>3. CASE source = staged
  <2>1. pc' = "applied" /\ UNCHANGED todo
        /\ final' = [final EXCEPT !.promotion = "applied", !.applied = TRUE]
    BY <1>3 DEF Compare
  <2>2. /\ final' \in Final /\ final'.ok = final.ok /\ final'.stageOnly = final.stageOnly
        /\ final'.restored = final.restored /\ final'.status = final.status
        /\ final'.applied /\ final'.promotion = "applied"
    BY <1>2, <2>1, WorkerTypes DEF Final
  <2>3. Promoted'
    BY <1>1, <1>3 DEF Promoted
  <2>4. pc \in Promoting /\ pc' \notin Promoting \cup BeforePromotion \cup Copying
    BY <1>1, <2>1 DEF Promoting, Copying, BeforePromotion, BeforeIdle, BeforeHarness
  <2>5. SourceInv'
    <3>1. SourceInv /\ Changed' = Changed
      BY <1>1 DEF IInv, WorkerInv, Changed, before
    <3>2. /\ \A p \in Paths : staged'[p] # "user" /\ (source'[p] = "user" => userEdits' > 0)
          /\ \A p \in Paths : backup'[p] = "user" => userEdits' > 0
      BY <1>1, <3>1 DEF SourceInv
    <3> QED
      BY <1>1, <2>1, <2>2, <2>4, <3>1, <3>2 DEF SourceInv
  <2>6. RollbackInv'
    BY <2>1, <2>2 DEF RollbackInv
  <2>7. source' \in [Paths -> Contents] /\ backup' \in [Paths -> Contents]
        /\ todo' \in Seq(Paths) /\ applied' \in Seq(Paths) /\ faults' \in 0..MaxFaults
    BY <1>1, <1>2, <2>1, WorkerTypes
  <2> QED
    BY <1>1, <2>1, <2>2, <2>3, <2>4, <2>5, <2>6, <2>7, PromotionStep
<1>4. CASE source # staged
  <2>1. RollbackBegins /\ UNCHANGED final
    BY <1>4 DEF Compare
  <2>2. faults' \in 0..MaxFaults
    BY <1>1, <1>2, WorkerTypes
  <2> QED
    BY <1>1, <2>1, <2>2, RollbackBeginsStep
<1> QED
  BY <1>3, <1>4

\* A file that is brought back is what it was, unless its restoration raised.
LEMMA RollbackOneStep == ASSUME IInv, RollbackOne PROVE IInv'
<1>1. /\ pc = "rollback"
      /\ UNCHANGED <<harnessVars, staged, userEdits, backend, log, stuck,
                     resultFile, backup, applied>>
  BY DEF RollbackOne, KeepCopies, KeepOutcome, KeepRun, KeepUser
<1>2. TypeOK /\ (userEdits = 0 /\ ~final.rollbackError =>
        \A p \in Ordinary : source[p] = before[p] \/ p \in Range(todo))
  BY <1>1 DEF IInv, WorkerInv, RollbackInv
<1>3. CASE todo = <<>>
  <2>1. pc' = "report" /\ UNCHANGED <<todo, source, final, faults>>
    BY <1>3 DEF RollbackOne
  <2>2. userEdits = 0 /\ ~final.rollbackError =>
          \A p \in Ordinary : source[p] = before[p]
    BY <1>2, <1>3, EmptyRange
  <2> QED
    BY <1>1, <2>1, <2>2, WhileReplacing, ReplacingStep
<1>4. CASE todo # <<>>
  <2>1. /\ Head(todo) \in Paths /\ Head(todo) \in Range(todo) /\ Tail(todo) \in Seq(Paths)
        /\ Range(Tail(todo)) \subseteq Range(todo)
        /\ \A p \in Range(todo) : p = Head(todo) \/ p \in Range(Tail(todo))
    BY <1>1, <1>4, WhileReplacing, TailRange
  <2>2. pc' = "rollback" /\ todo' = Tail(todo)
    BY <1>1, <1>4 DEF RollbackOne
  <2>3. Range(todo) \subseteq Changed /\ Range(applied) \subseteq Changed
    BY <1>1, WhileReplacing
  <2>4. CASE /\ source' = [source EXCEPT ![Head(todo)] = Restored(Head(todo))]
             /\ UNCHANGED <<final, faults>>
    <3>1. source' \in [Paths -> Contents] /\ source'[Head(todo)] = backup[Head(todo)]
          /\ \A p \in Paths \ {Head(todo)} : source'[p] = source[p]
      BY <1>1, <2>1, <2>4, WhileReplacing DEF Restored
    <3>2. Head(todo) # ManifestPath => Kept(Head(todo))
      BY <1>1, <2>1, <2>3, WhileReplacing DEF AllKept, Ordinary
    <3>3. userEdits = 0 /\ ~final.rollbackError =>
            \A p \in Ordinary : source'[p] = before[p] \/ p \in Range(todo')
      BY <1>2, <2>1, <2>2, <3>1, <3>2 DEF Ordinary, Kept
    <3>4. \A p \in Paths : source'[p] = "user" => userEdits > 0
      BY <1>1, <2>1, <3>1, WhileReplacing
    <3> QED
      BY <1>1, <2>1, <2>2, <2>3, <2>4, <3>1, <3>3, <3>4, WhileReplacing, ReplacingStep
  <2>5. CASE /\ Fault /\ UNCHANGED source
             /\ final' = [final EXCEPT !.rollbackError = TRUE]
    <3>1. faults' \in 0..MaxFaults
      BY <1>2, <2>5, FaultBound
    <3>2. /\ final' \in Final /\ final'.ok = final.ok
          /\ final'.stageOnly = final.stageOnly /\ final'.restored = final.restored
          /\ final'.status = final.status /\ final'.applied = final.applied
          /\ final'.promotion = final.promotion /\ final'.rollbackError
      BY <1>2, <2>5, WorkerTypes DEF Final
    <3> QED
      BY <1>1, <2>1, <2>2, <2>3, <2>5, <3>1, <3>2, WhileReplacing, ReplacingStep
  <2> QED
    BY <1>4, <2>4, <2>5 DEF RollbackOne
<1> QED
  BY <1>3, <1>4

\* The report says how the promotion ended.
LEMMA ReportPromotionStep == ASSUME IInv, ReportPromotion PROVE IInv'
<1>1. /\ pc = "report" /\ pc' = "applied"
      /\ UNCHANGED <<harnessVars, staged, userEdits, backend, log, stuck,
                     resultFile, backup, source, todo, applied, faults>>
  BY DEF ReportPromotion, KeepCopies, KeepOutcome, KeepRun, KeepUser
<1>2. PICK restored \in BOOLEAN : restored = RolledBack
  BY Zenon DEF RolledBack
<1>3. final' = [final EXCEPT !.promotion = "failed", !.status = "failed",
                             !.rolledBack = restored]
  BY <1>2 DEF ReportPromotion
<1>4. TypeOK /\ SourceInv /\ RollbackInv /\ ReportInv
  BY DEF IInv, WorkerInv
<1>5. /\ final' \in Final /\ final'.ok = final.ok /\ final'.stageOnly = final.stageOnly
      /\ final'.restored = final.restored /\ final'.applied = final.applied
      /\ final'.status = "failed" /\ final'.promotion = "failed"
      /\ final'.rolledBack = restored /\ final'.rollbackError = final.rollbackError
  BY <1>3, <1>4, WorkerTypes DEF Final
<1>6. pc \in Promoting /\ pc \in Promoting \ Copying
      /\ pc' \notin Promoting \cup BeforePromotion \cup Copying
  BY <1>1 DEF Promoting, Copying, BeforePromotion, BeforeIdle, BeforeHarness
<1>7. ~final.applied
  BY <1>4, <1>6 DEF ReportInv
<1>8. restored => Untouched'
  BY <1>1, <1>2 DEF RolledBack, Untouched, before
<1>9. SourceInv'
  <2>1. AllKept' /\ Changed' = Changed
    BY <1>1, <1>4, <1>6 DEF SourceInv, AllKept, Kept, Changed
  <2>2. /\ \A p \in Paths : staged'[p] # "user" /\ (source'[p] = "user" => userEdits' > 0)
        /\ \A p \in Paths : backup'[p] = "user" => userEdits' > 0
    BY <1>1, <1>4 DEF SourceInv
  <2> QED
    BY <1>1, <1>4, <1>6, <2>1, <2>2 DEF SourceInv
<1>10. RollbackInv'
  <2>1. userEdits = 0 /\ ~final.rollbackError =>
          \A p \in Ordinary : source[p] = before[p]
    BY <1>1, <1>4 DEF RollbackInv
  <2>2. before' = before
    BY DEF before
  <2> QED
    BY <1>1, <1>5, <2>1, <2>2 DEF RollbackInv
<1>11. source' \in [Paths -> Contents] /\ backup' \in [Paths -> Contents]
       /\ todo' \in Seq(Paths) /\ applied' \in Seq(Paths) /\ faults' \in 0..MaxFaults
  BY <1>1, <1>4, WorkerTypes
<1> QED
  BY <1>1, <1>5, <1>6, <1>7, <1>8, <1>9, <1>10, <1>11, PromotionStep

-----------------------------------------------------------------------------
(* After the promotion                                                     *)

\* A step of the end: the files and the backend stay, and the report may only
\* become that of a failure.
LEMMA ClosingStep ==
    ASSUME IInv, UNCHANGED <<harnessVars, source, staged, todo, applied, backup,
                             userEdits, backend>>,
           pc \in Closing \cup {"applied"}, pc' \in Closing \cup {"cleanup", "ended"},
           pc = "applied" /\ pc' # "cleanup" => ~final.applied,
           pc' = "cleanup" => final.applied,
           pc' = "recover" => final'.status = "failed",
           final' = final \/ final' = Failing(final),
           resultFile' \in Final, log' \in Seq(Entry), stuck' \in BOOLEAN,
           faults' \in 0..MaxFaults, JournalInv'
    PROVE  IInv'
<1>1. TypeOK /\ ReportInv /\ StatusInv
  BY DEF IInv, WorkerInv
<1>2. final \in Final
  BY <1>1, WorkerTypes
<1>3. /\ final' \in Final /\ final'.status \in {final.status, "failed"}
      /\ final'.ok = final.ok /\ final'.stageOnly = final.stageOnly
      /\ final'.restored = final.restored /\ final'.applied = final.applied
      /\ final'.promotion = final.promotion /\ final'.rolledBack = final.rolledBack
      /\ final'.rollbackError = final.rollbackError /\ final'.clean = final.clean
  BY <1>2, FailingFinal
<1>4. /\ pc' \in Steps /\ pc \in AfterPromotion
      /\ pc' \notin BeforePromotion \cup BeforeIdle \cup BeforeHarness \cup Promoting
      /\ pc' \notin {"decide", "applied"} /\ "cleanup" \notin Closing \cup {"ended"}
  BY DEF Steps, Closing, AfterPromotion, BeforePromotion, BeforeIdle, BeforeHarness,
     Promoting, Copying
<1>5. ASSUME Untouched' <=> Untouched, Promoted' <=> Promoted PROVE ReportInv'
  BY <1>1, <1>3, <1>4, <1>5 DEF ReportInv
<1>6. UNCHANGED <<harness, tree>>
  BY HarnessKept
<1>7. final'.status = "verified" => final.status = "verified"
  BY <1>3
<1>8. StatusInv'
  <2>1. pc' \in Closing \cup {"ended"} /\ final'.status = "verified" =>
          final'.stageOnly \/ (final'.applied /\ final'.clean)
    BY <1>1, <1>3, <1>4, <1>7 DEF StatusInv, LateInv
  <2> QED
    BY <1>1, <1>3, <1>4, <1>6, <1>7, <2>1 DEF StatusInv, LateInv
<1>9. pc' \notin Promoting \ {"check"} /\ pc' \notin BeforePromotion \cup {"check"}
      /\ pc' \notin BeforeHarness
  BY <1>4 DEF Promoting, Copying
<1>10. backend' \in Backends
  BY <1>1, WorkerTypes
<1> QED
  BY <1>3, <1>4, <1>5, <1>8, <1>9, <1>10, QuietStep

\* What an attempt to write the result leaves.
LEMMA TriedWrite ==
    ASSUME TypeOK, TryWrite(final)
    PROVE  /\ final' = final \/ final' = Failing(final)
           /\ resultFile' \in Final /\ faults' \in 0..MaxFaults
BY FaultBound, WorkerTypes DEF TryWrite

\* The report of the promotion is written, or the run fails.
LEMMA WriteAppliedStep == ASSUME IInv, WriteApplied PROVE IInv'
<1>1. /\ pc = "applied" /\ pc' = IF final.applied THEN "cleanup" ELSE "memory"
      /\ TryWrite(final) /\ UNCHANGED <<backend, log, stuck>>
      /\ UNCHANGED <<harnessVars, source, staged, todo, applied, backup, userEdits>>
  BY DEF WriteApplied, KeepFiles, KeepRun, KeepUser
<1>2. TypeOK /\ JournalInv
  BY DEF IInv, WorkerInv
<1>3. pc' \in {"cleanup", "memory"} /\ pc' \in Closing \cup {"cleanup", "ended"}
      /\ pc \in Closing \cup {"applied"}
  BY <1>1 DEF Closing
<1>4. JournalInv'
  <2>1. "state1" \in Kinds \ {"completed", "failed"}
    BY DEF Kinds
  <2>2. ~stuck
    BY <1>1, <1>2 DEF JournalInv
  <2> QED
    BY <1>1, <1>2, <1>3, <2>1, <2>2, JournalOpen
<1>5. log' \in Seq(Entry) /\ stuck' \in BOOLEAN
  BY <1>1, <1>2, WorkerTypes
<1> QED
  BY <1>1, <1>2, <1>3, <1>4, <1>5, TriedWrite, ClosingStep

\* The report is written before the journal is closed.
LEMMA WriteMemoryStep == ASSUME IInv, WriteMemory PROVE IInv'
<1>1. /\ pc = "memory" /\ pc' = "verification"
      /\ TryWrite(final) /\ UNCHANGED <<backend, log, stuck>>
      /\ UNCHANGED <<harnessVars, source, staged, todo, applied, backup, userEdits>>
  BY DEF WriteMemory, KeepFiles, KeepRun, KeepUser
<1>2. TypeOK /\ JournalInv
  BY DEF IInv, WorkerInv
<1>3. pc' \in Closing \cup {"cleanup", "ended"} /\ pc \in Closing \cup {"applied"}
  BY <1>1 DEF Closing
<1>4. JournalInv'
  <2>1. "state1" \in Kinds \ {"completed", "failed"}
    BY DEF Kinds
  <2>2. ~stuck
    BY <1>1, <1>2 DEF JournalInv
  <2> QED
    BY <1>1, <1>2, <1>3, <2>1, <2>2, JournalOpen
<1>5. log' \in Seq(Entry) /\ stuck' \in BOOLEAN
  BY <1>1, <1>2, WorkerTypes
<1> QED
  BY <1>1, <1>2, <1>3, <1>4, <1>5, TriedWrite, ClosingStep

\* The backup goes only when the stage is in the source.
LEMMA CleanupStep == ASSUME IInv, Cleanup PROVE IInv'
<1>1. /\ pc = "cleanup" /\ pc' = "memory"
      /\ UNCHANGED <<harnessVars, source, staged, todo, applied, userEdits, backend,
                     log, stuck, resultFile>>
  BY DEF Cleanup, KeepOutcome, KeepRun, KeepUser
<1>2. TypeOK /\ SourceInv /\ RollbackInv /\ ReportInv /\ StatusInv /\ JournalInv
  BY DEF IInv, WorkerInv
<1>3. final \in Final /\ backup \in [Paths -> Contents]
  BY <1>2, WorkerTypes
<1>4. /\ final' \in Final /\ final'.ok = final.ok /\ final'.stageOnly = final.stageOnly
      /\ final'.restored = final.restored /\ final'.applied = final.applied
      /\ final'.promotion = final.promotion /\ final'.rolledBack = final.rolledBack
      /\ final'.rollbackError = final.rollbackError
      /\ (final'.status = "verified" => final.status = "verified" /\ final'.clean)
      /\ faults' \in 0..MaxFaults /\ backup' \in {backup, Nowhere}
  <2>1. CASE /\ final' = [final EXCEPT !.clean = TRUE]
             /\ backup' = Nowhere /\ UNCHANGED faults
    BY <1>2, <1>3, <2>1, WorkerTypes DEF Final
  <2>2. CASE /\ Fault /\ final' = Failing(final)
             /\ backup' \in {backup, Nowhere}
    BY <1>2, <1>3, <2>2, FaultBound, FailingFinal
  <2> QED
    BY <2>1, <2>2 DEF Cleanup
<1>5. final.applied
  BY <1>1, <1>2 DEF StatusInv
<1>6. backup' \in [Paths -> Contents] /\ \A p \in Paths : backup'[p] = "user" => userEdits > 0
  BY <1>2, <1>3, <1>4 DEF Nowhere, Contents, SourceInv
<1>7. HarnessTypeOK' /\ UNCHANGED <<harness, tree>>
  BY <1>1, <1>2, HarnessKept, WorkerTypes
<1>8. TypeOK'
  <2>1. pc' \in Steps
    BY <1>1 DEF Steps
  <2> QED
    BY <1>1, <1>2, <1>4, <1>6, <1>7, <2>1, WorkerTypes, WorkerTypesNext
<1>9. /\ pc \in AfterPromotion
      /\ pc' \notin BeforePromotion \cup BeforeIdle \cup BeforeHarness \cup Promoting
                    \cup Copying
  BY <1>1 DEF AfterPromotion, BeforePromotion, BeforeIdle, BeforeHarness, Promoting,
     Copying
<1>10. /\ Untouched' <=> Untouched
       /\ Promoted' <=> Promoted
       /\ Changed' = Changed /\ before' = before
  BY <1>1 DEF Untouched, Promoted, Changed, before
<1>11. SourceInv'
  <2>1. /\ \A p \in Paths : staged'[p] # "user" /\ (source'[p] = "user" => userEdits' > 0)
        /\ \A p \in Paths : backup'[p] = "user" => userEdits' > 0
    BY <1>1, <1>2, <1>6 DEF SourceInv
  <2> QED
    BY <1>1, <1>2, <1>4, <1>5, <1>9, <1>10, <2>1 DEF SourceInv
<1>12. RollbackInv'
  BY <1>1, <1>2, <1>4, <1>10 DEF RollbackInv
<1>13. ReportInv'
  BY <1>1, <1>2, <1>4, <1>5, <1>9, <1>10 DEF ReportInv
<1>14. StatusInv'
  BY <1>1, <1>2, <1>4, <1>5, <1>7, <1>9 DEF StatusInv, LateInv
<1>15. JournalInv'
  <2>1. "state1" \in Kinds \ {"completed", "failed"}
    BY DEF Kinds
  <2>2. ~stuck
    BY <1>1, <1>2 DEF JournalInv
  <2> QED
    BY <1>1, <1>2, <2>1, <2>2, JournalOpen
<1> QED
  BY <1>8, <1>9, <1>11, <1>12, <1>13, <1>14, <1>15 DEF IInv, WorkerInv

\* The three appends before the terminal event.
LEMMA ClosingAppendStep ==
    ASSUME IInv, NEW kind, NEW next, ClosingAppend(kind, kind, next),
           \/ kind = "verification" /\ next = "episode"
           \/ kind = "episode" /\ next = "state2"
           \/ kind = "state2" /\ next = "terminal"
    PROVE  IInv'
<1>1. /\ pc = kind /\ pc' \in {next, "recover"} /\ UNCHANGED <<backend, resultFile>>
      /\ UNCHANGED <<harnessVars, source, staged, todo, applied, backup, userEdits>>
      /\ Appended(kind) \/ AppendRaises(kind)
  BY DEF ClosingAppend, KeepFiles, KeepRun, KeepUser
<1>2. pc' # "recover" => Appended(kind) /\ final' = final
  BY DEF ClosingAppend
<1>3. pc' = "recover" => final' = Failing(final)
  BY DEF ClosingAppend
<1>4. TypeOK /\ JournalInv
  BY DEF IInv, WorkerInv
<1>5. final \in Final /\ log \in Seq(Entry) /\ resultFile' \in Final
  BY <1>1, <1>4, WorkerTypes
<1>6. kind \in Kinds \ {"completed", "failed"}
  BY DEF Kinds
<1>7. log' \in Seq(Entry) /\ stuck' \in BOOLEAN /\ faults' \in 0..MaxFaults
      /\ (UNCHANGED log \/ Journal(kind))
      /\ (pc' # "recover" => ~stuck' /\ Journal(kind))
  BY <1>1, <1>2, <1>4, <1>6, AppendTypes
<1>8. pc' \in {"state2", "terminal"} /\ Verified' => EpisodeVerified'
  <2>1. ASSUME pc' \in {"state2", "terminal"}, Verified' PROVE EpisodeVerified'
    <3>1. final.status = "verified" /\ Journal(kind) /\ kind \in {"episode", "state2"}
      BY <1>1, <1>2, <1>7, <2>1 DEF Verified
    <3>2. kind = "state2" => EpisodeVerified
      BY <1>1, <1>4, <3>1 DEF JournalInv, Verified
    <3> QED
      BY <1>5, <1>6, <3>1, <3>2, Journaled
  <2> QED
    BY <2>1
<1>9. JournalInv'
  BY <1>1, <1>4, <1>6, <1>7, <1>8, JournalOpen
<1>10. pc \in Closing \cup {"applied"} /\ pc # "applied"
       /\ pc' \in Closing \cup {"cleanup", "ended"} /\ pc' # "cleanup"
  BY <1>1 DEF Closing
<1>11. (pc' = "recover" => final'.status = "failed")
       /\ (final' = final \/ final' = Failing(final))
  BY <1>1, <1>2, <1>3, <1>5, FailingFinal
<1> QED
  BY <1>1, <1>5, <1>7, <1>9, <1>10, <1>11, ClosingStep

\* The terminal event says completed exactly of a verified run.
LEMMA JournalTerminalStep == ASSUME IInv, JournalTerminal PROVE IInv'
<1>1. PICK kind : kind = TerminalKind
  OBVIOUS
<1>2. /\ kind \in Kinds /\ kind \in {"completed", "failed"}
      /\ kind = "completed" <=> final.status = "verified"
  BY <1>1 DEF TerminalKind, Kinds
<1>3. /\ pc = "terminal" /\ pc' \in {"result", "recover"}
      /\ UNCHANGED <<backend, resultFile>>
      /\ UNCHANGED <<harnessVars, source, staged, todo, applied, backup, userEdits>>
      /\ Appended(kind) \/ AppendRaises(kind)
  BY <1>1 DEF JournalTerminal, ClosingAppend, KeepFiles, KeepRun, KeepUser
<1>4. pc' = "result" => Appended(kind) /\ final' = final
  BY <1>1 DEF JournalTerminal, ClosingAppend
<1>5. pc' = "recover" => AppendRaises(kind) /\ final' = Failing(final)
  BY <1>1 DEF JournalTerminal, ClosingAppend
<1>6. TypeOK /\ JournalInv /\ StatusInv
  BY DEF IInv, WorkerInv
<1>7. final \in Final /\ log \in Seq(Entry) /\ resultFile' \in Final
  BY <1>3, <1>6, WorkerTypes
<1>8. ~Logged("completed") /\ ~Logged("failed") /\ ~stuck
      /\ (Verified => EpisodeVerified)
  BY <1>3, <1>6 DEF JournalInv, Terminated
<1>9. log' \in Seq(Entry) /\ stuck' \in BOOLEAN /\ faults' \in 0..MaxFaults
      /\ (UNCHANGED log \/ Journal(kind))
      /\ (pc' = "result" => ~stuck' /\ Journal(kind))
      /\ (pc' = "recover" => UNCHANGED log \/ stuck')
  BY <1>2, <1>3, <1>4, <1>5, <1>6, AppendTypes
<1>10. (pc' = "recover" => final'.status = "failed")
       /\ (final' = final \/ final' = Failing(final))
       /\ final'.ok = final.ok /\ final'.stageOnly = final.stageOnly
       /\ final'.applied = final.applied
  BY <1>3, <1>4, <1>5, <1>7, FailingFinal
<1>11. final.status = "verified" => final.ok /\ (final.stageOnly \/ final.applied)
  BY <1>3, <1>6 DEF StatusInv, Closing
<1>12. CASE UNCHANGED log
  <2>1. ~Logged("completed")' /\ ~Logged("failed")'
    BY <1>8, <1>12 DEF Logged
  <2>2. pc' = "recover"
    <3>1. Journal(kind) => Logged(kind)'
      BY <1>2, <1>7, Journaled
    <3> QED
      BY <1>2, <1>3, <1>9, <2>1, <3>1
  <2>3. JournalInv'
    BY <2>1, <2>2 DEF JournalInv, Terminated
  <2>4. pc \in Closing \cup {"applied"} /\ pc # "applied"
        /\ pc' \in Closing \cup {"cleanup", "ended"} /\ pc' # "cleanup"
    BY <1>3 DEF Closing
  <2> QED
    BY <1>3, <1>7, <1>9, <1>10, <2>3, <2>4, ClosingStep
<1>13. CASE Journal(kind)
  <2>1. /\ log' # <<>> /\ log'[Len(log')].kind = kind
        /\ Logged("completed")' <=> kind = "completed"
        /\ Logged("failed")' <=> kind = "failed"
        /\ EpisodeVerified => EpisodeVerified'
    BY <1>2, <1>7, <1>8, <1>13, Journaled
  <2>2. pc' = "result" /\ Verified' => kind = "completed" /\ EpisodeVerified'
    BY <1>2, <1>4, <1>8, <2>1 DEF Verified
  <2>3. pc' = "recover" => stuck'
    <3>1. CASE UNCHANGED log
      BY <1>2, <1>8, <2>1, <3>1 DEF Logged
    <3> QED
      BY <1>9, <3>1
  <2>4. JournalInv'
    BY <1>2, <1>3, <1>9, <1>10, <1>11, <2>1, <2>2, <2>3 DEF JournalInv, Terminated
  <2>5. pc \in Closing \cup {"applied"} /\ pc # "applied"
        /\ pc' \in Closing \cup {"cleanup", "ended"} /\ pc' # "cleanup"
    BY <1>3 DEF Closing
  <2> QED
    BY <1>3, <1>7, <1>9, <1>10, <2>4, <2>5, ClosingStep
<1> QED
  BY <1>9, <1>12, <1>13

\* The second try appends nothing behind a terminal event.
LEMMA JournalRecoverStep == ASSUME IInv, JournalRecover PROVE IInv'
<1>1. /\ pc = "recover" /\ pc' = "result"
      /\ UNCHANGED <<backend, final, resultFile>>
      /\ UNCHANGED <<harnessVars, source, staged, todo, applied, backup, userEdits>>
      /\ Appended("failed") \/ AppendRaises("failed")
  BY DEF JournalRecover, KeepFiles, KeepRun, KeepUser
<1>2. TypeOK /\ JournalInv /\ StatusInv
  BY DEF IInv, WorkerInv
<1>3. "failed" \in Kinds
  BY DEF Kinds
<1>4. log' \in Seq(Entry) /\ stuck' \in BOOLEAN /\ faults' \in 0..MaxFaults
      /\ (UNCHANGED log \/ (~stuck /\ Journal("failed")))
  BY <1>1, <1>2, <1>3, AppendTypes
<1>5. final.status = "failed"
  BY <1>1, <1>2 DEF StatusInv
<1>6. ~Verified'
  BY <1>1, <1>5 DEF Verified
<1>7. JournalInv'
  <2>1. CASE UNCHANGED log
    <3>1. Logged("completed")' <=> Logged("completed")
      BY <2>1 DEF Logged
    <3>2. Logged("failed")' <=> Logged("failed")
      BY <2>1 DEF Logged
    <3> QED
      BY <1>1, <1>2, <1>6, <3>1, <3>2 DEF JournalInv, Terminated
  <2>2. CASE ~stuck /\ Journal("failed")
    <3>1. ~Logged("completed")
      BY <1>1, <1>2, <2>2 DEF JournalInv, Terminated
    <3>2. ~Logged("completed")'
      BY <1>2, <1>3, <2>2, <3>1, Journaled, WorkerTypes
    <3> QED
      BY <1>1, <1>6, <3>2 DEF JournalInv, Terminated
  <2> QED
    BY <1>4, <2>1, <2>2
<1>8. pc \in Closing \cup {"applied"} /\ pc' \in Closing \cup {"cleanup", "ended"}
  BY <1>1 DEF Closing
<1>9. resultFile' \in Final
  BY <1>1, <1>2, WorkerTypes
<1> QED
  BY <1>1, <1>4, <1>7, <1>8, <1>9, ClosingStep

\* The last write of the report.
LEMMA WriteResultStep == ASSUME IInv, WriteResult PROVE IInv'
<1>1. /\ pc = "result" /\ pc' = "ended"
      /\ (resultFile' = final /\ UNCHANGED faults) \/ (Fault /\ UNCHANGED resultFile)
      /\ UNCHANGED <<backend, log, stuck, final>>
      /\ UNCHANGED <<harnessVars, source, staged, todo, applied, backup, userEdits>>
  BY DEF WriteResult, KeepFiles, KeepRun, KeepUser
<1>2. TypeOK /\ JournalInv
  BY DEF IInv, WorkerInv
<1>3. log' \in Seq(Entry) /\ stuck' \in BOOLEAN /\ faults' \in 0..MaxFaults
      /\ resultFile' \in Final
  BY <1>1, <1>2, FaultBound, WorkerTypes
<1>4. /\ Logged("completed")' <=> Logged("completed")
      /\ Logged("failed")' <=> Logged("failed")
      /\ EpisodeVerified' <=> EpisodeVerified
      /\ Verified' <=> Verified
  BY <1>1 DEF Logged, EpisodeVerified, Verified
<1>5. JournalInv'
  BY <1>1, <1>2, <1>4 DEF JournalInv, Terminated
<1>6. pc \in Closing \cup {"applied"} /\ pc' \in Closing \cup {"cleanup", "ended"}
  BY <1>1 DEF Closing
<1> QED
  BY <1>1, <1>3, <1>5, <1>6, ClosingStep

-----------------------------------------------------------------------------
(* The ends of a run, and the environment                                  *)

\* An error outside every handler: the worker ends with what it has.
LEMMA EscapeStep == ASSUME IInv, Escape PROVE IInv'
<1>1. /\ pc = "escaped" /\ pc' = "ended" /\ UNCHANGED <<log, stuck, resultFile>>
      /\ UNCHANGED <<harnessVars, source, staged, todo, applied, backup, userEdits>>
  BY DEF Escape, KeepFiles, KeepRun, KeepUser
<1>2. TypeOK /\ SourceInv /\ ReportInv /\ StatusInv /\ JournalInv
  BY DEF IInv, WorkerInv
<1>3. final \in Final
  BY <1>2, WorkerTypes
<1>4. /\ final' \in Final /\ final'.ok = final.ok /\ final'.stageOnly = final.stageOnly
      /\ final'.applied = final.applied /\ final'.promotion = final.promotion
      /\ final'.rollbackError = final.rollbackError /\ final'.status = "failed"
      /\ (final'.restored => backend' = "Off")
      /\ backend' \in Backends /\ faults' \in 0..MaxFaults
  <2>1. CASE /\ backend' = "Off" /\ UNCHANGED faults
             /\ final' = [final EXCEPT !.status = "failed", !.restored = TRUE]
    BY <1>2, <1>3, <2>1, WorkerTypes DEF Final, Backends
  <2>2. CASE /\ Fault /\ backend' \in {backend, "Off"}
             /\ final' = [final EXCEPT !.status = "failed", !.restored = FALSE]
    <3>1. backend' \in Backends /\ faults' \in 0..MaxFaults
      BY <1>2, <2>2, FaultBound, WorkerTypes DEF Backends
    <3> QED
      BY <1>3, <2>2, <3>1 DEF Final
  <2> QED
    BY <2>1, <2>2 DEF Escape
<1>5. Untouched /\ ~final.applied /\ pc \in BeforePromotion
  BY <1>1, <1>2 DEF SourceInv, ReportInv, BeforePromotion
<1>6. pc' \in Steps /\ pc' \notin BeforePromotion \cup BeforeIdle \cup BeforeHarness
      /\ pc' \notin Promoting \cup {"check"} /\ pc' \notin Closing \cup {"decide"}
  BY <1>1 DEF Steps, BeforePromotion, BeforeIdle, BeforeHarness, Promoting, Copying,
     Closing
<1>7. ASSUME Untouched' <=> Untouched PROVE ReportInv'
  BY <1>4, <1>5, <1>6, <1>7 DEF ReportInv
<1>8. UNCHANGED <<harness, tree>>
  BY <1>1, HarnessKept
<1>9. StatusInv'
  BY <1>1, <1>2, <1>4, <1>6, <1>8 DEF StatusInv, LateInv
<1>10. JournalInv'
  <2>1. "state1" \in Kinds \ {"completed", "failed"}
    BY DEF Kinds
  <2>2. ~Verified'
    BY <1>4 DEF Verified
  <2> QED
    BY <1>1, <1>2, <2>1, <2>2, JournalOpen
<1>11. log' \in Seq(Entry) /\ stuck' \in BOOLEAN /\ resultFile' \in Final
  BY <1>1, <1>2, WorkerTypes
<1>12. pc' \notin Promoting \ {"check"} /\ pc' \notin BeforePromotion \cup {"check"}
  BY <1>6
<1> QED
  BY <1>1, <1>4, <1>6, <1>7, <1>9, <1>10, <1>11, <1>12, QuietStep

\* The worker dies: files, journal and report stay as they are.
LEMMA CrashStep == ASSUME IInv, Crash PROVE IInv'
<1>1. /\ pc' = "crashed"
      /\ UNCHANGED <<harnessVars, source, staged, todo, applied, backup,
                     backend, log, stuck, final, resultFile, faults, userEdits>>
  BY DEF Crash
<1>2. TypeOK /\ ReportInv /\ StatusInv /\ JournalInv
  BY DEF IInv, WorkerInv
<1>3. pc' \in Steps /\ pc' \notin BeforePromotion \cup BeforeIdle \cup BeforeHarness
      /\ pc' \notin Promoting \cup {"check"} /\ pc' \notin AfterPromotion \cup {"ended"}
      /\ pc' \notin Closing \cup {"decide", "applied", "cleanup", "recover"}
  BY <1>1 DEF Steps, BeforePromotion, BeforeIdle, BeforeHarness, Promoting, Copying,
     Closing, AfterPromotion
<1>4. ASSUME Promoted' <=> Promoted PROVE ReportInv'
  BY <1>1, <1>2, <1>3, <1>4 DEF ReportInv
<1>5. UNCHANGED <<harness, tree>>
  BY <1>1, HarnessKept
<1>6. StatusInv'
  BY <1>1, <1>2, <1>3, <1>5 DEF StatusInv, LateInv
<1>7. JournalInv'
  <2>1. Logged("completed")' <=> Logged("completed")
    BY <1>1 DEF Logged
  <2>2. Logged("failed")' <=> Logged("failed")
    BY <1>1 DEF Logged
  <2> QED
    BY <1>1, <1>2, <2>1, <2>2 DEF JournalInv, Terminated
<1>8. backend' \in Backends /\ log' \in Seq(Entry) /\ stuck' \in BOOLEAN
      /\ final' \in Final /\ resultFile' \in Final /\ faults' \in 0..MaxFaults
  BY <1>1, <1>2, WorkerTypes
<1>9. pc' \notin Promoting \ {"check"} /\ pc' \notin BeforePromotion \cup {"check"}
      /\ pc' \notin BeforeHarness
  BY <1>3
<1> QED
  BY <1>1, <1>3, <1>4, <1>6, <1>7, <1>8, <1>9, QuietStep

\* A user edits the repository at any step: what is theirs is theirs.
LEMMA UserEditStep == ASSUME IInv, UserEdit PROVE IInv'
<1>1. /\ userEdits < MaxUserEdits /\ userEdits' = userEdits + 1
      /\ UNCHANGED <<harnessVars, pc, staged, todo, applied, backup, backend,
                     log, stuck, final, resultFile, faults>>
  BY DEF UserEdit
<1>2. PICK q \in Paths : source' = [source EXCEPT ![q] = "user"]
  BY DEF UserEdit
<1>3. TypeOK /\ SourceInv /\ RollbackInv /\ ReportInv /\ StatusInv /\ JournalInv
      /\ (pc \in BeforeHarness => HarnessInv)
  BY DEF IInv, WorkerInv
<1>4. userEdits' \in 0..MaxUserEdits /\ userEdits' > 0
  BY <1>1, <1>3, WorkerTypes, ProductionAssumption
<1>5. source' \in [Paths -> Contents] /\ \A p \in Paths : source'[p] \in {source[p], "user"}
  BY <1>2, <1>3, WorkerTypes DEF Contents
<1>6. HarnessTypeOK' /\ (HarnessInv => HarnessInv') /\ UNCHANGED <<harness, tree>>
  BY <1>1, <1>3, HarnessKept, WorkerTypes
<1>7. TypeOK'
  BY <1>1, <1>3, <1>4, <1>5, <1>6, WorkerTypes, WorkerTypesNext
<1>8. /\ Untouched => Untouched'
      /\ Promoted => Promoted'
      /\ Changed' = Changed /\ before' = before
  BY <1>1, <1>5 DEF Untouched, Promoted, Changed, before
<1>9. ASSUME NEW p, Kept(p) PROVE Kept(p)'
  BY <1>1, <1>4, <1>8, <1>9 DEF Kept
<1>10. AllKept => AllKept'
  BY <1>8, <1>9 DEF AllKept
<1>11. SourceInv'
  <2>1. /\ \A p \in Paths : staged'[p] # "user" /\ (source'[p] = "user" => userEdits' > 0)
        /\ \A p \in Paths : backup'[p] = "user" => userEdits' > 0
    BY <1>1, <1>3, <1>4 DEF SourceInv
  <2>2. pc = "backup" => \A p \in Changed' \cap Ordinary : p \in Range(todo') \/ Kept(p)'
    BY <1>1, <1>3, <1>8, <1>9 DEF SourceInv
  <2> QED
    BY <1>1, <1>3, <1>8, <1>10, <2>1, <2>2 DEF SourceInv
<1>12. RollbackInv'
  BY <1>4 DEF RollbackInv
<1>13. ReportInv'
  BY <1>1, <1>3, <1>8 DEF ReportInv
<1>14. StatusInv'
  BY <1>1, <1>3, <1>6 DEF StatusInv, LateInv
<1>15. JournalInv'
  <2>1. /\ Logged("completed")' <=> Logged("completed")
        /\ Logged("failed")' <=> Logged("failed")
        /\ EpisodeVerified' <=> EpisodeVerified
        /\ Verified' <=> Verified
    BY <1>1 DEF Logged, EpisodeVerified, Verified
  <2> QED
    BY <1>1, <1>3, <2>1 DEF JournalInv, Terminated
<1> QED
  BY <1>1, <1>3, <1>6, <1>7, <1>11, <1>12, <1>13, <1>14, <1>15 DEF IInv, WorkerInv

\* A step that changes nothing.
LEMMA StutteringStep == ASSUME IInv, UNCHANGED vars PROVE IInv'
<1>1. UNCHANGED <<harnessVars, pc, source, staged, todo, applied, backup, backend,
                  log, stuck, final, resultFile, faults, userEdits>>
  BY DEF vars, workerVars
<1>2. HarnessTypeOK' <=> HarnessTypeOK
  BY <1>1 DEF harnessVars, HarnessTypeOK
<1>3. HarnessInv => HarnessInv'
  BY <1>1, HarnessKept
<1>4. /\ SourceInv' <=> SourceInv
      /\ RollbackInv' <=> RollbackInv
  BY <1>1 DEF SourceInv, RollbackInv, Untouched, AllKept, Kept, Changed
<1>5. /\ ReportInv' <=> ReportInv
      /\ JournalInv' <=> JournalInv
  BY <1>1 DEF ReportInv, JournalInv, Untouched, Promoted, Logged, Terminated,
     EpisodeVerified, Verified
<1>6. StatusInv' <=> StatusInv
  BY <1>1 DEF StatusInv, LateInv, harnessVars
<1>7. TypeOK => TypeOK'
  BY <1>1, <1>2, WorkerTypes, WorkerTypesNext
<1> QED
  BY <1>1, <1>3, <1>4, <1>5, <1>6, <1>7 DEF IInv, WorkerInv

-----------------------------------------------------------------------------
(* The theorems                                                            *)

\* A staged copy, an empty journal and no verdict.
LEMMA RunBegins == ASSUME Init PROVE IInv
<1>1. /\ HarnessInit /\ pc = "started" /\ source = before /\ staged = before
      /\ todo = <<>> /\ applied = <<>> /\ backup = Nowhere /\ backend = "Off"
      /\ log = <<>> /\ stuck = FALSE /\ final = NewFinal /\ resultFile = NewFinal
      /\ faults = 0 /\ userEdits = 0
  BY DEF Init
<1>2. HarnessTypeOK /\ HarnessInv
  BY <1>1, HarnessBegins
<1>3. NewFinal \in Final /\ ~NewFinal.ok /\ ~NewFinal.applied /\ ~NewFinal.restored
      /\ NewFinal.status = "none" /\ NewFinal.promotion = "not_attempted"
  BY DEF NewFinal, Final
<1>4. /\ before \in [Paths -> Contents] /\ Nowhere \in [Paths -> Contents]
      /\ \A p \in Paths : before[p] # "user" /\ Nowhere[p] # "user"
  BY DEF before, Nowhere, Contents
<1>5. TypeOK
  <2>1. faults \in 0..MaxFaults /\ userEdits \in 0..MaxUserEdits
    BY <1>1, ProductionAssumption
  <2>2. pc \in Steps /\ backend \in Backends
    BY <1>1 DEF Steps, Backends
  <2>3. todo \in Seq(Paths) /\ applied \in Seq(Paths) /\ log \in Seq(Entry)
    BY <1>1
  <2>4. stuck \in BOOLEAN
    BY <1>1
  <2>5. /\ source \in [Paths -> Contents] /\ staged \in [Paths -> Contents]
        /\ backup \in [Paths -> Contents]
    BY <1>1, <1>4
  <2>6. final \in Final /\ resultFile \in Final
    BY <1>1, <1>3
  <2> QED
    BY <1>2, <2>1, <2>2, <2>3, <2>4, <2>5, <2>6, WorkerTypes
<1>6. pc \notin Promoting \cup Copying \cup AfterPromotion \cup Closing
      /\ pc \notin {"backup", "manifest", "replace", "rollback", "compare", "report"}
  BY <1>1 DEF Promoting, Copying, AfterPromotion, Closing
<1>7. SourceInv
  <2>1. Untouched
    BY <1>1 DEF Untouched
  <2> QED
    BY <1>1, <1>4, <1>6, <2>1, EmptyRange DEF SourceInv
<1>8. RollbackInv
  BY <1>1, <1>3, <1>6 DEF RollbackInv
<1>9. ReportInv /\ StatusInv
  BY <1>1, <1>3, <1>6 DEF HarnessInit, ReportInv, StatusInv, LateInv, NewTree
<1>10. JournalInv
  <2>1. ~Logged("completed") /\ ~Logged("failed")
    BY <1>1 DEF Logged
  <2> QED
    BY <1>1, <2>1 DEF JournalInv, Terminated
<1> QED
  BY <1>2, <1>5, <1>7, <1>8, <1>9, <1>10 DEF IInv, WorkerInv

\* Every step of the worker preserves the invariant.
LEMMA WorkerStep == ASSUME IInv, Worker PROVE IInv'
<1>1. CASE JournalStart \/ JournalState \/ JournalRequest \/ JournalResponse
  BY <1>1, PlainAppendStep DEF JournalStart, JournalState, JournalRequest,
     JournalResponse
<1>2. CASE JournalVerification \/ CommitEpisode \/ CommitState
  BY <1>2, ClosingAppendStep DEF JournalVerification, CommitEpisode, CommitState
<1> QED
  BY <1>1, <1>2, SwitchOnStep, RetrieveStep, HarnessRaisedStep, HarnessDoneStep,
     ReviewStep, SwitchOffStep, DecideStep, DecideRaisesStep, CheckSourceStep,
     BackupOneStep, BackupManifestStep, ReplaceOneStep, CompareStep,
     RollbackOneStep, ReportPromotionStep, WriteAppliedStep, CleanupStep,
     WriteMemoryStep, JournalTerminalStep, JournalRecoverStep, WriteResultStep,
     EscapeStep
     DEF Worker

\* What the worker knows of the stage, the repository, the backup, the report
\* and the journal stays so at each of its steps, whatever fails, whoever
\* edits the repository and wherever the worker dies.
THEOREM Invariance == Spec => []IInv
<1>1. Init => IInv
  BY RunBegins
<1>2. IInv /\ [Next]_vars => IInv'
  BY WorkerStep, HarnessStepsKeep, UserEditStep, CrashStep, StutteringStep DEF Next
<1> QED
  BY <1>1, <1>2, PTL DEF Spec

\* Files, events, reports and counters are of their sets: the parent's
\* counters stay within the budgets of the run, and the controller allows no
\* repair pass too many.
THEOREM TypeCorrect == Spec => []TypeOK
<1>1. IInv => TypeOK
  BY DEF IInv
<1> QED
  BY <1>1, Invariance, PTL

\* run_production_task: what is promoted on the DeepSeek and Swift routes is
\* the stage as the last authoritative command, which passed, left it, and the
\* agent and its processes wrote nothing outside the mutable scope; provided a
\* write of the Swift plugin is not torn.  What wrote the stage after the audit
\* of the scope is the independent verifier, on the DeepSeek route.
THEOREM OnlyVerifiedIsPromoted ==
    ASSUME "swift" \notin TornWriters
    PROVE  Spec => []PromotedIsVerified
<1>1. IInv => PromotedIsVerified
  BY DEF IInv, WorkerInv, StatusInv, LateInv, PromotedIsVerified
<1> QED
  BY <1>1, Invariance, PTL

\* _apply: wherever the worker dies, a file the promotion has displaced is in
\* the backup, unless a file of the repository has the name of the manifest
\* that the backup is completed with.
THEOREM AlwaysRecoverable ==
    ASSUME ManifestPath \notin Paths
    PROVE  Spec => []Recoverable
<1>1. ASSUME IInv PROVE Recoverable
  <2>1. SUFFICES ASSUME NEW p \in Changed, source[p] \notin {before[p], "user"},
                        ~final.applied
                 PROVE  Kept(p)
    BY DEF Recoverable, Kept
  <2>2. p \in Paths /\ p \in Ordinary
    BY DEF Changed, Ordinary
  <2>3. ~Untouched
    BY <2>1, <2>2 DEF Untouched
  <2>4. AllKept
    BY <1>1, <2>1, <2>3 DEF IInv, WorkerInv, SourceInv
  <2> QED
    BY <2>2, <2>4 DEF AllKept
<1> QED
  BY <1>1, Invariance, PTL

\* _rollback: a failed promotion whose rollback met no error has put every
\* file back, if nobody else edited the repository and none of its files has
\* the name of the manifest of the backup.
THEOREM FailureRestores ==
    ASSUME ManifestPath \notin Paths
    PROVE  Spec => []FailedPromotionRestores
<1>1. ASSUME IInv PROVE FailedPromotionRestores
  <2>1. SUFFICES ASSUME final.promotion = "failed", ~final.rollbackError,
                        userEdits = 0
                 PROVE  source = before
    BY DEF FailedPromotionRestores
  <2>2. \A p \in Paths : source[p] = before[p]
    BY <1>1, <2>1 DEF IInv, WorkerInv, RollbackInv, Ordinary
  <2>3. source \in [Paths -> Contents] /\ before \in [Paths -> Contents]
    BY <1>1, WorkerTypes DEF IInv, before, Contents
  <2> QED
    BY <2>2, <2>3
<1> QED
  BY <1>1, Invariance, PTL

\* run_production_task: the journal ends a task once, completed only for a
\* run whose result is in the repository or was wanted on the stage only; the
\* report of a run that ended says what became of the repository, of the
\* backend and of the record.
THEOREM ReportIsTruthful == Spec => []OutcomeTruthful
<1>1. ASSUME IInv PROVE OutcomeTruthful
  <2>1. ReportInv /\ StatusInv /\ JournalInv
    BY <1>1 DEF IInv, WorkerInv
  <2>2. ~(Logged("completed") /\ Logged("failed"))
    BY <2>1 DEF JournalInv
  <2>3. Logged("completed") =>
          /\ final.ok
          /\ final.stageOnly \/ \A p \in Paths : source[p] \in {staged[p], "user"}
    BY <2>1 DEF JournalInv, ReportInv, Promoted
  <2>4. ASSUME pc = "ended", final.status = "verified"
        PROVE  /\ Last(log).kind = "completed" /\ ~stuck
               /\ \E i \in DOMAIN log :
                    log[i] = [kind |-> "episode", status |-> "verified"]
               /\ final.stageOnly \/ (final.applied /\ final.clean)
    BY <2>1, <2>4 DEF JournalInv, StatusInv, Verified, EpisodeVerified, Last
  <2>5. ASSUME pc = "ended", ~final.applied, NEW p \in Paths, source[p] = "new"
        PROVE  final.promotion = "failed" /\ ~final.rolledBack
    <3>1. ~Untouched
      BY <2>5 DEF Untouched, before
    <3> QED
      BY <2>1, <2>5, <3>1 DEF ReportInv
  <2>6. backend = "Off" \/ ~final.restored
    BY <2>1 DEF ReportInv
  <2> QED
    BY <2>2, <2>3, <2>4, <2>5, <2>6 DEF OutcomeTruthful
<1> QED
  BY <1>1, Invariance, PTL
=============================================================================
