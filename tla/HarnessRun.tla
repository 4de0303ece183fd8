----------------------------- MODULE HarnessRun -----------------------------
(***************************************************************************)
(* One harness process working on the stage of a production run, and the   *)
(* parent that watches it.  The child (an agent with the tools of          *)
(* scoped_plugin.mjs, or Qwen Code) writes the stage and reports each step *)
(* as an event on its standard output, a bounded pipe.  The parent reads   *)
(* the events later than they happen: the bridge audits each of them       *)
(* (event_bridge.py), the runner counts, matches and may kill the tree     *)
(* (runner.py), and the emitter is the RepairController of the production  *)
(* worker, which may raise.                                                *)
(*                                                                         *)
(* The bridge forwards what it accepts, line by line, so here an event     *)
(* passes its audit when the runner takes it.  What the stage holds is     *)
(* abstracted to four facts: it was changed; it was changed outside the    *)
(* mutable scope before the runner audited that; it is as the last passing *)
(* authoritative command left it; and the independent verifier, which runs *)
(* after the audit, wrote it, or a process it left behind did.             *)
(***************************************************************************)
EXTENDS Naturals, Sequences

CONSTANTS
    Harnesses,   \* the routes: a subset of {"deepseek", "swift", "qwen"}
    TornWriters, \* routes on which a file write may fail half way
    Sigs,        \* the evidence of a failed command (result_sha256)
    MaxTurns, MaxCalls, MaxEdits, MaxTests, \* the budgets of the run
    MaxRepairs,  \* repair passes the controller allows
    PipeSize     \* bound: events the child is ahead of the parent

ASSUME HarnessAssumption ==
    /\ Harnesses \subseteq {"deepseek", "swift", "qwen"}
    /\ TornWriters \subseteq Harnesses
    /\ {MaxTurns, MaxCalls, MaxEdits, MaxTests} \subseteq Nat \ {0}
    /\ MaxRepairs \in Nat /\ PipeSize \in Nat \ {0}

VARIABLES
    harness, \* the route of this run
    tree,    \* the stage, and whether a descendant still writes to it
    child,   \* the agent process
    pipe,    \* events written and not read
    audit,   \* EventAudit and the counters of the runner
    runner,  \* the loop of run_harness_process and its verdict
    repair   \* RepairController

harnessVars == <<harness, tree, child, pipe, audit, runner, repair>>

Tools == {"edit", "test", "pwsh", "read"}   \* pwsh: run_shell_command of Qwen
SideEffects == {"edit", "test", "pwsh"}
Outcomes == {"none", "passed", "failed"}

\* Why a call is not executed: "no" is the null of the event.
Denials == {"no", "refused", "duplicate"}

Errors == {"none", "provider", "protocol", "budget", "timeout", "scope", "exit",
           "verifier", "ownership", "ledger", "raised"}

Event ==
    [kind : {"turn"}, retried : BOOLEAN]
    \cup [kind : {"start"}, tool : Tools, fresh : BOOLEAN,
          repeated : BOOLEAN, denied : Denials]
    \cup [kind : {"end"}, tool : Tools, failed : BOOLEAN,
          sig : Sigs \cup {"none"}]
    \cup [kind : {"agent_end"}, completed : BOOLEAN]

\* Processes that run on and may write the stage: the child or a descendant
\* of it that no kill reached, and a descendant of the verifier.
Writers == {"child", "verifier"}

\* Whether the child is in the Job, outside a Job that exists, or there is no
\* Job (_WindowsJob).
Ownerships == {"job", "unassigned", "none"}

NewTree == [changed |-> FALSE, outside |-> FALSE, verified |-> FALSE,
            late |-> FALSE, background |-> {}]
NewChild == [phase |-> "idle", turns |-> 0, calls |-> 0, edits |-> 0,
             tests |-> 0, edited |-> FALSE, tested |-> FALSE, effects |-> {},
             tool |-> "read", denied |-> "no", code |-> 0]
NewAudit == [turns |-> 0, calls |-> 0, edits |-> 0, tests |-> 0,
             open |-> {}, denied |-> "no", edited |-> FALSE, tested |-> FALSE,
             ended |-> FALSE]
NewRunner == [phase |-> "reading", owned |-> "job", error |-> "none",
              last |-> "none", verifier |-> "none"]
NewRepair == [edited |-> FALSE, repairs |-> 0, pending |-> FALSE, seen |-> {}]

Ended == {"passed", "failed", "raised"}

HarnessTypeOK ==
    /\ harness \in Harnesses
    /\ tree \in [changed : BOOLEAN, outside : BOOLEAN, verified : BOOLEAN,
                 late : BOOLEAN, background : SUBSET Writers]
    /\ child \in [phase : {"idle", "turn", "tool", "exited", "gone"},
                  turns : 0..(MaxTurns + 1), calls : 0..(MaxCalls + 1),
                  edits : 0..(MaxCalls + 1), tests : 0..(MaxCalls + 1),
                  edited : BOOLEAN, tested : BOOLEAN,
                  effects : SUBSET SideEffects, tool : Tools,
                  denied : Denials, code : 0..2]
    /\ pipe \in Seq(Event) /\ Len(pipe) <= PipeSize
    /\ audit \in [turns : 0..MaxTurns, calls : 0..MaxCalls,
                  edits : 0..MaxCalls, tests : 0..MaxCalls,
                  open : SUBSET Tools, denied : Denials, edited : BOOLEAN,
                  tested : BOOLEAN, ended : BOOLEAN]
    /\ runner \in [phase : {"reading", "waiting", "closing", "verifying",
                            "judging"} \cup Ended,
                   owned : Ownerships, error : Errors, last : Outcomes,
                   verifier : Outcomes]
    /\ repair \in [edited : BOOLEAN, repairs : 0..(MaxRepairs + 1),
                   pending : BOOLEAN, seen : SUBSET Sigs]

HarnessInit ==
    /\ harness \in Harnesses
    /\ tree = NewTree /\ child = NewChild /\ pipe = <<>>
    /\ audit = NewAudit /\ runner = NewRunner /\ repair = NewRepair

-----------------------------------------------------------------------------
(* The child                                                               *)

Write(e) == Len(pipe) < PipeSize /\ pipe' = Append(pipe, e)
Guarded == harness # "qwen"   \* the guards of scoped_plugin.mjs are installed

\* A model step begins; the client may repeat a failed request by itself.
ChildTurn ==
    /\ child.phase \in {"idle", "turn"}
    /\ child.turns <= MaxTurns
    /\ \E retried \in BOOLEAN :
         Write([kind |-> "turn", retried |-> retried])
    /\ child' = [child EXCEPT !.phase = "turn", !.turns = @ + 1]
    /\ UNCHANGED <<harness, tree, audit, runner, repair>>

\* The guard of a call.  The edits a side effect follows belong to its
\* identity, so "effects" holds those since the last successful edit; a test
\* has no arguments and is always the same effect.
Denial(tool, fresh, permitted, repeated) ==
    IF ~Guarded THEN "no"
    ELSE IF repeated THEN "duplicate"
    ELSE IF \/ ~permitted
            \/ ~fresh
            \/ child.calls + 1 > MaxCalls
            \/ tool = "edit" /\ child.edits + 1 > MaxEdits
            \/ tool = "test" /\ child.tests + 1 > MaxTests
            \/ tool = "pwsh" /\ harness = "swift"
         THEN "refused"
    ELSE "no"

\* tools/pre-execute.  permitted: the tool is on the allowlist, its arguments
\* parse and its path is in scope; fresh: the call id was not used before.
ChildCall ==
    /\ child.phase = "turn"
    /\ child.calls <= MaxCalls
    /\ \E tool \in Tools, fresh, permitted, repeated \in BOOLEAN :
         LET denied == Denial(tool, fresh, permitted, repeated)
         IN /\ harness = "qwen" => tool # "test" /\ permitted
            /\ repeated => tool \in child.effects
            /\ tool = "test" => repeated = (tool \in child.effects)
            /\ Write([kind |-> "start", tool |-> tool, fresh |-> fresh,
                      repeated |-> repeated, denied |-> denied])
            /\ child' = [child EXCEPT
                   !.phase = "tool", !.tool = tool, !.denied = denied,
                   !.calls = @ + 1,
                   !.edits = IF tool = "edit" THEN @ + 1 ELSE @,
                   !.tests = IF tool = "test" THEN @ + 1 ELSE @,
                   !.effects = @ \cup ({tool} \cap SideEffects)]
    /\ UNCHANGED <<harness, tree, audit, runner, repair>>

\* Only the evidence of a failure is looked at.
Finished(failed) ==
    \E sig \in IF failed THEN Sigs ELSE {"none"} :
      Write([kind |-> "end", tool |-> child.tool, failed |-> failed, sig |-> sig])

Idle == [child EXCEPT !.phase = "turn", !.tool = "read", !.denied = "no"]

Executes(tool) ==
    child.phase = "tool" /\ child.tool = tool /\ child.denied = "no"

\* A denied call, a read, or a tool that raises before it does anything.
ChildNoEffect ==
    /\ child.phase = "tool"
    /\ \E failed \in BOOLEAN :
         /\ ~failed => child.tool = "read" /\ child.denied = "no"
         /\ Finished(failed)
    /\ child' = Idle
    /\ UNCHANGED <<harness, tree, audit, runner, repair>>

\* Mutant of Edited: the earlier test result is kept.
EditedKeepsTest == [Idle EXCEPT !.edited = TRUE, !.effects = {}]

Edited == [Idle EXCEPT !.edited = TRUE, !.tested = FALSE, !.effects = {}]

ChildEdit ==
    /\ Executes("edit")
    /\ tree' = [tree EXCEPT !.changed = TRUE, !.verified = FALSE]
    /\ child' = Edited
    /\ Finished(FALSE)
    /\ UNCHANGED <<harness, audit, runner, repair>>

\* writeFile fails after it truncated the file: the tool raises, and the
\* state of the plugin is as before the call.
ChildTornEdit ==
    /\ Executes("edit") /\ harness \in TornWriters
    /\ tree' = [tree EXCEPT !.changed = TRUE, !.verified = FALSE]
    /\ child' = Idle
    /\ Finished(TRUE)
    /\ UNCHANGED <<harness, audit, runner, repair>>

\* What a command does to the stage it runs in: it writes in or out of the
\* mutable scope, and may leave a descendant behind.
Effect == [writes : BOOLEAN, outside : BOOLEAN, stays : BOOLEAN]
NoEffect == [writes |-> FALSE, outside |-> FALSE, stays |-> FALSE]

After(effect) ==
    [tree EXCEPT !.changed = @ \/ effect.writes,
                 !.verified = @ /\ ~effect.writes,
                 !.outside = @ \/ effect.outside,
                 !.background = @ \cup IF effect.stays THEN {"child"} ELSE {}]

\* The test tool runs the authoritative command on the stage: the command of
\* the repository, which may write it as any command does, or for Swift the
\* sender to the Mac, which only reads.  It raises at a timeout.
ChildTest ==
    /\ Executes("test")
    /\ \E effect \in Effect, result \in {"passed", "failed", "raised"} :
         /\ effect.outside => effect.writes
         /\ harness = "swift" => effect = NoEffect
         /\ IF result = "raised"
            THEN tree' = After(effect) /\ child' = Idle
            ELSE /\ tree' = [After(effect) EXCEPT !.verified = result = "passed"]
                 /\ child' = [Idle EXCEPT !.tested = result = "passed"]
         /\ Finished(result # "passed")
    /\ UNCHANGED <<harness, audit, runner, repair>>

\* A shell command, of which the plugin learns nothing.
ChildShell ==
    /\ Executes("pwsh")
    /\ \E effect \in Effect, failed \in BOOLEAN :
         /\ effect.outside => effect.writes
         /\ tree' = After(effect)
         /\ Finished(failed)
    /\ child' = Idle
    /\ UNCHANGED <<harness, audit, runner, repair>>

Completed ==
    Guarded => /\ child.edited /\ child.tested
               /\ child.turns <= MaxTurns /\ child.calls <= MaxCalls

\* The agent stops: agent_end and the exit code that goes with it.
ChildEnd ==
    /\ child.phase = "turn"
    /\ \E stopped \in BOOLEAN :
         LET completed == stopped /\ Completed
         IN /\ Write([kind |-> "agent_end", completed |-> completed])
            /\ child' = [child EXCEPT !.phase = "exited",
                                      !.code = IF completed THEN 0 ELSE 1]
    /\ UNCHANGED <<harness, tree, audit, runner, repair>>

\* The agent fails, or its process dies, without an agent_end.
ChildFails ==
    /\ child.phase \in {"idle", "turn", "tool"}
    /\ child' = [child EXCEPT !.phase = "exited", !.code = 1]
    /\ UNCHANGED <<harness, tree, pipe, audit, runner, repair>>

\* A process that was left behind writes.
Background ==
    /\ \E writer \in tree.background, outside \in BOOLEAN :
         tree' = IF writer = "verifier"
                 THEN [tree EXCEPT !.changed = TRUE, !.late = TRUE]
                 ELSE [tree EXCEPT !.changed = TRUE, !.verified = FALSE,
                                   !.outside = @ \/ outside]
    /\ UNCHANGED <<harness, child, pipe, audit, runner, repair>>

\* It ends by itself.
BackgroundEnds ==
    /\ \E writer \in tree.background :
         tree' = [tree EXCEPT !.background = @ \ {writer}]
    /\ UNCHANGED <<harness, child, pipe, audit, runner, repair>>

Child == \/ ChildTurn \/ ChildCall \/ ChildNoEffect \/ ChildEdit \/ ChildTornEdit
         \/ ChildTest \/ ChildShell \/ ChildEnd \/ ChildFails
-----------------------------------------------------------------------------
(* The parent: audit, controller, runner                                   *)

Next1 == Head(pipe)   \* the event the parent takes
Taking(kind) == runner.phase = "reading" /\ pipe # <<>> /\ Next1.kind = kind

\* Mutant of AuditRejects: nobody counts the calls.
AuditRejectsUncounted(e) ==
    \/ e.kind = "turn" /\ (e.retried \/ audit.turns = MaxTurns)
    \/ e.kind = "start" /\ ~e.fresh
    \/ e.kind = "end" /\ e.tool \notin audit.open

\* EventAudit.accept(): what is a violation of the live protocol.
AuditRejects(e) ==
    \/ audit.ended
    \/ e.kind = "turn" /\ (e.retried \/ audit.turns = MaxTurns)
    \/ e.kind = "start" /\ (~e.fresh \/ audit.calls = MaxCalls)
    \/ e.kind = "start" /\ e.repeated /\ e.denied # "duplicate"
    \/ e.kind = "end" /\ e.tool \notin audit.open
    \/ e.kind = "agent_end" /\ audit.open # {}
    \/ e.kind = "agent_end" /\ e.completed /\ ~(audit.edited /\ audit.tested)

\* QwenCodeEventAccumulator.accept().
AccumulatorRejects(e) ==
    \/ e.kind = "start" /\ ~e.fresh
    \/ e.kind = "end" /\ e.tool \notin audit.open
    \/ e.kind = "agent_end" /\ audit.ended

Rejected == IF Guarded THEN AuditRejects(Next1) ELSE AccumulatorRejects(Next1)

Alive == child.phase \notin {"exited", "gone"}

\* The finally clause of the loop, with "ends": the child itself is gone.
\* Closing the Job ends all that is in it.  Without, a command the child was
\* running goes on, or the child does, and closing the pipes may wait for it.
\* Who owned the child was settled at its start; nothing looks at it before.
Leave(error, owned, ends) ==
    LET left == IF owned = "job" THEN {}
                ELSE tree.background \cup
                       IF Alive /\ (~ends \/ child.phase = "tool")
                       THEN {"child"} ELSE {}
    IN /\ tree' = [tree EXCEPT !.background = left]
       /\ runner' = [runner EXCEPT !.error = error, !.owned = owned,
              !.phase = IF left # {} THEN "waiting"
                        ELSE IF error = "raised" THEN "raised" ELSE "closing"]

\* Nobody reads on, and what was counted so far only goes into the report.
Silenced ==
    /\ child' = [NewChild EXCEPT !.phase = "gone", !.code = 2] /\ pipe' = <<>>
    /\ audit' = NewAudit /\ repair' = NewRepair

\* terminate_tree() and the waits for the child.  It kills the tree of the Job
\* or, without a Job, the child.  A Job the child is not in is empty, and to
\* terminate it succeeds: then the child ends by itself within the waits, or
\* the second of them raises.
Stop(error) ==
    /\ \E owned \in Ownerships, ends \in BOOLEAN :
         /\ ~ends => owned = "unassigned" /\ Alive
         /\ Leave(IF ends THEN error ELSE "raised", owned, ends)
    /\ Silenced

\* The controller raises out of the loop: nothing but the Job is closed.
Raise ==
    /\ \E owned \in Ownerships : Leave("raised", owned, owned = "job")
    /\ Silenced

TakeRejected ==
    /\ runner.phase = "reading" /\ pipe # <<>>
    /\ Rejected
    /\ Stop("provider")
    /\ UNCHANGED harness

TakeTurn ==
    /\ Taking("turn") /\ ~Rejected
    /\ pipe' = Tail(pipe)
    /\ audit' = [audit EXCEPT !.turns = IF Guarded THEN @ + 1 ELSE @]
    /\ UNCHANGED <<harness, tree, child, runner, repair>>

\* RepairController on a call: a third repair pass, or a command repeated
\* after a failure without an edit (not seen for Qwen's run_shell_command).
RepairForbidden(tool) ==
    \/ tool = "edit" /\ repair.pending /\ repair.repairs = MaxRepairs
    \/ tool \in {"test", "pwsh"} /\ Guarded /\ repair.pending

RepairAfterCall(tool) ==
    IF tool # "edit" THEN repair
    ELSE [repair EXCEPT !.edited = TRUE, !.pending = FALSE,
                        !.repairs = IF repair.pending THEN @ + 1 ELSE @]

\* The counters of run_harness_process, which count denied calls as well.
Counted(e) ==
    [audit EXCEPT !.calls = IF Guarded THEN @ + 1 ELSE @,
                  !.edits = IF Guarded /\ e.tool = "edit" THEN @ + 1 ELSE @,
                  !.tests = IF Guarded /\ e.tool = "test" THEN @ + 1 ELSE @,
                  !.open = @ \cup {e.tool}, !.denied = e.denied]

OverBudget(a) == a.edits > MaxEdits \/ a.tests > MaxTests

TakeStart ==
    /\ Taking("start") /\ ~Rejected
    /\ IF RepairForbidden(Next1.tool) THEN Raise
       ELSE IF OverBudget(Counted(Next1)) THEN Stop("budget")
       ELSE /\ audit' = Counted(Next1)
            /\ repair' = RepairAfterCall(Next1.tool)
            /\ pipe' = Tail(pipe) /\ UNCHANGED <<tree, child, runner>>
    /\ UNCHANGED harness

IsCommand(tool) == tool \in {"test", "pwsh"}
SameFailure(e) == IsCommand(e.tool) /\ e.failed /\ e.sig \in repair.seen

RepairAfterResult(e) ==
    IF ~IsCommand(e.tool) THEN repair
    ELSE IF ~e.failed THEN [repair EXCEPT !.pending = FALSE]
    ELSE [repair EXCEPT !.seen = @ \cup {e.sig}, !.pending = @ \/ repair.edited]

\* The last command the worker takes for the verification: the test tool of
\* a Swift run, any shell command of a Qwen run.
IsCheck(tool) == tool = IF Guarded THEN "test" ELSE "pwsh"

Settled(e) ==
    [audit EXCEPT !.open = @ \ {e.tool}, !.denied = "no",
        !.edited = @ \/ (e.tool = "edit" /\ ~e.failed /\ audit.denied = "no"),
        !.tested = @ \/ (e.tool = "test" /\ ~e.failed /\ audit.denied = "no")]

TakeEnd ==
    /\ Taking("end") /\ ~Rejected
    /\ IF SameFailure(Next1) THEN Raise
       ELSE /\ audit' = Settled(Next1)
            /\ repair' = RepairAfterResult(Next1)
            /\ runner' = [runner EXCEPT !.last =
                   IF ~IsCheck(Next1.tool) THEN @
                   ELSE IF Next1.failed THEN "failed" ELSE "passed"]
            /\ pipe' = Tail(pipe)
            /\ UNCHANGED <<tree, child>>
    /\ UNCHANGED harness

TakeAgentEnd ==
    /\ Taking("agent_end") /\ ~Rejected
    /\ audit' = [audit EXCEPT !.ended = TRUE]
    /\ pipe' = Tail(pipe)
    /\ UNCHANGED <<harness, tree, child, runner, repair>>

\* Mutant of Timeout: the loop waits for an event before it looks.
TimeoutAtEvents ==
    /\ runner.phase = "reading" /\ pipe # <<>>
    /\ Stop("timeout")
    /\ UNCHANGED harness

\* The deadline, which the loop looks at every 0.05 seconds.
Timeout ==
    /\ runner.phase = "reading"
    /\ Stop("timeout")
    /\ UNCHANGED harness

\* End of the stream and exit of the child: the loop is over.
StreamEnds ==
    /\ runner.phase = "reading" /\ pipe = <<>>
    /\ child.phase = "exited"
    /\ \E owned \in Ownerships :
         Leave(IF audit.ended THEN "none" ELSE "provider", owned, TRUE)
    /\ UNCHANGED <<harness, child, pipe, audit, repair>>

\* The pipes are closed, and the loop is left as it ended.
Left ==
    /\ runner.phase = "waiting"
    /\ runner' = [runner EXCEPT
           !.phase = IF runner.error = "raised" THEN "raised" ELSE "closing"]
    /\ UNCHANGED <<harness, tree, child, pipe, audit, repair>>

\* Nobody has them open any more, or nobody who is left has them open.
PipesClose == tree.background = {} /\ Left
PipesLetGo == tree.background # {} /\ Left

\* run_independent_verifier: not for Swift, and Qwen Code has no such step.
Verifies == harness = "deepseek"

\* The audit of the scope and the checks after the loop, in their order; the
\* counters are not looked at again.
Close ==
    /\ runner.phase = "closing" /\ Guarded
    /\ LET error ==
             IF runner.error # "none" THEN runner.error
             ELSE IF tree.outside THEN "scope"
             ELSE IF child.code # 0 THEN "exit"
             ELSE IF ~audit.ended \/ audit.open # {} THEN "protocol"
             ELSE "none"
       IN runner' = [runner EXCEPT !.error = error,
              !.phase = IF error = "none" /\ Verifies THEN "verifying"
                        ELSE "judging"]
    /\ audit' = NewAudit
    /\ UNCHANGED <<harness, tree, child, pipe, repair>>

\* QwenCodeAdapter.run after its loop: no scope, no verifier, no ownership.
\* An official result that is an error is an exit code here.
CloseQwen ==
    /\ runner.phase = "closing" /\ ~Guarded
    /\ LET error ==
             IF runner.error # "none" THEN runner.error
             ELSE IF child.code # 0 THEN "exit"
             ELSE IF audit.open # {} THEN "protocol"
             ELSE "none"
       IN runner' = [runner EXCEPT !.error = error,
              !.phase = IF error = "none" THEN "passed" ELSE "failed"]
    /\ audit' = NewAudit
    /\ UNCHANGED <<harness, tree, child, pipe, repair>>

\* run_argv of the repository's command over the stage, after the audit of the
\* scope.  It may write the stage, in or out of scope, and leave a descendant:
\* whether its own Job took it is not looked at.  When it cannot be started or
\* outlives its timeout and the kill, run_argv raises, once its pipes close.
Verify ==
    /\ runner.phase = "verifying"
    /\ \E result \in {"passed", "failed", "raised"}, writes, stays \in BOOLEAN :
         /\ tree' = [tree EXCEPT
                !.changed = @ \/ writes, !.late = @ \/ writes,
                !.verified = result = "passed",
                !.background = @ \cup IF stays THEN {"verifier"} ELSE {}]
         /\ runner' =
              IF result = "raised"
              THEN [runner EXCEPT !.error = "raised",
                        !.phase = IF stays THEN "waiting" ELSE "raised"]
              ELSE [runner EXCEPT !.phase = "judging", !.verifier = result,
                        !.error = IF result = "passed" THEN @ ELSE "verifier"]
    /\ UNCHANGED <<harness, child, pipe, audit, repair>>

\* Mutant of Owned: a child outside the Job is accepted.
OwnedUnchecked == TRUE

\* The exact ownership of the tree, on Windows.
Owned == runner.owned = "job"

\* The terminal event and, when it says passed, the audit of the durable
\* ledger, which may be missing or unreadable.
Judge ==
    /\ runner.phase = "judging"
    /\ \E ledger \in BOOLEAN :
         LET error == IF runner.error # "none" THEN runner.error
                      ELSE IF ~Owned THEN "ownership"
                      ELSE IF ~ledger THEN "ledger"
                      ELSE "none"
         IN runner' = [runner EXCEPT !.error = error,
                !.phase = IF error = "none" THEN "passed" ELSE "failed"]
    /\ UNCHANGED <<harness, tree, child, pipe, audit, repair>>

Parent == \/ TakeRejected \/ TakeTurn \/ TakeStart \/ TakeEnd \/ TakeAgentEnd
          \/ Timeout \/ StreamEnds \/ PipesClose \/ Close \/ CloseQwen \/ Verify
          \/ Judge

HarnessNext == Child \/ Background \/ BackgroundEnds \/ Parent \/ PipesLetGo

\* The runner is closing a pipe that a process it does not own may have open.
Stranded ==
    /\ runner.phase = "waiting" /\ tree.background # {}
    /\ runner.owned # "job" \/ "verifier" \in tree.background

\* What run() of the worker makes of the verification, by route.
VerificationPassed ==
    IF harness = "deepseek" THEN runner.verifier = "passed"
    ELSE runner.last = "passed"
=============================================================================
