--------------------------- MODULE ProductionRun ---------------------------
(***************************************************************************)
(* One run of the production worker (production_worker.py): copy the       *)
(* repository to a stage, journal the task (production_memory.py), switch  *)
(* the backend, let a harness work on the stage (HarnessRun), review,      *)
(* switch the backend off, promote the stage into the source file by file  *)
(* with a backup and a rollback, and commit the outcome.                   *)
(*                                                                         *)
(* Any file operation, journal append or switch may fail, the worker may   *)
(* die between two steps, and somebody may edit the source meanwhile.  The *)
(* journal is the store of MemoryLog: an append that fails may have left   *)
(* its event durable, and then the process appends nothing more.           *)
(***************************************************************************)
EXTENDS HarnessRun, FiniteSets, SequencesExt

CONSTANTS
    Paths,        \* the paths of the repository and the stage
    Existing,     \* those the repository has when the run begins
    ManifestPath, \* the path "manifest.json", if it is one of them
    MaxFaults,    \* bound: operations that fail
    MaxUserEdits  \* bound: edits of the source by somebody else

ASSUME ProductionAssumption ==
    /\ IsFiniteSet(Paths) /\ Existing \subseteq Paths
    /\ MaxFaults \in Nat /\ MaxUserEdits \in Nat

VARIABLES
    pc,        \* the step the worker has come to
    source,    \* the repository
    staged,    \* the stage when the harness ended
    todo,      \* paths the loop at hand has left
    applied,   \* applied_paths
    backup,    \* the files under promotion-backup
    backend,   \* the active backend
    log,       \* the events of the task, in order
    stuck,     \* an event is durable and not projected: no more appends
    final,     \* the result the worker builds
    resultFile,\* the result.json on disk
    faults, userEdits \* bounds

workerVars == <<pc, source, staged, todo, applied, backup, backend, log,
                stuck, final, resultFile, faults, userEdits>>
vars == <<harnessVars, workerVars>>

Contents == {"absent", "old", "new", "user", "manifest"}
Backends == {"Off", "target", "Ollama"}
Kinds == {"started", "state1", "retrieved", "request", "response",
          "verification", "episode", "state2", "completed", "failed"}
Entry == [kind : Kinds, status : {"none", "verified", "failed"}]

\* ok: implementation_ok; restored: the backend was switched off; clean: the
\* stage and the backup were removed; error: a terminal_error is reported.
Final == [stageOnly : BOOLEAN, ok : BOOLEAN, status : {"none", "verified", "failed"},
          restored : BOOLEAN, applied : BOOLEAN,
          promotion : {"not_attempted", "applied", "failed"},
          rolledBack : BOOLEAN, rollbackError : BOOLEAN, clean : BOOLEAN]
NewFinal == [stageOnly |-> FALSE, ok |-> FALSE, status |-> "none",
             restored |-> FALSE, applied |-> FALSE,
             promotion |-> "not_attempted", rolledBack |-> FALSE,
             rollbackError |-> FALSE, clean |-> FALSE]

Steps == {"started", "state1", "switch", "retrieved", "request", "harness",
          "response", "review", "idle", "decide", "check", "backup", "manifest",
          "replace", "compare", "rollback", "report", "applied", "cleanup",
          "memory", "verification", "episode", "state2", "terminal", "recover",
          "result", "escaped", "ended", "crashed"}

TypeOK ==
    /\ HarnessTypeOK
    /\ pc \in Steps
    /\ {source, staged, backup} \subseteq [Paths -> Contents]
    /\ todo \in Seq(Paths) /\ applied \in Seq(Paths)
    /\ backend \in Backends
    /\ log \in Seq(Entry) /\ stuck \in BOOLEAN
    /\ final \in Final /\ resultFile \in Final
    /\ faults \in 0..MaxFaults /\ userEdits \in 0..MaxUserEdits

Nowhere == [p \in Paths |-> "absent"]

\* source_before: the manifest taken when the run began.
before == [p \in Paths |-> IF p \in Existing THEN "old" ELSE "absent"]

Init ==
    /\ HarnessInit
    /\ pc = "started"
    /\ source = before /\ staged = before
    /\ todo = <<>> /\ applied = <<>>
    /\ backup = Nowhere
    /\ backend = "Off"
    /\ log = <<>> /\ stuck = FALSE
    /\ final = NewFinal /\ resultFile = NewFinal
    /\ faults = 0 /\ userEdits = 0

-----------------------------------------------------------------------------
(* What a step of the worker is made of                                    *)

Fault == faults < MaxFaults /\ faults' = faults + 1

\* Everything but the variables the step names.
KeepFiles == UNCHANGED <<source, staged, todo, applied, backup>>
KeepRun == UNCHANGED harnessVars
KeepUser == UNCHANGED userEdits

Journal(kind) ==
    log' = Append(log, [kind |-> kind, status |-> final.status])

\* ProductionMemoryJournal.append: the event is logged and projected, or the
\* call raises, with the event lost or durable.
Appended(kind) == ~stuck /\ Journal(kind) /\ UNCHANGED <<stuck, faults>>
AppendRaises(kind) ==
    \/ stuck /\ UNCHANGED <<log, stuck, faults>>
    \/ ~stuck /\ Fault /\ UNCHANGED <<log, stuck>>
    \/ ~stuck /\ Fault /\ Journal(kind) /\ stuck' = TRUE

\* An append outside any try: an exception leaves run().
PlainAppend(kind, next) ==
    /\ pc = kind
    /\ \/ Appended(kind) /\ pc' = next
       \/ AppendRaises(kind) /\ pc' = "escaped"
    /\ UNCHANGED <<backend, final, resultFile>>
    /\ KeepFiles /\ KeepRun /\ KeepUser

JournalStart == PlainAppend("started", "state1")
JournalState == PlainAppend("state1", "switch")
JournalRequest == PlainAppend("request", "harness")
JournalResponse == PlainAppend("response", "review")

\* Packing the memory of the workspace may raise before it is journaled.
Retrieve ==
    \/ PlainAppend("retrieved", "request")
    \/ /\ pc = "retrieved" /\ Fault /\ pc' = "escaped"
       /\ UNCHANGED <<backend, log, stuck, final, resultFile>>
       /\ KeepFiles /\ KeepRun /\ KeepUser

\* _switch to the backend of the route; one that failed may have switched.
SwitchOn ==
    /\ pc = "switch"
    /\ \/ pc' = "retrieved" /\ backend' = "target" /\ UNCHANGED faults
       \/ pc' = "escaped" /\ Fault /\ backend' \in {backend, "target"}
    /\ UNCHANGED <<log, stuck, final, resultFile>>
    /\ KeepFiles /\ KeepRun /\ KeepUser

-----------------------------------------------------------------------------
(* The harness and what becomes of its result                              *)

HarnessSteps ==
    /\ pc = "harness"
    /\ HarnessNext
    /\ UNCHANGED workerVars

\* The harness is over, and what its processes knew is forgotten.  From the
\* worker's manifest on the stage stands still, so a process that is left
\* behind has written it before or not at all.
HarnessOver ==
    /\ child' = NewChild /\ pipe' = <<>> /\ audit' = NewAudit
    /\ repair' = NewRepair
    /\ runner' = [NewRunner EXCEPT !.phase = runner.phase]
    /\ tree' = [tree EXCEPT !.background = {}]
    /\ UNCHANGED harness

\* A harness that raised leaves run() with the exception.
HarnessRaised ==
    /\ pc = "harness" /\ runner.phase = "raised"
    /\ pc' = "escaped"
    /\ HarnessOver
    /\ UNCHANGED <<backend, log, stuck, final, resultFile, faults>>
    /\ KeepFiles /\ KeepUser

Changed == {p \in Paths : staged[p] # before[p]}

\* The verdict over the harness result, the manifests and the repairs.
ImplementationOk(stage) ==
    /\ runner.phase = "passed"
    /\ source = before
    /\ stage # before
    /\ VerificationPassed
    /\ repair.repairs <= MaxRepairs

\* The worker takes the manifest of the stage and judges.
HarnessDone ==
    /\ pc = "harness" /\ runner.phase \in {"passed", "failed"}
    /\ \E stage \in [Paths -> {"absent", "old", "new"}] :
         /\ \A p \in Paths : stage[p] = "old" => before[p] = "old"
         /\ ~tree.changed => stage = before
         /\ staged' = stage
         /\ final' = [final EXCEPT !.ok = ImplementationOk(stage)]
    /\ pc' = "response"
    /\ HarnessOver
    /\ UNCHANGED <<source, todo, applied, backup, backend, log, stuck,
                   resultFile, faults>>
    /\ KeepUser

\* The advisory review switches to Ollama when the implementation is good;
\* whatever becomes of it, the backend is switched off next.
Review ==
    /\ pc = "review"
    /\ pc' = "idle"
    /\ IF final.ok
       THEN \/ backend' = "Ollama" /\ UNCHANGED faults
            \/ Fault /\ backend' \in {backend, "Ollama"}
       ELSE UNCHANGED <<backend, faults>>
    /\ UNCHANGED <<log, stuck, final, resultFile>>
    /\ KeepFiles /\ KeepRun /\ KeepUser

\* A backend that cannot be switched off is an error of the run.
SwitchOff ==
    /\ pc = "idle"
    /\ pc' = "decide"
    /\ \/ /\ backend' = "Off" /\ UNCHANGED faults
          /\ final' = [final EXCEPT !.restored = TRUE]
       \/ /\ Fault /\ backend' \in {backend, "Off"}
          /\ final' = [final EXCEPT !.ok = FALSE]
    /\ UNCHANGED <<log, stuck, resultFile>>
    /\ KeepFiles /\ KeepRun /\ KeepUser

\* The session identity and validate_episode may refuse the result; then the
\* pre_apply result is written, and the promotion begins if it is planned.
\* stage_only is an argument of the run that nothing reads before.
Decide ==
    /\ pc = "decide"
    /\ \E accepted, stageOnly \in BOOLEAN :
         LET ok == final.ok /\ accepted
             decided == [final EXCEPT !.ok = ok, !.stageOnly = stageOnly,
                            !.status = IF ok THEN "verified" ELSE "failed"]
         IN /\ ~accepted /\ final.ok => Fault
            /\ accepted \/ ~final.ok => UNCHANGED faults
            /\ final' = decided
            /\ resultFile' = decided
            /\ pc' = IF ok /\ ~stageOnly THEN "check" ELSE "memory"
    /\ UNCHANGED <<backend, log, stuck>>
    /\ KeepFiles /\ KeepRun /\ KeepUser

\* _write_result of the pre_apply phase stands outside any try.
DecideRaises ==
    /\ pc = "decide"
    /\ Fault
    /\ pc' = "escaped"
    /\ UNCHANGED <<backend, log, stuck, final, resultFile>>
    /\ KeepFiles /\ KeepRun /\ KeepUser

-----------------------------------------------------------------------------
(* _apply: the promotion                                                   *)

ChangedList == SetToSeq(Changed)   \* sorted paths
KeepOutcome == UNCHANGED <<backend, log, stuck, resultFile>>
KeepCopies == UNCHANGED staged

\* Before a file was replaced an error is reported as it is.
PromotionFails ==
    /\ pc' = "applied"
    /\ final' = [final EXCEPT !.promotion = "failed", !.status = "failed",
                              !.rolledBack = (source = before)]
    /\ todo' = <<>>

\* "source changed during the live run; refusing promotion"
CheckSource ==
    /\ pc = "check"
    /\ IF source = before
       THEN pc' = "backup" /\ todo' = ChangedList /\ UNCHANGED final
       ELSE PromotionFails
    /\ UNCHANGED <<source, applied, backup, faults>>
    /\ KeepCopies /\ KeepOutcome /\ KeepRun /\ KeepUser

\* Mutant of Copied: only what is replaced is copied, not what is deleted.
CopiedIfStaged(p) == IF staged[p] = "absent" THEN "absent" ELSE source[p]

\* A file that exists is copied, as it is now, before any is replaced.
Copied(p) == source[p]

BackupOne ==
    /\ pc = "backup"
    /\ IF todo = <<>>
       THEN pc' = "manifest" /\ UNCHANGED <<todo, backup, final, faults>>
       ELSE \/ /\ backup' = [backup EXCEPT ![Head(todo)] = Copied(Head(todo))]
               /\ todo' = Tail(todo)
               /\ UNCHANGED <<pc, final, faults>>
            \/ Fault /\ PromotionFails /\ UNCHANGED backup
    /\ UNCHANGED <<source, applied>>
    /\ KeepCopies /\ KeepOutcome /\ KeepRun /\ KeepUser

\* The manifest of the backup is a file in the backup directory.
BackupManifest ==
    /\ pc = "manifest"
    /\ \/ /\ backup' = [p \in Paths |->
                          IF p = ManifestPath THEN "manifest" ELSE backup[p]]
          /\ pc' = "replace" /\ todo' = ChangedList
          /\ UNCHANGED <<final, faults>>
       \/ Fault /\ PromotionFails /\ UNCHANGED backup
    /\ UNCHANGED <<source, applied>>
    /\ KeepCopies /\ KeepOutcome /\ KeepRun /\ KeepUser

RollbackBegins == pc' = "rollback" /\ todo' = Reverse(applied)

\* A temporary copy replaces the file in one step, or the file is unlinked.
ReplaceOne ==
    /\ pc = "replace"
    /\ IF todo = <<>>
       THEN pc' = "compare" /\ UNCHANGED <<todo, source, applied, faults>>
       ELSE LET p == Head(todo) IN
            \/ /\ source' = [source EXCEPT ![p] = staged[p]]
               /\ applied' = Append(applied, p)
               /\ todo' = Tail(todo)
               /\ UNCHANGED <<pc, faults>>
            \/ Fault /\ RollbackBegins /\ UNCHANGED <<source, applied>>
    /\ UNCHANGED <<backup, final>>
    /\ KeepCopies /\ KeepOutcome /\ KeepRun /\ KeepUser

\* "promoted source manifest differs from the staged result"
Compare ==
    /\ pc = "compare"
    /\ IF source = staged
       THEN /\ pc' = "applied"
            /\ final' = [final EXCEPT !.promotion = "applied", !.applied = TRUE]
            /\ UNCHANGED todo
       ELSE RollbackBegins /\ UNCHANGED final
    /\ UNCHANGED <<source, applied, backup, faults>>
    /\ KeepCopies /\ KeepOutcome /\ KeepRun /\ KeepUser

\* Mutant of Restored: a file that the stage deleted is not brought back.
RestoredIfPresent(p) == IF source[p] = "absent" THEN "absent" ELSE backup[p]

\* From the backup if it has the file, else the file is removed.
Restored(p) == backup[p]

RollbackOne ==
    /\ pc = "rollback"
    /\ IF todo = <<>>
       THEN pc' = "report" /\ UNCHANGED <<todo, source, final, faults>>
       ELSE LET p == Head(todo) IN
            /\ todo' = Tail(todo)
            /\ UNCHANGED pc
            /\ \/ /\ source' = [source EXCEPT ![p] = Restored(p)]
                  /\ UNCHANGED <<final, faults>>
               \/ /\ Fault /\ UNCHANGED source
                  /\ final' = [final EXCEPT !.rollbackError = TRUE]
    /\ UNCHANGED <<applied, backup>>
    /\ KeepCopies /\ KeepOutcome /\ KeepRun /\ KeepUser

RolledBack == ~final.rollbackError /\ source = before

\* PromotionError carries the report.
ReportPromotion ==
    /\ pc = "report"
    /\ pc' = "applied"
    /\ final' = [final EXCEPT !.promotion = "failed", !.status = "failed",
                              !.rolledBack = RolledBack]
    /\ UNCHANGED <<source, todo, applied, backup, faults>>
    /\ KeepCopies /\ KeepOutcome /\ KeepRun /\ KeepUser

-----------------------------------------------------------------------------
(* After the promotion                                                     *)

\* Mutant of Failing: the error is reported and the status stays.
FailingQuietly(value) == value

Failing(value) == [value EXCEPT !.status = "failed"]

\* _try_write_result: the file, or an error in the result.
TryWrite(value) ==
    \/ resultFile' = value /\ final' = value /\ UNCHANGED faults
    \/ /\ Fault /\ UNCHANGED resultFile
       /\ final' = Failing(value)

WriteApplied ==
    /\ pc = "applied"
    /\ TryWrite(final)
    /\ pc' = IF final.applied THEN "cleanup" ELSE "memory"
    /\ UNCHANGED <<backend, log, stuck>>
    /\ KeepFiles /\ KeepRun /\ KeepUser

\* _cleanup_owned_stage removes the backup first, then the stage.
Cleanup ==
    /\ pc = "cleanup"
    /\ \/ /\ final' = [final EXCEPT !.clean = TRUE]
          /\ backup' = Nowhere /\ UNCHANGED faults
       \/ /\ Fault /\ final' = Failing(final)
          /\ backup' \in {backup, Nowhere}
    /\ pc' = "memory"
    /\ UNCHANGED <<source, staged, todo, applied>>
    /\ KeepOutcome /\ KeepRun /\ KeepUser

WriteMemory ==
    /\ pc = "memory"
    /\ TryWrite(final)
    /\ pc' = "verification"
    /\ UNCHANGED <<backend, log, stuck>>
    /\ KeepFiles /\ KeepRun /\ KeepUser

\* Mutant of TerminalKind: the harness decides, not the final status.
TerminalKindByImplementation == IF final.ok THEN "completed" ELSE "failed"

TerminalKind == IF final.status = "verified" THEN "completed" ELSE "failed"

\* Of the four appends at the end whichever raises, the run has failed.
ClosingAppend(step, kind, next) ==
    /\ pc = step
    /\ \/ Appended(kind) /\ pc' = next /\ UNCHANGED final
       \/ AppendRaises(kind) /\ pc' = "recover" /\ final' = Failing(final)
    /\ UNCHANGED <<backend, resultFile>>
    /\ KeepFiles /\ KeepRun /\ KeepUser

JournalVerification == ClosingAppend("verification", "verification", "episode")
CommitEpisode == ClosingAppend("episode", "episode", "state2")
CommitState == ClosingAppend("state2", "state2", "terminal")
JournalTerminal == ClosingAppend("terminal", TerminalKind, "result")

\* The terminal event was not recorded: try task/failed once.
JournalRecover ==
    /\ pc = "recover"
    /\ Appended("failed") \/ AppendRaises("failed")
    /\ pc' = "result"
    /\ UNCHANGED <<backend, final, resultFile>>
    /\ KeepFiles /\ KeepRun /\ KeepUser

\* The last write; its failure is reported and changes no status.
WriteResult ==
    /\ pc = "result"
    /\ \/ resultFile' = final /\ UNCHANGED faults
       \/ Fault /\ UNCHANGED resultFile
    /\ pc' = "ended"
    /\ UNCHANGED <<backend, log, stuck, final>>
    /\ KeepFiles /\ KeepRun /\ KeepUser

\* main() on an exception: switch off, print "failed".
Escape ==
    /\ pc = "escaped"
    /\ pc' = "ended"
    /\ \/ /\ backend' = "Off" /\ UNCHANGED faults
          /\ final' = [final EXCEPT !.status = "failed", !.restored = TRUE]
       \/ /\ Fault /\ backend' \in {backend, "Off"}
          /\ final' = [final EXCEPT !.status = "failed", !.restored = FALSE]
    /\ UNCHANGED <<log, stuck, resultFile>>
    /\ KeepFiles /\ KeepRun /\ KeepUser

Worker ==
    \/ JournalStart \/ JournalState \/ SwitchOn \/ Retrieve \/ JournalRequest
    \/ HarnessRaised \/ JournalResponse \/ HarnessDone \/ Review
    \/ SwitchOff \/ Decide \/ DecideRaises \/ CheckSource \/ BackupOne
    \/ BackupManifest \/ ReplaceOne \/ Compare \/ RollbackOne \/ ReportPromotion
    \/ WriteApplied \/ Cleanup \/ WriteMemory \/ JournalVerification \/ CommitEpisode
    \/ CommitState \/ JournalTerminal \/ JournalRecover
    \/ WriteResult \/ Escape

-----------------------------------------------------------------------------
(* The environment                                                         *)

\* Somebody edits a file of the repository.  The worker does not look at it
\* from its first manifest until the harness has ended, and then only if it
\* passed; so an edit during the harness comes here when that has passed.
UserEdit ==
    /\ pc \notin {"started", "state1", "switch", "retrieved", "request", "ended",
                  "crashed"}
    /\ pc = "harness" => runner.phase = "passed"
    /\ userEdits < MaxUserEdits
    /\ \E p \in Paths : source' = [source EXCEPT ![p] = "user"]
    /\ userEdits' = userEdits + 1
    /\ UNCHANGED <<harnessVars, pc, staged, todo, applied, backup, backend,
                   log, stuck, final, resultFile, faults>>

\* The worker dies.  Nothing resumes a run, and a death during the harness
\* leaves what one before the response does.
Crash ==
    /\ pc \notin {"harness", "ended", "crashed"}
    /\ pc' = "crashed"
    /\ UNCHANGED <<harnessVars, source, staged, todo, applied, backup,
                   backend, log, stuck, final, resultFile, faults, userEdits>>

Next == Worker \/ HarnessSteps \/ UserEdit \/ Crash
Spec == Init /\ [][Next]_vars

\* The worker goes on as long as it lives, and the loop of the runner takes
\* events and looks at its deadline; the child may hang.
FairSpec ==
    /\ Spec
    /\ WF_vars(Worker)
    /\ WF_vars(pc = "harness" /\ Parent /\ UNCHANGED workerVars)
    /\ WF_vars(pc = "harness" /\ Timeout /\ UNCHANGED workerVars)
-----------------------------------------------------------------------------
(* Properties                                                              *)

Logged(kind) == \E i \in DOMAIN log : log[i].kind = kind

\* What the worker begins to promote is what the last authoritative command,
\* which passed, left of the stage: no edit, shell command, earlier test or
\* process of the child wrote it after, and none of them wrote outside the
\* mutable scope.  The independent verifier of a DeepSeek run is that last
\* command, and its own writes and those of a process it leaves behind are
\* promoted with the rest, unaudited; a Swift run has none.  Does not hold for
\* qwen-code, where the worker takes the last shell command for a verification.
PromotedIsVerified ==
    (applied # <<>> \/ final.applied) /\ harness # "qwen"
        => /\ tree.verified /\ ~tree.outside
           /\ tree.late => harness = "deepseek"

\* While a promotion is under way or has failed, also when the worker died in
\* it, each file it displaced is in the backup, as it was when the run began
\* or as a user left it before the backup (_apply copies before it replaces).
Recoverable ==
    \A p \in Changed :
        source[p] \notin {before[p], "user"} /\ ~final.applied
        => \/ backup[p] = before[p]
           \/ backup[p] = "user" /\ userEdits > 0

\* A failed promotion whose rollback met no error leaves the repository as it
\* was, if nobody else edited it ("restoring every earlier path on failure").
FailedPromotionRestores ==
    final.promotion = "failed" /\ ~final.rollbackError /\ userEdits = 0
        => source = before

\* What is said is so, wherever the worker died.  The journal ends a task
\* once, and says completed only of a run whose result is in the repository
\* or was asked for on the stage only.  A verified run is live or stage-only,
\* idle, cleaned up and recorded as completed with a verified episode; a run
\* that is not applied left nothing of the stage in the source, or says so;
\* and the backend is off, or the report says that it could not be.
OutcomeTruthful ==
    /\ ~(Logged("completed") /\ Logged("failed"))
    /\ Logged("completed") =>
         /\ final.ok
         /\ final.stageOnly \/ \A p \in Paths : source[p] \in {staged[p], "user"}
    /\ pc = "ended" =>
         /\ final.status = "verified" =>
              /\ Last(log).kind = "completed" /\ ~stuck
              /\ \E i \in DOMAIN log : log[i] = [kind |-> "episode", status |-> "verified"]
              /\ final.stageOnly \/ (final.applied /\ final.clean)
         /\ ~final.applied /\ (\E p \in Paths : source[p] = "new")
              => final.promotion = "failed" /\ ~final.rolledBack
         /\ backend = "Off" \/ ~final.restored

\* The worker reports in the end, for the deadline ends a hanging harness;
\* unless the runner waits for ever for a pipe that a process in no Job of its
\* own holds open (terminate_tree, and process.stdout.close() after it).
RunEnds == <>(pc \in {"ended", "crashed"}) \/ <>[](pc = "harness" /\ Stranded)
=============================================================================
