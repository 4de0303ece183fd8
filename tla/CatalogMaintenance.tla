-------------------------- MODULE CatalogMaintenance --------------------------
(***************************************************************************)
(* The scheduled archiving of finished Codex subagent threads              *)
(* (src/ops/codex_catalog_maintenance.py): a run takes the instance lock,  *)
(* selects threads that have been idle for a day and whose last record     *)
(* says that the task is complete, and for each one checks again, records  *)
(* the attempt, runs `codex archive`, and verifies the outcome.            *)
(*                                                                         *)
(* Codex and its user work on the same threads all the while; a run may be *)
(* killed and leave its command running; commands fail or exceed their     *)
(* time.  Codex's database and rollout files are external: they are        *)
(* modelled by what this program reads of them.                            *)
(***************************************************************************)
EXTENDS Integers, FiniteSets

CONSTANTS
    Threads,          \* numbered in the order of their identifiers
    Subagents,        \* the threads whose source is exactly a subagent
    Runs,             \* processes that may run this program
    MinAge,           \* MINIMUM_AGE_SECONDS
    Limit,            \* --limit
    MaxScan,          \* MAX_CANDIDATES_SCANNED
    MaxTime, MaxFaults, MaxUses   \* BOUNDS

NoRun == "none"
NoThread == -1

ASSUME CatalogAssumption ==
    /\ Threads \subseteq Nat /\ Subagents \subseteq Threads
    /\ NoRun \notin Runs
    /\ MinAge \in Nat /\ {Limit, MaxScan} \subseteq Nat \ {0}
    /\ {MaxTime, MaxFaults, MaxUses} \subseteq Nat

VARIABLES
    now,
    place,      \* the thread's row and rollout: active, archived, half archived, or gone
    updated,    \* threads.updated_at
    tail,       \* the rollout's modification time, and whether its last record is task_complete
    attempted,  \* attempted-ids.json: the status of each thread
    lock,       \* the run that holds maintenance.lock
    job,        \* per run: where it is, its cutoff, the attempts it loaded, what it
                \* selected and has not come to, and the thread it is at
    commands,   \* threads on which a `codex archive` is running
    uses, faults,
    \* Not in the code, for the properties only:
    invoked,    \* how often the command was started on a thread
    resumed     \* threads that were written to since a run checked them again

codex == <<place, updated, tail, uses>>
ghosts == <<invoked, resumed>>
vars == <<now, codex, attempted, lock, job, commands, faults, ghosts>>


(* attempt["status"], or no entry *)
Outcome == {"none", "attempting", "archived", "failed"}

Idle == [pc |-> "idle", cutoff |-> 0, known |-> [t \in Threads |-> "none"],
         selected |-> {}, at |-> NoThread]

Init ==
    /\ now = 0
    /\ place = [t \in Threads |-> "active"]
    /\ updated = [t \in Threads |-> 0]
    /\ tail = [t \in Threads |-> [at |-> 0, complete |-> TRUE]]
    /\ attempted = [t \in Threads |-> "none"]
    /\ lock = NoRun /\ job = [p \in Runs |-> Idle]
    /\ commands = {} /\ uses = 0 /\ faults = 0
    /\ invoked = [t \in Threads |-> 0] /\ resumed = {}

-----------------------------------------------------------------------------
(* Selection                                                               *)

(* ORDER BY updated_at, id *)
Before(t, u) == updated[t] < updated[u] \/ (updated[t] = updated[u] /\ t < u)

(* The first n rows in that order. *)
First(n, rows) == {t \in rows : Cardinality({u \in rows : Before(u, t)}) < n}

(* candidate_rows: the oldest active subagent rows. *)
Candidates(cutoff) ==
    First(MaxScan, {t \in Subagents : place[t] = "active" /\ updated[t] < cutoff})

(* terminal_task_complete *)
Terminal(t, cutoff) == tail[t].at < cutoff /\ tail[t].complete

Wanted(t, cutoff) == attempted[t] = "none" /\ Terminal(t, cutoff)

Row(t) == [id |-> t, updated |-> updated[t]]

(* A mutant: the limit counts threads that were attempted before. *)
SelectedTooEarly(cutoff) ==
    {Row(t) : t \in {u \in First(Limit, Candidates(cutoff)) : Wanted(u, cutoff)}}

(* The first candidates, up to the limit, that were never attempted and    *)
(* are finished.                                                           *)
Selected(cutoff) ==
    {Row(t) : t \in First(Limit, {u \in Candidates(cutoff) : Wanted(u, cutoff)})}

(* A mutant: the row is looked at again, its rollout is not. *)
RowStillEligible(original, cutoff) ==
    place[original.id] = "active" /\ updated[original.id] = original.updated

(* row_is_still_eligible *)
StillEligible(original, cutoff) ==
    /\ place[original.id] = "active"
    /\ updated[original.id] = original.updated
    /\ Terminal(original.id, cutoff)

-----------------------------------------------------------------------------
(* A run                                                                   *)

(* A mutant: the lock is not looked at. *)
LockIgnored == TRUE

(* acquire_instance_lock: not waited for. *)
LockFree == lock = NoRun

Begin(p) ==
    /\ job[p].pc = "idle" /\ LockFree
    /\ lock' = p
    /\ job' = [job EXCEPT ![p] = [pc |-> "next", cutoff |-> now - MinAge,
                                  known |-> attempted, selected |-> Selected(now - MinAge),
                                  at |-> NoThread]]
    /\ UNCHANGED <<now, codex, attempted, commands, faults, ghosts>>

Finish(p) ==
    /\ job' = [job EXCEPT ![p] = Idle]
    /\ lock' = IF lock = p THEN NoRun ELSE lock

(* The thread the run is at. *)
At(p) == job[p].at

Onward(p, known) == [job[p] EXCEPT !.pc = "next", !.known = known, !.at = NoThread]

(* The selected threads, in the order in which they were selected. *)
IsNext(p, row) ==
    /\ row \in job[p].selected
    /\ \A r \in job[p].selected :
         row.updated < r.updated \/ (row.updated = r.updated /\ row.id <= r.id)

(* Nothing is left, or the time of the run is up. *)
End(p) ==
    /\ job[p].pc = "next"
    /\ Finish(p)
    /\ job[p].selected # {} => faults < MaxFaults
    /\ faults' = IF job[p].selected = {} THEN faults ELSE faults + 1
    /\ UNCHANGED <<now, codex, attempted, commands, ghosts>>

Recheck(p) ==
    /\ job[p].pc = "next"
    /\ \E row \in job[p].selected :
         LET rest == job[p].selected \ {row} IN
         /\ IsNext(p, row)
         /\ IF StillEligible(row, job[p].cutoff)
              THEN /\ job' = [job EXCEPT ![p].pc = "record", ![p].selected = rest, ![p].at = row.id]
                   /\ resumed' = resumed \ {row.id}
              ELSE /\ job' = [job EXCEPT ![p].selected = rest]
                   /\ UNCHANGED resumed
    /\ UNCHANGED <<now, codex, attempted, lock, commands, faults, invoked>>

(* The status of its thread, in memory and, whole, in attempted-ids.json. *)
Noted(p, status) == [job[p].known EXCEPT ![At(p)] = status]

(* A mutant: the attempt is noted in memory and written with its outcome. *)
RecordLater(p) ==
    /\ job[p].pc = "record"
    /\ job' = [job EXCEPT ![p].pc = "archive", ![p].known = Noted(p, "attempting")]
    /\ UNCHANGED <<now, codex, attempted, lock, commands, faults, ghosts>>

Record(p) ==
    /\ job[p].pc = "record"
    /\ attempted' = Noted(p, "attempting")
    /\ job' = [job EXCEPT ![p].pc = "archive", ![p].known = Noted(p, "attempting")]
    /\ UNCHANGED <<now, codex, lock, commands, faults, ghosts>>

(* archive_one *)
Archive(p) ==
    /\ job[p].pc = "archive"
    /\ commands' = commands \cup {At(p)}
    /\ invoked' = [invoked EXCEPT ![At(p)] = @ + 1]
    /\ job' = [job EXCEPT ![p].pc = "wait"]
    /\ UNCHANGED <<now, codex, attempted, lock, faults, resumed>>

(* It has returned; or it takes more than its time and is killed. *)
Waited(p) ==
    /\ job[p].pc = "wait"
    /\ At(p) \in commands => faults < MaxFaults
    /\ faults' = IF At(p) \in commands THEN faults + 1 ELSE faults
    /\ commands' = commands \ {At(p)}
    /\ job' = [job EXCEPT ![p].pc = "verify"]
    /\ UNCHANGED <<now, codex, attempted, lock, ghosts>>

(* verify_archived: whatever the command said.  A thread that is not       *)
(* archived ends the run, and stays for the operator.                      *)
Verify(p) ==
    /\ job[p].pc = "verify"
    /\ IF place[At(p)] = "archived"
         THEN /\ attempted' = Noted(p, "archived")
              /\ job' = [job EXCEPT ![p] = Onward(p, Noted(p, "archived"))]
              /\ UNCHANGED lock
         ELSE attempted' = Noted(p, "failed") /\ Finish(p)
    /\ UNCHANGED <<now, codex, commands, faults, ghosts>>

(* It is killed, or fails closed on an error: the lock is free again, and  *)
(* its command goes on.                                                    *)
Die(p) ==
    /\ job[p].pc # "idle" /\ faults < MaxFaults
    /\ faults' = faults + 1
    /\ Finish(p)
    /\ UNCHANGED <<now, codex, attempted, commands, ghosts>>

Step(p) ==
    \/ End(p) \/ Recheck(p) \/ Record(p) \/ Archive(p) \/ Waited(p) \/ Verify(p)

-----------------------------------------------------------------------------
(* Codex: the archive command, and the user at work.                       *)

(* The command archives, or half of it, or nothing. *)
Command(t) ==
    /\ t \in commands
    /\ \E outcome \in IF place[t] = "active" THEN {"archived", "half", "active"} ELSE {place[t]} :
         place' = [place EXCEPT ![t] = outcome]
    /\ commands' = commands \ {t}
    /\ UNCHANGED <<now, updated, tail, uses, attempted, lock, job, faults, ghosts>>

Used == uses < MaxUses /\ uses' = uses + 1

(* A thread writes to its rollout, and its row follows. *)
Write(t) ==
    /\ Used /\ place[t] = "active"
    /\ \E complete \in BOOLEAN : tail' = [tail EXCEPT ![t] = [at |-> now, complete |-> complete]]
    /\ resumed' = resumed \cup {t}
    /\ UNCHANGED <<now, place, updated, attempted, lock, job, commands, faults, invoked>>

Index(t) ==
    /\ place[t] = "active" /\ updated[t] # tail[t].at
    /\ updated' = [updated EXCEPT ![t] = tail[t].at]
    /\ UNCHANGED <<now, place, tail, uses, attempted, lock, job, commands, faults, ghosts>>

(* The user archives, restores or deletes a thread. *)
Manage(t) ==
    /\ Used
    /\ \E there \in CASE place[t] = "active" -> {"archived", "gone"}
                      [] place[t] \in {"archived", "half"} -> {"active", "gone"}
                      [] OTHER -> {} :
         place' = [place EXCEPT ![t] = there]
    /\ UNCHANGED <<now, updated, tail, attempted, lock, job, commands, faults, ghosts>>

Tick ==
    /\ now < MaxTime /\ now' = now + 1
    /\ UNCHANGED <<codex, attempted, lock, job, commands, faults, ghosts>>

Next ==
    \/ \E p \in Runs : Begin(p) \/ Step(p) \/ Die(p)
    \/ \E t \in Threads : Command(t) \/ Write(t) \/ Index(t) \/ Manage(t)
    \/ Tick

(* The scheduler starts the program again and again; a command that is     *)
(* waited for ends, by itself or by its time limit.                        *)
Fairness ==
    /\ WF_vars(\E p \in Runs : Begin(p))
    /\ WF_vars(\E p \in Runs : Step(p))
    /\ \A t \in Threads : WF_vars(Command(t))
    /\ WF_vars(Tick)

Spec == Init /\ [][Next]_vars /\ Fairness

-----------------------------------------------------------------------------
TypeOK ==
    /\ now \in 0 .. MaxTime /\ uses \in 0 .. MaxUses /\ faults \in 0 .. MaxFaults
    /\ place \in [Threads -> {"active", "archived", "half", "gone"}]
    /\ updated \in [Threads -> 0 .. now]
    /\ tail \in [Threads -> [at : 0 .. now, complete : BOOLEAN]]
    /\ attempted \in [Threads -> Outcome]
    /\ job \in [Runs -> [pc : {"idle", "next", "record", "archive", "wait", "verify"},
                         cutoff : Int, known : [Threads -> Outcome],
                         selected : SUBSET [id : Threads, updated : 0 .. now],
                         at : Threads \cup {NoThread}]]
    /\ commands \subseteq Threads /\ resumed \subseteq Threads
    /\ invoked \in [Threads -> Nat]
    /\ lock \in Runs \cup {NoRun}
    /\ \A p \in Runs : job[p].pc # "idle" <=> lock = p

(* "automatic_retries_per_id": 0, and the unarchive_command that is kept   *)
(* with each attempt: however runs overlap, die and come again, and        *)
(* whatever the user restores, `codex archive` is started at most once on  *)
(* a thread, and never on one that attempted-ids.json does not name.       *)
OnceAndOnRecord ==
    \A t \in Threads :
        /\ invoked[t] <= 1
        /\ invoked[t] = 1 => attempted[t] # "none"

(* "exact structured subagent source only", "minimum_age_seconds",         *)
(* "terminal_record": a command that this program started archives no      *)
(* other thread than a subagent's that is complete and has been idle for a *)
(* day, unless it was written to after the last look at it.                *)
SparesActive ==
    \A t \in commands \ resumed :
        t \in Subagents /\ tail[t].complete /\ tail[t].at < now - MinAge

(* A thread that stays finished and idle is attempted some day, whatever   *)
(* attempts have failed before it.                                         *)
Finished(t) == place[t] = "active" /\ Terminal(t, now - MinAge) /\ updated[t] < now - MinAge

FinishedAttempted ==
    \A t \in Subagents : <>[]Finished(t) => <>(attempted[t] # "none")
=============================================================================
