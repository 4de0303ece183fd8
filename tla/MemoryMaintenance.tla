--------------------------- MODULE MemoryMaintenance ---------------------------
(***************************************************************************)
(* The scheduled maintenance of the memory store                           *)
(* (agent_continuity/memory_maintenance.py): a run plans what retention    *)
(* would collect, measures the pressure, and, when it is high and the run  *)
(* may, applies the plan up to its limits of items, bytes and time; then   *)
(* it writes a report of what it did, which load_maintenance_evidence()    *)
(* validates later.                                                        *)
(*                                                                         *)
(* Between the plan and its application the store is not locked: others    *)
(* write, collect by hand and rehydrate.  How one payload is collected,    *)
(* file by file, is in BlobRetention: here it is one step, which may fail  *)
(* before or after its event is durable.                                   *)
(***************************************************************************)
EXTENDS Integers, Sequences, FiniteSets

CONSTANTS
    Blobs,          \* numbered in the order of a plan: class, expiry, digest
    Size,           \* size_bytes
    Bulk,           \* those of class bulk
    Disposal,       \* what retention does with each: "archive" or "evict"
    Budget,         \* hot_blob_budget_bytes
    MaxItems, MaxBytes,    \* MaintenanceLimits
    Runs,           \* processes that run maintenance
    Applying,       \* those of them that run it with --apply
    MaxChanges, MaxFaults  \* BOUNDS: what others do, and failures

NoRun == "none"

\* No payload is larger than a run may collect.  One that is, and is first
\* in the plan, stops every run before its first action.
ASSUME MaintenanceAssumption ==
    /\ Blobs \subseteq Nat /\ IsFiniteSet(Blobs)
    /\ Size \in [Blobs -> 1 .. MaxBytes]
    /\ Bulk \subseteq Blobs
    /\ Disposal \in [Blobs -> {"archive", "evict"}]
    /\ {Budget, MaxItems, MaxBytes} \subseteq Nat \ {0}
    /\ Applying \subseteq Runs /\ NoRun \notin Runs
    /\ {MaxChanges, MaxFaults} \subseteq Nat

VARIABLES
    availability,   \* blob_catalog: hot, archived, evicted, or not there yet
    free,           \* payloads with no pin and an expired deadline
    disk,           \* the volume is at 80% or more
    runLock,        \* maintenance/.run.lock
    job,            \* per run: where it is, its plan, and what it has applied
    evidence,       \* per process: the report of its last run
    changes, faults,
    appended        \* not in the code: the events that the last run of each appended

store == <<availability, free>>
bounds == <<changes, faults>>
vars == <<store, disk, runLock, job, evidence, bounds, appended>>

NoReport == [status |-> "none"]

StopReasons == {"all_eligible_actions_selected", "max_actions", "max_bytes", "wall_deadline"}

Idle == [pc |-> "idle", plan |-> <<>>, high |-> FALSE, events |-> {}, released |-> 0, stop |-> ""]

Init ==
    /\ availability \in [Blobs -> {"hot", "absent"}]
    /\ free = {b \in Blobs : availability[b] = "hot"}
    /\ disk = FALSE
    /\ runLock = NoRun /\ job = [p \in Runs |-> Idle]
    /\ evidence = [p \in Runs |-> NoReport]
    /\ changes = 0 /\ faults = 0
    /\ appended = [p \in Runs |-> {}]

-----------------------------------------------------------------------------
(* Retention                                                               *)

Total[S \in SUBSET Blobs] ==
    IF S = {} THEN 0 ELSE LET b == CHOOSE b \in S : TRUE IN Size[b] + Total[S \ {b}]

Hot == {b \in Blobs : availability[b] = "hot"}
HotPressure == (Total[Hot] * 10000) \div Budget >= 8000

\* _retention_action: what is archived already is not evicted here.
Eligible == {b \in Hot : b \in free}

\* _plan_retention_locked: the plan records every payload, and its pressure.
Planned ==
    [actions |-> Eligible, catalog |-> availability, pins |-> Blobs \ free, high |-> HotPressure]

Collected(b) == [availability EXCEPT ![b] = IF Disposal[b] = "archive" THEN "archived" ELSE "evicted"]

-----------------------------------------------------------------------------
(* A run                                                                   *)

(* _maintenance_lock.  A run that waits too long ends without a report.    *)
Begin(p) ==
    /\ job[p].pc = "idle" /\ runLock = NoRun
    /\ runLock' = p
    /\ job' = [job EXCEPT ![p].pc = "plan"]
    /\ evidence' = [evidence EXCEPT ![p] = NoReport]
    /\ appended' = [appended EXCEPT ![p] = {}]
    /\ UNCHANGED <<store, disk, bounds>>

StoreFree == \A p \in Runs : job[p].pc # "apply"

Plan(p) ==
    /\ job[p].pc = "plan" /\ StoreFree
    /\ job' = [job EXCEPT ![p].pc = "probe", ![p].plan = <<Planned>>]
    /\ UNCHANGED <<store, disk, runLock, evidence, bounds, appended>>

(* plan.actionable; none before there is a plan. *)
Actions(p) == IF job[p].plan = <<>> THEN {} ELSE job[p].plan[1].actions

(* effective_pressure *)
Probe(p) ==
    /\ job[p].pc = "probe"
    /\ LET high == disk \/ job[p].plan[1].high
           act == high /\ p \in Applying /\ Actions(p) # {}
       IN job' = [job EXCEPT ![p].high = high, ![p].pc = IF act THEN "gate" ELSE "report"]
    /\ UNCHANGED <<store, disk, runLock, evidence, bounds, appended>>

(* A mutant: the plan that was inspected is the one applied, come what may. *)
StaleAccepted(p) == TRUE

(* "retention plan is stale" *)
Current(p) == job[p].plan = <<Planned>>

(* run_gc takes the store lock and keeps it.                               *)
Gate(p) ==
    /\ job[p].pc = "gate" /\ StoreFree
    /\ job' = [job EXCEPT ![p].pc = IF Current(p) THEN "apply" ELSE "failed"]
    /\ UNCHANGED <<store, disk, runLock, evidence, bounds, appended>>

(* Mutants: bytes are counted when they are gone; the limit is exclusive.  *)
FitsLate(p, b) == job[p].released <= MaxBytes
FitsExclusive(p, b) == job[p].released + Size[b] < MaxBytes

Fits(p, b) == job[p].released + Size[b] <= MaxBytes

Left(p) == Actions(p) \ job[p].events

(* The next decision, in the order of the plan.                            *)
IsNext(p, b) == b \in Left(p) /\ \A c \in Left(p) : b <= c

(* Why run_gc stops before the next decision, if it does.                  *)
StopReason(p, why) ==
    \/ why = "all_eligible_actions_selected" /\ Left(p) = {}
    \/ why = "max_actions" /\ Left(p) # {} /\ Cardinality(job[p].events) >= MaxItems
    \/ /\ why = "max_bytes" /\ Cardinality(job[p].events) < MaxItems
       /\ \E b \in Left(p) : IsNext(p, b) /\ ~Fits(p, b)

(* The decision it applies otherwise.                                      *)
Applies(p, b) == IsNext(p, b) /\ Cardinality(job[p].events) < MaxItems /\ Fits(p, b)

Stop(p) ==
    /\ job[p].pc = "apply"
    /\ \E why \in StopReasons :
         /\ StopReason(p, why)
         /\ job' = [job EXCEPT ![p].pc = "report", ![p].stop = why]
    /\ UNCHANGED <<store, disk, runLock, evidence, bounds, appended>>

(* The deadline has passed.                                                *)
Late(p) ==
    /\ job[p].pc = "apply" /\ faults < MaxFaults
    /\ \E b \in Left(p) : Applies(p, b)
    /\ faults' = faults + 1
    /\ job' = [job EXCEPT ![p].pc = "report", ![p].stop = "wall_deadline"]
    /\ UNCHANGED <<store, disk, runLock, evidence, changes, appended>>

(* _apply_retention_decision_locked                                        *)
Collect(p) ==
    /\ job[p].pc = "apply"
    /\ \E b \in Left(p) :
         /\ Applies(p, b)
         /\ availability' = Collected(b)
         /\ appended' = [appended EXCEPT ![p] = @ \cup {b}]
         /\ job' = [job EXCEPT ![p].events = @ \cup {b}, ![p].released = @ + Size[b]]
    /\ UNCHANGED <<free, disk, runLock, evidence, bounds>>

(* An exception, which may come when the event of an action is durable.    *)
(* The report is one of failure.                                           *)
Fail(p) ==
    /\ job[p].pc \in {"plan", "probe", "gate", "apply"} /\ faults < MaxFaults
    /\ faults' = faults + 1
    /\ job' = [job EXCEPT ![p].pc = "failed"]
    /\ \/ UNCHANGED <<store, appended>>
       \/ /\ job[p].pc = "apply"
          /\ \E b \in Left(p) :
               /\ Applies(p, b)
               /\ availability' = Collected(b)
               /\ appended' = [appended EXCEPT ![p] = @ \cup {b}]
          /\ UNCHANGED free
    /\ UNCHANGED <<disk, runLock, evidence, changes>>

(* A mutant: the status tells what was planned.                            *)
StatusByPlan(p) ==
    IF job[p].pc = "failed" THEN "failed"
    ELSE IF ~job[p].high THEN "below_pressure_dry_run"
    ELSE IF p \notin Applying THEN "pressure_dry_run"
    ELSE IF Actions(p) = {} THEN "pressure_no_eligible_items"
    ELSE "pressure_applied"

Status(p) ==
    IF job[p].pc = "failed" THEN "failed"
    ELSE IF ~job[p].high THEN "below_pressure_dry_run"
    ELSE IF p \notin Applying THEN "pressure_dry_run"
    ELSE IF Actions(p) = {} THEN "pressure_no_eligible_items"
    ELSE IF job[p].events # {} THEN "pressure_applied" ELSE "pressure_bounded_noop"

Execution(p) ==
    IF job[p].stop = "" THEN <<>>
    ELSE <<[eligible |-> Cardinality(Actions(p)), events |-> job[p].events,
            released |-> job[p].released, stop |-> job[p].stop]>>

(* _write_evidence: the report is there whole or not at all.               *)
Report(p) ==
    /\ job[p].pc \in {"report", "failed"}
    /\ evidence' = [evidence EXCEPT ![p] =
           [status |-> Status(p), applying |-> p \in Applying, high |-> job[p].high,
            planned |-> Cardinality(Actions(p)),
            execution |-> Execution(p)]]
    /\ job' = [job EXCEPT ![p] = Idle] /\ runLock' = NoRun
    /\ UNCHANGED <<store, disk, bounds, appended>>

(* It is killed, or cannot write its report.                               *)
Die(p) ==
    /\ job[p].pc # "idle" /\ faults < MaxFaults
    /\ faults' = faults + 1
    /\ job' = [job EXCEPT ![p] = Idle] /\ runLock' = NoRun
    /\ UNCHANGED <<store, disk, evidence, changes, appended>>

Step(p) == Plan(p) \/ Probe(p) \/ Gate(p) \/ Stop(p) \/ Collect(p) \/ Report(p)

-----------------------------------------------------------------------------
(* Others                                                                  *)

Change == changes < MaxChanges /\ changes' = changes + 1

\* _enforce_bulk_admission_locked
Admitted(b) == b \in Bulk => Total[Hot \cup {b}] * 10000 < Budget * 9500

(* An event refers to a new payload, or pins or releases one; run_gc by    *)
(* hand; a rehydration: each under the store lock.                         *)
Refer(b) ==
    /\ Change /\ StoreFree /\ availability[b] = "absent" /\ Admitted(b)
    /\ availability' = [availability EXCEPT ![b] = "hot"]
    /\ UNCHANGED <<free, disk, runLock, job, evidence, faults, appended>>

Pin(b) ==
    /\ Change /\ StoreFree /\ availability[b] \in {"hot", "archived"}
    /\ free' = IF b \in free THEN free \ {b} ELSE free \cup {b}
    /\ UNCHANGED <<availability, disk, runLock, job, evidence, faults, appended>>

CollectByHand(b) ==
    /\ Change /\ StoreFree /\ b \in Eligible
    /\ availability' = Collected(b)
    /\ UNCHANGED <<free, disk, runLock, job, evidence, faults, appended>>

Rehydrate(b) ==
    /\ Change /\ StoreFree /\ availability[b] \in {"archived", "evicted"}
    /\ availability' = [availability EXCEPT ![b] = "hot"]
    /\ UNCHANGED <<free, disk, runLock, job, evidence, faults, appended>>

FillDisk ==
    /\ Change /\ disk' = ~disk
    /\ UNCHANGED <<store, runLock, job, evidence, faults, appended>>

Next ==
    \/ \E p \in Runs : Begin(p) \/ Step(p) \/ Late(p) \/ Fail(p) \/ Die(p)
    \/ \E b \in Blobs : Refer(b) \/ Pin(b) \/ CollectByHand(b) \/ Rehydrate(b)
    \/ FillDisk

(* The scheduler starts the run with --apply again and again.              *)
Fairness ==
    /\ \A p \in Applying : SF_vars(Begin(p))
    /\ WF_vars(\E p \in Runs : Step(p))

Spec == Init /\ [][Next]_vars /\ Fairness

-----------------------------------------------------------------------------
(* Properties                                                              *)

(* The run lock is held by the one run that is at work, and no run's       *)
(* actions exceed its limits (MaintenanceLimits).                          *)
TypeOK ==
    /\ availability \in [Blobs -> {"absent", "hot", "archived", "evicted"}]
    /\ free \subseteq Blobs /\ disk \in BOOLEAN
    /\ \A p \in Runs :
         /\ job[p].pc \in {"idle", "plan", "probe", "gate", "apply", "report", "failed"}
         /\ job[p].pc # "idle" <=> runLock = p
         /\ Len(job[p].plan) <= 1 /\ job[p].events \subseteq Actions(p)
         /\ Cardinality(job[p].events) <= MaxItems /\ job[p].released <= MaxBytes
    /\ changes \in 0 .. MaxChanges /\ faults \in 0 .. MaxFaults

\* _validate_dry_run
ValidDryRun(r) == r.planned \in Nat

\* _validate_execution
ValidExecution(r, execution) ==
    /\ execution.eligible = r.planned
    /\ Cardinality(execution.events) <= MaxItems /\ execution.released <= MaxBytes
    /\ execution.stop \in StopReasons

\* "maintenance status contradicts its recorded execution"
StatusHolds(r) ==
    \/ r.status = "below_pressure_dry_run" /\ ~r.high /\ r.execution = <<>>
    \/ r.status = "pressure_dry_run" /\ r.high /\ ~r.applying /\ r.execution = <<>>
    \/ /\ r.status = "pressure_no_eligible_items"
       /\ r.high /\ r.applying /\ r.planned = 0 /\ r.execution = <<>>
    \/ /\ r.status \in {"pressure_applied", "pressure_bounded_noop"}
       /\ r.high /\ r.applying /\ r.execution # <<>>
       /\ r.status = "pressure_applied" <=> r.execution[1].events # {}

\* load_maintenance_evidence
Consistent(r) ==
    \/ r.status = "failed"
    \/ /\ ValidDryRun(r)
       /\ r.execution # <<>> => ValidExecution(r, r.execution[1])
       /\ StatusHolds(r)

(* A report that is not one of failure passes the loader's checks and      *)
(* tells the whole of what its run did to the store: each payload that it  *)
(* archived or evicted, and no other, whatever failed, died or changed     *)
(* before, between or after.                                               *)
EvidenceTruthful ==
    \A p \in Runs : evidence[p].status # "none" =>
        /\ Consistent(evidence[p])
        /\ evidence[p].status # "failed" =>
             appended[p] = IF evidence[p].execution = <<>> THEN {}
                           ELSE evidence[p].execution[1].events

(* A run collects only payloads that are hot, expired and unpinned when it *)
(* does, though it decided on them when the store was not locked.          *)
CollectsEligible ==
    [][\A p \in Runs : \A b \in appended'[p] \ appended[p] : b \in Eligible]_vars

(* Pressure does not last while there is something to collect: stale       *)
(* plans, limits, deadlines, failures and kills delay it, and no more.     *)
UnderPressure == (disk \/ HotPressure) /\ Eligible # {}

PressureRelieved == []<>~UnderPressure
=============================================================================
