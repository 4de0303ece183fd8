---------------------------- MODULE RadarCatalog ----------------------------
(***************************************************************************)
(* The Research Radar's immutable records about ONE version of one paper   *)
(* (src/src/agent_continuity/research_radar.py): its identity and version  *)
(* files, source observations, primary receipts and the hash-chained       *)
(* lifecycle ledger.  Intakes (plan_ingestion, apply_plan) and operators   *)
(* (plan_transition, apply_transition) plan without a lock, and write one  *)
(* file after another; only the ledger is written under a lock.  A process *)
(* may die between any two writes.                                         *)
(*                                                                         *)
(* A digest stands for the content it is of: an event names its            *)
(* predecessor by `prev`, which is that event itself in a sequence of one  *)
(* (<<>> for the first), so that equal digests mean equal histories.       *)
(***************************************************************************)
EXTENDS Integers, Sequences, FiniteSets

CONSTANTS
    Entries,      \* the normalised entries arXiv may return for the version
    Operators,    \* processes that apply lifecycle transitions
    MaxEvents,    \* BOUND: the operators' transitions, as a length of the ledger
    MaxTime,      \* BOUND: the times operators give
    MaxCrashes,   \* BOUND: the intakes that die or fail half way
    MaxAmends,    \* BOUND: the times arXiv changes the entry in place
    MaxResponses, \* BOUND: the different responses arXiv gives
    ReceiptBound  \* the receipts of a version that are read, 100 in the code

ASSUME CatalogAssumption ==
    /\ Entries # {} /\ MaxTime \in Nat /\ MaxCrashes \in Nat /\ MaxAmends \in Nat
    /\ MaxEvents \in Nat
    /\ MaxResponses \in Nat \ {0} /\ ReceiptBound \in Nat

VARIABLES
    disk,         \* the files under the root that are of this version
    arxiv,        \* what an exact-ID request returns now: an entry, in a response
    intake,       \* per intake: the writes it still has to make, and its authority
    decision,     \* per operator: the planned transition, or <<>>
    crashes, amends

vars == <<disk, arxiv, intake, decision, crashes, amends>>

-----------------------------------------------------------------------------
(* The tables of the lifecycle. *)

Statuses ==
    {"new", "metadata_verified", "screened", "evidence_extracted",
     "decision_required", "experiment_candidate", "watch", "deferred",
     "rejected", "reproduced", "failed", "accepted", "inconclusive",
     "evaluator_invalid", "runtime_blocked", "adopted", "superseded"}

Allowed ==
    [s \in Statuses |->
        CASE s = "new" -> {"metadata_verified"}
          [] s = "metadata_verified" -> {"screened"}
          [] s = "screened" -> {"evidence_extracted", "watch", "deferred", "rejected"}
          [] s = "evidence_extracted" -> {"decision_required"}
          [] s = "decision_required" ->
                {"experiment_candidate", "watch", "deferred", "rejected"}
          [] s = "experiment_candidate" ->
                {"accepted", "rejected", "inconclusive", "evaluator_invalid",
                 "runtime_blocked", "reproduced", "failed"}
          [] s = "accepted" -> {"reproduced", "adopted", "superseded"}
          [] s = "inconclusive" -> {"experiment_candidate", "watch", "deferred"}
          [] s = "evaluator_invalid" -> {"experiment_candidate", "deferred"}
          [] s = "runtime_blocked" -> {"experiment_candidate", "watch", "deferred"}
          [] s = "reproduced" -> {"adopted", "failed", "superseded"}
          [] s = "failed" -> {"experiment_candidate", "deferred", "rejected"}
          [] s = "watch" -> {"screened", "evidence_extracted", "deferred", "superseded"}
          [] s = "deferred" -> {"screened", "evidence_extracted", "superseded"}
          [] s = "rejected" -> {"screened", "superseded"}
          [] s = "adopted" -> {"superseded"}
          [] s = "superseded" -> {}]

RevisitRequired ==
    {"watch", "deferred", "rejected", "inconclusive", "evaluator_invalid",
     "runtime_blocked"}

EvidenceRequired ==
    {"accepted", "rejected", "reproduced", "failed", "adopted",
     "evaluator_invalid", "runtime_blocked", "superseded"}

GovernedResults == {"accepted", "reproduced", "failed", "adopted"}

(* A result of an experiment, which version 1 records for nobody. *)
Governed(from, to) ==
    to \in GovernedResults \/ (from = "experiment_candidate" /\ to = "rejected")

-----------------------------------------------------------------------------
(* The files.  An observation, a receipt and an event are stored under a   *)
(* digest of what they say, the version under its number.                  *)

Paper == [kind |-> "paper"]

Version(e) == [kind |-> "version", entry |-> e]

Observation(source, e, n) ==
    [kind |-> "observation", source |-> source, entry |-> e, response |-> n]

(* Bound to the live observation of the same response. *)
Receipt(e, n) == [kind |-> "receipt", entry |-> e, response |-> n]

Event(prev, from, to, at, evidence, revisit) ==
    [kind |-> "lifecycle", seq |-> IF prev = <<>> THEN 1 ELSE prev[1].seq + 1,
     prev |-> prev, from |-> from, to |-> to, at |-> at,
     evidence |-> evidence, revisit |-> revisit]

Initial(e) == Event(<<>>, "none", "new", 0, {e}, FALSE)

MetadataVerified(e, previous) ==
    Event(<<previous>>, "new", "metadata_verified", 0, {e}, FALSE)

Of(kind, files) == {f \in files : f.kind = kind}

(* _validate_planned_write: a file of a plan is what its kind asks for. *)
ValidVersion(f) == f = Version(f.entry) /\ f.entry \in Entries

ValidObservation(f) ==
    /\ f = Observation(f.source, f.entry, f.response)
    /\ f.source \in {"live", "offline"} /\ f.entry \in Entries

WellFormed(f) ==
    \/ f = Paper
    \/ f.kind = "version" /\ ValidVersion(f)
    \/ f.kind = "observation" /\ ValidObservation(f)
    \/ f.kind = "receipt" /\ f = Receipt(f.entry, f.response) /\ f.entry \in Entries
    \/ f.kind = "lifecycle" /\ f.seq >= 1

(* The path is taken by other content. *)
Conflicts(files, i) == i.kind = "version" /\ \E f \in Of("version", files) : f # i

Ledger(files) == Of("lifecycle", files)

(* The last event of a ledger that loads. *)
Last(files) == CHOOSE v \in Ledger(files) : v.seq = Cardinality(Ledger(files))

Current(files) == IF Ledger(files) = {} THEN "none" ELSE Last(files).to

-----------------------------------------------------------------------------
(* What load_lifecycle accepts. *)

(* A receipt of the entry, and the live observation it is bound to. *)
HasAuthority(files, e) ==
    \E f \in Of("receipt", files) :
        f.entry = e /\ Observation("live", e, f.response) \in files

(* More receipts than anyone who looks for authority will read. *)
Overfull(files) == Cardinality(Of("receipt", files)) > ReceiptBound

(* The event may follow `prev`; `primary`: whether the verification of the *)
(* metadata has authority.                                                 *)
ValidEvent(v, prev, primary) ==
    /\ v.prev = prev
    /\ IF prev = <<>>
         THEN v.from = "none" /\ v.to = "new"
         ELSE /\ v.from = prev[1].to
              /\ v.to \in Allowed[v.from]
              /\ v.to = "metadata_verified" => primary
              /\ ~Governed(v.from, v.to)
              /\ v.at >= prev[1].at
    /\ v.to \in RevisitRequired => v.revisit
    /\ v.to \in EvidenceRequired => v.evidence # {}

(* The names of the files, sorted, count 1, 2, 3, ... (up to 9999, where   *)
(* names still sort as numbers), and each event is a valid successor of    *)
(* the one before it.                                                      *)
Consistent(files, unresolved) ==
    LET events == Ledger(files) IN
    /\ events # {} => Of("version", files) # {}
    /\ \A k \in 1 .. Cardinality(events) : \E v \in events : v.seq = k
    /\ \A v \in events :
         /\ v.prev # <<>> => v.prev[1] \in events
         /\ ValidEvent(v, v.prev,
                unresolved \/ \E e \in v.evidence : HasAuthority(files, e))

(* Authority is looked for where a verification is read, and then too many *)
(* receipts are an error.                                                  *)
Loads(files, unresolved) ==
    /\ Consistent(files, unresolved)
    /\ unresolved \/ ~Overfull(files)
         \/ \A v \in Ledger(files) : v.to # "metadata_verified"

-----------------------------------------------------------------------------
(* Intake: plan_ingestion, then apply_plan. *)

Intakes == {"live", "offline"}

Idle == [writes |-> {}, authority |-> {}, checked |-> FALSE]

(* A mutant: what a file says of itself is believed. *)
AuthorityClaimed(i, e) == {e}

(* A receipt is minted for the response of an exact-ID request only. *)
Authority(i, e) == IF i = "live" THEN {e} ELSE {}

(* A mutant: a version whose first event is there counts as taken in. *)
PlannedEventsOnce(i, e) ==
    {Initial(e)}
    \cup IF i = "live" /\ Ledger(disk) = {}
           THEN {MetadataVerified(e, Initial(e))}
           ELSE {}

(* The events an intake of e plans on top of what it finds.  Only a live   *)
(* intake verifies, and only while nothing beyond "new" is recorded.       *)
PlannedEvents(i, e) ==
    {Initial(e)}
    \cup IF i = "live" /\ Current(disk) \in {"none", "new"}
           THEN {MetadataVerified(e,
                    IF Initial(e) \in disk THEN Last(disk) ELSE Initial(e))}
           ELSE {}

(* A live intake reads arXiv, an offline one any Atom file. *)
Fetched(i, e) == i = "live" => e = arxiv.entry

(* A record of each response: their digests tell them apart. *)
PlannedFiles(i, e) ==
    {Paper, Version(e)}
    \cup IF i = "live"
           THEN {Observation(i, e, arxiv.response), Receipt(e, arxiv.response)}
           ELSE {Observation(i, e, 0)}

PlanIntake(i, e) ==
    LET files == PlannedFiles(i, e)
    IN
    /\ intake[i] = Idle
    /\ Fetched(i, e)
    /\ \A f \in files : ~Conflicts(disk, f)
    /\ \A v \in Ledger(disk) : v.seq = 1 => v = Initial(e)
    /\ (i = "live" /\ Initial(e) \in disk) => Loads(disk, TRUE)
    /\ \A v \in Ledger(disk), w \in PlannedEvents(i, e) :
            (v.seq = 2 /\ w.seq = 2) => v = w
    /\ intake' = [intake EXCEPT ![i] =
            [writes |-> files \cup PlannedEvents(i, e),
             authority |-> Authority(i, e),
             checked |-> FALSE]]
    /\ UNCHANGED <<disk, arxiv, decision, crashes, amends>>

(* _plan_primary_authority: live authority is about an observation and a   *)
(* receipt of the same plan.                                               *)
Bound(i) == \A e \in intake[i].authority : HasAuthority(intake[i].writes, e)

(* _preflight_lifecycle_plan: the planned events that are not there yet    *)
(* must extend the ledger as it is now.                                    *)
Preflight(i) ==
    LET a       == intake[i].authority
        missing == Ledger(intake[i].writes) \ disk
        after   == disk \cup intake[i].writes
        old     == Ledger(disk)
    IN
    /\ Bound(i)
    /\ \A f \in intake[i].writes : WellFormed(f) /\ ~Conflicts(disk, f)
    /\ Loads(disk, a # {})
    /\ a # {} => \A v \in old : v.seq = 2 => v.evidence = a
    /\ \A v \in missing :
         /\ \A w \in old : v.seq # w.seq
         /\ v.to = "metadata_verified" => v.evidence = a
         /\ v.seq = 1 \/ v.prev[1] \in after

Checked(i) ==
    /\ intake[i].writes # {} /\ ~intake[i].checked
    /\ intake' = IF Preflight(i) THEN [intake EXCEPT ![i].checked = TRUE]
                                 ELSE [intake EXCEPT ![i] = Idle]
    /\ UNCHANGED <<disk, arxiv, decision, crashes, amends>>

(* A mutant: files are written in the order of their kinds' names. *)
RankByName(f) ==
    CASE f.kind = "lifecycle" -> f.seq
      [] f.kind = "observation" -> 3
      [] f.kind = "paper" -> 4
      [] f.kind = "version" -> 5
      [] f.kind = "receipt" -> 6

(* _WRITE_PRIORITY: what an event rests on is written before it. *)
Rank(f) ==
    CASE f.kind = "paper" -> 0
      [] f.kind = "version" -> 1
      [] f.kind = "observation" -> 2
      [] f.kind = "receipt" -> 3
      [] f.kind = "lifecycle" -> 3 + f.seq

(* _apply_lifecycle_write, under the ledger's lock: the event is there, or *)
(* it is the valid successor of the last one.  `a`: the entries the        *)
(* process has live authority for.                                         *)
MayAppend(v, a) ==
    /\ Loads(disk, FALSE)
    /\ \/ v \in disk
       \/ /\ v.seq = Cardinality(Ledger(disk)) + 1
          /\ ValidEvent(v, IF Ledger(disk) = {} THEN <<>> ELSE <<Last(disk)>>,
                /\ v.evidence = a
                /\ \E f \in Of("version", disk) :
                        v = MetadataVerified(f.entry, Last(disk)))

(* _write_immutable: a file is created whole, and never replaced. *)
Stored(f) == IF Conflicts(disk, f) THEN disk ELSE disk \cup {f}

(* One write of the plan; a conflict ends the intake.  The ledger is read  *)
(* once more after an event is written, and no write comes after the event *)
(* at which that can fail.                                                 *)
Write(i) ==
    LET f == CHOOSE g \in intake[i].writes :
                \A h \in intake[i].writes : Rank(g) <= Rank(h)
        good == /\ ~Conflicts(disk, f)
                /\ f.kind = "lifecycle" => MayAppend(f, intake[i].authority)
        left == intake[i].writes \ {f}
    IN
    /\ intake[i].checked
    /\ disk' = IF good THEN Stored(f) ELSE disk
    /\ intake' = [intake EXCEPT ![i] =
            IF good /\ left # {} THEN [@ EXCEPT !.writes = left] ELSE Idle]
    /\ UNCHANGED <<arxiv, decision, crashes, amends>>

(* The process dies: the plan is gone, what it wrote stays. *)
Crash(i) ==
    /\ intake[i] # Idle /\ crashes < MaxCrashes
    /\ intake' = [intake EXCEPT ![i] = Idle]
    /\ crashes' = crashes + 1
    /\ UNCHANGED <<disk, arxiv, decision, amends>>

-----------------------------------------------------------------------------
(* Operators: plan_transition, and later apply_transition.  An operator    *)
(* gives the evidence and the trigger the status asks for: a plan without  *)
(* them is refused, and changes nothing.                                   *)

PlanTransition(o) ==
    /\ decision[o] = <<>>
    /\ Cardinality(Ledger(disk)) \in 1 .. MaxEvents - 1
    /\ Loads(disk, FALSE)
    /\ \E to \in Allowed[Current(disk)] \ {"metadata_verified"}, at \in Last(disk).at .. MaxTime :
         /\ ~Governed(Current(disk), to)
         /\ decision' = [decision EXCEPT ![o] =
                <<Event(<<Last(disk)>>, Current(disk), to, at,
                        IF to \in EvidenceRequired THEN Entries ELSE {},
                        to \in RevisitRequired)>>]
    /\ UNCHANGED <<disk, arxiv, intake, crashes, amends>>

(* The plan is applied to a ledger that is as it was planned on, or        *)
(* refused.                                                                *)
ApplyTransition(o) ==
    /\ decision[o] # <<>>
    /\ LET v == decision[o][1]
           fresh == Current(disk) = v.from
       IN disk' = IF fresh /\ MayAppend(v, {}) THEN Stored(v) ELSE disk
    /\ decision' = [decision EXCEPT ![o] = <<>>]
    /\ UNCHANGED <<arxiv, intake, crashes, amends>>

-----------------------------------------------------------------------------
(* arXiv answers with new bytes (a feed has the time it is of), and may    *)
(* have corrected the metadata of the version in place.                    *)
Answer(e) ==
    /\ arxiv.response < MaxResponses
    /\ e # arxiv.entry => amends < MaxAmends
    /\ arxiv' = [entry |-> e, response |-> arxiv.response + 1]
    /\ amends' = IF e # arxiv.entry THEN amends + 1 ELSE amends
    /\ UNCHANGED <<disk, intake, decision, crashes>>

Init ==
    /\ disk = {}
    /\ arxiv \in [entry : Entries, response : {1}]
    /\ intake = [i \in Intakes |-> Idle]
    /\ decision = [o \in Operators |-> <<>>]
    /\ crashes = 0 /\ amends = 0

Next ==
    \/ \E i \in Intakes, e \in Entries : PlanIntake(i, e)
    \/ \E i \in Intakes : Checked(i) \/ Write(i) \/ Crash(i)
    \/ \E o \in Operators : PlanTransition(o) \/ ApplyTransition(o)
    \/ \E e \in Entries : Answer(e)

(* The daily task plans an intake again and again, and a process that runs *)
(* goes on.  Nobody has to make an offline intake or a decision.           *)
Fairness ==
    /\ WF_vars(\E e \in Entries : PlanIntake("live", e))
    /\ \A i \in Intakes : WF_vars(Checked(i) \/ Write(i))

Spec == Init /\ [][Next]_vars /\ Fairness

-----------------------------------------------------------------------------
(* Types: files, plans and counters are of their sets.                     *)
TypeOK ==
    /\ \A f \in disk : f.kind \in {"paper", "version", "observation", "receipt", "lifecycle"}
    /\ \A v \in Ledger(disk) : v.to \in Statuses /\ v.at \in 0 .. MaxTime /\ v.seq >= 1
    /\ arxiv \in [entry : Entries, response : 1 .. MaxResponses]
    /\ \A i \in Intakes :
         /\ intake[i].authority \subseteq Entries /\ intake[i].checked \in BOOLEAN
         /\ i = "offline" => intake[i].authority = {}
    /\ \A o \in Operators : Len(decision[o]) <= 1
    /\ crashes \in 0 .. MaxCrashes /\ amends \in 0 .. MaxAmends

(* research_radar.py load_lifecycle: whatever intakes and operators do at  *)
(* once, and wherever one dies, the ledger does not fork or skip a number, *)
(* every event follows the one it was decided on, and a verification has   *)
(* its receipt and observation on disk.  So it loads, unless there are     *)
(* more receipts than the reader takes: the code has no bound on those it  *)
(* writes.                                                                 *)
LedgerLoads ==
    Consistent(disk, FALSE) /\ (Loads(disk, FALSE) \/ Overfull(disk))

(* The version on disk, once written, is what live intake will not change: *)
(* a later correction at arXiv conflicts with it.                          *)
Conflicted == Version(arxiv.entry) \notin disk /\ Of("version", disk) # {}

(* research_radar.py apply_plan: an intake that dies half way is completed *)
(* by a later one, so that the version ends verified, unless arXiv no      *)
(* longer says what was recorded first.                                    *)
IntakeConverges ==
    <>[](Conflicted \/ (Ledger(disk) # {} /\ Current(disk) # "new"))
=============================================================================
