--------------------------- MODULE BlobRetention ---------------------------
(***************************************************************************)
(* The life of one content-addressed payload of MemoryStore: written hot   *)
(* by the events that reference it, archived or evicted by run_gc() once   *)
(* the tasks that reference it are over, brought back by rehydrate_blob(). *)
(* Its state is spread over files (hot blob, archives, tombstones, staged  *)
(* bytes), the event log and the blob_catalog row of the projection, and   *)
(* every operation changes them one by one, so that a process may fail     *)
(* between any two steps; the constructor repairs what it left, under a    *)
(* lock it takes three times (recover, replay, reconcile).                 *)
(*                                                                         *)
(* A tombstone is identified by the plan that decided it: run_gc() derives *)
(* session and event ids, and through them the file name, from the plan's  *)
(* digest.  A stage, and the rehydration it belongs to, is identified by   *)
(* the tombstone it answers.  Every reference uses one retention class.    *)
(***************************************************************************)
EXTENDS Naturals, FiniteSets, FiniteSetsExt

CONSTANTS
    Tasks,             \* tasks whose events reference the payload
    Classes,           \* retention classes to consider
    HotTTL,            \* SCRATCH/BULK/EVIDENCE_HOT_SECONDS
    ArchiveTTL,        \* BULK_ARCHIVE_SECONDS
    MaxTime,           \* bound: clock
    MaxEvents,         \* bound: events about this payload
    ArchiveExpires,    \* GC also runs past the deadline of an archived payload
    ReuseAfterGC,      \* the payload is referenced again after a GC of it
    LiveAfterFailure,  \* others go on before a failed store is reopened
    NoPlan,            \* nobody holds a plan; the first tombstone's NULL
    Failed             \* the outcome of a replay that raises

ASSUME BlobRetentionAssumption ==
    /\ Classes \subseteq {"scratch", "bulk", "evidence"}
    /\ {HotTTL, ArchiveTTL, MaxEvents} \subseteq Nat /\ MaxTime \in Nat \ {0}
    /\ {ArchiveExpires, ReuseAfterGC, LiveAfterFailure} \subseteq BOOLEAN

VARIABLES
    now,        \* wall clock, for occurred_at and observed_at
    class,      \* retention_class of the payload's references
    events,     \* the durable events about the payload, numbered by append
    projected,  \* those of them that have an event_index row
    cat,        \* the blob_catalog row: availability and expires_at
    hot,        \* blobs/sha256/.. exists
    archives,   \* archive/.. files, by the plan that wrote them
    tombs,      \* retention/tombstones/.. files
    stages,     \* retention/rehydration/.. files, by tombstone
    plan,       \* the RetentionPlan a caller has obtained
    pc,         \* step of the operation that holds the store lock
    prior,      \* the predecessor tombstone that operation has read
    opener,     \* how far a constructor has come
    failed      \* a writer failed and the store was not reopened since

diskVars == <<events, hot, archives, tombs, stages>>
opVars == <<plan, pc, prior>>
vars == <<now, class, events, projected, cat, hot, archives, tombs, stages,
          plan, pc, prior, opener, failed>>

GCSteps == {"planned", "packed", "receipted", "logged", "applied", "tidying"}
RehydrateSteps == {"staged", "announced", "promoted"}

\* What a plan records of the payload; expires = 0 stands for NULL.
Plans == [at : 1..MaxTime, avail : {"hot", "archived", "evicted"},
          refs : SUBSET (1..MaxEvents), pinned : BOOLEAN, cited : BOOLEAN,
          expires : 0..(MaxTime + HotTTL + ArchiveTTL),
          action : {"keep", "archive", "evict"}]

\* A row of blob_catalog.
Rows == [avail : {"none", "hot", "archived", "evicted"},
         expires : 0..(MaxTime + HotTTL + ArchiveTTL)]

ASSUME MarkersAssumption == NoPlan \notin Plans /\ Failed \notin Rows

TypeOK ==
    /\ now \in 1..MaxTime
    /\ class \in Classes
    /\ {e.n : e \in events} = 1..Cardinality(events)
    /\ Cardinality(events) <= MaxEvents
    /\ projected \subseteq events
    /\ cat \in Rows
    /\ hot \in BOOLEAN
    /\ archives \subseteq Plans
    /\ \A t \in tombs : t.id \in Plans /\ t.prev \in Plans \cup {NoPlan}
    /\ stages \subseteq {t.id : t \in tombs}
    /\ plan \in Plans \cup {NoPlan}
    /\ pc \in {"idle"} \cup GCSteps \cup RehydrateSteps
    /\ prior \in Plans \cup {NoPlan}
    /\ opener \in {"none", "recovered", "replayed"}
    /\ failed \in BOOLEAN

NoRow == [avail |-> "none", expires |-> 0]

Init ==
    /\ now = 1
    /\ class \in Classes
    /\ events = {} /\ projected = {}
    /\ cat = NoRow
    /\ hot = FALSE
    /\ archives = {} /\ tombs = {} /\ stages = {}
    /\ plan = NoPlan /\ pc = "idle" /\ prior = NoPlan
    /\ opener = "none"
    /\ failed = FALSE

-----------------------------------------------------------------------------
(* What events say.  P is a set of events.                                 *)

Of(P, type) == {e \in P : e.type = type}
Refs(P) == Of(P, "reference")
Terminal(P, t) == \E e \in Of(P, "terminal") : e.task = t
Lifecycle(P) == Of(P, "action") \cup Of(P, "rehydrated")
HasAction(P, id) == \E e \in Of(P, "action") : e.id = id
Rehydrated(id) == \E e \in Of(events, "rehydrated") : e.id = id

\* The source_event_ids of a plan or receipt.
Sources(P) == {e.n : e \in Refs(P)}

\* _blob_pin_reasons: an active task or a production claim.
Pinned(P) ==
    \/ \E e \in Refs(P) : ~Terminal(P, e.task)
    \/ Of(P, "claim") # {}
Cited(P) == Of(P, "cited") # {}

\* _tombstone_path without an event id: the latest decision wins.
Latest == CHOOSE t \in tombs : \A u \in tombs : u.id.at <= t.id.at

\* _read_blob: the hot file, else what the latest tombstone says.
InArchive == tombs # {} /\ Latest.id.action = "archive" /\ Latest.id \in archives
Readable == hot \/ InArchive

-----------------------------------------------------------------------------
(* The reducers                                                            *)

\* Once every task that references the payload has ended.
Deadline(P) ==
    LET tasks == {e.task : e \in Refs(P)}
        ends == {e.at : e \in {f \in Of(P, "terminal") : f.task \in tasks}}
    IN  IF \A t \in tasks : Terminal(P, t) THEN Max(ends) + HotTTL ELSE 0

\* _refresh_blob_deadline: only a hot payload has one.
Refreshed(row, P) ==
    IF row.avail = "hot" THEN [row EXCEPT !.expires = Deadline(P)] ELSE row

\* What the action of plan id makes of the row.
Acted(id) ==
    [avail |-> IF id.action = "archive" THEN "archived" ELSE "evicted",
     expires |-> IF id.action = "archive" /\ class = "bulk"
                 THEN id.at + ArchiveTTL ELSE 0]

\* _has_later_blob_lifecycle_event for a rehydration.
Superseded(r) ==
    \/ \E t \in tombs : t.prev = r.id
    \/ \E e \in Lifecycle(events) : e.n > r.n

\* Whether the bytes are there for a rehydration that must promote them.
Promotable(r) == Superseded(r) \/ hot \/ r.id \in stages

\* What event e makes of the row; P is what is projected before it.
Apply(row, P, e) ==
    CASE e.type = "reference" ->
           Refreshed([row EXCEPT !.avail = IF @ = "none" THEN "hot" ELSE @],
                     P \cup {e})
      [] e.type = "terminal" ->
           IF Terminal(P, e.task) THEN Failed ELSE Refreshed(row, P \cup {e})
      [] e.type \in {"cited", "claim"} ->
           IF Refs(P) = {} THEN Failed ELSE row
      [] e.type = "action" ->
           IF row.avail # "none" /\ \E t \in tombs : t.id = e.id
           THEN Acted(e.id) ELSE Failed
      [] e.type = "rehydrated" ->
           IF row.avail = "evicted" /\ Sources(P) = e.id.refs /\ Promotable(e)
           THEN Refreshed([row EXCEPT !.avail = "hot"], P) ELSE Failed

\* _projection_order: references, terminals, citations, then the life cycle.
Rank(e) == CASE e.type = "reference"         -> 1
             [] e.type = "terminal"          -> 2
             [] e.type \in {"cited", "claim"} -> 3
             [] OTHER                        -> 4
Precedes(e, f) == Rank(e) < Rank(f) \/ (Rank(e) = Rank(f) /\ e.n < f.n)
LastOf(S) == CHOOSE e \in S : \A f \in S \ {e} : Precedes(f, e)

\* The row after applying what is missing on top of P, in one transaction:
\* the first event that is refused undoes them all.
Replayed(row, P) ==
    LET missing == events \ P
        after[S \in SUBSET missing] ==
          IF S = {} THEN row
          ELSE LET last == LastOf(S)
                   before == after[S \ {last}]
               IN  IF before = Failed THEN Failed
                   ELSE Apply(before, P \cup (S \ {last}), last)
    IN  after[missing]

-----------------------------------------------------------------------------
(* append() of the events that reference, cite, claim or end               *)

Free == pc = "idle" /\ (LiveAfterFailure \/ ~failed)

\* Something failed.  Unless others go on, no constructor under way does.
Fail ==
    /\ failed' = TRUE
    /\ opener' = IF LiveAfterFailure THEN opener ELSE "none"

\* Mutant of Number: counted from zero.
NumberFromZero == Cardinality(events)

\* The event that an append adds, and the one the last append added.
Number == Cardinality(events) + 1
Newest == CHOOSE e \in events : e.n = Cardinality(events)

\* The event becomes durable and is projected, or the process fails between.
Record(e) ==
    /\ e.n <= MaxEvents
    /\ events' = events \cup {e}
    /\ \/ /\ projected' = projected \cup {e}
          /\ cat' = Apply(cat, projected, e)
          /\ UNCHANGED <<opener, failed>>
       \/ Fail /\ UNCHANGED <<projected, cat>>

\* The segment of the task's session has no durable unprojected tail.
TailProjected(t) ==
    \A e \in events \ projected :
        e.type \in {"reference", "terminal"} => e.task # t

\* The blob is written before the event that names it.
AddReference(t) ==
    /\ Free
    /\ cat.avail # "evicted"
    /\ ReuseAfterGC \/ tombs = {}
    /\ TailProjected(t)
    /\ hot' = TRUE
    /\ \/ Record([n |-> Number, type |-> "reference", task |-> t])
       \/ Fail /\ UNCHANGED <<events, projected, cat>>
    /\ UNCHANGED <<now, class, archives, tombs, stages, opVars>>

EndTask(t) ==
    /\ Free
    /\ TailProjected(t)
    /\ ~Terminal(projected, t)
    /\ Record([n |-> Number, type |-> "terminal", task |-> t, at |-> now])
    /\ UNCHANGED <<now, class, hot, archives, tombs, stages, opVars>>

\* retention/cited and production/claim; one of each is enough.
Cite(type) ==
    /\ Free
    /\ Refs(projected) # {}
    /\ Of(events, type) = {}
    /\ Record([n |-> Number, type |-> type])
    /\ UNCHANGED <<now, class, hot, archives, tombs, stages, opVars>>

-----------------------------------------------------------------------------
(* plan_retention() and run_gc(apply=True)                                 *)

\* _retention_action
ActionAt(t) ==
    IF \/ cat.avail = "evicted"
       \/ Pinned(projected)
       \/ cat.expires = 0
       \/ t < cat.expires
    THEN "keep"
    ELSE IF cat.avail = "archived" THEN IF class = "bulk" THEN "evict" ELSE "keep"
    ELSE CASE class = "scratch"  -> "evict"
           [] class = "evidence" -> "archive"
           [] class = "bulk"     -> IF Cited(projected) THEN "archive" ELSE "evict"

PlanAt(t) ==
    [at |-> t, avail |-> cat.avail, refs |-> Sources(projected),
     pinned |-> Pinned(projected), cited |-> Cited(projected),
     expires |-> cat.expires, action |-> ActionAt(t)]

\* The clock moves on between a decision and the next plan.
PlanRetention ==
    /\ Free
    /\ cat.avail # "none"
    /\ \A t \in tombs : t.id.at < now
    /\ cat.avail = "archived" => ArchiveExpires \/ ActionAt(now) = "keep"
    /\ plan' = PlanAt(now)
    /\ UNCHANGED <<now, class, diskVars, projected, cat, pc, prior, opener, failed>>

\* Mutant of StartGC: the plan is applied as it was approved.
StartGCOnStalePlan ==
    /\ Free
    /\ plan # NoPlan
    /\ plan.action # "keep"
    /\ Readable
    /\ prior' = IF tombs = {} THEN NoPlan ELSE Latest.id
    /\ pc' = "planned"
    /\ UNCHANGED <<now, class, diskVars, projected, cat, plan, opener, failed>>

\* The plan is recomputed for its own observed_at and must be the same.
StartGC ==
    /\ Free
    /\ plan # NoPlan
    /\ plan = PlanAt(plan.at)
    /\ IF plan.action = "keep"
       THEN pc' = "tidying" /\ UNCHANGED prior
       ELSE /\ Readable
            /\ prior' = IF tombs = {} THEN NoPlan ELSE Latest.id
            /\ pc' = "planned"
    /\ UNCHANGED <<now, class, diskVars, projected, cat, plan, opener, failed>>

WriteArchive ==
    /\ pc = "planned"
    /\ archives' = IF plan.action = "archive" THEN archives \cup {plan}
                                              ELSE archives
    /\ pc' = "packed"
    /\ UNCHANGED <<now, class, events, hot, tombs, stages, projected, cat,
                   plan, prior, opener, failed>>

\* Mutant of WriteTombstone: it forgets its predecessor.
WriteTombstoneUnchained ==
    /\ pc = "packed"
    /\ tombs' = tombs \cup {[id |-> plan, prev |-> NoPlan]}
    /\ pc' = "receipted"
    /\ UNCHANGED <<now, class, events, hot, archives, stages, projected, cat,
                   plan, prior, opener, failed>>

\* An existing tombstone of this plan must be the same, byte for byte.
WriteTombstone ==
    /\ pc = "packed"
    /\ LET t == [id |-> plan, prev |-> prior]
       IN  /\ \A u \in tombs : u.id = t.id => u = t
           /\ tombs' = tombs \cup {t}
    /\ pc' = "receipted"
    /\ UNCHANGED <<now, class, events, hot, archives, stages, projected, cat,
                   plan, prior, opener, failed>>

\* The plan's own segment and event id are new.
LogAction ==
    /\ pc = "receipted"
    /\ ~HasAction(events, plan)
    /\ Number <= MaxEvents
    /\ events' = events \cup {[n |-> Number, type |-> "action", id |-> plan]}
    /\ pc' = "logged"
    /\ UNCHANGED <<now, class, hot, archives, tombs, stages, projected, cat,
                   plan, prior, opener, failed>>

\* Mutant of ProjectAction: the deadline of the hot payload stays.
ProjectActionPartly ==
    /\ pc = "logged"
    /\ cat' = [cat EXCEPT !.avail = Apply(cat, projected, Newest).avail]
    /\ projected' = projected \cup {Newest}
    /\ pc' = "applied"
    /\ UNCHANGED <<now, class, diskVars, plan, prior, opener, failed>>

ProjectAction ==
    /\ pc = "logged"
    /\ cat' = Apply(cat, projected, Newest)
    /\ projected' = projected \cup {Newest}
    /\ pc' = "applied"
    /\ UNCHANGED <<now, class, diskVars, plan, prior, opener, failed>>

\* The old copy goes: the hot file, or the archive of the prior tombstone.
Unlink ==
    /\ pc = "applied"
    /\ hot' = (hot /\ plan.avail = "archived")
    /\ archives' = IF plan.avail = "archived" THEN archives \ {prior}
                                              ELSE archives
    /\ pc' = "tidying"
    /\ UNCHANGED <<now, class, events, tombs, stages, projected, cat,
                   plan, prior, opener, failed>>

\* Mutants of Reconciled: archives go with any receipt, or nothing goes.
ReconciledTooFar ==
    /\ hot' = (hot /\ cat.avail \notin {"archived", "evicted"})
    /\ archives' = IF cat.avail \in {"archived", "evicted"}
                   THEN archives \ {t.id : t \in tombs} ELSE archives
ReconciledNothing == UNCHANGED <<hot, archives>>

\* _reconcile_retention_files_locked: finish the removals of projected events.
Reconciled ==
    /\ cat.avail \in {"archived", "evicted"} =>
         HasAction(projected, Latest.id)
    /\ hot' = (hot /\ cat.avail \notin {"archived", "evicted"})
    /\ archives' = IF cat.avail \in {"archived", "evicted"}
                        /\ Latest.id.action = "evict"
                   THEN archives \ {t.id : t \in tombs} ELSE archives

TidyUp ==
    /\ pc = "tidying"
    /\ Reconciled
    /\ pc' = "idle" /\ prior' = NoPlan
    /\ UNCHANGED <<now, class, events, tombs, stages, projected, cat,
                   plan, opener, failed>>

-----------------------------------------------------------------------------
(* rehydrate_blob()                                                        *)

\* Mutant of StageRehydration: the event first, the bytes later.
RehydrateWithoutStage ==
    /\ Free
    /\ cat.avail = "evicted"
    /\ Latest.id.refs = Sources(projected)
    /\ prior' = Latest.id
    /\ pc' = "staged"
    /\ UNCHANGED <<now, class, diskVars, projected, cat, plan, opener, failed>>

\* The identities observed by the caller match, and the bytes are staged.
StageRehydration ==
    /\ Free
    /\ cat.avail = "evicted"
    /\ Latest.id.action = "evict"
    /\ Latest.id.refs = Sources(projected)
    /\ prior' = Latest.id
    /\ stages' = stages \cup {Latest.id}
    /\ pc' = "staged"
    /\ UNCHANGED <<now, class, events, hot, archives, tombs, projected, cat,
                   plan, opener, failed>>

LogRehydration ==
    /\ pc = "staged"
    /\ ~Rehydrated(prior)
    /\ Number <= MaxEvents
    /\ events' = events \cup {[n |-> Number, type |-> "rehydrated", id |-> prior]}
    /\ pc' = "announced"
    /\ UNCHANGED <<now, class, hot, archives, tombs, stages, projected, cat,
                   plan, prior, opener, failed>>

\* os.replace(stage, hot), inside the projection's open transaction.
Promote ==
    /\ pc = "announced"
    /\ hot' = TRUE
    /\ stages' = stages \ {prior}
    /\ pc' = "promoted"
    /\ UNCHANGED <<now, class, events, archives, tombs, projected, cat,
                   plan, prior, opener, failed>>

ProjectRehydration ==
    /\ pc = "promoted"
    /\ cat' = Apply(cat, projected, Newest)
    /\ projected' = projected \cup {Newest}
    /\ pc' = "idle" /\ prior' = NoPlan
    /\ UNCHANGED <<now, class, diskVars, plan, opener, failed>>

\* The operation raises, or its process dies, before the next step; a
\* rehydration that raises before its event is durable removes its stage.
Abandon ==
    /\ pc # "idle"
    /\ pc' = "idle" /\ prior' = NoPlan
    /\ stages' \in IF pc = "staged" /\ ~Rehydrated(prior)
                   THEN {stages, stages \ {prior}} ELSE {stages}
    /\ Fail
    /\ UNCHANGED <<now, class, events, hot, archives, tombs, projected, cat, plan>>

-----------------------------------------------------------------------------
(* The constructor                                                         *)

\* Mutant of Orphans: whatever has no index row counts as never logged.
OrphansUnprojected ==
    [tombs |-> {t \in tombs : ~HasAction(projected, t.id)},
     archives |-> {a \in archives : ~HasAction(projected, a)},
     stages |-> {s \in stages : ~Rehydrated(s) \/ hot}]

\* Receipts and stages whose event never became durable, archives that no
\* remaining receipt names, and stages whose bytes are already hot.
Orphans ==
    [tombs |-> {t \in tombs : ~HasAction(events, t.id)},
     archives |-> {a \in archives : ~HasAction(events, a)},
     stages |-> {s \in stages : ~Rehydrated(s) \/ hot}]

\* "tombstone archive locator", must_exist
ReceiptsHaveArchives ==
    \A t \in tombs :
        HasAction(events, t.id) /\ t.id.action = "archive" => t.id \in archives

\* The constructor of a new process, or it dies after some of the removals.
Recover ==
    /\ pc = "idle"
    /\ ReceiptsHaveArchives
    /\ \/ /\ tombs' = tombs \ Orphans.tombs
          /\ archives' = archives \ Orphans.archives
          /\ stages' = stages \ Orphans.stages
          /\ opener' = "recovered"
          /\ UNCHANGED failed
       \/ \E gone \in SUBSET Orphans.tombs, lost \in SUBSET Orphans.archives :
            /\ archives \cap {t.id : t \in gone} \subseteq lost
            /\ tombs' = tombs \ gone
            /\ archives' = archives \ lost
            /\ Fail
            /\ UNCHANGED stages
    /\ UNCHANGED <<now, class, events, hot, projected, cat, opVars>>

\* Receipts whose event is durable: the ones recovery keeps.
Receipts == {t \in tombs : HasAction(events, t.id)}

\* _verify_locked: the receipts are one chain from one root.
Chain(R) ==
    LET Children(id) == {t \in R : t.prev = id}
    IN  /\ R # {} => Cardinality(Children(NoPlan)) = 1
        /\ \A t \in R : Cardinality(Children(t.id)) <= 1
        /\ \A t \in R : t.prev = NoPlan \/ \E u \in R : u.id = t.prev

\* _verify_locked: each payload is readable or evicted with a receipt, and
\* the latest rehydration still has its bytes.
PayloadPresent(R) ==
    /\ Refs(events) # {} =>
         \/ hot
         \/ \E t \in R : /\ \A u \in R : u.id.at <= t.id.at
                         /\ t.id.action = "archive" => t.id \in archives
    /\ \A r \in Of(events, "rehydrated") :
         \/ hot
         \/ r.id \in stages
         \/ \E t \in R : t.prev = r.id
         \/ \E e \in Lifecycle(events) : e.n > r.n

\* Staged bytes move in place as their events are applied; if the transaction
\* is lost, the move is not.
Replay ==
    /\ pc = "idle" /\ opener = "recovered"
    /\ Receipts = tombs /\ Chain(tombs) /\ PayloadPresent(tombs)
    /\ Replayed(cat, projected) # Failed
    /\ LET promoted == {r \in Of(events \ projected, "rehydrated") :
                          ~Superseded(r)}
       IN  /\ hot' = (hot \/ promoted # {})
           /\ stages' = stages \ {r.id : r \in promoted}
    /\ \/ /\ cat' = Replayed(cat, projected)
          /\ projected' = events
          /\ opener' = "replayed"
          /\ UNCHANGED failed
       \/ Fail /\ UNCHANGED <<cat, projected>>
    /\ UNCHANGED <<now, class, events, archives, tombs, opVars>>

\* reconcile_retention(): the store is open.
FinishOpen ==
    /\ pc = "idle" /\ opener = "replayed"
    /\ Reconciled
    /\ opener' = "none"
    /\ failed' = FALSE
    /\ UNCHANGED <<now, class, events, tombs, stages, projected, cat, opVars>>

\* The clock is read between operations only.
Tick ==
    /\ pc = "idle"
    /\ now < MaxTime
    /\ now' = now + 1
    /\ UNCHANGED <<class, diskVars, projected, cat, opVars, opener, failed>>

Next ==
    \/ \E t \in Tasks : AddReference(t) \/ EndTask(t)
    \/ \E type \in {"cited", "claim"} : Cite(type)
    \/ PlanRetention \/ StartGC \/ WriteArchive \/ WriteTombstone \/ LogAction
    \/ ProjectAction \/ Unlink \/ TidyUp
    \/ StageRehydration \/ LogRehydration \/ Promote \/ ProjectRehydration
    \/ Abandon
    \/ Recover \/ Replay \/ FinishOpen
    \/ Tick

Spec == Init /\ [][Next]_vars

-----------------------------------------------------------------------------
(* Properties                                                              *)

\* Wherever the writers failed, the next open succeeds: archives that the
\* log refers to are there; the receipts that recovery will keep are one
\* unbroken chain; what the log refers to is still there, the payload, the
\* receipt of its eviction, or the bytes brought back; and every durable
\* event that has no row yet can be applied.
NextOpenSucceeds ==
    /\ ReceiptsHaveArchives
    /\ Chain(Receipts)
    /\ PayloadPresent(Receipts)
    /\ Replayed(cat, projected) # Failed

\* "every row can be recreated by MemoryStore.replay"; and while the store is
\* in order, the files are what the catalog says, with nothing left over.
CatalogMatches ==
    /\ pc = "idle" /\ projected = events => Replayed(NoRow, {}) = cat
    /\ pc = "idle" /\ ~failed =>
         /\ cat.avail = "hot" => hot /\ stages = {}
         /\ cat.avail = "archived" => ~hot /\ InArchive
         /\ cat.avail = "evicted" => ~hot /\ archives = {} /\ stages = {}

\* What the log says must be kept: the payload of an active task, of a
\* production claim or of class evidence, and a cited bulk payload that has
\* not been through the archive.
Protected ==
    \/ Pinned(events)
    \/ class = "evidence"
    \/ class = "bulk" /\ Cited(events)
         /\ \A t \in tombs : t.id.action # "archive"

\* No step makes the payload of a protected reference unreadable.
ProtectedKept ==
    [][Refs(events) # {} /\ Readable /\ Protected => Readable']_vars
=============================================================================
