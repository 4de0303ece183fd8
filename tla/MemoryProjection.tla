-------------------------- MODULE MemoryProjection --------------------------
(***************************************************************************)
(* The reducers of MemoryStore: how events become rows of memory_item,     *)
(* task_state and task_terminal (memory_store.py, _apply_projection), and  *)
(* the order in which replay() applies the events whose rows are missing   *)
(* (_projection_order).  An append is checked against the projection as it *)
(* stands, a replay re-runs the events in an order of its own: the two     *)
(* have to agree.                                                          *)
(*                                                                         *)
(* Everything here happens under the store lock, so an operation is one    *)
(* action; MemoryLog models the lock and the steps of a write.  An event   *)
(* is numbered by its place in the log, which is also its occurred_at (the *)
(* clock's reading at the append).  memory_ids are numbers in their sort   *)
(* order, so that a memory may supersede one that sorts before or after    *)
(* it.  A state hash is the number of the event that committed the state.  *)
(***************************************************************************)
EXTENDS Naturals, Sequences, FiniteSetsExt

CONSTANTS
    Segments,          \* event segments, one per session
    Memories,          \* memory_ids, in their sort order
    Tasks,             \* task_ids
    MaxEvents,         \* bound: events in the log
    SharedKeys,        \* sessions touch keys of an event awaiting its replay
    SupersedeDisputed, \* callers supersede memories that were disputed
    Failed             \* the outcome of a replay that raises

ASSUME MemoryProjectionAssumption ==
    /\ Memories \subseteq Nat \ {0}
    /\ MaxEvents \in Nat
    /\ {SharedKeys, SupersedeDisputed} \subseteq BOOLEAN

VARIABLES
    log,        \* every durable event, in the order of the appends
    projected,  \* the numbers of the events that have an event_index row
    proj        \* memory_item, task_state and task_terminal

projectionVars == <<log, projected, proj>>

StatusKinds == {"superseded", "retired", "disputed"}
Numbers == 0..MaxEvents

Event == [at : 1..MaxEvents, seg : Segments, kind : {"commit"} \cup StatusKinds,
          mem : Memories, sup : Memories \cup {0}]
         \cup [at : 1..MaxEvents, seg : Segments, kind : {"state"},
               task : Tasks, rev : 1..MaxEvents, prev : Numbers]
         \cup [at : 1..MaxEvents, seg : Segments, kind : {"terminal"},
               task : Tasks]

\* until is valid_to, head the event of the newest state; 0 stands for NULL.
Projection ==
    [mem : [Memories -> [status : {"none", "active"} \cup StatusKinds,
                         until : Numbers]],
     state : [Tasks -> [rev : Numbers, head : Numbers]],
     term : [Tasks -> Numbers]]

ASSUME FailedAssumption == Failed \notin Projection

ProjectionTypeOK ==
    /\ \A i \in DOMAIN log : log[i] \in Event /\ log[i].at = i
    /\ projected \subseteq DOMAIN log
    /\ proj \in Projection

Cleared ==
    [mem |-> [m \in Memories |-> [status |-> "none", until |-> 0]],
     state |-> [t \in Tasks |-> [rev |-> 0, head |-> 0]],
     term |-> [t \in Tasks |-> 0]]

ProjectionInit ==
    /\ log = <<>>
    /\ projected = {}
    /\ proj = Cleared

-----------------------------------------------------------------------------
(* The reducers                                                            *)

IsStatus(e) == e.kind \in StatusKinds

\* A memory is created once and supersedes an active or disputed one; a
\* status event names an existing memory; a state follows the newest one by
\* number and by hash; a task ends once.
Accepts(p, e) ==
    \/ /\ e.kind = "commit"
       /\ p.mem[e.mem].status = "none"
       /\ e.sup # 0 => p.mem[e.sup].status \in {"active", "disputed"}
    \/ IsStatus(e) /\ p.mem[e.mem].status # "none"
    \/ /\ e.kind = "state"
       /\ e.rev = p.state[e.task].rev + 1
       /\ e.prev = p.state[e.task].head
    \/ e.kind = "terminal" /\ p.term[e.task] = 0

Committed(mem, e) ==
    [m \in Memories |->
        CASE m = e.mem -> [status |-> "active", until |-> 0]
          [] m = e.sup -> [status |-> "superseded", until |-> e.at]
          [] OTHER     -> mem[m]]

\* memory/disputed leaves the validity interval open.
Marked(row, e) ==
    [status |-> e.kind,
     until |-> IF e.kind = "disputed" THEN row.until ELSE e.at]

Apply(p, e) ==
    CASE e.kind = "commit"   -> [p EXCEPT !.mem = Committed(@, e)]
      [] IsStatus(e)         -> [p EXCEPT !.mem[e.mem] = Marked(@, e)]
      [] e.kind = "state"    -> [p EXCEPT !.state[e.task] =
                                            [rev |-> e.rev, head |-> e.at]]
      [] e.kind = "terminal" -> [p EXCEPT !.term[e.task] = e.at]

\* Applies to p the events numbered S, the later ones of an order after the
\* earlier ones, in one transaction: the first refusal undoes them all.
ApplyAll(p, S, order) ==
    LET LastOf(T) == CHOOSE i \in T : \A j \in T \ {i} : <<j, i>> \in order
        after[T \in SUBSET S] ==
          IF T = {} THEN p
          ELSE LET last == LastOf(T)
                   before == after[T \ {last}]
               IN  IF before # Failed /\ Accepts(before, log[last])
                   THEN Apply(before, log[last]) ELSE Failed
    IN  after[S]

-----------------------------------------------------------------------------
(* _projection_order, of the events numbered S                             *)

AppendOrder == {p \in (DOMAIN log) \X (DOMAIN log) : p[1] < p[2]}

\* Commits come first, then statuses, states and terminals.
Rank(i) == CASE log[i].kind = "commit"   -> 1
             [] IsStatus(log[i])         -> 2
             [] log[i].kind = "state"    -> 3
             [] log[i].kind = "terminal" -> 4

Commits(S) == {i \in S : log[i].kind = "commit"}

\* What the visit of each commit passes through: the commit, and whatever is
\* superseded by what it passes through.
Dep(S, i) == {d \in Commits(S) : log[d].mem = log[i].sup}
Chains(S) ==
    LET closed == {C \in SUBSET Commits(S) : \A c \in C : Dep(S, c) \subseteq C}
    IN  [i \in Commits(S) |-> {d \in Commits(S) : \A C \in closed : i \in C => d \in C}]

\* Mutant of VisitedFrom: by id, whatever supersedes what.
VisitedFromItself(chain, i) == log[i].mem

\* Memories are visited in the order of their ids; a visit passes over what
\* an earlier one has passed.
VisitedFrom(chain, i) == Min({log[j].mem : j \in {k \in DOMAIN chain : i \in chain[k]}})

\* Commits by visit, and then by what is superseded first; states by revision
\* and then, as statuses and terminals, by number.
Major(chain, i) == CASE log[i].kind = "commit" -> VisitedFrom(chain, i)
                     [] log[i].kind = "state"  -> log[i].rev
                     [] OTHER                  -> 0
Minor(chain, i, j) == IF log[i].kind = "commit" THEN i \in chain[j] ELSE i < j

ProjectionOrder(S) ==
    LET chain == Chains(S)
        major == [i \in S |-> Major(chain, i)]
        Before(i, j) ==
            \/ Rank(i) < Rank(j)
            \/ /\ Rank(i) = Rank(j)
               /\ \/ major[i] < major[j]
                  \/ major[i] = major[j] /\ Minor(chain, i, j)
    IN  {p \in S \X S : p[1] # p[2] /\ Before(p[1], p[2])}

\* "duplicate memory_id in canonical events", "memory supersession cycle"
Orderable(S) ==
    LET chain == Chains(S)
    IN  \A i, j \in Commits(S) :
          log[i].mem = log[j].mem \/ (i \in chain[j] /\ j \in chain[i]) => i = j

\* What applying the missing events to p comes to.
Replayed(p, missing) ==
    IF Orderable(missing) THEN ApplyAll(p, missing, ProjectionOrder(missing)) ELSE Failed

-----------------------------------------------------------------------------
(* The operations                                                          *)

Missing == DOMAIN log \ projected

\* "segment has durable unprojected events; call replay() before appending"
TailProjected(s) ==
    LET mine == {i \in DOMAIN log : log[i].seg = s}
    IN  \A i \in mine : (\A j \in mine : j <= i) => i \in projected

Touches(e) ==
    IF e.kind \in {"state", "terminal"} THEN {<<"task", e.task>>}
    ELSE {<<"memory", e.mem>>, <<"memory", e.sup>>} \ {<<"memory", 0>>}

\* What the callers of append() may ask for, beyond what the store checks.
Asked(e) ==
    /\ \/ SharedKeys
       \/ \A i \in Missing : Touches(log[i]) \cap Touches(e) = {}
    /\ e.kind = "commit" /\ e.sup # 0 /\ ~SupersedeDisputed =>
         proj.mem[e.sup].status # "disputed"

\* Mutants of AppendEvent: no rehearsal, and the projection first.
AppendUnrehearsed(e) ==
    /\ Len(log) < MaxEvents
    /\ TailProjected(e.seg)
    /\ Asked(e)
    /\ log' = Append(log, e)
    /\ \/ Accepts(proj, e) /\ projected' = projected \cup {e.at} /\ proj' = Apply(proj, e)
       \/ UNCHANGED <<projected, proj>>
AppendProjectionFirst(e) ==
    /\ Len(log) < MaxEvents
    /\ TailProjected(e.seg)
    /\ Accepts(proj, e)
    /\ projected' = projected \cup {e.at} /\ proj' = Apply(proj, e)
    /\ log' \in {log, Append(log, e)}

\* append(): the event is rehearsed against the projection, becomes durable,
\* and is then projected, unless the process fails in between.
AppendEvent(e) ==
    /\ Len(log) < MaxEvents
    /\ e.at = Len(log) + 1
    /\ TailProjected(e.seg)
    /\ Accepts(proj, e)
    /\ Asked(e)
    /\ log' = Append(log, e)
    /\ \/ projected' = projected \cup {e.at} /\ proj' = Apply(proj, e)
       \/ UNCHANGED <<projected, proj>>

\* "memory cannot supersede itself"
CommitMemory(s) ==
    \E m \in Memories, sup \in Memories \cup {0} :
        /\ m # sup
        /\ AppendEvent([at |-> Len(log) + 1, seg |-> s, kind |-> "commit",
                        mem |-> m, sup |-> sup])

MarkMemory(s) ==
    \E m \in Memories, k \in StatusKinds :
        AppendEvent([at |-> Len(log) + 1, seg |-> s, kind |-> k,
                     mem |-> m, sup |-> 0])

\* A writer bases its state on the row it reads.
CommitState(s) ==
    \E t \in Tasks :
        AppendEvent([at |-> Len(log) + 1, seg |-> s, kind |-> "state",
                     task |-> t, rev |-> proj.state[t].rev + 1,
                     prev |-> proj.state[t].head])

EndTask(s) ==
    \E t \in Tasks :
        AppendEvent([at |-> Len(log) + 1, seg |-> s, kind |-> "terminal",
                     task |-> t])

\* Mutant of Replay: index rows and reducers are two transactions.
ReplayIndexOnly ==
    /\ projected' = DOMAIN log
    /\ proj' \in {proj, Replayed(proj, Missing)} \ {Failed}
    /\ UNCHANGED log

\* replay(): all missing events in one transaction, or none; also the last
\* step of the constructor.
Replay ==
    /\ Replayed(proj, Missing) # Failed
    /\ proj' = Replayed(proj, Missing)
    /\ projected' = DOMAIN log
    /\ UNCHANGED log

\* replay(rebuild=True): the projection is cleared in a transaction of its
\* own, so it stays empty when an event is refused.
Rebuild ==
    /\ LET rebuilt == Replayed(Cleared, DOMAIN log)
       IN  \/ rebuilt # Failed /\ proj' = rebuilt /\ projected' = DOMAIN log
           \/ proj' = Cleared /\ projected' = {}
    /\ UNCHANGED log

ProjectionNext ==
    \/ \E s \in Segments :
         CommitMemory(s) \/ MarkMemory(s) \/ CommitState(s) \/ EndTask(s)
    \/ Replay
    \/ Rebuild

ProjectionSpec == ProjectionInit /\ [][ProjectionNext]_projectionVars

-----------------------------------------------------------------------------
(* Properties                                                              *)

\* "every row can be recreated by MemoryStore.replay" (memory_store.py:3-5):
\* once every event is projected, rebuilding from nothing gives the same rows.
RebuildMatches ==
    projected = DOMAIN log => Replayed(Cleared, DOMAIN log) = proj

\* Events that were checked one by one, against projections that lacked
\* earlier events, can always be applied together on the next open; and in
\* the order of the appends the log is a legal history as well: no memory is
\* created twice or superseded twice, no task forks or ends twice.
ReplaySucceeds ==
    /\ Replayed(proj, Missing) # Failed
    /\ ApplyAll(Cleared, DOMAIN log, AppendOrder) # Failed
=============================================================================
