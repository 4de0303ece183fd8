---------------------------- MODULE MemoryProofs ----------------------------
(***************************************************************************)
(* Proofs about MemoryProjection and MemoryMaintenance.                    *)
(*                                                                         *)
(* MemoryProjection, for any segments, memories, tasks and number of       *)
(* events, if nobody touches the keys of an event that awaits its replay   *)
(* or supersedes a disputed memory (Undisputed).  Its rows are a function  *)
(* of the projected events (Row).  Every order of a replay that keeps the  *)
(* order of the appends where two events change the same row computes that *)
(* function (ReplayGivesRow), and the one of the code does                 *)
(* (ProjectionOrders).                                                     *)
(*                                                                         *)
(* MemoryMaintenance, for any payloads, budgets, limits and runs.  A run   *)
(* decides on payloads when it plans, and collects them later under the    *)
(* store lock: Inv says what each of its steps knows, and that what is     *)
(* left of an accepted plan stays collectable while the lock is held.      *)
(***************************************************************************)
EXTENDS MemoryProjection, MemoryMaintenance, FiniteSetTheorems, WellFoundedInduction, TLAPS

-----------------------------------------------------------------------------
(* The projection as a function of what is projected.                      *)

\* The rows an event changes.
OnMemory(e, m) == \/ e.kind \in StatusKinds /\ e.mem = m
                  \/ e.kind = "commit" /\ (e.mem = m \/ e.sup = m)
OnState(e, t) == e.kind = "state" /\ e.task = t
OnTerminal(e, t) == e.kind = "terminal" /\ e.task = t
Share(e, f) ==
    \/ \E m \in Memories : OnMemory(e, m) /\ OnMemory(f, m)
    \/ \E t \in Tasks : OnState(e, t) /\ OnState(f, t)
    \/ \E t \in Tasks : OnTerminal(e, t) /\ OnTerminal(f, t)

\* The last event about a memory decides its status, the last that closes its
\* interval the end of it.
MemoryEvents(L, P, m) == {i \in P : OnMemory(L[i], m)}
Closing(L, P, m) == {i \in MemoryEvents(L, P, m) :
                       L[i].kind # "disputed" /\ ~(L[i].kind = "commit" /\ L[i].mem = m)}
StatusBy(e, m) ==
    IF e.kind # "commit" THEN e.kind ELSE IF e.mem = m THEN "active" ELSE "superseded"
MemoryRow(L, P, m) ==
    IF MemoryEvents(L, P, m) = {} THEN [status |-> "none", until |-> 0]
    ELSE [status |-> StatusBy(L[Max(MemoryEvents(L, P, m))], m),
          until |-> IF Closing(L, P, m) = {} THEN 0 ELSE Max(Closing(L, P, m))]

\* The last state and the end of a task.
StateEvents(L, P, t) == {i \in P : OnState(L[i], t)}
StateRow(L, P, t) ==
    IF StateEvents(L, P, t) = {} THEN [rev |-> 0, head |-> 0]
    ELSE [rev |-> L[Max(StateEvents(L, P, t))].rev, head |-> Max(StateEvents(L, P, t))]
TerminalEvents(L, P, t) == {i \in P : OnTerminal(L[i], t)}
TerminalRow(L, P, t) ==
    IF TerminalEvents(L, P, t) = {} THEN 0 ELSE Max(TerminalEvents(L, P, t))

Row(L, P) == [mem |-> [m \in Memories |-> MemoryRow(L, P, m)],
              state |-> [t \in Tasks |-> StateRow(L, P, t)],
              term |-> [t \in Tasks |-> TerminalRow(L, P, t)]]

-----------------------------------------------------------------------------
(* The invariant                                                           *)

Undisputed == ~SharedKeys /\ ~SupersedeDisputed

\* In the order of the appends every event was acceptable, and what a commit
\* superseded was active.
Legal(L, i) ==
    /\ Accepts(Row(L, 1..(i - 1)), L[i])
    /\ L[i].kind = "commit" /\ L[i].sup # 0 =>
         MemoryRow(L, 1..(i - 1), L[i].sup).status = "active"
History(L) ==
    /\ L \in Seq(Event)
    /\ \A i \in DOMAIN L : L[i].at = i /\ Legal(L, i)

\* The revisions of a task grow with the log.
Revisions(L) ==
    /\ \A i \in DOMAIN L : L[i].kind = "state" => L[i].rev <= i
    /\ \A i, j \in DOMAIN L : \A t \in Tasks :
         OnState(L[i], t) /\ OnState(L[j], t) /\ i < j => L[i].rev < L[j].rev

\* What has no row yet is newer than what has one and changes the same row.
Apart == \A i \in Missing, j \in projected : Share(log[i], log[j]) => j < i

ProjectionInv ==
    /\ History(log) /\ Revisions(log)
    /\ projected \subseteq DOMAIN log
    /\ Apart
    /\ proj = Row(log, projected)

USE MemoryProjectionAssumption, FailedAssumption

-----------------------------------------------------------------------------
(* Numbers.                                                                *)

\* A nonempty set of numbers has a least one.
LEMMA Least ==
    ASSUME NEW S \in SUBSET Nat, S # {} PROVE \E m \in S : \A n \in S : m <= n
  <1> DEFINE R == {ss \in Nat \X Nat : ss[1] < ss[2]}
  <1>1. IsWellFoundedOn(R, Nat)
    BY NatLessThanWellFounded DEF OpToRel
  <1> HIDE DEF R
  <1>2. PICK m \in S : \A n \in S : ~(<<n, m>> \in R)
    BY <1>1, WFMin
  <1>3. \A n \in S : ~(n < m)
    BY <1>2 DEF R
  <1> QED
    BY <1>3

\* And a bounded one a greatest.
LEMMA Greatest ==
    ASSUME NEW n \in Nat, NEW S \in SUBSET (0..n), S # {}
    PROVE  Max(S) \in S /\ \A x \in S : x <= Max(S)
  <1> DEFINE T == {n - x : x \in S}
  <1>1. PICK m \in T : \A y \in T : m <= y
    <2>1. T \in SUBSET Nat /\ T # {}
      <3>1. \A x \in S : n - x \in Nat
        OBVIOUS
      <3> QED
        BY <3>1
    <2> HIDE DEF T
    <2> QED
      BY <2>1, Least
  <1>2. PICK g \in S : m = n - g
    BY <1>1
  <1>3. \A x \in S : x <= g
    <2> TAKE x \in S
    <2>1. n - g <= n - x
      BY <1>1, <1>2
    <2> QED
      BY <2>1
  <1>4. \E x \in S : \A y \in S : x >= y
    BY <1>3
  <1> QED
    BY <1>4 DEF Max

\* A new greatest number.
LEMMA NewGreatest ==
    ASSUME NEW n \in Nat, NEW S \in SUBSET (0..n), NEW i \in 0..n,
           \A x \in S : x <= i
    PROVE  Max(S \cup {i}) = i
  <1>1. Max(S \cup {i}) \in S \cup {i} /\ \A x \in S \cup {i} : x <= Max(S \cup {i})
    <2> DEFINE T == S \cup {i}
    <2>1. T \in SUBSET (0..n) /\ T # {}
      OBVIOUS
    <2> HIDE DEF T
    <2>2. Max(T) \in T /\ \A x \in T : x <= Max(T)
      BY <2>1, Greatest
    <2> QED
      BY <2>2 DEF T
  <1>2. i <= Max(S \cup {i}) /\ Max(S \cup {i}) <= i /\ Max(S \cup {i}) \in 0..n
    BY <1>1
  <1> QED
    BY <1>2

-----------------------------------------------------------------------------
(* One event on top of the rows.                                           *)

\* The numbers of a log, and its events.
LEMMA LogIs ==
    ASSUME NEW L \in Seq(Event), \A i \in DOMAIN L : L[i].at = i
    PROVE  /\ Len(L) \in Nat /\ DOMAIN L = 1..Len(L) /\ DOMAIN L \subseteq 1..MaxEvents
           /\ \A i \in DOMAIN L : L[i] \in Event
  <1>1. \A i \in DOMAIN L : L[i] \in Event
    OBVIOUS
  <1>2. \A e \in Event : e.at \in 1..MaxEvents
    BY DEF Event
  <1> QED
    BY <1>1, <1>2

\* Which fields an event has.
LEMMA EventIs ==
    ASSUME NEW e \in Event
    PROVE  /\ e.kind \in {"commit", "state", "terminal"} \cup StatusKinds
           /\ e.at \in 1..MaxEvents /\ e.seg \in Segments
           /\ e.kind = "commit" \/ e.kind \in StatusKinds =>
                e.mem \in Memories /\ e.sup \in Memories \cup {0}
           /\ e.kind = "state" =>
                e.task \in Tasks /\ e.rev \in 1..MaxEvents /\ e.prev \in 0..MaxEvents
           /\ e.kind = "terminal" => e.task \in Tasks
  BY DEF Event, StatusKinds, Numbers

\* The rows are rows.
LEMMA RowTyped ==
    ASSUME NEW L \in Seq(Event), \A i \in DOMAIN L : L[i].at = i, NEW P \in SUBSET DOMAIN L
    PROVE  Row(L, P) \in Projection
  <1>1. P \in SUBSET (0..MaxEvents)
    BY LogIs
  <1>2. ASSUME NEW m \in Memories
        PROVE  MemoryRow(L, P, m) \in [status : {"none", "active"} \cup StatusKinds, until : Numbers]
    <2>1. CASE MemoryEvents(L, P, m) = {}
      BY <2>1 DEF MemoryRow, Numbers
    <2>2. CASE MemoryEvents(L, P, m) # {}
      <3>1. Max(MemoryEvents(L, P, m)) \in MemoryEvents(L, P, m)
        BY <1>1, <2>2, Greatest DEF MemoryEvents
      <3>2. StatusBy(L[Max(MemoryEvents(L, P, m))], m) \in {"none", "active"} \cup StatusKinds
        BY <3>1 DEF MemoryEvents, OnMemory, StatusBy, StatusKinds
      <3>3. Closing(L, P, m) # {} => Max(Closing(L, P, m)) \in Numbers
        BY <1>1, Greatest DEF Closing, MemoryEvents, Numbers
      <3> QED
        BY <2>2, <3>2, <3>3 DEF MemoryRow, Numbers
    <2> QED
      BY <2>1, <2>2
  <1>3. ASSUME NEW t \in Tasks
        PROVE  StateRow(L, P, t) \in [rev : Numbers, head : Numbers]
    <2>1. CASE StateEvents(L, P, t) = {}
      BY <2>1 DEF StateRow, Numbers
    <2>2. CASE StateEvents(L, P, t) # {}
      <3>1. Max(StateEvents(L, P, t)) \in StateEvents(L, P, t)
        BY <1>1, <2>2, Greatest DEF StateEvents
      <3>2. L[Max(StateEvents(L, P, t))].rev \in Numbers
        BY <3>1, LogIs, EventIs DEF StateEvents, OnState, Numbers
      <3>3. Max(StateEvents(L, P, t)) \in Numbers
        BY <1>1, <3>1 DEF StateEvents, Numbers
      <3> QED
        BY <2>2, <3>2, <3>3 DEF StateRow
    <2> QED
      BY <2>1, <2>2
  <1>4. ASSUME NEW t \in Tasks PROVE TerminalRow(L, P, t) \in Numbers
    <2>1. TerminalEvents(L, P, t) \in SUBSET (0..MaxEvents)
      BY <1>1 DEF TerminalEvents
    <2>2. TerminalEvents(L, P, t) # {} => Max(TerminalEvents(L, P, t)) \in 0..MaxEvents
      BY <2>1, Greatest
    <2> QED
      BY <2>2 DEF TerminalRow, Numbers
  <1> QED
    BY <1>2, <1>3, <1>4 DEF Row, Projection

\* An event changes one memory, or two, or a task in one of two ways.
LEMMA KindIs ==
    ASSUME NEW e \in Event
    PROVE  /\ e.kind = "commit" => /\ \A m : OnMemory(e, m) <=> e.mem = m \/ e.sup = m
                                   /\ \A t : ~OnState(e, t) /\ ~OnTerminal(e, t)
           /\ e.kind \in StatusKinds => /\ \A m : OnMemory(e, m) <=> e.mem = m
                                        /\ \A t : ~OnState(e, t) /\ ~OnTerminal(e, t)
           /\ e.kind = "state" => /\ \A m : ~OnMemory(e, m)
                                  /\ \A t : OnState(e, t) <=> e.task = t
                                  /\ \A t : ~OnTerminal(e, t)
           /\ e.kind = "terminal" => /\ \A m : ~OnMemory(e, m)
                                     /\ \A t : ~OnState(e, t)
                                     /\ \A t : OnTerminal(e, t) <=> e.task = t
  BY DEF OnMemory, OnState, OnTerminal, StatusKinds

\* A row is decided by the events that change it.
LEMMA SameRow ==
    ASSUME NEW L, NEW P, NEW Q
    PROVE  /\ \A m : MemoryEvents(L, P, m) = MemoryEvents(L, Q, m) =>
                MemoryRow(L, P, m) = MemoryRow(L, Q, m)
           /\ \A t : StateEvents(L, P, t) = StateEvents(L, Q, t) =>
                StateRow(L, P, t) = StateRow(L, Q, t)
           /\ \A t : TerminalEvents(L, P, t) = TerminalEvents(L, Q, t) =>
                TerminalRow(L, P, t) = TerminalRow(L, Q, t)
  BY DEF MemoryRow, StateRow, TerminalRow, Closing

\* Events that change other rows have no say in whether an event is accepted.
LEMMA SameAccepts ==
    ASSUME NEW L \in Seq(Event), NEW e \in Event,
           NEW P \in SUBSET DOMAIN L, NEW Q \in SUBSET DOMAIN L,
           \A j \in (P \ Q) \cup (Q \ P) : ~Share(L[j], e)
    PROVE  /\ \A m \in Memories : OnMemory(e, m) =>
                   /\ MemoryEvents(L, P, m) = MemoryEvents(L, Q, m)
                   /\ MemoryRow(L, P, m) = MemoryRow(L, Q, m)
           /\ Accepts(Row(L, P), e) <=> Accepts(Row(L, Q), e)
  <1>1. ASSUME NEW m \in Memories, OnMemory(e, m)
        PROVE  MemoryEvents(L, P, m) = MemoryEvents(L, Q, m)
    BY <1>1 DEF MemoryEvents, Share
  <1>2. ASSUME NEW t \in Tasks, OnState(e, t)
        PROVE  StateEvents(L, P, t) = StateEvents(L, Q, t)
    BY <1>2 DEF StateEvents, Share
  <1>3. ASSUME NEW t \in Tasks, OnTerminal(e, t)
        PROVE  TerminalEvents(L, P, t) = TerminalEvents(L, Q, t)
    BY <1>3 DEF TerminalEvents, Share
  <1>4. /\ \A m \in Memories : OnMemory(e, m) => MemoryRow(L, P, m) = MemoryRow(L, Q, m)
        /\ \A t \in Tasks : OnState(e, t) => StateRow(L, P, t) = StateRow(L, Q, t)
        /\ \A t \in Tasks : OnTerminal(e, t) => TerminalRow(L, P, t) = TerminalRow(L, Q, t)
    BY <1>1, <1>2, <1>3, SameRow
  <1>5. /\ \A m \in Memories : OnMemory(e, m) => Row(L, P).mem[m] = Row(L, Q).mem[m]
        /\ \A t \in Tasks : OnState(e, t) => Row(L, P).state[t] = Row(L, Q).state[t]
        /\ \A t \in Tasks : OnTerminal(e, t) => Row(L, P).term[t] = Row(L, Q).term[t]
    BY <1>4 DEF Row
  <1>6. Accepts(Row(L, P), e) <=> Accepts(Row(L, Q), e)
    <2> DEFINE p == Row(L, P)
               q == Row(L, Q)
    <2> SUFFICES Accepts(p, e) <=> Accepts(q, e)
      OBVIOUS
    <2> HIDE DEF p, q
    <2>1. /\ \A m \in Memories : OnMemory(e, m) => p.mem[m] = q.mem[m]
          /\ \A t \in Tasks : OnState(e, t) => p.state[t] = q.state[t]
          /\ \A t \in Tasks : OnTerminal(e, t) => p.term[t] = q.term[t]
      BY <1>5 DEF p, q
    <2>2. CASE e.kind = "commit"
      <3>1. OnMemory(e, e.mem) /\ OnMemory(e, e.sup) /\ e.mem \in Memories
              /\ (e.sup # 0 => e.sup \in Memories)
        BY <2>2, EventIs, KindIs
      <3>2. p.mem[e.mem] = q.mem[e.mem] /\ (e.sup # 0 => p.mem[e.sup] = q.mem[e.sup])
        BY <2>1, <3>1
      <3> QED
        BY <2>2, <3>2 DEF Accepts, IsStatus, StatusKinds
    <2>3. CASE e.kind \in StatusKinds
      <3>1. p.mem[e.mem] = q.mem[e.mem]
        BY <2>1, <2>3, EventIs, KindIs
      <3> QED
        BY <2>3, <3>1 DEF Accepts, IsStatus, StatusKinds
    <2>4. CASE e.kind = "state"
      <3>1. p.state[e.task] = q.state[e.task]
        BY <2>1, <2>4, EventIs, KindIs
      <3> QED
        BY <2>4, <3>1 DEF Accepts, IsStatus, StatusKinds
    <2>5. CASE e.kind = "terminal"
      <3>1. p.term[e.task] = q.term[e.task]
        BY <2>1, <2>5, EventIs, KindIs
      <3> QED
        BY <2>5, <3>1 DEF Accepts, IsStatus, StatusKinds
    <2> QED
      BY <2>2, <2>3, <2>4, <2>5, EventIs
  <1> QED
    BY <1>1, <1>4, <1>6

\* The reducer of an event that is newer than what changed its rows before.
LEMMA StepRow ==
    ASSUME NEW L \in Seq(Event), \A i \in DOMAIN L : L[i].at = i,
           NEW P \in SUBSET DOMAIN L, NEW i \in DOMAIN L,
           \A j \in P : Share(L[i], L[j]) => j < i,
           Accepts(Row(L, P), L[i])
    PROVE  Apply(Row(L, P), L[i]) = Row(L, P \cup {i})
  <1> DEFINE Q == P \cup {i}
             e == L[i]
             p == Row(L, P)
  <1>1. /\ P \in SUBSET (0..MaxEvents) /\ Q \in SUBSET (0..MaxEvents) /\ i \in 0..MaxEvents
        /\ Q \in SUBSET DOMAIN L /\ e \in Event /\ e.at = i
        /\ \A j \in P : j \in Nat /\ L[j] \in Event
    BY LogIs
  <1>0. \A S \in SUBSET (0..MaxEvents) : (\A x \in S : x <= i) => Max(S \cup {i}) = i
    BY <1>1, NewGreatest
  <1>2. ASSUME NEW m \in Memories, ~OnMemory(e, m) PROVE MemoryRow(L, Q, m) = MemoryRow(L, P, m)
    <2>1. MemoryEvents(L, Q, m) = MemoryEvents(L, P, m)
      BY <1>2 DEF MemoryEvents
    <2> QED
      BY <2>1, SameRow
  <1>3. ASSUME NEW t \in Tasks, ~OnState(e, t) PROVE StateRow(L, Q, t) = StateRow(L, P, t)
    <2>1. StateEvents(L, Q, t) = StateEvents(L, P, t)
      BY <1>3 DEF StateEvents
    <2> QED
      BY <2>1, SameRow
  <1>4. ASSUME NEW t \in Tasks, ~OnTerminal(e, t) PROVE TerminalRow(L, Q, t) = TerminalRow(L, P, t)
    <2>1. TerminalEvents(L, Q, t) = TerminalEvents(L, P, t)
      BY <1>4 DEF TerminalEvents
    <2> QED
      BY <2>1, SameRow
  <1>5. ASSUME NEW m \in Memories, OnMemory(e, m)
        PROVE  /\ MemoryEvents(L, Q, m) = MemoryEvents(L, P, m) \cup {i}
               /\ MemoryEvents(L, P, m) \in SUBSET (0..MaxEvents)
               /\ Max(MemoryEvents(L, Q, m)) = i
               /\ \A j \in MemoryEvents(L, P, m) : j < i
    <2>1. MemoryEvents(L, Q, m) = MemoryEvents(L, P, m) \cup {i}
      BY <1>5 DEF MemoryEvents
    <2>2. \A j \in MemoryEvents(L, P, m) : j < i
      BY <1>5 DEF MemoryEvents, Share
    <2>3. MemoryEvents(L, P, m) \in SUBSET (0..MaxEvents)
      BY <1>1 DEF MemoryEvents
    <2>4. \A j \in MemoryEvents(L, P, m) : j <= i
      BY <1>1, <2>2, <2>3
    <2> QED
      BY <1>0, <2>1, <2>2, <2>3, <2>4
  <1>6. ASSUME NEW m \in Memories, OnMemory(e, m)
        PROVE  MemoryRow(L, Q, m) =
                 [status |-> StatusBy(e, m),
                  until |-> IF e.kind # "disputed" /\ ~(e.kind = "commit" /\ e.mem = m)
                            THEN i ELSE MemoryRow(L, P, m).until]
    <2>1. MemoryRow(L, Q, m) =
            [status |-> StatusBy(e, m),
             until |-> IF Closing(L, Q, m) = {} THEN 0 ELSE Max(Closing(L, Q, m))]
      BY <1>5, <1>6 DEF MemoryRow
    <2>2. CASE e.kind # "disputed" /\ ~(e.kind = "commit" /\ e.mem = m)
      <3>1. Closing(L, Q, m) = Closing(L, P, m) \cup {i}
        BY <1>5, <1>6, <2>2 DEF Closing
      <3>2. Closing(L, P, m) \in SUBSET (0..MaxEvents) /\ \A j \in Closing(L, P, m) : j <= i
        BY <1>1, <1>5, <1>6 DEF Closing
      <3>3. Max(Closing(L, Q, m)) = i
        BY <1>0, <3>1, <3>2
      <3> QED
        BY <2>1, <2>2, <3>1, <3>3
    <2>3. CASE ~(e.kind # "disputed" /\ ~(e.kind = "commit" /\ e.mem = m))
      <3>1. Closing(L, Q, m) = Closing(L, P, m)
        BY <1>5, <1>6, <2>3 DEF Closing
      <3>2. MemoryRow(L, P, m).until = IF Closing(L, P, m) = {} THEN 0 ELSE Max(Closing(L, P, m))
        BY DEF MemoryRow, Closing
      <3> QED
        BY <2>1, <2>3, <3>1, <3>2
    <2> QED
      BY <2>2, <2>3
  <1>7. ASSUME NEW t \in Tasks, OnState(e, t) PROVE StateRow(L, Q, t) = [rev |-> e.rev, head |-> i]
    <2>1. StateEvents(L, Q, t) = StateEvents(L, P, t) \cup {i}
      BY <1>7 DEF StateEvents
    <2>2. \A j \in StateEvents(L, P, t) : j < i
      BY <1>7 DEF StateEvents, Share
    <2>3. StateEvents(L, P, t) \in SUBSET (0..MaxEvents)
      BY <1>1 DEF StateEvents
    <2>4. \A j \in StateEvents(L, P, t) : j <= i
      BY <1>1, <2>2, <2>3
    <2>5. Max(StateEvents(L, Q, t)) = i
      BY <1>0, <2>1, <2>3, <2>4
    <2> QED
      BY <2>1, <2>5 DEF StateRow
  <1>8. ASSUME NEW t \in Tasks, OnTerminal(e, t) PROVE TerminalRow(L, Q, t) = i
    <2>1. TerminalEvents(L, Q, t) = TerminalEvents(L, P, t) \cup {i}
      BY <1>8 DEF TerminalEvents
    <2>2. \A j \in TerminalEvents(L, P, t) : j < i
      BY <1>8 DEF TerminalEvents, Share
    <2>3. TerminalEvents(L, P, t) \in SUBSET (0..MaxEvents)
      BY <1>1 DEF TerminalEvents
    <2>4. \A j \in TerminalEvents(L, P, t) : j <= i
      BY <1>1, <2>2, <2>3
    <2>5. Max(TerminalEvents(L, Q, t)) = i
      BY <1>0, <2>1, <2>3, <2>4
    <2> QED
      BY <2>1, <2>5 DEF TerminalRow
  <1>9. /\ p = [mem |-> p.mem, state |-> p.state, term |-> p.term]
        /\ p.mem = [m \in Memories |-> MemoryRow(L, P, m)]
        /\ p.state = [t \in Tasks |-> StateRow(L, P, t)]
        /\ p.term = [t \in Tasks |-> TerminalRow(L, P, t)]
        /\ Row(L, Q) = [mem |-> [m \in Memories |-> MemoryRow(L, Q, m)],
                        state |-> [t \in Tasks |-> StateRow(L, Q, t)],
                        term |-> [t \in Tasks |-> TerminalRow(L, Q, t)]]
    BY DEF Row
  <1>10. Accepts(p, e)
    OBVIOUS
  <1> HIDE DEF p, Q, e
  <1>11. CASE e.kind = "commit"
    <2>1. /\ e.mem \in Memories /\ e.sup \in Memories \cup {0}
          /\ \A m : OnMemory(e, m) <=> e.mem = m \/ e.sup = m
          /\ \A t : ~OnState(e, t) /\ ~OnTerminal(e, t)
      BY <1>1, <1>11, EventIs, KindIs
    <2>2. p.mem[e.mem].status = "none" /\ (e.sup # 0 => p.mem[e.sup].status # "none")
      BY <1>10, <1>11 DEF Accepts, IsStatus, StatusKinds
    <2>3. e.mem # e.sup
      BY <2>1, <2>2
    <2>4. MemoryRow(L, P, e.mem) = [status |-> "none", until |-> 0]
      <3>1. MemoryRow(L, P, e.mem).status = "none"
        BY <1>9, <2>1, <2>2
      <3>2. MemoryEvents(L, P, e.mem) = {}
        <4> SUFFICES ASSUME MemoryEvents(L, P, e.mem) # {} PROVE FALSE
          OBVIOUS
        <4>1. Max(MemoryEvents(L, P, e.mem)) \in MemoryEvents(L, P, e.mem)
          BY <1>1, <1>5, <2>1, Greatest
        <4>2. StatusBy(L[Max(MemoryEvents(L, P, e.mem))], e.mem) = "none"
          BY <3>1 DEF MemoryRow
        <4> QED
          BY <4>1, <4>2 DEF StatusBy, MemoryEvents, OnMemory, StatusKinds
      <3> QED
        BY <3>2 DEF MemoryRow
    <2>5. ASSUME NEW m \in Memories PROVE Committed(p.mem, e)[m] = MemoryRow(L, Q, m)
      <3>1. CASE m = e.mem
        BY <1>6, <1>11, <2>1, <2>3, <2>4, <3>1 DEF Committed, StatusBy
      <3>2. CASE m = e.sup
        <4>1. MemoryRow(L, Q, m) = [status |-> "superseded", until |-> i]
          BY <1>6, <1>11, <2>1, <2>3, <3>2 DEF StatusBy
        <4> QED
          BY <1>1, <2>3, <3>2, <4>1 DEF Committed
      <3>3. CASE m # e.mem /\ m # e.sup
        BY <1>2, <1>9, <2>1, <3>3 DEF Committed
      <3> QED
        BY <3>1, <3>2, <3>3
    <2>6. Committed(p.mem, e) = [m \in Memories |-> MemoryRow(L, Q, m)]
      BY <2>5 DEF Committed
    <2>7. p.state = [t \in Tasks |-> StateRow(L, Q, t)]
            /\ p.term = [t \in Tasks |-> TerminalRow(L, Q, t)]
      BY <1>3, <1>4, <1>9, <2>1
    <2>8. Apply(p, e) = [p EXCEPT !.mem = Committed(@, e)]
      BY <1>11 DEF Apply, IsStatus, StatusKinds
    <2> QED
      BY <1>9, <2>6, <2>7, <2>8 DEF p, e, Q
  <1>12. CASE e.kind \in StatusKinds
    <2>1. /\ e.mem \in Memories /\ OnMemory(e, e.mem)
          /\ \A m : OnMemory(e, m) <=> e.mem = m
          /\ \A t : ~OnState(e, t) /\ ~OnTerminal(e, t)
      BY <1>1, <1>12, EventIs, KindIs
    <2>2. Marked(p.mem[e.mem], e) = MemoryRow(L, Q, e.mem)
      BY <1>1, <1>6, <1>9, <1>12, <2>1 DEF Marked, StatusBy, StatusKinds
    <2>3. [p.mem EXCEPT ![e.mem] = Marked(p.mem[e.mem], e)] = [m \in Memories |-> MemoryRow(L, Q, m)]
      BY <1>2, <1>9, <2>1, <2>2
    <2>4. p.state = [t \in Tasks |-> StateRow(L, Q, t)]
            /\ p.term = [t \in Tasks |-> TerminalRow(L, Q, t)]
      BY <1>3, <1>4, <1>9, <2>1
    <2>5. Apply(p, e) = [p EXCEPT !.mem = [p.mem EXCEPT ![e.mem] = Marked(p.mem[e.mem], e)]]
      BY <1>12 DEF Apply, IsStatus, StatusKinds
    <2> QED
      BY <1>9, <2>3, <2>4, <2>5 DEF p, e, Q
  <1>13. CASE e.kind = "state"
    <2>1. /\ e.task \in Tasks /\ \A t : OnState(e, t) <=> e.task = t
          /\ \A m : ~OnMemory(e, m)
          /\ \A t : ~OnTerminal(e, t)
      BY <1>1, <1>13, EventIs, KindIs
    <2>2. [p.state EXCEPT ![e.task] = [rev |-> e.rev, head |-> e.at]]
            = [t \in Tasks |-> StateRow(L, Q, t)]
      BY <1>1, <1>3, <1>7, <1>9, <2>1
    <2>3. p.mem = [m \in Memories |-> MemoryRow(L, Q, m)]
            /\ p.term = [t \in Tasks |-> TerminalRow(L, Q, t)]
      BY <1>2, <1>4, <1>9, <2>1
    <2>4. Apply(p, e) = [p EXCEPT !.state = [@ EXCEPT ![e.task] = [rev |-> e.rev, head |-> e.at]]]
      BY <1>13 DEF Apply, IsStatus, StatusKinds
    <2> QED
      BY <1>9, <2>2, <2>3, <2>4 DEF p, e, Q
  <1>14. CASE e.kind = "terminal"
    <2>1. /\ e.task \in Tasks /\ \A t : OnTerminal(e, t) <=> e.task = t
          /\ \A m : ~OnMemory(e, m)
          /\ \A t : ~OnState(e, t)
      BY <1>1, <1>14, EventIs, KindIs
    <2>2. [p.term EXCEPT ![e.task] = e.at] = [t \in Tasks |-> TerminalRow(L, Q, t)]
      BY <1>1, <1>4, <1>8, <1>9, <2>1
    <2>3. p.mem = [m \in Memories |-> MemoryRow(L, Q, m)]
            /\ p.state = [t \in Tasks |-> StateRow(L, Q, t)]
      BY <1>2, <1>3, <1>9, <2>1
    <2>4. Apply(p, e) = [p EXCEPT !.term = [@ EXCEPT ![e.task] = e.at]]
      BY <1>14 DEF Apply, IsStatus, StatusKinds
    <2> QED
      BY <1>9, <2>2, <2>3, <2>4 DEF p, e, Q
  <1> QED
    BY <1>1, <1>11, <1>12, <1>13, <1>14, EventIs DEF p, e, Q

-----------------------------------------------------------------------------
(* What the history says of two events that change the same row.           *)

\* Rows that say nothing come from no event, and an active memory was last
\* changed by its commit.
LEMMA RowSays ==
    ASSUME NEW L \in Seq(Event), \A i \in DOMAIN L : L[i].at = i, NEW P \in SUBSET DOMAIN L
    PROVE  /\ \A m : MemoryRow(L, P, m).status = "none" => MemoryEvents(L, P, m) = {}
           /\ \A m : MemoryRow(L, P, m).status = "active" =>
                \E c \in MemoryEvents(L, P, m) :
                  /\ L[c].kind = "commit" /\ L[c].mem = m
                  /\ \A i \in MemoryEvents(L, P, m) : i <= c
           /\ \A t : TerminalRow(L, P, t) = 0 => TerminalEvents(L, P, t) = {}
           /\ \A t : StateEvents(L, P, t) # {} =>
                \E s \in StateEvents(L, P, t) :
                  /\ StateRow(L, P, t).rev = L[s].rev
                  /\ \A i \in StateEvents(L, P, t) : i <= s
  <1>1. P \in SUBSET (0..MaxEvents) /\ \A i \in P : i >= 1
    BY LogIs
  <1>2. ASSUME NEW m, MemoryEvents(L, P, m) # {}
        PROVE  \E c \in MemoryEvents(L, P, m) :
                 /\ MemoryRow(L, P, m).status = StatusBy(L[c], m)
                 /\ \A i \in MemoryEvents(L, P, m) : i <= c
    <2>1. MemoryEvents(L, P, m) \in SUBSET (0..MaxEvents)
      BY <1>1 DEF MemoryEvents
    <2>2. PICK c : c = Max(MemoryEvents(L, P, m))
      OBVIOUS
    <2>3. c \in MemoryEvents(L, P, m) /\ \A i \in MemoryEvents(L, P, m) : i <= c
      BY <1>2, <2>1, <2>2, Greatest
    <2> QED
      BY <1>2, <2>2, <2>3 DEF MemoryRow
  <1>3. ASSUME NEW m, MemoryRow(L, P, m).status = "none" PROVE MemoryEvents(L, P, m) = {}
    BY <1>2, <1>3 DEF StatusBy, MemoryEvents, OnMemory, StatusKinds
  <1>4. ASSUME NEW m, MemoryRow(L, P, m).status = "active"
        PROVE  \E c \in MemoryEvents(L, P, m) :
                  /\ L[c].kind = "commit" /\ L[c].mem = m
                  /\ \A i \in MemoryEvents(L, P, m) : i <= c
    <2>1. MemoryEvents(L, P, m) # {}
      BY <1>4 DEF MemoryRow
    <2>2. PICK c \in MemoryEvents(L, P, m) :
                 /\ MemoryRow(L, P, m).status = StatusBy(L[c], m)
                 /\ \A i \in MemoryEvents(L, P, m) : i <= c
      BY <1>2, <2>1
    <2>3. StatusBy(L[c], m) = "active" /\ (L[c].kind \in StatusKinds \/ L[c].kind = "commit")
      BY <1>4, <2>2 DEF MemoryEvents, OnMemory
    <2>4. L[c].kind = "commit" /\ L[c].mem = m
      BY <2>3 DEF StatusBy, StatusKinds
    <2> QED
      BY <2>2, <2>4
  <1>5. ASSUME NEW t, TerminalRow(L, P, t) = 0 PROVE TerminalEvents(L, P, t) = {}
    <2>1. TerminalEvents(L, P, t) \in SUBSET (0..MaxEvents)
            /\ \A i \in TerminalEvents(L, P, t) : i # 0
      BY <1>1 DEF TerminalEvents
    <2>2. TerminalEvents(L, P, t) # {} =>
            Max(TerminalEvents(L, P, t)) \in TerminalEvents(L, P, t)
      BY <2>1, Greatest
    <2> QED
      BY <1>5, <2>1, <2>2 DEF TerminalRow
  <1>6. ASSUME NEW t, StateEvents(L, P, t) # {}
        PROVE  \E s \in StateEvents(L, P, t) :
                  /\ StateRow(L, P, t).rev = L[s].rev
                  /\ \A i \in StateEvents(L, P, t) : i <= s
    <2>1. StateEvents(L, P, t) \in SUBSET (0..MaxEvents)
      BY <1>1 DEF StateEvents
    <2>2. PICK c : c = Max(StateEvents(L, P, t))
      OBVIOUS
    <2>3. c \in StateEvents(L, P, t) /\ \A i \in StateEvents(L, P, t) : i <= c
      BY <1>6, <2>1, <2>2, Greatest
    <2> QED
      BY <1>6, <2>2, <2>3 DEF StateRow
  <1> QED
    BY <1>3, <1>4, <1>5, <1>6

\* Nothing is known of a memory before its commit.
LEMMA Created ==
    ASSUME NEW L, History(L), NEW i \in DOMAIN L, NEW j \in DOMAIN L, i < j,
           L[j].kind = "commit"
    PROVE  ~OnMemory(L[i], L[j].mem)
  <1>1. L \in Seq(Event) /\ (\A k \in DOMAIN L : L[k].at = k) /\ L[j] \in Event /\ Legal(L, j)
    BY DEF History
  <1>2. 1..(j - 1) \in SUBSET DOMAIN L /\ i \in 1..(j - 1) /\ L[j].mem \in Memories
    BY <1>1, LogIs, EventIs
  <1>3. MemoryRow(L, 1..(j - 1), L[j].mem).status = "none"
    BY <1>1, <1>2 DEF Legal, Accepts, IsStatus, StatusKinds, Row
  <1>4. MemoryEvents(L, 1..(j - 1), L[j].mem) = {}
    BY <1>1, <1>2, <1>3, RowSays
  <1> QED
    BY <1>2, <1>4 DEF MemoryEvents

\* A memory that is superseded was changed by its commit and by nothing else.
LEMMA SupersededOnce ==
    ASSUME NEW L, History(L), NEW i \in DOMAIN L, NEW j \in DOMAIN L, i < j,
           L[j].kind = "commit", L[j].sup # 0, OnMemory(L[i], L[j].sup)
    PROVE  L[i].kind = "commit" /\ L[i].mem = L[j].sup
  <1>1. L \in Seq(Event) /\ (\A k \in DOMAIN L : L[k].at = k) /\ L[j] \in Event /\ Legal(L, j)
    BY DEF History
  <1>2. 1..(j - 1) \in SUBSET DOMAIN L /\ i \in 1..(j - 1)
    BY <1>1, LogIs
  <1>3. MemoryRow(L, 1..(j - 1), L[j].sup).status = "active"
    BY <1>1 DEF Legal
  <1>4. PICK c \in MemoryEvents(L, 1..(j - 1), L[j].sup) :
          /\ L[c].kind = "commit" /\ L[c].mem = L[j].sup
          /\ \A k \in MemoryEvents(L, 1..(j - 1), L[j].sup) : k <= c
    BY <1>1, <1>2, <1>3, RowSays
  <1>5. c \in DOMAIN L /\ i <= c /\ c \in Nat /\ i \in Nat
    BY <1>1, <1>2, <1>4, LogIs DEF MemoryEvents
  <1>6. ~(i < c)
    BY <1>4, <1>5, Created
  <1> QED
    BY <1>4, <1>5, <1>6

\* Whenever two events change the same row, the earlier of them is of the
\* class that is replayed first, and within a class it is told by more than
\* its number.
LEMMA Conflicts ==
    ASSUME NEW L, History(L), Revisions(L), NEW i \in DOMAIN L, NEW j \in DOMAIN L, i < j,
           Share(L[i], L[j])
    PROVE  \/ L[i].kind = "commit" /\ L[j].kind = "commit" /\ L[i].mem = L[j].sup
           \/ L[i].kind = "commit" /\ L[j].kind \in StatusKinds
           \/ L[i].kind \in StatusKinds /\ L[j].kind \in StatusKinds
           \/ L[i].kind = "state" /\ L[j].kind = "state" /\ L[i].rev < L[j].rev
  <1>1. /\ L \in Seq(Event) /\ (\A k \in DOMAIN L : L[k].at = k)
        /\ L[i] \in Event /\ L[j] \in Event /\ Legal(L, j)
    BY DEF History
  <1>2. 1..(j - 1) \in SUBSET DOMAIN L /\ i \in 1..(j - 1)
    BY <1>1, LogIs
  <1>3. CASE \E m \in Memories : OnMemory(L[i], m) /\ OnMemory(L[j], m)
    <2>1. PICK m \in Memories : OnMemory(L[i], m) /\ OnMemory(L[j], m)
      BY <1>3
    <2>2. CASE L[j].kind = "commit"
      <3>1. m # L[j].mem
        BY <2>1, <2>2, Created
      <3>2. m = L[j].sup /\ m # 0
        BY <2>1, <2>2, <3>1 DEF OnMemory, StatusKinds
      <3> QED
        BY <2>1, <2>2, <3>2, SupersededOnce
    <2> QED
      BY <2>1, <2>2 DEF OnMemory
  <1>4. CASE \E t \in Tasks : OnState(L[i], t) /\ OnState(L[j], t)
    BY <1>4 DEF OnState, Revisions
  <1>5. CASE \E t \in Tasks : OnTerminal(L[i], t) /\ OnTerminal(L[j], t)
    <2>1. PICK t \in Tasks : OnTerminal(L[i], t) /\ OnTerminal(L[j], t)
      BY <1>5
    <2>2. TerminalRow(L, 1..(j - 1), t) = 0
      BY <1>1, <2>1 DEF Legal, Accepts, IsStatus, StatusKinds, OnTerminal, Row
    <2>3. TerminalEvents(L, 1..(j - 1), t) = {}
      BY <1>1, <1>2, <2>2, RowSays
    <2> QED
      BY <1>2, <2>1, <2>3 DEF TerminalEvents
  <1> QED
    BY <1>3, <1>4, <1>5 DEF Share

-----------------------------------------------------------------------------
(* The order of a replay.  S is the set of events that are replayed.       *)

\* Sets of commits that hold what their members supersede.
Closed(S, C) == C \in SUBSET Commits(S) /\ \A c \in C : Dep(S, c) \subseteq C

\* A visit passes through the least such set.
LEMMA ChainIs ==
    ASSUME NEW S, NEW i \in Commits(S)
    PROVE  /\ DOMAIN Chains(S) = Commits(S)
           /\ i \in Chains(S)[i]
           /\ Closed(S, Chains(S)[i])
           /\ \A C : Closed(S, C) /\ i \in C => Chains(S)[i] \subseteq C
  <1> DEFINE closed == {C \in SUBSET Commits(S) : \A c \in C : Dep(S, c) \subseteq C}
  <1>1. Chains(S) = [k \in Commits(S) |->
                       {d \in Commits(S) : \A C \in closed : k \in C => d \in C}]
    BY DEF Chains
  <1>2. Chains(S)[i] = {d \in Commits(S) : \A C \in closed : i \in C => d \in C}
    BY <1>1
  <1>3. \A c : Dep(S, c) \subseteq Commits(S)
    BY DEF Dep
  <1>4. \A C : Closed(S, C) <=> C \in closed
    BY DEF Closed
  <1>5. ASSUME NEW c \in Chains(S)[i], NEW d \in Dep(S, c) PROVE d \in Chains(S)[i]
    <2>1. \A C \in closed : i \in C => c \in C
      BY <1>2, <1>5
    <2>2. \A C \in closed : c \in C => d \in C
      BY <1>5
    <2> HIDE DEF closed
    <2> QED
      BY <1>2, <1>3, <1>5, <2>1, <2>2
  <1> HIDE DEF closed
  <1> QED
    BY <1>1, <1>2, <1>4, <1>5 DEF Closed

\* A memory has one commit, and what a commit supersedes is older.
LEMMA CommitsAre ==
    ASSUME History(log), NEW S \in SUBSET DOMAIN log
    PROVE  /\ \A i \in Commits(S) : i \in Nat /\ log[i].mem \in Memories
           /\ \A i, j \in Commits(S) : log[i].mem = log[j].mem => i = j
           /\ \A i \in Commits(S) : \A d \in Dep(S, i) : d \in Commits(S) /\ d < i
  <1>1. /\ log \in Seq(Event) /\ (\A k \in DOMAIN log : log[k].at = k)
        /\ \A k \in DOMAIN log : log[k] \in Event /\ Legal(log, k) /\ k \in Nat
    BY LogIs DEF History
  <1>2. \A i \in Commits(S) : /\ i \in DOMAIN log /\ i \in Nat /\ log[i].kind = "commit"
                              /\ log[i].mem \in Memories /\ log[i].sup \in Memories \cup {0}
    BY <1>1, EventIs DEF Commits
  <1>3. ASSUME NEW i \in Commits(S), NEW j \in Commits(S), i < j PROVE log[i].mem # log[j].mem
    <2>1. ~OnMemory(log[i], log[j].mem)
      BY <1>2, <1>3, Created
    <2> QED
      BY <1>2, <2>1 DEF OnMemory
  <1>4. ASSUME NEW i \in Commits(S), NEW d \in Dep(S, i) PROVE d \in Commits(S) /\ d < i
    <2>1. d \in Commits(S) /\ log[d].mem = log[i].sup
      BY DEF Dep
    <2>2. log[i].sup # 0
      BY <1>2, <2>1
    <2>3. log[i].mem # log[i].sup
      <3>1. /\ Row(log, 1..(i - 1)).mem[log[i].mem].status = "none"
            /\ MemoryRow(log, 1..(i - 1), log[i].sup).status = "active"
        BY <1>1, <1>2, <2>2 DEF Legal, Accepts, IsStatus, StatusKinds
      <3> QED
        BY <1>2, <2>2, <3>1 DEF Row
    <2>4. ~(i < d)
      <3> SUFFICES ASSUME i < d PROVE FALSE
        OBVIOUS
      <3>1. ~OnMemory(log[i], log[d].mem)
        BY <1>2, <2>1, Created
      <3> QED
        BY <1>2, <2>1, <3>1 DEF OnMemory
    <2> QED
      BY <1>2, <2>1, <2>3, <2>4
  <1> QED
    BY <1>2, <1>3, <1>4

\* A visit goes back in the log, and passes through the visits of what it
\* passes through.
LEMMA ChainOrder ==
    ASSUME History(log), NEW S \in SUBSET DOMAIN log,
           NEW i \in Commits(S), NEW j \in Commits(S)
    PROVE  /\ i \in Chains(S)[j] => i <= j
           /\ i \in Chains(S)[j] => \A k \in Commits(S) : j \in Chains(S)[k] => i \in Chains(S)[k]
           /\ \A k \in Commits(S) :
                i \in Chains(S)[k] /\ j \in Chains(S)[k] /\ i < j => i \in Chains(S)[j]
  <1> DEFINE chain == Chains(S)
  <1>1. /\ \A k \in Commits(S) : k \in Nat
        /\ \A k \in Commits(S) : \A d \in Dep(S, k) : d \in Commits(S) /\ d < k
        /\ \A k \in Commits(S) : \A c, d \in Dep(S, k) : c = d
    BY CommitsAre DEF Dep
  <1>2. \A k \in Commits(S) : /\ k \in chain[k] /\ Closed(S, chain[k])
                              /\ \A C : Closed(S, C) /\ k \in C => chain[k] \subseteq C
    BY ChainIs
  <1> HIDE DEF chain
  <1>3. ASSUME NEW k \in Commits(S), NEW d \in chain[k] PROVE d <= k /\ d \in Commits(S)
    <2> DEFINE C == {c \in Commits(S) : c <= k}
    <2>1. Closed(S, C)
      <3> SUFFICES ASSUME NEW c \in C, NEW e \in Dep(S, c) PROVE e \in C
        BY DEF Closed
      <3>1. e \in Commits(S) /\ e < c /\ c <= k
        BY <1>1
      <3> QED
        BY <1>1, <3>1
    <2>2. k \in C
      BY <1>1
    <2>3. chain[k] \subseteq C
      BY <1>2, <2>1, <2>2
    <2> QED
      BY <2>3
  <1>4. ASSUME NEW k \in Commits(S), i \in chain[j], j \in chain[k] PROVE i \in chain[k]
    <2>1. chain[j] \subseteq chain[k]
      BY <1>2, <1>4
    <2> QED
      BY <1>4, <2>1
  <1>5. ASSUME NEW k \in Commits(S), i \in chain[k], j \in chain[k], i < j PROVE i \in chain[j]
    <2> DEFINE C == {c \in Commits(S) : j \in chain[c]} \cup chain[j]
    <2>1. Closed(S, C)
      <3>1. C \in SUBSET Commits(S)
        BY <1>3
      <3>2. ASSUME NEW c \in C, NEW d \in Dep(S, c) PROVE d \in C
        <4>1. CASE c \in chain[j]
          BY <1>2, <4>1 DEF Closed
        <4>2. CASE c \in Commits(S) /\ j \in chain[c] /\ c # j
          <5>1. d \in Commits(S)
            BY <1>1, <4>2
          <5>2. Closed(S, {c} \cup chain[d])
            <6>1. Dep(S, c) \subseteq chain[d]
              BY <1>1, <1>2, <4>2, <5>1
            <6>2. Closed(S, chain[d])
              BY <1>2, <5>1
            <6> QED
              BY <4>2, <6>1, <6>2 DEF Closed
          <5>3. chain[c] \subseteq {c} \cup chain[d]
            BY <1>2, <4>2, <5>2
          <5> QED
            BY <4>2, <5>1, <5>3
        <4>3. CASE c = j
          BY <1>2, <4>3 DEF Closed
        <4> QED
          BY <4>1, <4>2, <4>3
      <3> HIDE DEF C
      <3> QED
        BY <3>1, <3>2 DEF Closed
    <2>2. k \in C
      BY <1>5
    <2>3. i \in C
      BY <1>2, <1>5, <2>1, <2>2
    <2>4. j \in chain[i] => j <= i
      BY <1>3
    <2> QED
      BY <1>1, <1>5, <2>3, <2>4
  <1> QED
    BY <1>3, <1>4, <1>5 DEF chain

\* The place of an event in the order: its class, then its visit or revision,
\* then its number.
Place(S, i, j) ==
    \/ Rank(i) < Rank(j)
    \/ Rank(i) = Rank(j) /\ Major(Chains(S), i) < Major(Chains(S), j)
    \/ Rank(i) = Rank(j) /\ Major(Chains(S), i) = Major(Chains(S), j) /\ i < j

\* The classes are ranked 1 to 4.
LEMMA RankOf ==
    ASSUME NEW i, log[i] \in Event
    PROVE  /\ Rank(i) \in 1..4
           /\ log[i].kind = "commit" <=> Rank(i) = 1
           /\ log[i].kind \in StatusKinds <=> Rank(i) = 2
           /\ log[i].kind = "state" <=> Rank(i) = 3
           /\ log[i].kind = "terminal" <=> Rank(i) = 4
  BY EventIs DEF Rank, IsStatus, StatusKinds

\* A commit is passed first from the smallest memory whose visit reaches it.
LEMMA VisitIs ==
    ASSUME History(log), NEW S \in SUBSET DOMAIN log, NEW i \in Commits(S)
    PROVE  /\ VisitedFrom(Chains(S), i) \in Nat
           /\ \E k \in Commits(S) :
                i \in Chains(S)[k] /\ log[k].mem = VisitedFrom(Chains(S), i)
           /\ \A k \in Commits(S) :
                i \in Chains(S)[k] => VisitedFrom(Chains(S), i) <= log[k].mem
  <1> DEFINE V == {log[j].mem : j \in {k \in DOMAIN Chains(S) : i \in Chains(S)[k]}}
  <1>1. DOMAIN Chains(S) = Commits(S) /\ i \in Chains(S)[i]
    BY ChainIs
  <1>2. V \in SUBSET Nat /\ V # {}
    <2>1. \A j \in Commits(S) : log[j].mem \in Nat
      BY CommitsAre
    <2>2. log[i].mem \in V
      BY <1>1
    <2> QED
      BY <1>1, <2>1, <2>2
  <1>3. VisitedFrom(Chains(S), i) = Min(V)
    BY DEF VisitedFrom
  <1>4. Min(V) \in V /\ \A v \in V : Min(V) <= v
    <2> HIDE DEF V
    <2>1. \E m \in V : \A n \in V : m <= n
      BY <1>2, Least
    <2> QED
      BY <2>1 DEF Min
  <1> QED
    BY <1>1, <1>2, <1>3, <1>4

\* What comes second in the order.
LEMMA MajorIs ==
    ASSUME History(log), NEW S \in SUBSET DOMAIN log, NEW i \in S
    PROVE  /\ log[i] \in Event /\ i \in Nat /\ Major(Chains(S), i) \in Nat
           /\ log[i].kind = "commit" =>
                i \in Commits(S) /\ Major(Chains(S), i) = VisitedFrom(Chains(S), i)
           /\ log[i].kind = "state" => Major(Chains(S), i) = log[i].rev
           /\ log[i].kind \in StatusKinds => Major(Chains(S), i) = 0
  <1>1. log[i] \in Event /\ i \in Nat
    BY LogIs DEF History
  <1>2. log[i].kind = "commit" => i \in Commits(S)
    BY DEF Commits
  <1>3. CASE log[i].kind = "commit"
    BY <1>1, <1>2, <1>3, VisitIs DEF Major, StatusKinds
  <1>4. CASE log[i].kind = "state"
    BY <1>1, <1>4, EventIs DEF Major, StatusKinds
  <1>5. CASE log[i].kind # "commit" /\ log[i].kind # "state"
    BY <1>1, <1>5 DEF Major
  <1> QED
    BY <1>1, <1>2, <1>3, <1>4, <1>5

\* Within a visit, what is superseded comes first: that is, what is older.
LEMMA OrderIs ==
    ASSUME History(log), NEW S \in SUBSET DOMAIN log, NEW i \in S, NEW j \in S
    PROVE  <<i, j>> \in ProjectionOrder(S) <=> Place(S, i, j)
  <1> DEFINE chain == Chains(S)
             major == [k \in S |-> Major(chain, k)]
             Before(x, y) ==
               \/ Rank(x) < Rank(y)
               \/ /\ Rank(x) = Rank(y)
                  /\ \/ major[x] < major[y]
                     \/ major[x] = major[y] /\ Minor(chain, x, y)
  <1>1. <<i, j>> \in ProjectionOrder(S) <=> i # j /\ Before(i, j)
    <2>1. ProjectionOrder(S) = {p \in S \X S : p[1] # p[2] /\ Before(p[1], p[2])}
      BY DEF ProjectionOrder
    <2> HIDE DEF Before
    <2>2. <<i, j>> \in S \X S /\ <<i, j>>[1] = i /\ <<i, j>>[2] = j
      OBVIOUS
    <2> QED
      BY <2>1, <2>2
  <1>2. major[i] = Major(Chains(S), i) /\ major[j] = Major(Chains(S), j)
    OBVIOUS
  <1>3. /\ log[i] \in Event /\ log[j] \in Event /\ i \in Nat /\ j \in Nat
        /\ Major(Chains(S), i) \in Nat /\ Rank(i) \in Nat
    BY MajorIs, RankOf
  <1>4. ASSUME i # j, Rank(i) = Rank(j), Major(Chains(S), i) = Major(Chains(S), j)
        PROVE  Minor(Chains(S), i, j) <=> i < j
    <2>1. CASE log[i].kind = "commit"
      <3>1. i \in Commits(S) /\ j \in Commits(S)
        BY <1>3, <1>4, <2>1, RankOf DEF Commits
      <3>2. VisitedFrom(Chains(S), i) = VisitedFrom(Chains(S), j)
        BY <1>4, <3>1, MajorIs DEF Commits
      <3>3. PICK a \in Commits(S) :
              i \in Chains(S)[a] /\ log[a].mem = VisitedFrom(Chains(S), i)
        BY <3>1, VisitIs
      <3>4. PICK b \in Commits(S) :
              j \in Chains(S)[b] /\ log[b].mem = VisitedFrom(Chains(S), j)
        BY <3>1, VisitIs
      <3>5. a = b
        BY <3>2, <3>3, <3>4, CommitsAre
      <3>6. /\ i \in Chains(S)[j] => i <= j
            /\ i < j => i \in Chains(S)[j]
        BY <3>1, <3>3, <3>4, <3>5, ChainOrder
      <3>7. Minor(Chains(S), i, j) <=> i \in Chains(S)[j]
        BY <2>1 DEF Minor
      <3> QED
        BY <1>3, <1>4, <3>6, <3>7
    <2>2. CASE log[i].kind # "commit"
      BY <2>2 DEF Minor
    <2> QED
      BY <2>1, <2>2
  <1>5. Before(i, j) <=> \/ Rank(i) < Rank(j)
                         \/ /\ Rank(i) = Rank(j)
                            /\ \/ Major(Chains(S), i) < Major(Chains(S), j)
                               \/ /\ Major(Chains(S), i) = Major(Chains(S), j)
                                  /\ Minor(Chains(S), i, j)
    BY <1>2
  <1> HIDE DEF Before
  <1> QED
    BY <1>1, <1>3, <1>4, <1>5 DEF Place

\* R orders the events S strictly and totally, and as they were appended
\* where they change the same row.
Orders(R, S) ==
    /\ \A i, j \in S : i # j => <<i, j>> \in R \/ <<j, i>> \in R
    /\ \A i, j \in S : <<i, j>> \in R => ~(<<j, i>> \in R)
    /\ \A i, j, k \in S : <<i, j>> \in R /\ <<j, k>> \in R => <<i, k>> \in R
Respects(R, S) == \A i, j \in S : i < j /\ Share(log[i], log[j]) => <<i, j>> \in R

\* The order of a replay does.
LEMMA ProjectionOrders ==
    ASSUME History(log), Revisions(log), NEW S \in SUBSET DOMAIN log
    PROVE  Orders(ProjectionOrder(S), S) /\ Respects(ProjectionOrder(S), S)
  <1>1. \A i \in S : /\ log[i] \in Event /\ i \in Nat /\ i \in DOMAIN log
                     /\ Major(Chains(S), i) \in Nat /\ Rank(i) \in Nat
    BY MajorIs, RankOf
  <1>2. \A i, j \in S : <<i, j>> \in ProjectionOrder(S) <=> Place(S, i, j)
    BY OrderIs
  <1>3. Orders(ProjectionOrder(S), S)
    <2>1. \A i, j \in S : i # j => Place(S, i, j) \/ Place(S, j, i)
      BY <1>1 DEF Place
    <2>2. \A i, j \in S : Place(S, i, j) => ~Place(S, j, i)
      BY <1>1 DEF Place
    <2>3. ASSUME NEW i \in S, NEW j \in S, NEW k \in S, Place(S, i, j), Place(S, j, k)
          PROVE  Place(S, i, k)
      BY <1>1, <2>3 DEF Place
    <2> QED
      BY <1>2, <2>1, <2>2, <2>3 DEF Orders
  <1>4. ASSUME NEW i \in S, NEW j \in S, i < j, Share(log[i], log[j])
        PROVE  Place(S, i, j)
    <2>1. CASE log[i].kind = "commit" /\ log[j].kind = "commit" /\ log[i].mem = log[j].sup
      <3>1. i \in Commits(S) /\ j \in Commits(S) /\ i \in Dep(S, j)
        BY <2>1 DEF Commits, Dep
      <3>2. i \in Chains(S)[j]
        BY <3>1, ChainIs DEF Closed
      <3>3. PICK b \in Commits(S) :
              j \in Chains(S)[b] /\ log[b].mem = VisitedFrom(Chains(S), j)
        BY <3>1, VisitIs
      <3>4. i \in Chains(S)[b]
        BY <3>1, <3>2, <3>3, ChainOrder
      <3>5. VisitedFrom(Chains(S), i) <= VisitedFrom(Chains(S), j)
        BY <3>1, <3>3, <3>4, VisitIs
      <3>6. Major(Chains(S), i) <= Major(Chains(S), j) /\ Rank(i) = Rank(j)
        BY <1>1, <2>1, <3>5, MajorIs, RankOf
      <3> QED
        BY <1>1, <1>4, <3>6 DEF Place
    <2>2. CASE log[i].kind = "commit" /\ log[j].kind \in StatusKinds
      BY <1>1, <2>2, RankOf DEF Place
    <2>3. CASE log[i].kind \in StatusKinds /\ log[j].kind \in StatusKinds
      <3>1. Rank(i) = Rank(j) /\ Major(Chains(S), i) = Major(Chains(S), j)
        BY <1>1, <2>3, MajorIs, RankOf
      <3> QED
        BY <1>4, <3>1 DEF Place
    <2>4. CASE log[i].kind = "state" /\ log[j].kind = "state" /\ log[i].rev < log[j].rev
      <3>1. Rank(i) = Rank(j) /\ Major(Chains(S), i) < Major(Chains(S), j)
        BY <1>1, <2>4, MajorIs, RankOf
      <3> QED
        BY <3>1 DEF Place
    <2> QED
      BY <1>1, <1>4, <2>1, <2>2, <2>3, <2>4, Conflicts
  <1> QED
    BY <1>2, <1>3, <1>4 DEF Respects

\* So does that of the appends.
LEMMA AppendOrders ==
    ASSUME History(log)
    PROVE  Orders(AppendOrder, DOMAIN log) /\ Respects(AppendOrder, DOMAIN log)
  <1>1. \A i \in DOMAIN log : i \in Nat
    BY LogIs DEF History
  <1>2. \A i, j \in DOMAIN log : <<i, j>> \in AppendOrder <=> i < j
    BY DEF AppendOrder
  <1> QED
    BY <1>1, <1>2 DEF Orders, Respects

-----------------------------------------------------------------------------
(* Recursion over the subsets of a finite set.                             *)

\* A function pick takes an element off every nonempty subset of M, and a
\* function f is computed by taking them off one by one.
Picks(pick, M) == \A S \in SUBSET M : S # {} => pick[S] \in S
Solves(f, M, pick, base, G) ==
    \A S \in SUBSET M : f[S] = IF S = {} THEN base ELSE G[S][f[S \ {pick[S]}]]

\* Such a function exists.
LEMMA Recursion ==
    ASSUME NEW M, NEW pick, NEW D, NEW base, NEW G,
           IsFiniteSet(M), Picks(pick, M),
           base \in D, G \in [SUBSET M -> [D -> D]]
    PROVE  \E f \in [SUBSET M -> D] : Solves(f, M, pick, base, G)
  <1> USE DEF Picks
  <1> DEFINE Upto(n) == {S \in SUBSET M : Cardinality(S) <= n}
             Good(n) == \E f \in [Upto(n) -> D] : \A S \in Upto(n) :
                            f[S] = IF S = {} THEN base ELSE G[S][f[S \ {pick[S]}]]
             Wrong == {n \in Nat : ~Good(n)}
  <1>1. \A S \in SUBSET M : /\ IsFiniteSet(S) /\ Cardinality(S) \in Nat
                            /\ S # {} => Cardinality(S \ {pick[S]}) = Cardinality(S) - 1
                            /\ S # {} => Cardinality(S) > 0
    <2> TAKE S \in SUBSET M
    <2>1. IsFiniteSet(S)
      BY FS_Subset
    <2>2. Cardinality(S) \in Nat
      BY <2>1, FS_CardinalityType
    <2>3. ASSUME S # {} PROVE Cardinality(S \ {pick[S]}) = Cardinality(S) - 1
      BY <2>1, <2>3, FS_RemoveElement
    <2>4. S # {} => Cardinality(S) > 0
      <3>1. Cardinality(S) = 0 <=> S = {}
        BY <2>1, FS_EmptySet
      <3>2. \A k \in Nat : k # 0 => k > 0
        OBVIOUS
      <3> QED
        BY <2>2, <3>1, <3>2, Zenon
    <2> QED
      BY <2>1, <2>2, <2>3, <2>4
  <1>2. Good(0)
    <2>1. ASSUME NEW S \in Upto(0) PROVE S = {}
      <3>1. S \in SUBSET M /\ Cardinality(S) <= 0
        OBVIOUS
      <3>2. PICK c \in Nat : c = Cardinality(S)
        BY <1>1, <3>1
      <3>3. ~(c > 0)
        BY <3>1, <3>2
      <3> QED
        BY <1>1, <3>1, <3>2, <3>3
    <2> DEFINE f == [S \in Upto(0) |-> base]
    <2> HIDE DEF Upto
    <2>2. f \in [Upto(0) -> D]
      OBVIOUS
    <2>3. \A S \in Upto(0) : f[S] = IF S = {} THEN base ELSE G[S][f[S \ {pick[S]}]]
      BY <2>1
    <2> QED
      BY <2>2, <2>3
  <1>3. ASSUME NEW n \in Nat, Good(n) PROVE Good(n + 1)
    <2>1. PICK f \in [Upto(n) -> D] : \A S \in Upto(n) :
                            f[S] = IF S = {} THEN base ELSE G[S][f[S \ {pick[S]}]]
      BY <1>3
    <2> DEFINE g == [S \in Upto(n + 1) |-> IF S \in Upto(n) THEN f[S] ELSE G[S][f[S \ {pick[S]}]]]
    <2>2. ASSUME NEW S \in Upto(n + 1), S # {} PROVE S \ {pick[S]} \in Upto(n)
      <3>1. S \in SUBSET M /\ S \ {pick[S]} \in SUBSET M /\ Cardinality(S) <= n + 1
        OBVIOUS
      <3>2. PICK c \in Nat : c = Cardinality(S)
        BY <1>1, <3>1
      <3>3. Cardinality(S \ {pick[S]}) = c - 1 /\ c - 1 <= n
        <4>1. Cardinality(S \ {pick[S]}) = c - 1
          BY <1>1, <2>2, <3>1, <3>2
        <4>2. c <= n + 1
          BY <3>1, <3>2
        <4> QED
          BY <4>1, <4>2
      <3> QED
        BY <3>1, <3>3
    <2>3. ASSUME NEW S \in Upto(n) PROVE S \in Upto(n + 1) /\ S \in SUBSET M
      <3>1. S \in SUBSET M /\ Cardinality(S) <= n
        OBVIOUS
      <3>2. PICK c \in Nat : c = Cardinality(S)
        BY <1>1, <3>1
      <3>3. c <= n + 1
        BY <3>1, <3>2
      <3> QED
        BY <3>1, <3>2, <3>3
    <2>4. \A S \in Upto(n + 1) : S \in SUBSET M /\ (S \notin Upto(n) => S # {})
      BY <1>1, FS_EmptySet
    <2> HIDE DEF Upto
    <2>5. g \in [Upto(n + 1) -> D]
      <3>1. ASSUME NEW S \in Upto(n + 1), S \notin Upto(n) PROVE G[S][f[S \ {pick[S]}]] \in D
        <4>1. S \in SUBSET M /\ f[S \ {pick[S]}] \in D
          BY <2>2, <2>4, <3>1
        <4> QED
          BY <4>1
      <3> QED
        BY <3>1
    <2>6. ASSUME NEW S \in Upto(n + 1)
          PROVE g[S] = IF S = {} THEN base ELSE G[S][g[S \ {pick[S]}]]
      <3>1. CASE S = {}
        BY <2>1, <2>4, <3>1
      <3>2. CASE S # {}
        <4>1. g[S \ {pick[S]}] = f[S \ {pick[S]}]
          BY <2>2, <2>3, <3>2
        <4>2. g[S] = G[S][f[S \ {pick[S]}]]
          BY <2>1, <3>2
        <4> QED
          BY <4>1, <4>2, <3>2
      <3> QED
        BY <3>1, <3>2
    <2> QED
      BY <2>5, <2>6
  <1>4. Wrong = {}
    <2> SUFFICES ASSUME Wrong # {} PROVE FALSE
      OBVIOUS
    <2>1. PICK m \in Wrong : \A n \in Wrong : m <= n
      BY Least
    <2> HIDE DEF Good
    <2>2. m # 0 /\ m - 1 \in Nat /\ m - 1 \notin Wrong
      BY <1>2, <2>1
    <2>3. Good(m - 1)
      BY <2>2
    <2>4. Good((m - 1) + 1)
      BY <1>3, <2>2, <2>3
    <2> QED
      BY <2>1, <2>4
  <1>5. Cardinality(M) \in Nat /\ Upto(Cardinality(M)) = SUBSET M
    BY FS_CardinalityType, FS_Subset
  <1>6. Good(Cardinality(M))
    BY <1>4, <1>5
  <1> HIDE DEF Upto
  <1> QED
    BY <1>5, <1>6 DEF Solves

-----------------------------------------------------------------------------
(* What a replay comes to.                                                 *)

\* The last of a set of events, in the order R.
LastIn(R, T) == CHOOSE i \in T : \A j \in T \ {i} : <<j, i>> \in R

\* There is a last one in every order.
LEMMA LastIs ==
    ASSUME NEW S, NEW R, IsFiniteSet(S), Orders(R, S), NEW T \in SUBSET S, T # {}
    PROVE  LastIn(R, T) \in T /\ \A j \in T \ {LastIn(R, T)} : <<j, LastIn(R, T)>> \in R
  <1> DEFINE HasLast(U) == \E i \in U : \A j \in U \ {i} : <<j, i>> \in R
             Wrong == {Cardinality(U) : U \in {V \in SUBSET S : V # {} /\ ~HasLast(V)}}
  <1>1. \A U \in SUBSET S : IsFiniteSet(U) /\ Cardinality(U) \in Nat
    <2> TAKE U \in SUBSET S
    <2>1. IsFiniteSet(U)
      BY FS_Subset
    <2> QED
      BY <2>1, FS_CardinalityType
  <1>2. Wrong = {}
    <2> SUFFICES ASSUME Wrong # {} PROVE FALSE
      OBVIOUS
    <2>1. PICK m \in Wrong : \A n \in Wrong : m <= n
      <3>1. Wrong \in SUBSET Nat
        BY <1>1
      <3> HIDE DEF Wrong
      <3> QED
        BY <3>1, Least
    <2>2. PICK U \in SUBSET S : U # {} /\ ~HasLast(U) /\ Cardinality(U) = m
      BY <2>1
    <2>3. PICK x \in U : TRUE
      BY <2>2
    <2>4. Cardinality(U \ {x}) = m - 1 /\ m \in Nat /\ U \ {x} \in SUBSET S
      BY <1>1, <2>2, <2>3, FS_RemoveElement
    <2>5. U \ {x} # {} => HasLast(U \ {x})
      <3>1. m - 1 \notin Wrong
        <4> HIDE DEF Wrong
        <4> QED
          BY <2>1, <2>4
      <3> HIDE DEF HasLast
      <3> QED
        BY <2>4, <3>1
    <2>6. CASE U \ {x} = {}
      BY <2>2, <2>3, <2>6
    <2>7. CASE U \ {x} # {}
      <3>1. PICK l \in U \ {x} : \A j \in (U \ {x}) \ {l} : <<j, l>> \in R
        BY <2>5, <2>7
      <3>2. CASE <<x, l>> \in R
        <4>1. \A j \in U \ {l} : <<j, l>> \in R
          BY <3>1, <3>2
        <4> QED
          BY <2>2, <3>1, <4>1
      <3>3. CASE <<l, x>> \in R
        <4>1. \A j \in U \ {x} : j \in S /\ l \in S /\ x \in S
          BY <2>3, <3>1
        <4>2. \A j \in U \ {x} : <<j, x>> \in R
          BY <3>1, <3>3, <4>1 DEF Orders
        <4> QED
          BY <2>2, <2>3, <4>2
      <3> QED
        BY <2>3, <3>1, <3>2, <3>3 DEF Orders
    <2> QED
      BY <2>6, <2>7
  <1>3. HasLast(T)
    <2> HIDE DEF HasLast
    <2> QED
      BY <1>2
  <1> QED
    BY <1>3 DEF LastIn

\* f is what the events have made of p: they are applied one by one, and the
\* first that is refused undoes them all.
Applied(p, e) == IF p # Failed /\ Accepts(p, e) THEN Apply(p, e) ELSE Failed
Replays(f, p, S, R) ==
    \A T \in SUBSET S :
        f[T] = IF T = {} THEN p ELSE Applied(f[T \ {LastIn(R, T)}], log[LastIn(R, T)])

\* Applying an event to rows gives rows.
LEMMA AppliedTyped ==
    ASSUME NEW p \in Projection \cup {Failed}, NEW e \in Event
    PROVE  Applied(p, e) \in Projection \cup {Failed}
  <1> SUFFICES ASSUME p \in Projection, Accepts(p, e) PROVE Apply(p, e) \in Projection
    BY DEF Applied
  <1>1. CASE e.kind = "commit"
    <2>1. Committed(p.mem, e) \in [Memories -> [status : {"none", "active"} \cup StatusKinds,
                                                until : Numbers]]
      BY <1>1, EventIs DEF Committed, Projection, StatusKinds, Numbers
    <2> QED
      BY <1>1, <2>1 DEF Apply, IsStatus, StatusKinds, Projection
  <1>2. CASE e.kind \in StatusKinds
    <2>1. Marked(p.mem[e.mem], e) \in [status : {"none", "active"} \cup StatusKinds,
                                       until : Numbers]
      <3>1. p.mem[e.mem] \in [status : {"none", "active"} \cup StatusKinds, until : Numbers]
        BY <1>2, EventIs DEF Projection
      <3>2. p.mem[e.mem].until \in Numbers /\ e.at \in Numbers /\ e.kind \in StatusKinds
        BY <1>2, <3>1, EventIs DEF Numbers
      <3> QED
        BY <3>2 DEF Marked
    <2>2. Apply(p, e) = [p EXCEPT !.mem = [p.mem EXCEPT ![e.mem] = Marked(p.mem[e.mem], e)]]
      BY <1>2 DEF Apply, IsStatus, StatusKinds
    <2>3. [p.mem EXCEPT ![e.mem] = Marked(p.mem[e.mem], e)]
            \in [Memories -> [status : {"none", "active"} \cup StatusKinds, until : Numbers]]
      <3> DEFINE Rows == [status : {"none", "active"} \cup StatusKinds, until : Numbers]
      <3>1. p.mem \in [Memories -> Rows] /\ Marked(p.mem[e.mem], e) \in Rows
        BY <2>1 DEF Projection
      <3> HIDE DEF Rows
      <3>2. [p.mem EXCEPT ![e.mem] = Marked(p.mem[e.mem], e)] \in [Memories -> Rows]
        BY <3>1
      <3> QED
        BY <3>2 DEF Rows
    <2> QED
      BY <2>2, <2>3 DEF Projection
  <1>3. CASE e.kind = "state"
    <2>1. Apply(p, e) = [p EXCEPT !.state = [p.state EXCEPT ![e.task] =
                                               [rev |-> e.rev, head |-> e.at]]]
      BY <1>3 DEF Apply, IsStatus, StatusKinds
    <2>2. [rev |-> e.rev, head |-> e.at] \in [rev : Numbers, head : Numbers]
      BY <1>3, EventIs DEF Numbers
    <2> QED
      BY <2>1, <2>2 DEF Projection
  <1>4. CASE e.kind = "terminal"
    <2>1. Apply(p, e) = [p EXCEPT !.term = [p.term EXCEPT ![e.task] = e.at]]
      BY <1>4 DEF Apply, IsStatus, StatusKinds
    <2>2. e.at \in Numbers /\ p.term \in [Tasks -> Numbers]
      BY EventIs DEF Numbers, Projection
    <2>3. [p.term EXCEPT ![e.task] = e.at] \in [Tasks -> Numbers]
      BY <2>2
    <2> QED
      BY <2>1, <2>3 DEF Projection
  <1> QED
    BY <1>1, <1>2, <1>3, <1>4, EventIs

\* There is one such function, and a replay returns what it comes to.
LEMMA ApplyAllIs ==
    ASSUME History(log), NEW S \in SUBSET DOMAIN log, NEW R, Orders(R, S),
           NEW p \in Projection
    PROVE  \E f : ApplyAll(p, S, R) = f[S] /\ Replays(f, p, S, R)
  <1> DEFINE D == Projection \cup {Failed}
             body(f) == [T \in SUBSET S |->
                          IF T = {} THEN p
                          ELSE IF f[T \ {LastIn(R, T)}] # Failed
                                    /\ Accepts(f[T \ {LastIn(R, T)}], log[LastIn(R, T)])
                               THEN Apply(f[T \ {LastIn(R, T)}], log[LastIn(R, T)]) ELSE Failed]
             pick == [T \in SUBSET S |-> LastIn(R, T)]
             G == [T \in SUBSET S |-> [d \in D |->
                     IF T = {} THEN d ELSE Applied(d, log[LastIn(R, T)])]]
  <1>1. IsFiniteSet(S) /\ \A i \in S : log[i] \in Event
    <2>1. DOMAIN log = 1..Len(log) /\ Len(log) \in Nat
      BY LogIs DEF History
    <2>2. IsFiniteSet(DOMAIN log)
      BY <2>1, FS_Interval
    <2> QED
      BY <2>2, FS_Subset, LogIs DEF History
  <1>2. \A T \in SUBSET S : T # {} => LastIn(R, T) \in T
    BY <1>1, LastIs
  <1>3. Picks(pick, S)
    BY <1>2 DEF Picks
  <1>4. G \in [SUBSET S -> [D -> D]]
    <2>1. ASSUME NEW T \in SUBSET S, NEW d \in D
          PROVE  (IF T = {} THEN d ELSE Applied(d, log[LastIn(R, T)])) \in D
      BY <1>1, <1>2, AppliedTyped
    <2> HIDE DEF D
    <2> QED
      BY <2>1
  <1> HIDE DEF pick, G
  <1>5. PICK h \in [SUBSET S -> D] : Solves(h, S, pick, p, G)
    <2>1. p \in D
      OBVIOUS
    <2> HIDE DEF D, body
    <2> QED
      BY <1>1, <1>3, <1>4, <2>1, Recursion
  <1> HIDE DEF D
  <1>6. h = body(h)
    <2>1. ASSUME NEW T \in SUBSET S PROVE h[T] = body(h)[T]
      <3>1. CASE T = {}
        BY <1>5, <3>1 DEF Solves
      <3>2. CASE T # {}
        <4>1. h[T] = G[T][h[T \ {pick[T]}]] /\ pick[T] = LastIn(R, T)
          BY <1>5, <3>2 DEF pick, Solves
        <4>2. h[T \ {LastIn(R, T)}] \in D
          BY <1>5
        <4>3. h[T] = Applied(h[T \ {LastIn(R, T)}], log[LastIn(R, T)])
          BY <4>1, <4>2, <3>2 DEF G
        <4> QED
          BY <4>3, <3>2 DEF Applied
      <3> QED
        BY <3>1, <3>2
    <2> QED
      BY <2>1, <1>5
  <1> DEFINE a == CHOOSE f : f = body(f)
  <1>7. ApplyAll(p, S, R) = a[S]
    BY DEF ApplyAll, LastIn
  <1>8. a = body(a)
    <2> HIDE DEF body
    <2> QED
      BY <1>6
  <1>9. Replays(a, p, S, R)
    <2> HIDE DEF a
    <2>1. \A T \in SUBSET S : a[T] = body(a)[T]
      BY <1>8
    <2> QED
      BY <2>1 DEF Replays, Applied
  <1> QED
    <2> HIDE DEF a
    <2> QED
      BY <1>7, <1>9

\* A replay of all the events without a row succeeds, and gives the rows of the
\* whole log, in every order that keeps the order of the appends where two
\* events change the same row.
LEMMA ReplayGivesRow ==
    ASSUME History(log), Revisions(log), NEW P \in SUBSET DOMAIN log, NEW R,
           \A i \in DOMAIN log \ P, j \in P : Share(log[i], log[j]) => j < i,
           Orders(R, DOMAIN log \ P), Respects(R, DOMAIN log \ P)
    PROVE  ApplyAll(Row(log, P), DOMAIN log \ P, R) = Row(log, DOMAIN log)
  <1> DEFINE M == DOMAIN log \ P
             Down(S) == \A x \in S, y \in M : y < x /\ Share(log[y], log[x]) => y \in S
  <1>1. /\ log \in Seq(Event) /\ (\A k \in DOMAIN log : log[k].at = k)
        /\ \A k \in DOMAIN log : log[k] \in Event /\ k \in Nat /\ Legal(log, k)
        /\ \A k \in DOMAIN log : 1..(k - 1) \in SUBSET DOMAIN log
        /\ \A k \in DOMAIN log : \A j \in DOMAIN log : j \in 1..(k - 1) <=> j < k
        /\ IsFiniteSet(DOMAIN log)
    <2>1. /\ log \in Seq(Event) /\ (\A k \in DOMAIN log : log[k].at = k)
          /\ \A k \in DOMAIN log : Legal(log, k)
      BY DEF History
    <2>2. DOMAIN log = 1..Len(log) /\ Len(log) \in Nat
      BY <2>1
    <2>3. IsFiniteSet(DOMAIN log)
      BY <2>2, FS_Interval
    <2> QED
      BY <2>1, <2>2, <2>3, LogIs
  <1>2. \A Q \in SUBSET DOMAIN log : Row(log, Q) \in Projection
    BY <1>1, RowTyped
  <1>3. PICK g : ApplyAll(Row(log, P), M, R) = g[M] /\ Replays(g, Row(log, P), M, R)
    <2>1. PICK p \in Projection : p = Row(log, P)
      BY <1>2
    <2>2. \E f : ApplyAll(p, M, R) = f[M] /\ Replays(f, p, M, R)
      BY ApplyAllIs
    <2> QED
      BY <2>1, <2>2
  <1>4. \A S \in SUBSET M : IsFiniteSet(S) /\ Cardinality(S) \in Nat
    <2> TAKE S \in SUBSET M
    <2>1. IsFiniteSet(S)
      BY <1>1, FS_Subset
    <2> QED
      BY <2>1, FS_CardinalityType
  <1> DEFINE Wrong == {Cardinality(S) :
                         S \in {U \in SUBSET M : Down(U) /\ g[U] # Row(log, P \cup U)}}
  <1>5. Wrong = {}
    <2> SUFFICES ASSUME Wrong # {} PROVE FALSE
      OBVIOUS
    <2>1. PICK m \in Wrong : \A n \in Wrong : m <= n
      <3>1. Wrong \in SUBSET Nat
        BY <1>4
      <3> QED
        BY <3>1, Least
    <2>2. PICK S \in SUBSET M : Down(S) /\ g[S] # Row(log, P \cup S) /\ Cardinality(S) = m
      BY <2>1
    <2>3. S # {}
      <3> SUFFICES ASSUME S = {} PROVE FALSE
        OBVIOUS
      <3>1. g[S] = Row(log, P)
        BY <1>3 DEF Replays
      <3>2. P \cup S = P
        OBVIOUS
      <3> QED
        BY <2>2, <3>1, <3>2
    <2> DEFINE last == LastIn(R, S)
               T == S \ {last}
               Q == P \cup T
    <2>4. last \in S /\ \A x \in S \ {last} : <<x, last>> \in R
      <3>1. IsFiniteSet(M)
        BY <1>4
      <3> QED
        BY <2>3, <3>1, LastIs
    <2>5. T \in SUBSET M /\ Cardinality(T) = m - 1 /\ m \in Nat
      BY <1>4, <2>2, <2>4, FS_RemoveElement
    <2> HIDE DEF last
    <2>6. \A x \in T : ~(<<last, x>> \in R)
      BY <2>4 DEF Orders
    <2>7. Down(T)
      <3> SUFFICES ASSUME NEW x \in T, NEW y \in M, y < x, Share(log[y], log[x]) PROVE y \in T
        OBVIOUS
      <3>1. y \in S
        BY <2>2
      <3>2. <<y, x>> \in R
        BY DEF Respects
      <3> QED
        BY <2>6, <3>1, <3>2
    <2>8. g[T] = Row(log, Q)
      <3>1. m - 1 \notin Wrong
        <4> HIDE DEF Wrong
        <4> QED
          BY <2>1, <2>5
      <3> HIDE DEF T, Down
      <3> QED
        BY <2>5, <2>7, <3>1
    <2>9. /\ Q \in SUBSET DOMAIN log /\ last \in DOMAIN log /\ last \notin Q
          /\ Q \cup {last} = P \cup S
      BY <2>4
    <2>10. \A j \in Q : Share(log[last], log[j]) => j < last
      <3>1. ASSUME NEW j \in T, Share(log[last], log[j]) PROVE j < last
        <4>1. ~(last < j)
          BY <2>4, <2>6, <3>1 DEF Respects
        <4> QED
          BY <1>1, <2>4, <4>1
      <3> QED
        BY <2>4, <3>1
    <2>11. Accepts(Row(log, Q), log[last])
      <3> DEFINE Old == 1..(last - 1)
      <3>1. Old \in SUBSET DOMAIN log /\ Accepts(Row(log, Old), log[last])
        BY <1>1, <2>9 DEF Legal
      <3>2. ASSUME NEW j \in Old \ Q PROVE ~Share(log[j], log[last])
        <4>1. j \in M /\ j \notin T /\ j < last
          BY <1>1, <2>9, <3>1
        <4>2. j \notin S
          BY <1>1, <2>9, <4>1
        <4> QED
          BY <2>2, <2>4, <4>1, <4>2
      <3>3. ASSUME NEW j \in Q \ Old PROVE ~Share(log[j], log[last])
        <4>1. ~(j < last)
          BY <1>1, <2>9
        <4>2. Share(log[j], log[last]) => Share(log[last], log[j])
          BY DEF Share
        <4> QED
          BY <2>10, <4>1, <4>2
      <3> HIDE DEF Old, Q
      <3>4. Accepts(Row(log, Old), log[last]) <=> Accepts(Row(log, Q), log[last])
        BY <1>1, <2>9, <3>1, <3>2, <3>3, SameAccepts
      <3> QED
        BY <3>1, <3>4
    <2>12. g[S] = Applied(Row(log, Q), log[last])
      BY <1>3, <2>3, <2>8 DEF last, Replays
    <2> HIDE DEF Q
    <2>13. Row(log, Q) # Failed
      BY <1>2, <2>9
    <2>14. Apply(Row(log, Q), log[last]) = Row(log, Q \cup {last})
      BY <1>1, <2>9, <2>10, <2>11, StepRow
    <2> QED
      BY <2>2, <2>9, <2>11, <2>12, <2>13, <2>14 DEF Applied
  <1>6. Down(M) /\ P \cup M = DOMAIN log
    OBVIOUS
  <1> HIDE DEF Down, M
  <1>7. g[M] = Row(log, P \cup M)
    BY <1>5, <1>6
  <1> QED
    BY <1>3, <1>6, <1>7 DEF M

\* The replay of the missing events, in the order of replay().
LEMMA ReplayedIs ==
    ASSUME History(log), Revisions(log), NEW P \in SUBSET DOMAIN log,
           \A i \in DOMAIN log \ P, j \in P : Share(log[i], log[j]) => j < i
    PROVE  Replayed(Row(log, P), DOMAIN log \ P) = Row(log, DOMAIN log)
  <1> DEFINE S == DOMAIN log \ P
  <1>1. Orderable(S)
    <2>1. S \in SUBSET DOMAIN log
      OBVIOUS
    <2> HIDE DEF S
    <2>2. ASSUME NEW i \in Commits(S), NEW j \in Commits(S),
                 log[i].mem = log[j].mem \/ (i \in Chains(S)[j] /\ j \in Chains(S)[i])
          PROVE  i = j
      <3>1. CASE log[i].mem = log[j].mem
        BY <2>1, <3>1, CommitsAre
      <3>2. CASE i \in Chains(S)[j] /\ j \in Chains(S)[i]
        <4>1. i <= j /\ j <= i /\ i \in Nat /\ j \in Nat
          BY <2>1, <3>2, ChainOrder, CommitsAre
        <4> QED
          BY <4>1
      <3> QED
        BY <2>2, <3>1, <3>2
    <2> QED
      BY <2>2 DEF Orderable
  <1>2. Orders(ProjectionOrder(S), S) /\ Respects(ProjectionOrder(S), S)
    BY ProjectionOrders
  <1>3. ApplyAll(Row(log, P), S, ProjectionOrder(S)) = Row(log, DOMAIN log)
    BY <1>2, ReplayGivesRow
  <1> HIDE DEF S
  <1>4. Replayed(Row(log, P), S) = Row(log, DOMAIN log)
    BY <1>1, <1>3 DEF Replayed
  <1> QED
    BY <1>4 DEF S

\* Nothing is projected in an empty projection.
LEMMA ClearedIs == Row(log, {}) = Cleared
  BY DEF Row, Cleared, MemoryRow, StateRow, TerminalRow, MemoryEvents, StateEvents,
         TerminalEvents

-----------------------------------------------------------------------------
(* The operations                                                          *)

\* M is the log L with e at its end, and says the same of the events of L.
Extends(M, L, e) ==
    /\ M \in Seq(Event) /\ \A i \in DOMAIN M : M[i].at = i
    /\ Len(L) \in Nat /\ DOMAIN L = 1..Len(L)
    /\ DOMAIN M = 1..(Len(L) + 1) /\ DOMAIN M = DOMAIN L \cup {Len(L) + 1}
    /\ M[Len(L) + 1] = e /\ \A i \in DOMAIN L : M[i] = L[i]
    /\ \A P \in SUBSET DOMAIN L :
         /\ Row(M, P) = Row(L, P)
         /\ \A m : MemoryRow(M, P, m) = MemoryRow(L, P, m)

\* An append extends the log.
LEMMA AppendIs ==
    ASSUME NEW L \in Seq(Event), \A i \in DOMAIN L : L[i].at = i, NEW e \in Event,
           e.at = Len(L) + 1, NEW M, M = Append(L, e)
    PROVE  Extends(M, L, e)
  <1>1. /\ M \in Seq(Event) /\ Len(L) \in Nat /\ DOMAIN L = 1..Len(L)
        /\ DOMAIN M = 1..(Len(L) + 1)
        /\ M[Len(L) + 1] = e /\ \A i \in 1..Len(L) : M[i] = L[i]
    OBVIOUS
  <1>2. DOMAIN M = DOMAIN L \cup {Len(L) + 1} /\ \A i \in DOMAIN M : M[i].at = i
    BY <1>1
  <1>3. ASSUME NEW P \in SUBSET DOMAIN L
        PROVE  /\ Row(M, P) = Row(L, P)
               /\ \A m : MemoryRow(M, P, m) = MemoryRow(L, P, m)
    <2>1. P \in SUBSET (0..MaxEvents) /\ \A i \in P : M[i] = L[i]
      BY <1>1, LogIs
    <2>2. ASSUME NEW m PROVE MemoryRow(M, P, m) = MemoryRow(L, P, m)
      <3>1. MemoryEvents(M, P, m) = MemoryEvents(L, P, m)
        BY <2>1 DEF MemoryEvents
      <3>2. Closing(M, P, m) = Closing(L, P, m)
        BY <2>1, <3>1 DEF Closing, MemoryEvents
      <3>3. MemoryEvents(L, P, m) # {} => Max(MemoryEvents(L, P, m)) \in P
        BY <2>1, Greatest DEF MemoryEvents
      <3> QED
        BY <2>1, <3>1, <3>2, <3>3 DEF MemoryRow
    <2>3. ASSUME NEW t PROVE StateRow(M, P, t) = StateRow(L, P, t)
      <3>1. StateEvents(M, P, t) = StateEvents(L, P, t)
        BY <2>1 DEF StateEvents
      <3>2. StateEvents(L, P, t) # {} => Max(StateEvents(L, P, t)) \in P
        BY <2>1, Greatest DEF StateEvents
      <3> QED
        BY <2>1, <3>1, <3>2 DEF StateRow
    <2>4. ASSUME NEW t PROVE TerminalRow(M, P, t) = TerminalRow(L, P, t)
      <3>1. TerminalEvents(M, P, t) = TerminalEvents(L, P, t)
        BY <2>1 DEF TerminalEvents
      <3> QED
        BY <3>1 DEF TerminalRow
    <2> QED
      BY <2>2, <2>3, <2>4 DEF Row
  <1> QED
    BY <1>1, <1>2, <1>3 DEF Extends

\* What sessions keep apart, an event does not share with one without a row.
LEMMA AskedApart ==
    ASSUME ~SharedKeys, History(log), NEW e \in Event, Asked(e), NEW i \in Missing
    PROVE  ~Share(log[i], e)
  <1>1. log[i] \in Event
    BY LogIs DEF History, Missing
  <1>2. Touches(log[i]) \cap Touches(e) = {}
    BY DEF Asked
  <1>3. ASSUME NEW f \in Event, NEW m \in Memories, OnMemory(f, m)
        PROVE  <<"memory", m>> \in Touches(f)
    <2>1. f.kind \notin {"state", "terminal"} /\ (f.mem = m \/ f.sup = m)
      BY <1>3 DEF OnMemory, StatusKinds
    <2>2. <<"memory", m>> # <<"memory", 0>>
      OBVIOUS
    <2> QED
      BY <2>1, <2>2 DEF Touches
  <1>4. ASSUME NEW f \in Event, NEW t, OnState(f, t) \/ OnTerminal(f, t)
        PROVE  <<"task", t>> \in Touches(f)
    BY <1>4 DEF OnState, OnTerminal, Touches
  <1> QED
    BY <1>1, <1>2, <1>3, <1>4 DEF Share

\* The revision of a task's newest state.
LEMMA RevisionIs ==
    ASSUME History(log), Revisions(log), NEW P \in SUBSET DOMAIN log, NEW t \in Tasks
    PROVE  /\ StateRow(log, P, t).rev \in 0..Len(log)
           /\ \A i \in StateEvents(log, P, t) : log[i].rev <= StateRow(log, P, t).rev
  <1>1. /\ log \in Seq(Event) /\ \A k \in DOMAIN log : log[k].at = k
        /\ DOMAIN log = 1..Len(log) /\ Len(log) \in Nat
    BY LogIs DEF History
  <1>2. CASE StateEvents(log, P, t) = {}
    BY <1>1, <1>2 DEF StateRow
  <1>3. CASE StateEvents(log, P, t) # {}
    <2>1. PICK s \in StateEvents(log, P, t) :
            /\ StateRow(log, P, t).rev = log[s].rev
            /\ \A i \in StateEvents(log, P, t) : i <= s
      BY <1>1, <1>3, RowSays
    <2>2. \A i \in StateEvents(log, P, t) :
             i \in 1..Len(log) /\ log[i].rev \in Nat /\ log[i].rev <= i /\ OnState(log[i], t)
      <3> TAKE i \in StateEvents(log, P, t)
      <3>1. i \in DOMAIN log /\ OnState(log[i], t) /\ log[i] \in Event
        BY <1>1, LogIs DEF StateEvents
      <3>2. log[i].kind = "state"
        BY <3>1 DEF OnState
      <3> QED
        BY <1>1, <3>1, <3>2, EventIs DEF Revisions
    <2>3. \A i \in StateEvents(log, P, t) : i = s \/ log[i].rev < log[s].rev
      BY <1>1, <2>1, <2>2 DEF Revisions
    <2>4. log[s].rev \in 0..Len(log)
      BY <1>1, <2>1, <2>2
    <2>5. \A i \in StateEvents(log, P, t) : log[i].rev <= log[s].rev
      BY <2>1, <2>2, <2>3
    <2> QED
      BY <2>1, <2>4, <2>5
  <1> QED
    BY <1>2, <1>3

\* append()
LEMMA AppendInv ==
    ASSUME Undisputed, ProjectionInv, NEW e \in Event, AppendEvent(e) PROVE ProjectionInv'
  <1> DEFINE n == Len(log)
  <1>0. PICK M : M = Append(log, e)
    OBVIOUS
  <1>1. /\ log \in Seq(Event) /\ (\A i \in DOMAIN log : log[i].at = i)
        /\ e.at = n + 1 /\ log' = M
        /\ Accepts(Row(log, projected), e)
    BY <1>0 DEF ProjectionInv, History, AppendEvent
  <1>2. /\ M \in Seq(Event) /\ \A i \in DOMAIN M : M[i].at = i
        /\ n \in Nat /\ DOMAIN log = 1..n
        /\ DOMAIN M = 1..(n + 1) /\ DOMAIN M = DOMAIN log \cup {n + 1}
        /\ M[n + 1] = e /\ \A i \in DOMAIN log : M[i] = log[i]
        /\ \A P \in SUBSET DOMAIN log :
             /\ Row(M, P) = Row(log, P)
             /\ \A m : MemoryRow(M, P, m) = MemoryRow(log, P, m)
    <2>1. Extends(M, log, e)
      BY <1>0, <1>1, AppendIs
    <2> QED
      BY <2>1 DEF Extends
  <1> HIDE DEF n
  <1>3. \A i \in Missing : ~Share(log[i], e)
    BY AskedApart DEF Undisputed, ProjectionInv, AppendEvent
  <1>4. /\ projected \in SUBSET DOMAIN log
        /\ \A j \in (projected \ DOMAIN log) \cup (DOMAIN log \ projected) : ~Share(log[j], e)
    BY <1>3 DEF ProjectionInv, Missing
  <1>5. /\ Accepts(Row(log, DOMAIN log), e)
        /\ \A m \in Memories : OnMemory(e, m) =>
             MemoryRow(log, projected, m) = MemoryRow(log, DOMAIN log, m)
    BY <1>1, <1>4, SameAccepts
  <1>6. History(M)
    <2>1. ASSUME NEW i \in DOMAIN log PROVE Legal(M, i)
      <3>1. 1..(i - 1) \in SUBSET DOMAIN log /\ M[i] = log[i] /\ Legal(log, i)
        BY <1>2 DEF ProjectionInv, History
      <3> QED
        BY <1>2, <3>1 DEF Legal
    <2>2. Legal(M, n + 1)
      <3>1. (n + 1) - 1 = n /\ 1..n = DOMAIN log
        BY <1>2
      <3>2. Accepts(Row(M, 1..n), M[n + 1])
        BY <1>2, <1>5
      <3>3. ASSUME e.kind = "commit", e.sup # 0 PROVE MemoryRow(M, 1..n, e.sup).status = "active"
        <4>1. e.sup \in Memories /\ OnMemory(e, e.sup)
          BY <3>3, EventIs, KindIs
        <4>2. proj.mem[e.sup].status = "active"
          BY <1>1, <3>3 DEF Undisputed, ProjectionInv, AppendEvent, Asked, Accepts, IsStatus,
                            StatusKinds
        <4>3. MemoryRow(log, projected, e.sup).status = "active"
          BY <4>1, <4>2 DEF ProjectionInv, Row
        <4> QED
          <5>1. MemoryRow(M, DOMAIN log, e.sup) = MemoryRow(log, DOMAIN log, e.sup)
            BY <1>2
          <5>2. MemoryRow(log, DOMAIN log, e.sup).status = "active"
            BY <1>5, <4>1, <4>3
          <5> QED
            BY <3>1, <5>1, <5>2
      <3> QED
        BY <1>2, <3>1, <3>2, <3>3 DEF Legal
    <2> QED
      BY <1>2, <2>1, <2>2 DEF History
  <1>7. Revisions(M)
    <2>1. ASSUME e.kind = "state"
          PROVE  /\ e.rev \in Nat /\ e.rev <= n + 1
                 /\ \A i \in DOMAIN log : OnState(log[i], e.task) => log[i].rev < e.rev
      <3>1. e.task \in Tasks /\ e.rev \in Nat
        BY <2>1, EventIs
      <3>2. e.rev = StateRow(log, DOMAIN log, e.task).rev + 1
        BY <1>5, <2>1, <3>1 DEF Accepts, IsStatus, StatusKinds, Row
      <3>3. /\ StateRow(log, DOMAIN log, e.task).rev \in 0..n
            /\ \A i \in StateEvents(log, DOMAIN log, e.task) :
                 log[i].rev <= StateRow(log, DOMAIN log, e.task).rev
        BY <3>1, RevisionIs DEF ProjectionInv, n
      <3>4. \A i \in DOMAIN log : OnState(log[i], e.task) => log[i].rev \in Nat
        BY <1>1, LogIs, EventIs DEF OnState
      <3>5. \A i \in DOMAIN log : OnState(log[i], e.task) => log[i].rev < e.rev
        BY <3>2, <3>3, <3>4 DEF StateEvents
      <3> QED
        BY <1>2, <3>1, <3>2, <3>3, <3>5
    <2>2. \A i \in DOMAIN M : M[i].kind = "state" => M[i].rev <= i
      BY <1>2, <2>1 DEF ProjectionInv, Revisions
    <2>3. ASSUME NEW i \in DOMAIN M, NEW j \in DOMAIN M, NEW t \in Tasks,
                 OnState(M[i], t), OnState(M[j], t), i < j
          PROVE  M[i].rev < M[j].rev
      <3>1. i \in DOMAIN log
        BY <1>2, <2>3
      <3>2. CASE j \in DOMAIN log
        BY <1>2, <2>3, <3>1, <3>2 DEF ProjectionInv, Revisions
      <3>3. CASE j = n + 1
        <4>1. e.kind = "state" /\ e.task = t /\ OnState(log[i], t)
          BY <1>2, <2>3, <3>1, <3>3 DEF OnState
        <4> QED
          BY <1>2, <2>1, <3>1, <3>3, <4>1
      <3> QED
        BY <1>2, <3>2, <3>3
    <2> QED
      BY <2>2, <2>3 DEF Revisions
  <1>8. CASE projected' = projected \cup {e.at} /\ proj' = Apply(proj, e)
    <2>1. projected' = projected \cup {n + 1} /\ projected' \subseteq DOMAIN M
      BY <1>1, <1>2, <1>4, <1>8
    <2>2. proj' = Row(M, projected')
      <3>1. /\ projected \in SUBSET DOMAIN M /\ n + 1 \in DOMAIN M
            /\ \A j \in projected : j < n + 1
            /\ Row(M, projected) = Row(log, projected) /\ M[n + 1] = e
        BY <1>2, <1>4
      <3>2. Accepts(Row(M, projected), M[n + 1])
        BY <1>1, <3>1
      <3>3. Apply(Row(M, projected), M[n + 1]) = Row(M, projected \cup {n + 1})
        BY <1>2, <3>1, <3>2, StepRow
      <3> QED
        BY <1>8, <2>1, <3>1, <3>3 DEF ProjectionInv
    <2>3. ASSUME NEW i \in DOMAIN M \ projected', NEW j \in projected', Share(M[i], M[j])
          PROVE  j < i
      <3>1. i \in Missing /\ M[i] = log[i]
        BY <1>2, <2>1 DEF Missing
      <3>2. j # n + 1
        BY <1>2, <1>3, <2>3, <3>1
      <3>3. j \in projected /\ M[j] = log[j]
        BY <1>2, <1>4, <2>1, <3>2
      <3> QED
        BY <2>3, <3>1, <3>3 DEF ProjectionInv, Apart
    <2> QED
      BY <1>1, <1>6, <1>7, <2>1, <2>2, <2>3 DEF ProjectionInv, Apart, Missing
  <1>9. CASE UNCHANGED <<projected, proj>>
    <2>1. projected' \subseteq DOMAIN M /\ proj' = Row(M, projected')
      BY <1>2, <1>4, <1>9 DEF ProjectionInv
    <2>2. ASSUME NEW i \in DOMAIN M \ projected', NEW j \in projected', Share(M[i], M[j])
          PROVE  j < i
      <3>1. j \in projected /\ j \in DOMAIN log /\ M[j] = log[j]
        BY <1>2, <1>4, <1>9
      <3>2. CASE i \in DOMAIN log
        BY <1>2, <1>9, <2>2, <3>1, <3>2 DEF ProjectionInv, Apart, Missing
      <3>3. CASE i = n + 1
        BY <1>2, <3>1, <3>3
      <3> QED
        BY <1>2, <3>2, <3>3
    <2> QED
      BY <1>1, <1>6, <1>7, <2>1, <2>2 DEF ProjectionInv, Apart, Missing
  <1> QED
    BY <1>8, <1>9 DEF AppendEvent

\* Every event that the writers ask for is one.
LEMMA WritersInv ==
    ASSUME Undisputed, ProjectionInv, NEW s \in Segments,
           CommitMemory(s) \/ MarkMemory(s) \/ CommitState(s) \/ EndTask(s)
    PROVE  ProjectionInv'
  <1>1. Len(log) \in Nat /\ log \in Seq(Event) /\ \A i \in DOMAIN log : log[i].at = i
    BY DEF ProjectionInv, History
  <1>2. \A e : AppendEvent(e) => Len(log) + 1 \in 1..MaxEvents
    BY <1>1 DEF AppendEvent
  <1>3. CASE CommitMemory(s)
    <2>1. PICK m \in Memories, sup \in Memories \cup {0} :
            AppendEvent([at |-> Len(log) + 1, seg |-> s, kind |-> "commit",
                         mem |-> m, sup |-> sup])
      BY <1>3 DEF CommitMemory
    <2>2. [at |-> Len(log) + 1, seg |-> s, kind |-> "commit", mem |-> m, sup |-> sup] \in Event
      BY <1>2, <2>1 DEF Event
    <2> QED
      BY <2>1, <2>2, AppendInv
  <1>4. CASE MarkMemory(s)
    <2>1. PICK m \in Memories, k \in StatusKinds :
            AppendEvent([at |-> Len(log) + 1, seg |-> s, kind |-> k, mem |-> m, sup |-> 0])
      BY <1>4 DEF MarkMemory
    <2>2. [at |-> Len(log) + 1, seg |-> s, kind |-> k, mem |-> m, sup |-> 0] \in Event
      BY <1>2, <2>1 DEF Event
    <2> QED
      BY <2>1, <2>2, AppendInv
  <1>5. CASE CommitState(s)
    <2>1. PICK t \in Tasks :
            AppendEvent([at |-> Len(log) + 1, seg |-> s, kind |-> "state", task |-> t,
                         rev |-> proj.state[t].rev + 1, prev |-> proj.state[t].head])
      BY <1>5 DEF CommitState
    <2>2. proj.state[t].rev \in 0..Len(log) /\ proj.state[t].head \in Numbers
      <3>1. proj = Row(log, projected) /\ projected \in SUBSET DOMAIN log
        BY DEF ProjectionInv
      <3>2. StateRow(log, projected, t).rev \in 0..Len(log)
        BY <3>1, RevisionIs DEF ProjectionInv
      <3>3. Row(log, projected) \in Projection
        BY <1>1, <3>1, RowTyped
      <3> QED
        BY <3>1, <3>2, <3>3 DEF Row, Projection
    <2>3. proj.state[t].rev + 1 \in 1..MaxEvents
      BY <1>1, <1>2, <2>1, <2>2
    <2>4. [at |-> Len(log) + 1, seg |-> s, kind |-> "state", task |-> t,
           rev |-> proj.state[t].rev + 1, prev |-> proj.state[t].head] \in Event
      BY <1>2, <2>1, <2>2, <2>3 DEF Event
    <2> QED
      BY <2>1, <2>4, AppendInv
  <1>6. CASE EndTask(s)
    <2>1. PICK t \in Tasks :
            AppendEvent([at |-> Len(log) + 1, seg |-> s, kind |-> "terminal", task |-> t])
      BY <1>6 DEF EndTask
    <2>2. [at |-> Len(log) + 1, seg |-> s, kind |-> "terminal", task |-> t] \in Event
      BY <1>2, <2>1 DEF Event
    <2> QED
      BY <2>1, <2>2, AppendInv
  <1> QED
    BY <1>3, <1>4, <1>5, <1>6

\* What replay() and rebuilding compute.
LEMMA ReplaysAre ==
    ASSUME ProjectionInv
    PROVE  /\ Replayed(proj, Missing) = Row(log, DOMAIN log)
           /\ Replayed(Cleared, DOMAIN log) = Row(log, DOMAIN log)
           /\ ApplyAll(Cleared, DOMAIN log, AppendOrder) = Row(log, DOMAIN log)
           /\ Row(log, DOMAIN log) \in Projection
  <1>1. History(log) /\ Revisions(log) /\ projected \in SUBSET DOMAIN log
    BY DEF ProjectionInv
  <1>2. Replayed(proj, Missing) = Row(log, DOMAIN log)
    BY <1>1, ReplayedIs DEF ProjectionInv, Apart, Missing
  <1>3. DOMAIN log \ {} = DOMAIN log /\ {} \in SUBSET DOMAIN log
    OBVIOUS
  <1>4. Replayed(Row(log, {}), DOMAIN log \ {}) = Row(log, DOMAIN log)
    BY <1>1, ReplayedIs
  <1>5. ApplyAll(Row(log, {}), DOMAIN log \ {}, AppendOrder) = Row(log, DOMAIN log)
    BY <1>1, <1>3, AppendOrders, ReplayGivesRow
  <1>6. Row(log, DOMAIN log) \in Projection
    BY <1>1, RowTyped DEF History
  <1> QED
    BY <1>2, <1>3, <1>4, <1>5, <1>6, ClearedIs

\* replay() and replay(rebuild=True)
LEMMA ReplayInv ==
    ASSUME ProjectionInv, Replay \/ Rebuild PROVE ProjectionInv'
  <1>1. log' = log /\ History(log) /\ Revisions(log)
    BY DEF ProjectionInv, Replay, Rebuild
  <1>2. \/ projected' = DOMAIN log /\ proj' = Row(log, DOMAIN log)
        \/ projected' = {} /\ proj' = Row(log, {})
    BY ReplaysAre, ClearedIs DEF Replay, Rebuild
  <1> QED
    BY <1>1, <1>2 DEF ProjectionInv, Apart, Missing

\* The invariant is inductive, for any segments, memories, tasks and number of
\* events, if sessions do not touch what awaits a replay and nobody supersedes
\* a disputed memory.
THEOREM ProjectionInvariance == Undisputed /\ ProjectionSpec => []ProjectionInv
  <1>1. ProjectionInit => ProjectionInv
    <2> SUFFICES ASSUME ProjectionInit PROVE ProjectionInv
      OBVIOUS
    <2>1. log = <<>> /\ DOMAIN log = {} /\ log \in Seq(Event) /\ projected = {} /\ proj = Cleared
      BY DEF ProjectionInit
    <2> QED
      BY <2>1, ClearedIs DEF ProjectionInv, History, Revisions, Apart, Missing
  <1>2. Undisputed /\ ProjectionInv /\ [ProjectionNext]_projectionVars
          => Undisputed' /\ ProjectionInv'
    <2> SUFFICES ASSUME Undisputed, ProjectionInv, [ProjectionNext]_projectionVars
                 PROVE  Undisputed' /\ ProjectionInv'
      OBVIOUS
    <2>1. CASE UNCHANGED projectionVars
      BY <2>1 DEF Undisputed, ProjectionInv, Apart, Missing, projectionVars
    <2> QED
      BY <2>1, WritersInv, ReplayInv DEF ProjectionNext, Undisputed
  <1> QED
    BY <1>1, <1>2, PTL DEF ProjectionSpec

\* Type correctness.
THEOREM ProjectionTypeCorrect == Undisputed /\ ProjectionSpec => []ProjectionTypeOK
  <1>1. ProjectionInv => ProjectionTypeOK
    BY LogIs, RowTyped DEF ProjectionInv, History, ProjectionTypeOK
  <1> QED
    BY <1>1, ProjectionInvariance, PTL

\* Rebuilding from nothing, in an order of its own, gives the rows that the
\* appends and incremental replays gave.
THEOREM RebuildGivesTheSame == Undisputed /\ ProjectionSpec => []RebuildMatches
  <1>1. ProjectionInv => RebuildMatches
    BY ReplaysAre DEF ProjectionInv, RebuildMatches
  <1> QED
    BY <1>1, ProjectionInvariance, PTL

\* Whatever append() accepted and failed to project, the next open can apply;
\* and the log is a legal history in the order of the appends.
THEOREM EveryReplaySucceeds == Undisputed /\ ProjectionSpec => []ReplaySucceeds
  <1>1. ProjectionInv => ReplaySucceeds
    BY ReplaysAre DEF ReplaySucceeds
  <1> QED
    BY <1>1, ProjectionInvariance, PTL

-----------------------------------------------------------------------------
(* The scheduled maintenance                                               *)

Availability == {"absent", "hot", "archived", "evicted"}

Plans == [actions : SUBSET Blobs, catalog : [Blobs -> Availability],
          pins : SUBSET Blobs, high : BOOLEAN]

PlanSeqs == {<<>>} \cup {<<x>> : x \in Plans}

Jobs == [pc : {"idle", "plan", "probe", "gate", "apply", "report", "failed"},
         plan : PlanSeqs, high : BOOLEAN,
         events : SUBSET Blobs, released : Nat, stop : StopReasons \cup {""}]

ActionsOf(j) == IF j.plan = <<>> THEN {} ELSE j.plan[1].actions

\* An applying run under pressure with something to collect.
Acts(p, j) == j.high /\ p \in Applying /\ ActionsOf(j) # {}

\* What run p has done when it is at step j.pc, given the events it appended.
RunOK(p, j, done) ==
    /\ j.events \subseteq ActionsOf(j)
    /\ Cardinality(j.events) <= MaxItems /\ j.released <= MaxBytes
    /\ j.pc \in {"idle", "plan"} => j.plan = <<>>
    /\ j.pc \in {"probe", "gate", "apply", "report"} => j.plan # <<>>
    /\ j.pc \in {"idle", "plan", "probe", "gate"} => j.events = {} /\ j.released = 0
    /\ j.pc \in {"idle", "plan", "probe", "gate", "apply"} => j.stop = ""
    /\ j.pc \in {"plan", "probe", "gate", "apply", "report"} => done = j.events
    /\ j.pc \in {"gate", "apply"} => Acts(p, j)
    /\ j.pc = "report" => IF j.stop = "" THEN ~Acts(p, j) /\ j.events = {} ELSE Acts(p, j)

RunInv == \A p \in Runs : RunOK(p, job[p], appended[p])

\* No two runs are at work, and a run at work has not reported.
LockInv == \A p \in Runs : job[p].pc # "idle" => runLock = p /\ evidence[p] = NoReport
FreeInv == \A p \in Runs : runLock = p => job[p].pc # "idle"

\* Nobody changes what a run that holds the store lock still has to collect.
LeftInv == \A p \in Runs : job[p].pc = "apply" => ActionsOf(job[p]) \ job[p].events \subseteq Eligible

TypeInv ==
    /\ availability \in [Blobs -> Availability] /\ free \subseteq Blobs /\ disk \in BOOLEAN
    /\ job \in [Runs -> Jobs] /\ appended \in [Runs -> SUBSET Blobs]
    /\ DOMAIN evidence = Runs /\ evidence = [p \in Runs |-> evidence[p]]
    /\ runLock \in Runs \cup {NoRun}
    /\ changes \in 0 .. MaxChanges /\ faults \in 0 .. MaxFaults

Inv == TypeInv /\ RunInv /\ LockInv /\ FreeInv /\ LeftInv /\ EvidenceTruthful

USE MaintenanceAssumption DEF store, bounds

-----------------------------------------------------------------------------
\* A plan has as many actions as a report says, and limits are limits.
LEMMA Finite ==
    ASSUME NEW S \in SUBSET Blobs PROVE IsFiniteSet(S) /\ Cardinality(S) \in Nat
  BY FS_Subset, FS_CardinalityType

\* One more action is one more.
LEMMA Grown ==
    ASSUME NEW S \in SUBSET Blobs, NEW b \in Blobs \ S
    PROVE  Cardinality(S \cup {b}) = Cardinality(S) + 1
  BY Finite, FS_AddElement

\* No action is none.
LEMMA Empty == Cardinality({}) = 0
  BY FS_EmptySet

\* A run that is not at work has nothing to account for.
LEMMA IdleOK == ASSUME NEW p \in Runs, NEW done PROVE Idle \in Jobs /\ RunOK(p, Idle, done)
  BY Empty DEF Idle, Jobs, RunOK, PlanSeqs

\* plan_retention returns a plan.
LEMMA PlannedTyped == ASSUME TypeInv PROVE Planned \in Plans
  <1>1. HotPressure \in BOOLEAN
    BY DEF HotPressure
  <1> QED
    BY <1>1 DEF TypeInv, Planned, Plans, Eligible

\* A step in which only p moves, to a state that is in order.
LEMMA RunStep ==
    ASSUME TypeInv, RunInv, NEW p \in Runs, NEW new \in Jobs, NEW done \in SUBSET Blobs,
           job' = [job EXCEPT ![p] = new], appended' = [appended EXCEPT ![p] = done],
           RunOK(p, new, done)
    PROVE  /\ job' \in [Runs -> Jobs] /\ appended' \in [Runs -> SUBSET Blobs]
           /\ RunInv'
           /\ job'[p] = new /\ appended'[p] = done
           /\ \A q \in Runs : q # p => job'[q] = job[q] /\ appended'[q] = appended[q]
  <1>1. /\ job'[p] = new /\ appended'[p] = done
        /\ \A q \in Runs : q # p => job'[q] = job[q] /\ appended'[q] = appended[q]
    BY DEF TypeInv
  <1>2. job' \in [Runs -> Jobs] /\ appended' \in [Runs -> SUBSET Blobs]
    BY DEF TypeInv
  <1>3. RunInv'
    <2> SUFFICES ASSUME NEW q \in Runs PROVE RunOK(q, job'[q], appended'[q])
      BY DEF RunInv
    <2> QED
      BY <1>1 DEF RunInv
  <1> QED
    BY <1>1, <1>2, <1>3

\* The run at work moves on, and leaves the store as it was.
LEMMA QuietStep ==
    ASSUME Inv, NEW p \in Runs, NEW new \in Jobs, job[p].pc # "idle", new.pc # "idle",
           job' = [job EXCEPT ![p] = new], RunOK(p, new, appended[p]),
           new.pc = "apply" => ActionsOf(new) \ new.events \subseteq Eligible,
           faults' \in 0 .. MaxFaults,
           UNCHANGED <<store, disk, runLock, evidence, changes, appended>>
    PROVE  Inv'
  <1>1. appended' = [appended EXCEPT ![p] = appended[p]] /\ appended[p] \in SUBSET Blobs
    BY DEF Inv, TypeInv
  <1>2. /\ job' \in [Runs -> Jobs] /\ RunInv' /\ job'[p] = new
        /\ \A q \in Runs : q # p => job'[q] = job[q]
    BY <1>1, RunStep DEF Inv
  <1>3. TypeInv'
    BY <1>2 DEF Inv, TypeInv
  <1>4. LockInv' /\ FreeInv'
    BY <1>2 DEF Inv, LockInv, FreeInv
  <1>5. LeftInv'
    BY <1>2 DEF Inv, LeftInv, Eligible, Hot
  <1>6. EvidenceTruthful'
    BY DEF Inv, EvidenceTruthful
  <1> QED
    BY <1>2, <1>3, <1>4, <1>5, <1>6 DEF Inv

\* It collects one payload, which is the next of its plan.
LEMMA CollectingStep ==
    ASSUME Inv, NEW p \in Runs, NEW new \in Jobs, NEW b \in Left(p),
           job[p].pc = "apply", Applies(p, b),
           availability' = Collected(b),
           appended' = [appended EXCEPT ![p] = @ \cup {b}],
           job' = [job EXCEPT ![p] = new], RunOK(p, new, appended[p] \cup {b}),
           new.pc # "idle",
           new.pc = "apply" => ActionsOf(new) \ new.events = Left(p) \ {b},
           faults' \in 0 .. MaxFaults,
           UNCHANGED <<free, disk, runLock, evidence, changes>>
    PROVE  Inv' /\ b \in Eligible
  <1>1. b \in Eligible /\ b \in Blobs
    BY DEF Inv, LeftInv, Left, Actions, ActionsOf, Eligible, Hot
  <1>2. appended[p] \cup {b} \in SUBSET Blobs /\ appended' = [appended EXCEPT ![p] = appended[p] \cup {b}]
    BY <1>1 DEF Inv, TypeInv
  <1>3. /\ job' \in [Runs -> Jobs] /\ appended' \in [Runs -> SUBSET Blobs]
        /\ RunInv' /\ job'[p] = new
        /\ \A q \in Runs : q # p => job'[q] = job[q] /\ appended'[q] = appended[q]
    BY <1>2, RunStep DEF Inv
  <1>4. /\ availability' \in [Blobs -> Availability]
        /\ \A c \in Blobs : c # b => availability'[c] = availability[c]
    BY <1>1 DEF Inv, TypeInv, Collected, Availability
  <1>5. TypeInv'
    BY <1>3, <1>4 DEF Inv, TypeInv
  <1>6. LockInv' /\ FreeInv'
    BY <1>3 DEF Inv, LockInv, FreeInv
  <1>7. LeftInv'
    <2> SUFFICES ASSUME NEW q \in Runs, job'[q].pc = "apply"
                 PROVE  ActionsOf(job'[q]) \ job'[q].events \subseteq Eligible'
      BY DEF LeftInv
    <2>1. q = p
      BY <1>3 DEF Inv, LockInv
    <2>2. Left(p) \subseteq Eligible
      BY DEF Inv, LeftInv, Left, Actions, ActionsOf
    <2> QED
      BY <1>3, <1>4, <2>1, <2>2 DEF Eligible, Hot
  <1>8. EvidenceTruthful'
    <2> SUFFICES ASSUME NEW q \in Runs, evidence[q].status # "none"
                 PROVE  appended'[q] = appended[q]
      BY DEF Inv, EvidenceTruthful
    <2> QED
      BY <1>3 DEF Inv, LockInv, NoReport
  <1> QED
    BY <1>1, <1>3, <1>5, <1>6, <1>7, <1>8 DEF Inv

\* The run at work ends, and leaves the store as it was.
LEMMA EndingStep ==
    ASSUME Inv, NEW p \in Runs, job[p].pc # "idle",
           job' = [job EXCEPT ![p] = Idle], runLock' = NoRun,
           faults' \in 0 .. MaxFaults,
           UNCHANGED <<store, disk, changes, appended>>
    PROVE  /\ job' \in [Runs -> Jobs] /\ RunInv' /\ FreeInv' /\ LeftInv'
           /\ \A q \in Runs : job'[q].pc = "idle"
  <1>1. appended' = [appended EXCEPT ![p] = appended[p]] /\ appended[p] \in SUBSET Blobs
    BY DEF Inv, TypeInv
  <1>2. Idle \in Jobs /\ RunOK(p, Idle, appended[p])
    BY IdleOK
  <1>3. /\ job' \in [Runs -> Jobs] /\ RunInv' /\ job'[p] = Idle
        /\ \A q \in Runs : q # p => job'[q] = job[q]
    BY <1>1, <1>2, RunStep DEF Inv
  <1>4. \A q \in Runs : job'[q].pc = "idle"
    BY <1>3 DEF Inv, LockInv, Idle
  <1> QED
    BY <1>3, <1>4 DEF FreeInv, LeftInv

-----------------------------------------------------------------------------
\* No run is at work and nothing was reported.
LEMMA Initially == Init => Inv
  <1> SUFFICES ASSUME Init PROVE Inv
    OBVIOUS
  <1>1. \A p \in Runs : job[p] = Idle /\ Idle \in Jobs /\ appended[p] = {} /\ evidence[p] = NoReport
    BY IdleOK DEF Init
  <1>2. TypeInv
    <2>1. availability \in [Blobs -> Availability] /\ free \subseteq Blobs
      BY DEF Init, Availability
    <2>2. job \in [Runs -> Jobs]
      BY <1>1 DEF Init
    <2>3. appended \in [Runs -> SUBSET Blobs]
      BY DEF Init
    <2>4. DOMAIN evidence = Runs /\ evidence = [p \in Runs |-> evidence[p]]
      BY DEF Init
    <2>5. disk \in BOOLEAN /\ runLock \in Runs \cup {NoRun}
      BY DEF Init
    <2>6. MaxChanges \in Nat /\ MaxFaults \in Nat /\ changes = 0 /\ faults = 0
      BY DEF Init
    <2>7. changes \in 0 .. MaxChanges /\ faults \in 0 .. MaxFaults
      BY <2>6
    <2> QED
      BY <2>1, <2>2, <2>3, <2>4, <2>5, <2>7 DEF TypeInv
  <1>3. RunInv
    BY <1>1, IdleOK DEF RunInv
  <1>4. LockInv /\ FreeInv /\ LeftInv /\ EvidenceTruthful
    BY <1>1 DEF Init, LockInv, FreeInv, LeftInv, EvidenceTruthful, Idle, NoReport, NoRun
  <1> QED
    BY <1>2, <1>3, <1>4 DEF Inv

\* A run that has the run lock has not reported yet.
LEMMA BeginStep == ASSUME Inv, NEW p \in Runs, Begin(p) PROVE Inv'
  <1> DEFINE new == [job[p] EXCEPT !.pc = "plan"]
  <1>1. job[p].pc = "idle" /\ job[p] \in Jobs /\ RunOK(p, job[p], appended[p]) /\ runLock = NoRun
    BY DEF Inv, TypeInv, RunInv, Begin
  <1>2. new \in Jobs /\ RunOK(p, new, {})
    BY <1>1 DEF Jobs, RunOK, ActionsOf, Acts
  <1>c. new.pc = "plan" /\ {} \in SUBSET Blobs
    BY <1>1 DEF Jobs
  <1>d. job' = [job EXCEPT ![p] = new] /\ appended' = [appended EXCEPT ![p] = {}]
    BY DEF Begin
  <1>3. /\ job' \in [Runs -> Jobs] /\ appended' \in [Runs -> SUBSET Blobs]
        /\ RunInv' /\ job'[p] = new /\ appended'[p] = {}
        /\ \A q \in Runs : q # p => job'[q] = job[q] /\ appended'[q] = appended[q]
    BY <1>2, <1>c, <1>d, RunStep DEF Inv
  <1>4. /\ DOMAIN evidence' = Runs /\ evidence' = [q \in Runs |-> evidence'[q]]
        /\ evidence'[p] = NoReport /\ \A q \in Runs : q # p => evidence'[q] = evidence[q]
    BY DEF Begin, Inv, TypeInv
  <1>5. TypeInv'
    BY <1>3, <1>4 DEF Inv, TypeInv, Begin
  <1>6. LockInv' /\ FreeInv'
    BY <1>1, <1>3, <1>4, <1>c DEF Inv, LockInv, FreeInv, Begin
  <1>7. LeftInv'
    BY <1>3, <1>c DEF Inv, LeftInv, Begin, Eligible, Hot
  <1>8. EvidenceTruthful'
    BY <1>3, <1>4 DEF Inv, EvidenceTruthful, NoReport
  <1> QED
    BY <1>3, <1>5, <1>6, <1>7, <1>8 DEF Inv

\* The plan is what is eligible now, with the catalog and pins it was made
\* from.
LEMMA PlanStep == ASSUME Inv, NEW p \in Runs, Plan(p) PROVE Inv'
  <1> DEFINE new == [job[p] EXCEPT !.pc = "probe", !.plan = <<Planned>>]
  <1>1. job[p].pc = "plan" /\ job[p] \in Jobs /\ RunOK(p, job[p], appended[p])
    BY DEF Inv, TypeInv, RunInv, Plan
  <1>2. Planned \in Plans
    BY PlannedTyped DEF Inv
  <1>3. new \in Jobs
    BY <1>1, <1>2 DEF Jobs, PlanSeqs
  <1>4. RunOK(p, new, appended[p])
    <2>1. /\ new.pc = "probe" /\ new.plan = <<Planned>> /\ new.events = job[p].events
          /\ new.released = job[p].released /\ new.stop = job[p].stop
      BY <1>1 DEF Jobs
    <2>2. new.plan # <<>>
      BY <2>1
    <2> QED
      BY <1>1, <2>1, <2>2 DEF RunOK
  <1>5. job' = [job EXCEPT ![p] = new] /\ new.pc = "probe"
    <2>1. job' = [job EXCEPT ![p].pc = "probe", ![p].plan = <<Planned>>]
      BY DEF Plan
    <2>2. job \in [Runs -> Jobs]
      BY DEF Inv, TypeInv
    <2>3. job' = [job EXCEPT ![p] = new]
      BY <2>1, <2>2
    <2>4. new.pc = "probe"
      BY <1>1 DEF Jobs
    <2> QED
      BY <2>3, <2>4
  <1>6. faults' \in 0 .. MaxFaults /\ UNCHANGED <<store, disk, runLock, evidence, changes, appended>>
    BY DEF Plan, Inv, TypeInv
  <1> QED
    BY <1>1, <1>3, <1>4, <1>5, <1>6, QuietStep

\* The pressure decides whether there is anything to apply.
LEMMA ProbeStep == ASSUME Inv, NEW p \in Runs, Probe(p) PROVE Inv'
  <1> DEFINE high == disk \/ job[p].plan[1].high
             act  == high /\ p \in Applying /\ Actions(p) # {}
             new  == [job[p] EXCEPT !.high = high, !.pc = IF act THEN "gate" ELSE "report"]
  <1>1. job[p].pc = "probe" /\ job[p] \in Jobs /\ RunOK(p, job[p], appended[p])
    BY DEF Inv, TypeInv, RunInv, Probe
  <1>2. job[p].plan # <<>> /\ job[p].plan[1] \in Plans /\ high \in BOOLEAN
    <2>1. disk \in BOOLEAN
      BY DEF Inv, TypeInv
    <2>2. job[p].plan # <<>> /\ job[p].plan[1] \in Plans
      <3>1. job[p].plan \in PlanSeqs
        BY <1>1 DEF Jobs
      <3>2. job[p].plan # <<>>
        BY <1>1 DEF RunOK
      <3>3. PICK x \in Plans : job[p].plan = <<x>>
        BY <3>1, <3>2 DEF PlanSeqs
      <3> QED
        BY <3>2, <3>3
    <2>3. job[p].plan[1].high \in BOOLEAN
      BY <2>2 DEF Plans
    <2> QED
      BY <2>1, <2>2, <2>3
  <1>3. new \in Jobs
    BY <1>1, <1>2 DEF Jobs
  <1>4. RunOK(p, new, appended[p])
    BY <1>1, <1>2 DEF Jobs, RunOK, ActionsOf, Acts, Actions
  <1>5. job' = [job EXCEPT ![p] = new]
    BY DEF Probe
  <1>6. new.pc \in {"gate", "report"}
    BY <1>1 DEF Jobs
  <1> QED
    BY <1>1, <1>3, <1>4, <1>5, <1>6, QuietStep DEF Probe, Inv, TypeInv

\* A plan that is current is a plan of what is eligible, and the store lock
\* keeps it so.
LEMMA GateStep == ASSUME Inv, NEW p \in Runs, Gate(p) PROVE Inv'
  <1> DEFINE new == [job[p] EXCEPT !.pc = IF Current(p) THEN "apply" ELSE "failed"]
  <1>1. job[p].pc = "gate" /\ job[p] \in Jobs /\ RunOK(p, job[p], appended[p])
    BY DEF Inv, TypeInv, RunInv, Gate
  <1>2. new \in Jobs
    BY <1>1 DEF Jobs
  <1>3. RunOK(p, new, appended[p])
    BY <1>1 DEF Jobs, RunOK, ActionsOf, Acts
  <1>4. new.pc = "apply" => ActionsOf(new) \ new.events \subseteq Eligible
    <2> SUFFICES ASSUME new.pc = "apply" PROVE ActionsOf(new) \ new.events \subseteq Eligible
      OBVIOUS
    <2>1. Current(p) /\ new.plan = job[p].plan
      BY <1>1 DEF Jobs
    <2>2. ActionsOf(new) = Planned.actions
      <3>1. new.plan = <<Planned>> /\ <<Planned>>[1] = Planned /\ <<Planned>> # <<>>
        BY <2>1 DEF Current
      <3> QED
        BY <3>1 DEF ActionsOf
    <2> QED
      BY <2>2 DEF Planned
  <1>5. job' = [job EXCEPT ![p] = new] /\ new.pc \in {"apply", "failed"}
    BY <1>1 DEF Gate, Jobs
  <1> QED
    BY <1>1, <1>2, <1>3, <1>4, <1>5, QuietStep DEF Gate, Inv, TypeInv

\* A collection ends for one of its reasons, and says which.
LEMMA StopStep == ASSUME Inv, NEW p \in Runs, Stop(p) \/ Late(p) PROVE Inv'
  <1>1. PICK why \in StopReasons : job' = [job EXCEPT ![p].pc = "report", ![p].stop = why]
    BY DEF Stop, Late, StopReasons
  <1> DEFINE new == [job[p] EXCEPT !.pc = "report", !.stop = why]
  <1>2. job[p].pc = "apply" /\ job[p] \in Jobs /\ RunOK(p, job[p], appended[p])
    BY DEF Inv, TypeInv, RunInv, Stop, Late
  <1>3. new \in Jobs
    BY <1>2 DEF Jobs
  <1>4. RunOK(p, new, appended[p])
    BY <1>2 DEF Jobs, RunOK, ActionsOf, Acts, StopReasons
  <1>5. job' = [job EXCEPT ![p] = new] /\ new.pc = "report"
    BY <1>1, <1>2 DEF Jobs, Inv, TypeInv
  <1>6. faults' \in 0 .. MaxFaults /\ UNCHANGED <<store, disk, runLock, evidence, changes, appended>>
    BY DEF Stop, Late, Inv, TypeInv
  <1> QED
    BY <1>2, <1>3, <1>4, <1>5, <1>6, QuietStep

\* A payload is collected while it is eligible, and the limits hold for what is
\* collected with it.
LEMMA CollectStep ==
    ASSUME Inv, NEW p \in Runs, Collect(p)
    PROVE  Inv' /\ \A q \in Runs : appended'[q] \ appended[q] \subseteq Eligible
  <1>1. PICK b \in Left(p) : Collect(p)!2!(b)
    BY DEF Collect
  <1> DEFINE new == [job[p] EXCEPT !.events = job[p].events \cup {b},
                                   !.released = job[p].released + Size[b]]
  <1>2. job[p].pc = "apply" /\ job[p] \in Jobs /\ RunOK(p, job[p], appended[p])
    BY DEF Inv, TypeInv, RunInv, Collect
  <1>3. b \in Blobs /\ b \in ActionsOf(job[p]) /\ b \notin job[p].events
    BY DEF Left, Actions, ActionsOf, Inv, LeftInv, Eligible, Hot, Collect
  <1>4. Size[b] \in Nat /\ job[p].released + Size[b] <= MaxBytes
    BY <1>1, <1>3 DEF Applies, Fits
  <1>5. new \in Jobs
    <2>1. job[p].released + Size[b] \in Nat /\ job[p].events \cup {b} \in SUBSET Blobs
      <3>1. job[p].released \in Nat /\ job[p].events \in SUBSET Blobs
        BY <1>2 DEF Jobs
      <3> QED
        BY <1>3, <1>4, <3>1
    <2> QED
      BY <1>2, <2>1 DEF Jobs
  <1>6. Cardinality(new.events) <= MaxItems
    <2>1. job[p].events \in SUBSET Blobs /\ Cardinality(job[p].events) < MaxItems
      BY <1>1, <1>2 DEF Jobs, Applies
    <2>2. Cardinality(job[p].events \cup {b}) = Cardinality(job[p].events) + 1
      BY <1>3, <2>1, Grown
    <2>3. Cardinality(job[p].events) \in Nat
      BY <2>1, Finite
    <2>4. new.events = job[p].events \cup {b}
      BY <1>2 DEF Jobs
    <2> QED
      BY <2>1, <2>2, <2>3, <2>4
  <1>7. RunOK(p, new, appended[p] \cup {b})
    <2>1. /\ new.pc = "apply" /\ new.stop = job[p].stop /\ new.plan = job[p].plan
          /\ new.high = job[p].high
          /\ new.events = job[p].events \cup {b} /\ new.released <= MaxBytes
          /\ ActionsOf(new) = ActionsOf(job[p])
      BY <1>2, <1>4 DEF Jobs, ActionsOf
    <2>2. /\ job[p].events \subseteq ActionsOf(job[p]) /\ job[p].plan # <<>>
          /\ job[p].stop = "" /\ appended[p] = job[p].events /\ Acts(p, job[p])
      BY <1>2 DEF RunOK
    <2> HIDE DEF new
    <2>3. Acts(p, new)
      BY <2>1, <2>2 DEF Acts
    <2> QED
      BY <1>3, <1>6, <2>1, <2>2, <2>3 DEF RunOK
  <1>8. job' = [job EXCEPT ![p] = new] /\ new.pc = "apply"
    BY <1>1, <1>2 DEF Jobs, Inv, TypeInv
  <1>9. ActionsOf(new) \ new.events = Left(p) \ {b}
    BY <1>2 DEF Jobs, ActionsOf, Left, Actions
  <1>10. Inv' /\ b \in Eligible
    BY <1>1, <1>2, <1>5, <1>7, <1>8, <1>9, CollectingStep DEF Collect, Inv, TypeInv
  <1> QED
    BY <1>1, <1>10 DEF Inv, TypeInv

\* An error ends the run; its last event may be durable, for an eligible
\* payload.
LEMMA FailStep ==
    ASSUME Inv, NEW p \in Runs, Fail(p)
    PROVE  Inv' /\ \A q \in Runs : appended'[q] \ appended[q] \subseteq Eligible
  <1> DEFINE new == [job[p] EXCEPT !.pc = "failed"]
  <1>1. /\ job[p].pc \in {"plan", "probe", "gate", "apply"} /\ job[p] \in Jobs
        /\ RunOK(p, job[p], appended[p]) /\ faults' \in 0 .. MaxFaults
        /\ job' = [job EXCEPT ![p] = new]
    BY DEF Inv, TypeInv, RunInv, Fail
  <1>2. new \in Jobs /\ new.pc = "failed"
    BY <1>1 DEF Jobs
  <1>3. ASSUME NEW done PROVE RunOK(p, new, done)
    BY <1>1 DEF Jobs, RunOK, ActionsOf, Acts
  <1>4. CASE UNCHANGED <<store, appended>>
    BY <1>1, <1>2, <1>3, <1>4, QuietStep DEF Fail
  <1>5. ASSUME job[p].pc = "apply", NEW b \in Left(p), Applies(p, b),
               availability' = Collected(b),
               appended' = [appended EXCEPT ![p] = @ \cup {b}], UNCHANGED free
        PROVE  Inv' /\ \A q \in Runs : appended'[q] \ appended[q] \subseteq Eligible
    <2>1. Inv' /\ b \in Eligible
      BY <1>1, <1>2, <1>3, <1>5, CollectingStep DEF Fail
    <2> QED
      BY <1>5, <2>1 DEF Inv, TypeInv
  <1> QED
    BY <1>4, <1>5 DEF Fail

\* The report of a run is consistent, and names what the run collected.
LEMMA ReportStep == ASSUME Inv, NEW p \in Runs, Report(p) PROVE Inv'
  <1> DEFINE j == job[p]
             r == [status |-> Status(p), applying |-> p \in Applying, high |-> j.high,
                   planned |-> Cardinality(Actions(p)), execution |-> Execution(p)]
  <1>1. j.pc \in {"report", "failed"} /\ j \in Jobs /\ RunOK(p, j, appended[p])
    BY DEF Inv, TypeInv, RunInv, Report
  <1>2. /\ job' \in [Runs -> Jobs] /\ RunInv' /\ FreeInv' /\ LeftInv'
        /\ \A q \in Runs : job'[q].pc = "idle"
    BY <1>1, EndingStep DEF Report, Inv, TypeInv
  <1>3. /\ evidence' = [evidence EXCEPT ![p] = r] /\ DOMAIN evidence' = Runs
        /\ evidence' = [q \in Runs |-> evidence'[q]]
        /\ evidence'[p] = r /\ \A q \in Runs : q # p => evidence'[q] = evidence[q]
    BY DEF Report, Inv, TypeInv
  <1>4. TypeInv'
    BY <1>2, <1>3 DEF Inv, TypeInv, Report
  <1>5. LockInv'
    BY <1>2 DEF LockInv
  <1>6. CASE j.pc = "failed"
    <2>1. r.status = Status(p) /\ Status(p) = "failed"
      BY <1>6 DEF Status
    <2>2. EvidenceTruthful'
      BY <1>3, <2>1 DEF Inv, EvidenceTruthful, Consistent, Report
    <2> QED
      BY <1>2, <1>4, <1>5, <2>2 DEF Inv
  <1>7. CASE j.pc = "report"
    <2>1. Actions(p) \in SUBSET Blobs /\ r.planned \in Nat
      <3>1. j.plan \in PlanSeqs
        BY <1>1 DEF Jobs
      <3>2. Actions(p) \in SUBSET Blobs
        BY <3>1 DEF PlanSeqs, Actions, Plans
      <3> QED
        BY <3>2, Finite
    <2>2. j.stop = "" => ~Acts(p, j) /\ j.events = {}
      BY <1>1, <1>7 DEF RunOK
    <2>3. j.stop # "" => Acts(p, j) /\ j.stop \in StopReasons
      BY <1>1, <1>7 DEF RunOK, Jobs
    <2>4. appended[p] = j.events
      BY <1>1, <1>7 DEF RunOK
    <2>5. CASE j.stop = ""
      <3>1. r.execution = <<>> /\ appended[p] = {}
        BY <2>2, <2>4, <2>5 DEF Execution
      <3>2. r.status = IF ~j.high THEN "below_pressure_dry_run"
                       ELSE IF p \notin Applying THEN "pressure_dry_run"
                       ELSE "pressure_no_eligible_items"
        <4>1. r.status = Status(p) /\ j.events = {} /\ j.pc # "failed" /\ j.high \in BOOLEAN
          BY <1>1, <1>7, <2>2, <2>5 DEF Jobs
        <4>2. j.high /\ p \in Applying => Actions(p) = {}
          BY <2>2, <2>5 DEF Acts, ActionsOf, Actions
        <4> QED
          BY <4>1, <4>2 DEF Status
      <3>3. r.status = "pressure_no_eligible_items" => r.planned = 0
        BY <2>2, <2>5, <3>2, Empty DEF Acts, ActionsOf, Actions
      <3>4. StatusHolds(r)
        BY <3>1, <3>2, <3>3 DEF StatusHolds
      <3>5. r.status # "failed" /\ Consistent(r)
        BY <2>1, <3>1, <3>2, <3>4 DEF Consistent, ValidDryRun
      <3> HIDE DEF r
      <3>6. EvidenceTruthful'
        <4> SUFFICES ASSUME NEW q \in Runs, evidence'[q].status # "none"
                     PROVE  (/\ Consistent(evidence[q])
                             /\ evidence[q].status # "failed" =>
                                  appended[q] = IF evidence[q].execution = <<>> THEN {}
                                                ELSE evidence[q].execution[1].events)'
          BY DEF EvidenceTruthful
        <4>1. appended' = appended
          BY DEF Report
        <4>2. CASE q = p
          BY <1>3, <3>1, <3>5, <4>1, <4>2 DEF Consistent, ValidDryRun, ValidExecution, StatusHolds
        <4>3. CASE q # p
          BY <1>3, <4>1, <4>3 DEF Inv, EvidenceTruthful
        <4> QED
          BY <4>2, <4>3
      <3> QED
        BY <1>2, <1>4, <1>5, <3>6 DEF Inv
    <2>6. CASE j.stop # ""
      <3>1. /\ r.execution # <<>>
            /\ r.execution[1] = [eligible |-> Cardinality(Actions(p)), events |-> j.events,
                                 released |-> j.released, stop |-> j.stop]
        BY <2>6 DEF Execution
      <3>2. r.status = IF j.events # {} THEN "pressure_applied" ELSE "pressure_bounded_noop"
        BY <1>7, <2>3, <2>6 DEF Status, Acts, ActionsOf, Actions
      <3>3. StatusHolds(r)
        <4>1. j.high /\ p \in Applying
          BY <2>3, <2>6 DEF Acts
        <4>2. r.high = j.high /\ r.applying = (p \in Applying)
          OBVIOUS
        <4>3. r.execution[1].events = j.events
          BY <3>1
        <4> HIDE DEF r
        <4> QED
          BY <4>1, <4>2, <4>3, <3>1, <3>2 DEF StatusHolds
      <3>4. ValidExecution(r, r.execution[1])
        <4>1. Cardinality(j.events) <= MaxItems /\ j.released <= MaxBytes
          BY <1>1 DEF RunOK
        <4>2. r.planned = Cardinality(Actions(p))
          OBVIOUS
        <4>3. /\ r.execution[1].eligible = Cardinality(Actions(p)) /\ r.execution[1].events = j.events
              /\ r.execution[1].released = j.released /\ r.execution[1].stop = j.stop
          BY <3>1
        <4> HIDE DEF r
        <4> QED
          BY <2>3, <2>6, <4>1, <4>2, <4>3 DEF ValidExecution
      <3> QED
        BY <1>2, <1>3, <1>4, <1>5, <2>1, <2>4, <3>1, <3>3, <3>4
           DEF Inv, EvidenceTruthful, Consistent, ValidDryRun, Report
    <2> QED
      BY <2>5, <2>6
  <1> QED
    BY <1>1, <1>6, <1>7

\* A kill frees the run lock and leaves no report.
LEMMA DieStep == ASSUME Inv, NEW p \in Runs, Die(p) PROVE Inv'
  <1>1. /\ job' \in [Runs -> Jobs] /\ RunInv' /\ FreeInv' /\ LeftInv'
        /\ \A q \in Runs : job'[q].pc = "idle"
    <2>1. faults' \in 0 .. MaxFaults
      BY DEF Die, Inv, TypeInv
    <2> QED
      BY <2>1, EndingStep DEF Die
  <1>2. TypeInv' /\ LockInv' /\ EvidenceTruthful'
    BY <1>1 DEF Inv, TypeInv, LockInv, EvidenceTruthful, Die
  <1> QED
    BY <1>1, <1>2 DEF Inv

\* What others do to the store, they do while no run holds its lock.
LEMMA OthersStep ==
    ASSUME Inv, NEW b \in Blobs, Refer(b) \/ Pin(b) \/ CollectByHand(b) \/ Rehydrate(b)
    PROVE  Inv'
  <1>1. availability' \in [Blobs -> Availability] /\ free' \subseteq Blobs
    BY DEF Inv, TypeInv, Refer, Pin, CollectByHand, Rehydrate, Collected, Availability
  <1>2. /\ UNCHANGED <<disk, runLock, job, evidence, faults, appended>>
        /\ changes' \in 0 .. MaxChanges
        /\ \A p \in Runs : job[p].pc # "apply"
    BY DEF Inv, TypeInv, Refer, Pin, CollectByHand, Rehydrate, Change, StoreFree
  <1>3. TypeInv' /\ LeftInv'
    BY <1>1, <1>2 DEF Inv, TypeInv, LeftInv
  <1>4. RunInv' /\ LockInv' /\ FreeInv' /\ EvidenceTruthful'
    BY <1>2 DEF Inv, RunInv, LockInv, FreeInv, EvidenceTruthful
  <1> QED
    BY <1>3, <1>4 DEF Inv

\* The disk fills up, and no run knows.
LEMMA QuietFrame ==
    ASSUME Inv, disk' \in BOOLEAN, changes' \in 0 .. MaxChanges,
           UNCHANGED <<store, runLock, job, evidence, faults, appended>>
    PROVE  Inv'
  BY DEF Inv, TypeInv, RunInv, LockInv, FreeInv, LeftInv, EvidenceTruthful, Eligible, Hot

-----------------------------------------------------------------------------
\* Every step preserves the invariant, and collects only what is eligible.
LEMMA NextStep ==
    ASSUME Inv, [Next]_vars
    PROVE  Inv' /\ \A p \in Runs : appended'[p] \ appended[p] \subseteq Eligible
  <1>1. ASSUME UNCHANGED appended
        PROVE  \A p \in Runs : appended'[p] \ appended[p] \subseteq Eligible
    BY <1>1
  <1>2. ASSUME NEW p \in Runs, Begin(p)
        PROVE  \A q \in Runs : appended'[q] \ appended[q] \subseteq Eligible
    BY <1>2 DEF Inv, TypeInv, Begin
  <1>3. ASSUME NEW p \in Runs, Begin(p) \/ Step(p) \/ Late(p) \/ Fail(p) \/ Die(p)
        PROVE  Inv' /\ \A q \in Runs : appended'[q] \ appended[q] \subseteq Eligible
    <2>1. CASE Begin(p)
      BY <2>1, <1>2, BeginStep
    <2>2. CASE Plan(p) \/ Probe(p) \/ Gate(p)
      BY <2>2, <1>1, PlanStep, ProbeStep, GateStep DEF Plan, Probe, Gate
    <2>3. CASE Stop(p) \/ Late(p)
      BY <2>3, <1>1, StopStep DEF Stop, Late
    <2>4. CASE Collect(p) \/ Fail(p)
      BY <2>4, CollectStep, FailStep
    <2>5. CASE Report(p) \/ Die(p)
      BY <2>5, <1>1, ReportStep, DieStep DEF Report, Die
    <2> QED
      BY <1>3, <2>1, <2>2, <2>3, <2>4, <2>5 DEF Step
  <1>4. ASSUME NEW b \in Blobs, Refer(b) \/ Pin(b) \/ CollectByHand(b) \/ Rehydrate(b)
        PROVE  Inv' /\ UNCHANGED appended
    BY <1>4, OthersStep DEF Refer, Pin, CollectByHand, Rehydrate
  <1>5. CASE FillDisk
    BY <1>1, <1>5, QuietFrame DEF FillDisk, Change, Inv, TypeInv
  <1>6. CASE UNCHANGED vars
    BY <1>1, <1>6, QuietFrame DEF vars, Inv, TypeInv
  <1> QED
    BY <1>1, <1>3, <1>4, <1>5, <1>6 DEF Next

(* Inv is an invariant: what each step of a run knows of its plan and of   *)
(* the store stays true while others work on it.                           *)
THEOREM Invariance == Spec => []Inv
  <1>1. Inv /\ [Next]_vars => Inv'
    BY NextStep
  <1> QED
    BY Initially, <1>1, PTL DEF Spec

(* One run at a time is at work, inside MaintenanceLimits.                 *)
THEOREM TypeCorrect == Spec => []TypeOK
  <1>1. Inv => TypeOK
    <2> SUFFICES ASSUME Inv PROVE TypeOK
      OBVIOUS
    <2>1. /\ availability \in [Blobs -> {"absent", "hot", "archived", "evicted"}]
          /\ free \subseteq Blobs /\ disk \in BOOLEAN
          /\ changes \in 0 .. MaxChanges /\ faults \in 0 .. MaxFaults
      BY DEF Inv, TypeInv, Availability
    <2>2. ASSUME NEW p \in Runs
          PROVE  /\ job[p].pc \in {"idle", "plan", "probe", "gate", "apply", "report", "failed"}
                 /\ job[p].pc # "idle" <=> runLock = p
                 /\ Len(job[p].plan) <= 1 /\ job[p].events \subseteq Actions(p)
                 /\ Cardinality(job[p].events) <= MaxItems /\ job[p].released <= MaxBytes
      <3>1. job[p] \in Jobs /\ RunOK(p, job[p], appended[p])
        BY DEF Inv, TypeInv, RunInv
      <3>2. job[p].plan \in PlanSeqs /\ job[p].pc \in {"idle", "plan", "probe", "gate", "apply", "report", "failed"}
        BY <3>1 DEF Jobs
      <3>3. Len(job[p].plan) <= 1
        <4>1. CASE job[p].plan = <<>>
          BY <4>1
        <4>2. ASSUME NEW x \in Plans, job[p].plan = <<x>> PROVE Len(job[p].plan) <= 1
          BY <4>2
        <4> QED
          BY <3>2, <4>1, <4>2 DEF PlanSeqs
      <3>4. job[p].pc # "idle" <=> runLock = p
        BY DEF Inv, LockInv, FreeInv
      <3> QED
        BY <3>1, <3>2, <3>3, <3>4 DEF RunOK, Actions, ActionsOf
    <2> QED
      BY <2>1, <2>2 DEF TypeOK
  <1> QED
    BY <1>1, Invariance, PTL

(* A report that is not one of failure passes load_maintenance_evidence    *)
(* and tells exactly what its run archived and evicted.                    *)
THEOREM EvidenceIsTruthful == Spec => []EvidenceTruthful
  <1>1. Inv => EvidenceTruthful
    BY DEF Inv
  <1> QED
    BY <1>1, Invariance, PTL

(* run_gc of a plan that was made without the lock collects only payloads  *)
(* that are hot, expired and unpinned when it does.                        *)
THEOREM OnlyEligibleCollected == Spec => CollectsEligible
  <1>1. Inv /\ [Next]_vars =>
           [\A p \in Runs : \A b \in appended'[p] \ appended[p] : b \in Eligible]_vars
    BY NextStep
  <1> QED
    BY <1>1, Invariance, PTL DEF Spec, CollectsEligible
=============================================================================
