------------------------ MODULE BlobRetentionProofs ------------------------
(***************************************************************************)
(* Proofs about BlobRetention, for any tasks, times and number of events,  *)
(* and for the deployment that the run checks (Deployed): an archived      *)
(* payload is kept, a collected payload is not referenced again, and a     *)
(* store that failed is reopened before it is used.                        *)
(*                                                                         *)
(* The invariant says what the life cycle in the log looks like (History), *)
(* that the receipts are its mirror image (Receipted), what is left on     *)
(* disk at each point of it (Disk), and how far the operation that holds   *)
(* the lock, or the constructor, has come (Working, Opening).  The row of  *)
(* the catalog is a function of the projected events (Row): that a replay  *)
(* computes this function, whatever it starts from and in its own order,   *)
(* is proved by induction over the events it applies (ReplayGivesRow).     *)
(***************************************************************************)
EXTENDS BlobRetention, FiniteSetTheorems, WellFoundedInduction, TLAPS

-----------------------------------------------------------------------------
(* The row as a function of what is projected.                             *)

\* An action is the last event of the life cycle: the payload was taken.
LastAction(P, a) == a \in Of(P, "action") /\ \A l \in Lifecycle(P) : l.n <= a.n
Taken(P) == \E a \in Of(P, "action") : LastAction(P, a)

Row(P) ==
    IF Refs(P) = {} THEN NoRow
    ELSE IF Taken(P) THEN Acted((CHOOSE a \in Of(P, "action") : LastAction(P, a)).id)
    ELSE [avail |-> "hot", expires |-> Deadline(P)]

-----------------------------------------------------------------------------
(* The invariant                                                           *)

Deployed == ~ArchiveExpires /\ ~ReuseAfterGC /\ ~LiveAfterFailure

EventOK(e) ==
    /\ e.n \in 1..MaxEvents
    /\ e.type \in {"reference", "terminal", "cited", "claim", "action", "rehydrated"}
    /\ e.type \in {"reference", "terminal"} => e.task \in Tasks
    /\ e.type = "terminal" => e.at \in 1..MaxTime
    /\ e.type \in {"action", "rehydrated"} => e.id \in Plans

\* The log is numbered by append, and only its last event may have no row.
Logged ==
    /\ IsFiniteSet(events)
    /\ \A e \in events : EventOK(e) /\ e.n <= Cardinality(events)
    /\ \A e, f \in events : e.n = f.n => e = f
    /\ projected \subseteq events
    /\ \A e \in events \ projected : e.n = Cardinality(events)
    /\ projected # events => failed \/ pc \in {"logged", "announced", "promoted"}
    /\ failed => pc = "idle"

Actions == Of(events, "action")
Rehydrations == Of(events, "rehydrated")

\* A task ends once, what is cited was referenced, no payload is referenced
\* again after an action, and evictions and rehydrations alternate.
History ==
    /\ \A e, f \in Of(events, "terminal") : e.task = f.task => e = f
    /\ \A c \in Of(events, "cited") \cup Of(events, "claim") :
         \E r \in Refs(events) : r.n < c.n
    /\ Lifecycle(events) # {} => Refs(events) # {}
    /\ \A l \in Lifecycle(events), r \in Refs(events) : r.n < l.n
    /\ \A a \in Actions : a.id.refs = Sources(events) /\ a.id.action # "keep"
    /\ \A a, b \in Actions : a.n < b.n =>
         a.id.at < b.id.at /\ \E r \in Rehydrations : r.id = a.id /\ r.n < b.n
    /\ \A r \in Rehydrations : \E a \in Actions :
         /\ a.id = r.id /\ a.n < r.n /\ a.id.action = "evict"
         /\ \A l \in Lifecycle(events) : l.n <= a.n \/ l.n >= r.n

\* Every action has its receipt, the receipts are linked in the order of
\* their decisions, and the plan at hand is not older than any of them.  A
\* receipt without its event is the newest, of a payload that is hot.
Receipted ==
    /\ \A a \in Actions : \E t \in tombs : t.id = a.id
    /\ \A t \in tombs :
         /\ t.id \in Plans /\ t.id.action # "keep"
         /\ plan \in Plans /\ (t.id = plan \/ t.id.at < plan.at)
    /\ \A t, u \in tombs : t.id.at = u.id.at => t = u
    /\ \A t \in tombs :
         \/ t.prev = NoPlan /\ \A u \in tombs : t.id.at <= u.id.at
         \/ /\ \E u \in tombs : u.id = t.prev
            /\ t.prev.at < t.id.at
            /\ \A u \in tombs : u.id.at <= t.prev.at \/ t.id.at <= u.id.at
    /\ \A t \in tombs : ~HasAction(events, t.id) =>
         /\ \A u \in tombs : u.id.at <= t.id.at
         /\ ~Taken(events) /\ projected = events
         /\ failed \/ pc = "receipted"
    /\ plan # NoPlan => /\ plan.at <= now
                        /\ plan.avail = "archived" => plan.action = "keep"

\* The retention policy allows the eviction of the payload.
Evictable ==
    ~Pinned(events) /\ class # "evidence" /\ (class = "bulk" => ~Cited(events))

\* Where the bytes are: hot unless taken, or staged by a rehydration that is
\* not projected; in the archive of an action that archived them.
Disk ==
    /\ Refs(events) # {} /\ ~Taken(events) =>
         hot \/ \E r \in Rehydrations \ projected : r.id \in stages
    /\ \A a \in Actions : a.id.action = "archive" => a.id \in archives
    /\ \A a \in archives : a \in Plans /\ a.action = "archive"
    /\ \A s \in stages :
         /\ s \in Plans
         /\ \E a \in Actions :
              /\ a.id = s /\ s.action = "evict"
              /\ \A b \in Actions : b.n <= a.n
         /\ \A t \in tombs : t.id.at <= s.at
         /\ \A r \in Of(projected, "rehydrated") : r.id # s
    /\ \A a \in Actions :
         LastAction(events, a) /\ a.id.action = "evict" /\ hot => Evictable

\* Nothing is left over of an operation that did not happen.
Tidy == stages = {} /\ \A a \in archives : HasAction(events, a)

\* The plan is being applied to a hot payload that the policy lets go.
Applying ==
    /\ stages = {} /\ plan \in Plans
    /\ plan.action # "keep" /\ plan.avail = "hot" /\ plan.refs = Sources(events)
    /\ plan.action = "evict" => Evictable
    /\ Refs(events) # {} /\ ~Pinned(events)
    /\ \A a \in archives : a = plan \/ HasAction(events, a)
    /\ prior \in Plans \cup {NoPlan}

\* The evicted payload is being brought back.
Restoring ==
    /\ prior \in Plans
    /\ \A a \in archives : HasAction(events, a)
    /\ \A t \in tombs : t.id.at <= prior.at
    /\ prior.refs = Sources(events) /\ prior.action = "evict"

Working ==
    /\ pc = "tidying" => Tidy /\ (Taken(events) => ~hot)
    /\ pc \in {"planned", "packed", "receipted", "logged", "applied"} => Applying
    /\ pc = "planned" => Tidy
    /\ pc \in {"packed", "receipted", "logged", "applied"} /\ plan.action = "archive" =>
         plan \in archives
    /\ pc \in {"planned", "packed"} =>
         /\ ~Taken(events)
         /\ IF tombs = {} THEN prior = NoPlan
            ELSE /\ \E t \in tombs : t.id = prior
                 /\ \A t \in tombs : t.id.at <= prior.at
    /\ pc = "receipted" =>
         /\ ~HasAction(events, plan) /\ ~Taken(events)
         /\ \E t \in tombs : t.id = plan
         /\ \A t \in tombs : t.id.at <= plan.at
    /\ pc = "logged" => \E a \in events \ projected : a.type = "action" /\ a.id = plan
    /\ pc = "applied" => \E a \in Actions : LastAction(events, a) /\ a.id = plan
    /\ pc \in {"staged", "announced", "promoted"} => Restoring
    /\ pc = "staged" => /\ stages = {prior} /\ Taken(events) /\ ~hot
                        /\ \E a \in Actions : LastAction(events, a) /\ a.id = prior
    /\ pc \in {"announced", "promoted"} =>
         \E r \in events \ projected : r.type = "rehydrated" /\ r.id = prior
    /\ pc = "announced" => stages = {prior}
    /\ pc = "promoted" => stages = {} /\ hot

Opening ==
    pc = "idle" =>
        /\ ~failed => Tidy /\ (Taken(events) => ~hot)
        /\ opener # "none" =>
             /\ \A t \in tombs : HasAction(events, t.id)
             /\ \A a \in archives : HasAction(events, a)
             /\ \A s \in stages : Rehydrated(s)
        /\ opener = "replayed" => projected = events /\ stages = {}

IInv ==
    /\ TypeOK /\ Logged /\ History /\ Receipted /\ Disk /\ Working /\ Opening
    /\ cat = Row(projected)

USE BlobRetentionAssumption, MarkersAssumption

-----------------------------------------------------------------------------
(* Recursion over the subsets of a finite set.                             *)

\* A nonempty set of numbers has a least one.
LEMMA Least ==
    ASSUME NEW S \in SUBSET Nat, S # {} PROVE \E m \in S : \A n \in S : m <= n
  <1> DEFINE R == {ss \in Nat \X Nat : ss[1] < ss[2]}
  <1>1. IsWellFoundedOn(R, Nat)
    BY NatLessThanWellFounded DEF OpToRel
  <1> HIDE DEF R
  <1>2. PICK m \in S : \A n \in S : ~(<<n, m>> \in R)
    BY <1>1, WFMin
  <1>3. \A n \in S : ~(n < m)
    BY <1>2 DEF R
  <1> QED
    BY <1>3

\* A function pick takes an element off every nonempty subset of M, and a
\* function f is computed by taking them off one by one.
Picks(pick, M) == \A S \in SUBSET M : S # {} => pick[S] \in S
Solves(f, M, pick, base, G) ==
    \A S \in SUBSET M : f[S] = IF S = {} THEN base ELSE G[S][f[S \ {pick[S]}]]

\* Such a function exists.
LEMMA Recursion ==
    ASSUME NEW M, NEW pick, NEW D, NEW base, NEW G,
           IsFiniteSet(M), Picks(pick, M),
           base \in D, G \in [SUBSET M -> [D -> D]]
    PROVE  \E f \in [SUBSET M -> D] : Solves(f, M, pick, base, G)
  <1> USE DEF Picks
  <1> DEFINE Upto(n) == {S \in SUBSET M : Cardinality(S) <= n}
             Good(n) == \E f \in [Upto(n) -> D] : \A S \in Upto(n) :
                            f[S] = IF S = {} THEN base ELSE G[S][f[S \ {pick[S]}]]
             Wrong == {n \in Nat : ~Good(n)}
  <1>1. \A S \in SUBSET M : /\ IsFiniteSet(S) /\ Cardinality(S) \in Nat
                            /\ S # {} => Cardinality(S \ {pick[S]}) = Cardinality(S) - 1
                            /\ S # {} => Cardinality(S) > 0
    <2> TAKE S \in SUBSET M
    <2>1. IsFiniteSet(S)
      BY FS_Subset
    <2>2. Cardinality(S) \in Nat
      BY <2>1, FS_CardinalityType
    <2>3. ASSUME S # {} PROVE Cardinality(S \ {pick[S]}) = Cardinality(S) - 1
      BY <2>1, <2>3, FS_RemoveElement
    <2>4. S # {} => Cardinality(S) > 0
      <3>1. Cardinality(S) = 0 <=> S = {}
        BY <2>1, FS_EmptySet
      <3>2. \A k \in Nat : k # 0 => k > 0
        OBVIOUS
      <3> QED
        BY <2>2, <3>1, <3>2, Zenon
    <2> QED
      BY <2>1, <2>2, <2>3, <2>4
  <1>2. Good(0)
    <2>1. ASSUME NEW S \in Upto(0) PROVE S = {}
      <3>1. S \in SUBSET M /\ Cardinality(S) <= 0
        OBVIOUS
      <3>2. PICK c \in Nat : c = Cardinality(S)
        BY <1>1, <3>1
      <3>3. ~(c > 0)
        BY <3>1, <3>2
      <3> QED
        BY <1>1, <3>1, <3>2, <3>3
    <2> DEFINE f == [S \in Upto(0) |-> base]
    <2> HIDE DEF Upto
    <2>2. f \in [Upto(0) -> D]
      OBVIOUS
    <2>3. \A S \in Upto(0) : f[S] = IF S = {} THEN base ELSE G[S][f[S \ {pick[S]}]]
      BY <2>1
    <2> QED
      BY <2>2, <2>3
  <1>3. ASSUME NEW n \in Nat, Good(n) PROVE Good(n + 1)
    <2>1. PICK f \in [Upto(n) -> D] : \A S \in Upto(n) :
                            f[S] = IF S = {} THEN base ELSE G[S][f[S \ {pick[S]}]]
      BY <1>3
    <2> DEFINE g == [S \in Upto(n + 1) |-> IF S \in Upto(n) THEN f[S] ELSE G[S][f[S \ {pick[S]}]]]
    <2>2. ASSUME NEW S \in Upto(n + 1), S # {} PROVE S \ {pick[S]} \in Upto(n)
      <3>1. S \in SUBSET M /\ S \ {pick[S]} \in SUBSET M /\ Cardinality(S) <= n + 1
        OBVIOUS
      <3>2. PICK c \in Nat : c = Cardinality(S)
        BY <1>1, <3>1
      <3>3. Cardinality(S \ {pick[S]}) = c - 1 /\ c - 1 <= n
        <4>1. Cardinality(S \ {pick[S]}) = c - 1
          BY <1>1, <2>2, <3>1, <3>2
        <4>2. c <= n + 1
          BY <3>1, <3>2
        <4> QED
          BY <4>1, <4>2
      <3> QED
        BY <3>1, <3>3
    <2>3. ASSUME NEW S \in Upto(n) PROVE S \in Upto(n + 1) /\ S \in SUBSET M
      <3>1. S \in SUBSET M /\ Cardinality(S) <= n
        OBVIOUS
      <3>2. PICK c \in Nat : c = Cardinality(S)
        BY <1>1, <3>1
      <3>3. c <= n + 1
        BY <3>1, <3>2
      <3> QED
        BY <3>1, <3>2, <3>3
    <2>4. \A S \in Upto(n + 1) : S \in SUBSET M /\ (S \notin Upto(n) => S # {})
      BY <1>1, FS_EmptySet
    <2> HIDE DEF Upto
    <2>5. g \in [Upto(n + 1) -> D]
      <3>1. ASSUME NEW S \in Upto(n + 1), S \notin Upto(n) PROVE G[S][f[S \ {pick[S]}]] \in D
        <4>1. S \in SUBSET M /\ f[S \ {pick[S]}] \in D
          BY <2>2, <2>4, <3>1
        <4> QED
          BY <4>1
      <3> QED
        BY <3>1
    <2>6. ASSUME NEW S \in Upto(n + 1)
          PROVE g[S] = IF S = {} THEN base ELSE G[S][g[S \ {pick[S]}]]
      <3>1. CASE S = {}
        BY <2>1, <2>4, <3>1
      <3>2. CASE S # {}
        <4>1. g[S \ {pick[S]}] = f[S \ {pick[S]}]
          BY <2>2, <2>3, <3>2
        <4>2. g[S] = G[S][f[S \ {pick[S]}]]
          BY <2>1, <3>2
        <4> QED
          BY <4>1, <4>2, <3>2
      <3> QED
        BY <3>1, <3>2
    <2> QED
      BY <2>5, <2>6
  <1>4. Wrong = {}
    <2> SUFFICES ASSUME Wrong # {} PROVE FALSE
      OBVIOUS
    <2>1. PICK m \in Wrong : \A n \in Wrong : m <= n
      BY Least
    <2> HIDE DEF Good
    <2>2. m # 0 /\ m - 1 \in Nat /\ m - 1 \notin Wrong
      BY <1>2, <2>1
    <2>3. Good(m - 1)
      BY <2>2
    <2>4. Good((m - 1) + 1)
      BY <1>3, <2>2, <2>3
    <2> QED
      BY <2>1, <2>4
  <1>5. Cardinality(M) \in Nat /\ Upto(Cardinality(M)) = SUBSET M
    BY FS_CardinalityType, FS_Subset
  <1>6. Good(Cardinality(M))
    BY <1>4, <1>5
  <1> HIDE DEF Upto
  <1> QED
    BY <1>5, <1>6 DEF Solves

-----------------------------------------------------------------------------
(* The order of a replay.                                                  *)

\* The classes are ranked 1 to 4.
LEMMA RankOf ==
    ASSUME NEW e
    PROVE  /\ Rank(e) \in 1..4
           /\ e.type = "reference" => Rank(e) = 1
           /\ e.type = "terminal" => Rank(e) = 2
           /\ e.type \in {"cited", "claim"} => Rank(e) = 3
           /\ e.type \in {"action", "rehydrated"} => Rank(e) = 4
  BY DEF Rank

\* Of any durable events one is applied last.
LEMMA LastIs ==
    ASSUME Logged, NEW S \in SUBSET events, S # {}
    PROVE  /\ LastOf(S) \in S
           /\ \A f \in S \ {LastOf(S)} : Precedes(f, LastOf(S))
  <1>1. \A e \in S : e.n \in 1..MaxEvents /\ Rank(e) \in 1..4
    BY RankOf DEF Logged, EventOK
  <1>2. PICK k \in {4 - Rank(e) : e \in S} : \A j \in {4 - Rank(e) : e \in S} : k <= j
    <2>1. {4 - Rank(e) : e \in S} \in SUBSET Nat
      BY <1>1
    <2>2. {4 - Rank(e) : e \in S} # {}
      OBVIOUS
    <2> QED
      BY <2>1, <2>2, Least
  <1>3. PICK c \in S : \A f \in S : Rank(f) <= Rank(c)
    <2>1. PICK c \in S : k = 4 - Rank(c)
      BY <1>2
    <2>2. \A f \in S : 4 - Rank(c) <= 4 - Rank(f)
      BY <1>2, <2>1
    <2> QED
      BY <1>1, <2>2
  <1> DEFINE T == {e \in S : Rank(e) = Rank(c)}
  <1>4. PICK k2 \in {MaxEvents - e.n : e \in T} : \A j \in {MaxEvents - e.n : e \in T} : k2 <= j
    <2>1. {MaxEvents - e.n : e \in T} \in SUBSET Nat
      BY <1>1
    <2>2. {MaxEvents - e.n : e \in T} # {}
      OBVIOUS
    <2> QED
      BY <2>1, <2>2, Least
  <1>5. PICK e \in T : \A f \in T : f.n <= e.n
    <2>1. PICK e \in T : k2 = MaxEvents - e.n
      BY <1>4
    <2>2. \A f \in T : MaxEvents - e.n <= MaxEvents - f.n
      BY <1>4, <2>1
    <2> QED
      BY <1>1, <2>2
  <1>6. ASSUME NEW f \in S \ {e} PROVE Precedes(f, e)
    <2>1. CASE f \in T
      <3>1. f.n # e.n /\ f.n <= e.n
        BY <1>5, <2>1 DEF Logged
      <3> QED
        BY <1>1, <2>1, <3>1 DEF Precedes
    <2>2. CASE f \notin T
      BY <1>1, <1>3, <2>2 DEF Precedes
    <2> QED
      BY <2>1, <2>2
  <1>7. \E x \in S : \A f \in S \ {x} : Precedes(f, x)
    BY <1>6
  <1> QED
    BY <1>7 DEF LastOf

\* f is what a replay from row has made of it after some missing events: it
\* applies them one by one, and gives up for good when one is refused.
Replays(f, row, P) ==
    \A S \in SUBSET (events \ P) :
        f[S] = IF S = {} THEN row
               ELSE IF f[S \ {LastOf(S)}] = Failed THEN Failed
               ELSE Apply(f[S \ {LastOf(S)}], P \cup (S \ {LastOf(S)}), LastOf(S))

\* There is one such function, and a replay returns what it comes to.
LEMMA ReplayedIs ==
    ASSUME Logged, NEW P \in SUBSET events, NEW row, NEW D, row \in D, Failed \in D,
           \A d \in D \ {Failed} : \A Q \in SUBSET events : \A e \in events :
               Apply(d, Q, e) \in D
    PROVE  \E f : Replayed(row, P) = f[events \ P] /\ Replays(f, row, P)
  <1> DEFINE M == events \ P
             body(f) == [S \in SUBSET M |->
                          IF S = {} THEN row
                          ELSE IF f[S \ {LastOf(S)}] = Failed THEN Failed
                               ELSE Apply(f[S \ {LastOf(S)}], P \cup (S \ {LastOf(S)}), LastOf(S))]
             pick == [S \in SUBSET M |-> LastOf(S)]
             G == [S \in SUBSET M |-> [d \in D |->
                     IF S = {} THEN d ELSE IF d = Failed THEN Failed
                     ELSE Apply(d, P \cup (S \ {LastOf(S)}), LastOf(S))]]
  <1>1. IsFiniteSet(M)
    BY FS_Difference DEF Logged
  <1>2. Picks(pick, M)
    BY LastIs DEF Picks
  <1>3. G \in [SUBSET M -> [D -> D]]
    <2>1. ASSUME NEW S \in SUBSET M, NEW d \in D
          PROVE  (IF S = {} THEN d ELSE IF d = Failed THEN Failed
                  ELSE Apply(d, P \cup (S \ {LastOf(S)}), LastOf(S))) \in D
      <3>1. CASE S = {} \/ d = Failed
        BY <3>1
      <3>2. CASE S # {} /\ d # Failed
        <4>1. LastOf(S) \in events
          BY <3>2, LastIs
        <4>2. P \cup (S \ {LastOf(S)}) \in SUBSET events
          OBVIOUS
        <4> QED
          BY <3>2, <4>1, <4>2
      <3> QED
        BY <3>1, <3>2
    <2> QED
      BY <2>1
  <1> HIDE DEF pick, G
  <1>4. PICK h \in [SUBSET M -> D] : Solves(h, M, pick, row, G)
    <2> HIDE DEF M, body
    <2>1. row \in D
      OBVIOUS
    <2> QED
      BY <1>1, <1>2, <1>3, <2>1, Recursion
  <1>5. h = body(h)
    <2> HIDE DEF M
    <2>1. ASSUME NEW S \in SUBSET M PROVE h[S] = body(h)[S]
      <3>1. CASE S = {}
        BY <1>4, <3>1 DEF Solves
      <3>2. CASE S # {}
        <4>1. h[S] = G[S][h[S \ {pick[S]}]] /\ pick[S] = LastOf(S)
          BY <1>4, <3>2 DEF pick, Solves
        <4>2. h[S \ {LastOf(S)}] \in D
          BY <1>4
        <4> QED
          BY <4>1, <4>2, <3>2 DEF G
      <3> QED
        BY <3>1, <3>2
    <2> QED
      BY <2>1, <1>4
  <1> DEFINE a == CHOOSE f : f = body(f)
  <1>6. Replayed(row, P) = a[M]
    BY DEF Replayed
  <1>7. a = body(a)
    <2> HIDE DEF body
    <2> QED
      BY <1>5
  <1>8. Replays(a, row, P)
    <2> HIDE DEF a
    <2>1. \A S \in SUBSET M : a[S] = body(a)[S]
      BY <1>7
    <2> QED
      BY <2>1 DEF Replays
  <1> QED
    <2> HIDE DEF a
    <2> QED
      BY <1>6, <1>8

-----------------------------------------------------------------------------
(* What one event makes of the row.                                        *)

\* The deadline depends on the references and the ends of tasks only.
LEMMA SameDeadline ==
    ASSUME NEW Q, NEW e, e.type \notin {"reference", "terminal"}
    PROVE  Deadline(Q \cup {e}) = Deadline(Q)
  <1>1. Refs(Q \cup {e}) = Refs(Q) /\ Of(Q \cup {e}, "terminal") = Of(Q, "terminal")
    BY DEF Refs, Of
  <1> QED
    BY <1>1 DEF Deadline, Terminal

\* At most one action is the last of the life cycle, and it makes the row.
LEMMA RowTaken ==
    ASSUME NEW Q, NEW a, Refs(Q) # {}, LastAction(Q, a),
           \A l \in Lifecycle(Q) : l # a => l.n # a.n,
           \A l \in Lifecycle(Q) : l.n \in Nat
    PROVE  Row(Q) = Acted(a.id)
  <1>1. ASSUME NEW b, LastAction(Q, b) PROVE b = a
    BY <1>1 DEF LastAction, Lifecycle
  <1>2. (CHOOSE b \in Of(Q, "action") : LastAction(Q, b)) = a
    BY <1>1 DEF LastAction
  <1>3. Taken(Q)
    BY DEF Taken, LastAction
  <1> QED
    BY <1>2, <1>3 DEF Row

\* Each event, in any state in which it may be applied, makes of the row of
\* what is projected the row of that and the event.
LEMMA StepRow ==
    ASSUME NEW Q, NEW e, e \notin Q,
           e.type \in {"reference", "terminal", "cited", "claim", "action", "rehydrated"},
           \A x \in Q \cup {e} : x.n \in Nat,
           \A x, y \in Q : x.n = y.n => x = y,
           e.type = "reference" => Lifecycle(Q) = {},
           e.type = "terminal" => ~Terminal(Q, e.task),
           e.type \in {"cited", "claim", "action", "rehydrated"} => Refs(Q) # {},
           e.type \in {"action", "rehydrated"} => \A l \in Lifecycle(Q) : l.n < e.n,
           e.type = "action" => \E t \in tombs : t.id = e.id,
           e.type = "rehydrated" =>
               /\ \E a \in Of(Q, "action") :
                     LastAction(Q, a) /\ a.id = e.id /\ a.id.action = "evict"
               /\ Sources(Q) = e.id.refs
               /\ Promotable(e)
    PROVE  Apply(Row(Q), Q, e) = Row(Q \cup {e})
  <1> DEFINE R == Q \cup {e}
  <1>0. ASSUME NEW type PROVE Of(R, type) = IF e.type = type THEN Of(Q, type) \cup {e}
                                                             ELSE Of(Q, type)
    BY DEF Of
  <1>a. e.type \notin {"action", "rehydrated"} =>
            Lifecycle(R) = Lifecycle(Q) /\ Of(R, "action") = Of(Q, "action")
    BY <1>0 DEF Lifecycle
  <1>b. e.type \notin {"action", "rehydrated"} =>
            /\ Taken(R) = Taken(Q)
            /\ (CHOOSE a \in Of(R, "action") : LastAction(R, a))
                 = (CHOOSE a \in Of(Q, "action") : LastAction(Q, a))
    BY <1>a DEF Taken, LastAction
  <1>c. \A id : Acted(id).avail \in {"archived", "evicted"}
    BY DEF Acted
  <1>1. CASE e.type = "reference"
    <2>1. ~Taken(Q) /\ ~Taken(R)
      BY <1>1, <1>b DEF Taken, Lifecycle
    <2>2. Refs(R) # {}
      BY <1>1, <1>0 DEF Refs
    <2>3. Row(R) = [avail |-> "hot", expires |-> Deadline(R)]
      BY <2>1, <2>2 DEF Row
    <2>4. Row(Q) = NoRow \/ Row(Q) = [avail |-> "hot", expires |-> Deadline(Q)]
      BY <2>1 DEF Row
    <2>5. Apply(Row(Q), Q, e)
            = Refreshed([Row(Q) EXCEPT !.avail = IF @ = "none" THEN "hot" ELSE @], R)
      BY <1>1 DEF Apply
    <2>6. [Row(Q) EXCEPT !.avail = IF @ = "none" THEN "hot" ELSE @]
            = [avail |-> "hot", expires |-> Row(Q).expires]
      BY <2>4 DEF NoRow
    <2> HIDE DEF R
    <2>7. PICK x : x = Row(Q).expires
      OBVIOUS
    <2>8. Refreshed([avail |-> "hot", expires |-> x], R) = [avail |-> "hot", expires |-> Deadline(R)]
      BY DEF Refreshed
    <2>9. Apply(Row(Q), Q, e) = Refreshed([avail |-> "hot", expires |-> x], R)
      BY <2>5, <2>6, <2>7, Zenon
    <2> QED
      BY <2>3, <2>8, <2>9, Zenon DEF R
  <1>2. CASE e.type = "terminal"
    <2>1. Apply(Row(Q), Q, e) = Refreshed(Row(Q), R)
      BY <1>2 DEF Apply
    <2>2. Refs(R) = Refs(Q)
      BY <1>2, <1>0 DEF Refs
    <2>3. CASE Refs(Q) = {}
      BY <2>1, <2>2, <2>3 DEF Row, NoRow, Refreshed
    <2>4. CASE Refs(Q) # {} /\ Taken(Q)
      BY <1>2, <2>1, <2>2, <2>4, <1>b, <1>c DEF Row, Refreshed
    <2>5. CASE Refs(Q) # {} /\ ~Taken(Q)
      BY <1>2, <2>1, <2>2, <2>5, <1>b DEF Row, Refreshed
    <2> QED
      BY <2>3, <2>4, <2>5
  <1>3. CASE e.type \in {"cited", "claim"}
    <2>1. Apply(Row(Q), Q, e) = Row(Q)
      BY <1>3 DEF Apply
    <2>2. Refs(R) = Refs(Q) /\ Deadline(R) = Deadline(Q)
      BY <1>3, <1>0, SameDeadline DEF Refs
    <2> QED
      BY <1>3, <2>1, <2>2, <1>b DEF Row
  <1>4. CASE e.type = "action"
    <2>1. Row(Q).avail # "none"
      BY <1>4, <1>c DEF Row
    <2>2. Apply(Row(Q), Q, e) = Acted(e.id)
      BY <1>4, <2>1 DEF Apply
    <2>3. Refs(R) # {}
      BY <1>4, <1>0 DEF Refs
    <2>4. Lifecycle(R) = Lifecycle(Q) \cup {e} /\ e \in Of(R, "action")
      BY <1>4, <1>0 DEF Lifecycle
    <2>5. \A l \in Lifecycle(R) : l.n \in Nat
      BY DEF Lifecycle, Of
    <2>a. \A l \in Lifecycle(Q) : l.n < e.n /\ l.n \in Nat
      BY <1>4, <2>4, <2>5
    <2>b. e.n \in Nat
      BY <2>4, <2>5
    <2> HIDE DEF R
    <2>6. LastAction(R, e) /\ Refs(R) # {}
      BY <2>3, <2>4, <2>a, <2>b DEF LastAction
    <2>7. \A l \in Lifecycle(R) : l # e => l.n # e.n
      BY <2>4, <2>a, <2>b
    <2>8. Row(R) = Acted(e.id)
      BY <2>5, <2>6, <2>7, RowTaken
    <2> QED
      BY <2>2, <2>8 DEF R
  <1>5. CASE e.type = "rehydrated"
    <2>1. PICK a \in Of(Q, "action") : LastAction(Q, a) /\ a.id = e.id /\ a.id.action = "evict"
      BY <1>5
    <2>2. Row(Q) = Acted(e.id) /\ Acted(e.id).avail = "evicted"
      <3>1. \A l \in Lifecycle(Q) : l \in Q
        BY DEF Lifecycle, Of
      <3>2. a \in Q
        BY DEF Of
      <3>3. \A l \in Lifecycle(Q) : l.n \in Nat /\ (l # a => l.n # a.n)
        BY <3>1, <3>2
      <3>4. Row(Q) = Acted(a.id)
        BY <2>1, <3>3, <1>5, RowTaken
      <3> QED
        BY <2>1, <3>4 DEF Acted
    <2>3. Apply(Row(Q), Q, e) = Refreshed([Row(Q) EXCEPT !.avail = "hot"], Q)
      BY <1>5, <2>2 DEF Apply
    <2>4. Apply(Row(Q), Q, e) = [avail |-> "hot", expires |-> Deadline(Q)]
      BY <2>2, <2>3 DEF Refreshed, Acted
    <2>5. Refs(R) # {}
      BY <1>5, <1>0 DEF Refs
    <2>6. ~Taken(R)
      <3>1. Lifecycle(R) = Lifecycle(Q) \cup {e} /\ Of(R, "action") = Of(Q, "action")
        BY <1>5, <1>0 DEF Lifecycle
      <3>2. \A b \in Of(Q, "action") : b \in Lifecycle(Q) /\ b \in Q
        BY DEF Lifecycle, Of
      <3>3. \A b \in Of(Q, "action") : ~(e.n <= b.n)
        BY <1>5, <3>2
      <3> QED
        BY <3>1, <3>3 DEF Taken, LastAction
    <2> QED
      BY <1>5, <2>4, <2>5, <2>6, SameDeadline DEF Row
  <1> QED
    BY <1>1, <1>2, <1>3, <1>4, <1>5

\* What a row records of durable events is a deadline within the bounds.
LEMMA RowTyped ==
    ASSUME NEW Q, \A e \in Q : EventOK(e)
    PROVE  Row(Q) \in Rows /\ Row(Q) # Failed
  <1> DEFINE tasks == {e.task : e \in Refs(Q)}
             ends == {e.at : e \in {f \in Of(Q, "terminal") : f.task \in tasks}}
  <1>1. ASSUME Refs(Q) # {} PROVE Deadline(Q) \in 0..(MaxTime + HotTTL + ArchiveTTL)
    <2>1. CASE ~\A t \in tasks : Terminal(Q, t)
      BY <2>1 DEF Deadline, BlobRetentionAssumption
    <2>2. CASE \A t \in tasks : Terminal(Q, t)
      <3>1. ends # {}
        <4>1. PICK t \in tasks : TRUE
          BY <1>1
        <4>2. PICK e \in Of(Q, "terminal") : e.task = t
          BY <2>2 DEF Terminal
        <4> QED
          BY <4>1, <4>2
      <3>2. \A x \in ends : x \in 1..MaxTime
        BY DEF Of, EventOK
      <3>3. PICK y \in ends : \A x \in ends : x <= y
        <4>1. {MaxTime - x : x \in ends} \in SUBSET Nat
          BY <3>2 DEF BlobRetentionAssumption
        <4>0. {MaxTime - x : x \in ends} # {} /\ MaxTime \in Nat
          BY <3>1 DEF BlobRetentionAssumption
        <4> HIDE DEF ends
        <4>2. PICK k \in {MaxTime - x : x \in ends} : \A j \in {MaxTime - x : x \in ends} : k <= j
          BY <4>0, <4>1, Least
        <4>3. PICK y \in ends : k = MaxTime - y
          BY <4>2
        <4>4. \A x \in ends : MaxTime - y <= MaxTime - x
          BY <4>2, <4>3
        <4> QED
          BY <3>2, <4>0, <4>4
      <3> HIDE DEF ends
      <3>4. Max(ends) \in ends
        <4>1. \E y1 \in ends : \A x \in ends : y1 >= x
          BY <3>2, <3>3
        <4> QED
          BY <4>1 DEF Max
      <3>5. Deadline(Q) = Max(ends) + HotTTL
        BY <2>2 DEF Deadline, ends
      <3>6. PICK m \in 1..MaxTime : m = Max(ends)
        BY <3>2, <3>4
      <3> QED
        BY <3>5, <3>6 DEF BlobRetentionAssumption
    <2> QED
      BY <2>1, <2>2
  <1>2. ASSUME NEW id \in Plans PROVE Acted(id) \in Rows
    <2>1. id.at \in 1..MaxTime
      BY DEF Plans
    <2>2. id.at + ArchiveTTL \in 0..(MaxTime + HotTTL + ArchiveTTL)
      BY <2>1 DEF BlobRetentionAssumption
    <2> QED
      BY <2>2 DEF Acted, Rows, BlobRetentionAssumption
  <1>3. CASE Refs(Q) = {}
    BY <1>3 DEF Row, NoRow, Rows, BlobRetentionAssumption
  <1>4. CASE Refs(Q) # {} /\ Taken(Q)
    <2>1. \A a \in Of(Q, "action") : a.id \in Plans
      BY DEF Of, EventOK
    <2>2. (CHOOSE a \in Of(Q, "action") : LastAction(Q, a)).id \in Plans
      BY <1>4, <2>1 DEF Taken
    <2> QED
      BY <1>2, <1>4, <2>2 DEF Row
  <1>5. CASE Refs(Q) # {} /\ ~Taken(Q)
    BY <1>1, <1>5 DEF Row, Rows
  <1>6. Row(Q) \in Rows
    BY <1>3, <1>4, <1>5
  <1> QED
    BY <1>6 DEF MarkersAssumption

\* The row depends on nothing but the events and the class.
LEMMA RowFrame ==
    ASSUME class' = class, cat' = Row(projected')
    PROVE  (cat = Row(projected))'
  BY DEF Row, Refs, Taken, Of, LastAction, Lifecycle, Acted, Deadline, Terminal, NoRow

\* Rank first, then number: a strict order.
LEMMA PrecedesOrder ==
    ASSUME NEW x, NEW y, NEW z, x.n \in Nat, y.n \in Nat, z.n \in Nat
    PROVE  /\ ~(Precedes(x, y) /\ Precedes(y, x))
           /\ Precedes(x, y) /\ Precedes(y, z) => Precedes(x, z)
  BY RankOf DEF Precedes

\* What a replay finds, of the log and of the files, when it comes to e: the
\* events of Q are projected, and every one that precedes e is.
LEMMA StepOfReplay ==
    ASSUME Logged, History, Receipted,
           NEW Q \in SUBSET events, NEW e \in events \ Q,
           \A f \in events \ Q : f # e => ~Precedes(f, e),
           \A f \in Q : f.n < e.n \/ Precedes(f, e),
           e.type = "rehydrated" => Promotable(e)
    PROVE  Apply(Row(Q), Q, e) = Row(Q \cup {e})
  <1>0. \A x \in events : x.n \in Nat /\ EventOK(x)
    BY DEF Logged, EventOK
  <1>1. \A f \in events : Rank(f) < Rank(e) => f \in Q
    BY RankOf DEF Precedes
  <1>2. \A f \in events : Rank(f) = Rank(e) /\ f.n < e.n => f \in Q
    BY <1>0 DEF Precedes
  <1>3. e.type = "reference" => Lifecycle(Q) = {}
    <2> SUFFICES ASSUME e.type = "reference", NEW l \in Lifecycle(Q) PROVE FALSE
      OBVIOUS
    <2>1. l \in Lifecycle(events) /\ e \in Refs(events) /\ l \in Q
      BY DEF Lifecycle, Of, Refs
    <2>2. e.n < l.n
      BY <2>1 DEF History
    <2>3. Rank(l) = 4 /\ Rank(e) = 1
      BY RankOf DEF Lifecycle, Of
    <2>4. ~Precedes(l, e)
      BY <2>3 DEF Precedes
    <2> QED
      BY <1>0, <2>1, <2>2, <2>4
  <1>4. e.type = "terminal" => ~Terminal(Q, e.task)
    BY DEF Terminal, Of, History
  <1>5. e.type \in {"cited", "claim", "action", "rehydrated"} => Refs(Q) # {}
    <2> SUFFICES ASSUME e.type \in {"cited", "claim", "action", "rehydrated"}
                 PROVE  \E r \in events : r.type = "reference"
      BY <1>1, RankOf DEF Refs, Of
    <2>1. CASE e.type \in {"cited", "claim"}
      BY <2>1 DEF History, Of, Refs
    <2>2. CASE e.type \in {"action", "rehydrated"}
      BY <2>2 DEF History, Of, Refs, Lifecycle
    <2> QED
      BY <2>1, <2>2
  <1>6. e.type \in {"action", "rehydrated"} => \A l \in Lifecycle(Q) : l.n < e.n
    <2> SUFFICES ASSUME e.type \in {"action", "rehydrated"}, NEW l \in Lifecycle(Q)
                 PROVE  l.n < e.n
      OBVIOUS
    <2>1. Rank(l) = 4 /\ Rank(e) = 4 /\ l \in Q
      BY RankOf DEF Lifecycle, Of
    <2> QED
      BY <2>1 DEF Precedes
  <1>7. e.type = "action" => \E t \in tombs : t.id = e.id
    BY DEF Receipted, Actions, Of
  <1>8. ASSUME e.type = "rehydrated"
        PROVE  /\ \E a \in Of(Q, "action") :
                     LastAction(Q, a) /\ a.id = e.id /\ a.id.action = "evict"
               /\ Sources(Q) = e.id.refs
    <2>1. PICK a \in Actions :
                /\ a.id = e.id /\ a.n < e.n /\ a.id.action = "evict"
                /\ \A l \in Lifecycle(events) : l.n <= a.n \/ l.n >= e.n
      BY <1>8 DEF History, Rehydrations, Of
    <2>2. a \in Q /\ a \in Of(Q, "action")
      BY <1>2, <1>8, <2>1, RankOf DEF Actions, Of
    <2>3. \A l \in Lifecycle(Q) : l \in Lifecycle(events) /\ l.n \in Nat
      BY <1>0 DEF Lifecycle, Of
    <2>4. LastAction(Q, a)
      BY <1>0, <1>6, <1>8, <2>1, <2>2, <2>3 DEF LastAction
    <2>5. Refs(Q) = Refs(events)
      BY <1>1, <1>8, RankOf DEF Refs, Of
    <2>6. Sources(Q) = Sources(events)
      BY <2>5 DEF Sources
    <2> QED
      BY <2>1, <2>2, <2>4, <2>6 DEF History
  <1> QED
    <2>1. \A x, y \in Q : x.n = y.n => x = y
      BY DEF Logged
    <2> QED
      BY <1>0, <1>3, <1>4, <1>5, <1>6, <1>7, <1>8, <2>1, StepRow DEF EventOK

\* With what P contains projected, oldest events first, and the bytes there
\* that rehydrations promote, a replay applies all the rest and makes the row.
LEMMA ReplayGivesRow ==
    ASSUME Logged, History, Receipted, NEW P \in SUBSET events,
           \A f \in P : \A e \in events \ P : f.n < e.n,
           \A r \in Rehydrations \ P : Promotable(r)
    PROVE  Replayed(Row(P), P) = Row(events)
  <1> DEFINE M == events \ P
             Down(S) == \A x \in S, y \in M : Precedes(y, x) => y \in S
             X == {Deadline(Q) : Q \in SUBSET events} \cup {Acted(e.id).expires : e \in events}
                    \cup {Row(P).expires}
             D == [avail : {"none", "hot", "archived", "evicted"}, expires : X] \cup {Failed}
  <1>1. Row(P) \in D
    <2>1. Row(P) \in Rows
      BY RowTyped DEF Logged
    <2> QED
      BY <2>1 DEF Rows
  <1>2. ASSUME NEW d \in D \ {Failed}, NEW Q \in SUBSET events, NEW e \in events
        PROVE  Apply(d, Q, e) \in D
    <2> DEFINE Hot == [avail : {"none", "hot", "archived", "evicted"}, expires : X]
    <2>1. ASSUME NEW h \in Hot, NEW R \in SUBSET events PROVE Refreshed(h, R) \in D
      <3>1. Deadline(R) \in X
        OBVIOUS
      <3> HIDE DEF X
      <3> QED
        BY <3>1 DEF Refreshed
    <2>2. Acted(e.id) \in D
      <3>1. Acted(e.id).expires \in X
        OBVIOUS
      <3> HIDE DEF X
      <3> QED
        BY <3>1 DEF Acted
    <2>3. \A v \in {"none", "hot", "archived", "evicted"} : [d EXCEPT !.avail = v] \in Hot
      <3> HIDE DEF X
      <3> QED
        OBVIOUS
    <2>4. d \in Hot /\ Failed \in D /\ Q \cup {e} \in SUBSET events
      OBVIOUS
    <2> HIDE DEF D
    <2>5. d.avail \in {"none", "hot", "archived", "evicted"}
      <3> HIDE DEF X
      <3> QED
        BY <2>4
    <2>6. CASE e.type = "reference"
      <3>1. [d EXCEPT !.avail = IF @ = "none" THEN "hot" ELSE @] \in Hot
        BY <2>3, <2>5
      <3> HIDE DEF Hot
      <3> QED
        BY <2>1, <2>4, <2>6, <3>1 DEF Apply
    <2> HIDE DEF Hot
    <2>7. CASE e.type = "terminal"
      BY <2>1, <2>4, <2>7 DEF Apply
    <2>8. CASE e.type \in {"cited", "claim"}
      <3>1. Hot \subseteq D
        BY DEF Hot, D
      <3> QED
        BY <2>4, <2>8, <3>1 DEF Apply
    <2>9. CASE e.type = "action"
      BY <2>2, <2>4, <2>9 DEF Apply
    <2>10. CASE e.type = "rehydrated"
      BY <2>1, <2>3, <2>4, <2>10 DEF Apply
    <2> QED
      BY <2>6, <2>7, <2>8, <2>9, <2>10 DEF Logged, EventOK
  <1>3. PICK g : Replayed(Row(P), P) = g[M] /\ Replays(g, Row(P), P)
    <2>1. Failed \in D
      OBVIOUS
    <2> HIDE DEF D
    <2>2. \A d \in D \ {Failed} : \A Q \in SUBSET events : \A e \in events : Apply(d, Q, e) \in D
      BY <1>2
    <2>3. PICK row : row = Row(P)
      OBVIOUS
    <2>4. \E g : Replayed(row, P) = g[events \ P] /\ Replays(g, row, P)
      <3>1. row \in D
        BY <1>1, <2>3
      <3> QED
        BY <2>1, <2>2, <3>1, ReplayedIs
    <2> QED
      BY <2>3, <2>4
  <1> HIDE DEF D
  <1>4. \A S \in SUBSET M : IsFiniteSet(S) /\ Cardinality(S) \in Nat
    <2> TAKE S \in SUBSET M
    <2>1. IsFiniteSet(S)
      BY FS_Subset DEF Logged
    <2> QED
      BY <2>1, FS_CardinalityType
  <1>5. \A x \in events : x.n \in Nat
    BY DEF Logged, EventOK
  <1> DEFINE Wrong == {Cardinality(S) : S \in {U \in SUBSET M : Down(U) /\ g[U] # Row(P \cup U)}}
  <1>6. Wrong = {}
    <2> SUFFICES ASSUME Wrong # {} PROVE FALSE
      OBVIOUS
    <2>1. PICK m \in Wrong : \A n \in Wrong : m <= n
      <3>1. Wrong \in SUBSET Nat
        BY <1>4
      <3> QED
        BY <3>1, Least
    <2>2. PICK S \in SUBSET M : Down(S) /\ g[S] # Row(P \cup S) /\ Cardinality(S) = m
      BY <2>1
    <2>3. S # {}
      <3>1. CASE S = {}
        <4>1. g[S] = Row(P)
          BY <1>3, <3>1 DEF Replays
        <4>2. P \cup S = P
          BY <3>1
        <4> QED
          BY <2>2, <4>1, <4>2
      <3> QED
        BY <3>1
    <2> DEFINE last == LastOf(S)
               T == S \ {last}
               Q == P \cup T
    <2>4. last \in S /\ \A x \in S \ {last} : Precedes(x, last)
      BY <2>3, LastIs
    <2>5. T \in SUBSET M /\ Cardinality(T) = m - 1 /\ m \in Nat
      BY <1>4, <2>2, <2>4, FS_RemoveElement
    <2> HIDE DEF last
    <2>6. Down(T)
      <3> SUFFICES ASSUME NEW x \in T, NEW y \in M, Precedes(y, x) PROVE y \in T
        OBVIOUS
      <3>1. y \in S
        BY <2>2
      <3>2. y # last
        BY <1>5, <2>4, PrecedesOrder
      <3> QED
        BY <3>1, <3>2
    <2>7. g[T] = Row(Q)
      <3>1. m - 1 \notin Wrong
        <4> HIDE DEF Wrong
        <4> QED
          BY <2>1, <2>5
      <3> HIDE DEF T, Down
      <3> QED
        BY <2>5, <2>6, <3>1
    <2>8. Q \in SUBSET events /\ last \in events \ Q /\ Q \cup {last} = P \cup S
      BY <2>4
    <2>9. g[S] = Apply(Row(Q), Q, last)
      <3>1. Row(Q) # Failed
        BY <2>8, RowTyped DEF Logged
      <3> QED
        BY <1>3, <2>3, <2>7, <3>1 DEF last, Replays
    <2>10. Apply(Row(Q), Q, last) = Row(Q \cup {last})
      <3>1. \A x \in events \ Q : x # last => ~Precedes(x, last)
        BY <2>2, <2>4
      <3>2. \A x \in Q : x.n < last.n \/ Precedes(x, last)
        BY <2>4
      <3>3. last.type = "rehydrated" => Promotable(last)
        BY <2>4 DEF Rehydrations, Of
      <3> QED
        BY <2>8, <3>1, <3>2, <3>3, StepOfReplay
    <2> QED
      BY <2>2, <2>8, <2>9, <2>10
  <1>7. Down(M) /\ P \cup M = events
    OBVIOUS
  <1> HIDE DEF Down, M
  <1>8. g[M] = Row(P \cup M)
    BY <1>6, <1>7
  <1> QED
    BY <1>3, <1>7, <1>8

-----------------------------------------------------------------------------
(* The life cycle in the log, and its receipts.                            *)

\* Durable events are numbered, and what has no row is the newest.
LEMMA Numbers ==
    ASSUME Logged
    PROVE  /\ Cardinality(events) \in Nat
           /\ \A x \in events : x.n \in Nat /\ x.n <= Cardinality(events) /\ EventOK(x)
           /\ \A x \in events \ projected : x.n = Cardinality(events)
           /\ \A x \in events : x.n = Cardinality(events) => x = Newest
           /\ \A x \in projected : \A e \in events \ projected : x.n < e.n
           /\ \A x, y \in events : x.n = y.n => x = y
  <1>1. Cardinality(events) \in Nat
    BY FS_CardinalityType DEF Logged
  <1>2. \A x \in events : x.n \in Nat /\ x.n <= Cardinality(events) /\ EventOK(x)
    BY DEF Logged, EventOK
  <1>3. \A x \in events \ projected : x.n = Cardinality(events)
    BY DEF Logged
  <1>4. \A x, y \in events : x.n = y.n => x = y
    BY DEF Logged
  <1>5. \A x \in events : x.n = Cardinality(events) => x = Newest
    BY <1>4 DEF Newest
  <1>6. ASSUME NEW x \in projected, NEW e \in events \ projected PROVE x.n < e.n
    <2>1. x \in events /\ x # e
      BY DEF Logged
    <2>2. PICK c \in Nat : c = Cardinality(events)
      BY <1>1
    <2> QED
      BY <1>2, <1>3, <1>4, <2>1, <2>2
  <1> QED
    BY <1>1, <1>2, <1>3, <1>4, <1>5, <1>6

\* The life cycle consists of durable events of two types.
LEMMA LifecycleIs ==
    ASSUME Logged
    PROVE  /\ \A l : l \in Lifecycle(events) <=> l \in Actions \/ l \in Rehydrations
           /\ \A a \in Actions : a \in events /\ a.type = "action" /\ a.n \in Nat /\ a.id \in Plans
           /\ \A r \in Rehydrations :
                r \in events /\ r.type = "rehydrated" /\ r.n \in Nat /\ r.id \in Plans
           /\ \A id : HasAction(events, id) <=> \E a \in Actions : a.id = id
           /\ \A id : Rehydrated(id) <=> \E r \in Rehydrations : r.id = id
  <1>1. \A x \in events : x.n \in Nat /\ EventOK(x)
    BY Numbers
  <1> QED
    BY <1>1 DEF Lifecycle, Actions, Rehydrations, Of, HasAction, Rehydrated, EventOK

\* After a rehydration the payload is not taken.
LEMMA NotTaken ==
    ASSUME Logged, NEW r \in Rehydrations, \A l \in Lifecycle(events) : l.n <= r.n
    PROVE  ~Taken(events) /\ \A a : ~LastAction(events, a)
  <1>1. \A a : ~LastAction(events, a)
    <2> SUFFICES ASSUME NEW a, LastAction(events, a) PROVE FALSE
      OBVIOUS
    <2>1. a \in Actions /\ r \in Lifecycle(events) /\ a \in Lifecycle(events)
      BY LifecycleIs DEF LastAction, Actions
    <2>2. a.n <= r.n /\ r.n <= a.n
      BY <2>1 DEF LastAction
    <2>3. a = r
      BY <2>1, <2>2, LifecycleIs, Numbers
    <2> QED
      BY <2>1, <2>3, LifecycleIs
  <1> QED
    BY <1>1 DEF Taken

\* In particular after one that has no row yet.
LEMMA NotTakenYet ==
    ASSUME Logged, NEW r \in Rehydrations \ projected
    PROVE  ~Taken(events) /\ \A a : ~LastAction(events, a)
  <1>1. \A l \in Lifecycle(events) : l.n <= r.n
    BY LifecycleIs, Numbers
  <1> QED
    BY <1>1, NotTaken

\* Each plan is applied once.
LEMMA SameAction ==
    ASSUME Logged, History, NEW a \in Actions, NEW b \in Actions, a.id = b.id
    PROVE  a = b
  <1>1. a.id.at \in Nat
    BY LifecycleIs DEF Plans
  <1>2. ~(a.n < b.n) /\ ~(b.n < a.n)
    BY <1>1 DEF History
  <1>3. a.n = b.n
    BY <1>2, LifecycleIs
  <1> QED
    BY <1>3, LifecycleIs, Numbers

\* Whatever was taken has been brought back, unless it was taken last.
LEMMA BroughtBack ==
    ASSUME Logged, History, NEW a \in Actions, ~LastAction(events, a)
    PROVE  \E r \in Rehydrations : r.id = a.id
  <1>1. PICK l \in Lifecycle(events) : ~(l.n <= a.n)
    BY DEF LastAction, Actions
  <1>2. CASE l \in Actions
    <2>1. a.n < l.n
      BY <1>1, <1>2, LifecycleIs
    <2> QED
      BY <1>2, <2>1 DEF History
  <1>3. CASE l \in Rehydrations
    <2>1. PICK b \in Actions :
            b.id = l.id /\ b.n < l.n /\ \A k \in Lifecycle(events) : k.n <= b.n \/ k.n >= l.n
      BY <1>3 DEF History
    <2>2. a.n <= b.n
      BY <1>1, <1>3, <2>1, LifecycleIs
    <2>3. CASE a.n = b.n
      BY <1>3, <2>1, <2>3, LifecycleIs, Numbers
    <2>4. CASE a.n < b.n
      BY <2>4 DEF History
    <2> QED
      BY <2>2, <2>3, <2>4, LifecycleIs
  <1> QED
    BY <1>1, <1>2, <1>3, LifecycleIs

\* Nothing happens to the payload after it was archived.
LEMMA ArchiveIsLast ==
    ASSUME Logged, History, NEW a \in Actions, a.id.action = "archive"
    PROVE  LastAction(events, a)
  <1> SUFFICES ASSUME ~LastAction(events, a) PROVE FALSE
    OBVIOUS
  <1>1. PICK r \in Rehydrations : r.id = a.id
    BY BroughtBack
  <1> QED
    BY <1>1 DEF History

\* There is at most one last action.
LEMMA OneLast ==
    ASSUME Logged, NEW a, NEW b, LastAction(events, a), LastAction(events, b)
    PROVE  a = b
  <1>1. a \in Actions /\ b \in Actions /\ a.n <= b.n /\ b.n <= a.n
    BY LifecycleIs DEF LastAction, Actions
  <1> QED
    BY <1>1, LifecycleIs, Numbers

\* The row is that of the last action while the payload is taken.
LEMMA RowWhenTaken ==
    ASSUME Logged, History, NEW a, LastAction(events, a)
    PROVE  Row(events) = Acted(a.id)
  <1>1. a \in Actions /\ a \in Lifecycle(events)
    BY LifecycleIs DEF LastAction, Actions
  <1>2. Refs(events) # {}
    BY <1>1 DEF History
  <1>3. \A l \in Lifecycle(events) : l.n \in Nat /\ (l # a => l.n # a.n)
    BY <1>1, LifecycleIs, Numbers
  <1> QED
    BY <1>2, <1>3, RowTaken

\* The deciding tombstone is the one of the newest plan.
LEMMA LatestIs ==
    ASSUME NEW R \in SUBSET tombs, R # {}, \A t \in tombs : t.id \in Plans
    PROVE  /\ \E t \in R : \A u \in R : u.id.at <= t.id.at
           /\ R = tombs => Latest \in tombs /\ \A u \in tombs : u.id.at <= Latest.id.at
  <1>1. \A t \in R : t.id.at \in 1..MaxTime
    BY DEF Plans
  <1>2. {MaxTime - t.id.at : t \in R} \in SUBSET Nat /\ {MaxTime - t.id.at : t \in R} # {}
    BY <1>1 DEF BlobRetentionAssumption
  <1>3. PICK k \in {MaxTime - t.id.at : t \in R} : \A j \in {MaxTime - t.id.at : t \in R} : k <= j
    BY <1>2, Least
  <1>4. PICK t \in R : k = MaxTime - t.id.at
    BY <1>3
  <1>5. \A u \in R : MaxTime - t.id.at <= MaxTime - u.id.at
    BY <1>3, <1>4
  <1>6. MaxTime \in Nat
    BY DEF BlobRetentionAssumption
  <1>7. \A u \in R : u.id.at <= t.id.at
    BY <1>1, <1>5, <1>6
  <1>8. R = tombs => Latest \in tombs /\ \A u \in tombs : u.id.at <= Latest.id.at
    BY <1>7 DEF Latest
  <1> QED
    BY <1>7, <1>8

\* It is the one of the last action, unless its event is not durable.
LEMMA LatestAction ==
    ASSUME Logged, History, Receipted, NEW a \in Actions,
           \A b \in Actions : b.n <= a.n,
           HasAction(events, Latest.id) \/ \A t \in tombs : HasAction(events, t.id)
    PROVE  tombs # {} /\ Latest \in tombs /\ Latest.id = a.id
  <1>1. PICK t \in tombs : t.id = a.id
    BY DEF Receipted
  <1>2. Latest \in tombs /\ \A u \in tombs : u.id.at <= Latest.id.at
    <2>1. \A u \in tombs : u.id \in Plans
      BY DEF Receipted
    <2> QED
      BY <1>1, <2>1, LatestIs
  <1>3. PICK b \in Actions : b.id = Latest.id
    BY <1>2, LifecycleIs
  <1>4. ~(b.n < a.n)
    <2>1. b.n < a.n => b.id.at < a.id.at
      BY DEF History
    <2>2. a.id.at <= b.id.at /\ a.id.at \in Nat /\ b.id.at \in Nat
      BY <1>1, <1>2, <1>3, LifecycleIs DEF Plans
    <2> QED
      BY <2>1, <2>2
  <1>5. a = b
    BY <1>4, LifecycleIs, Numbers
  <1> QED
    BY <1>1, <1>2, <1>3, <1>5

-----------------------------------------------------------------------------
(* What a step leaves alone.                                               *)

LEMMA SameLogged ==
    ASSUME Logged, events' = events, projected' = projected \/ projected' = events,
           projected # events => failed' \/ pc' \in {"logged", "announced", "promoted"}
                                 \/ projected' = events,
           failed' => pc' = "idle"
    PROVE  Logged'
  BY DEF Logged, EventOK

LEMMA SameHistory ==
    ASSUME History, events' = events
    PROVE  History'
  BY DEF History, Actions, Rehydrations, Sources, Refs, Lifecycle, Of

LEMMA SameReceipted ==
    ASSUME Receipted, TypeOK, UNCHANGED <<events, tombs, plan>>,
           now' = now \/ (now < MaxTime /\ now' = now + 1),
           projected' = projected \/ projected' = events,
           \A t \in tombs : ~HasAction(events, t.id) => failed' \/ pc' = "receipted"
    PROVE  Receipted'
  <1>1. plan # NoPlan => plan.at <= now'
    <2>1. now \in 1..MaxTime /\ (plan # NoPlan => plan.at \in 1..MaxTime /\ plan.at <= now)
      BY DEF Receipted, TypeOK, Plans
    <2> QED
      BY <2>1 DEF BlobRetentionAssumption
  <1>2. \A t \in tombs : ~HasAction(events, t.id) =>
         /\ \A u \in tombs : u.id.at <= t.id.at
         /\ ~Taken(events) /\ projected' = events
         /\ failed' \/ pc' = "receipted"
    BY DEF Receipted
  <1> QED
    BY <1>1, <1>2 DEF Receipted, Actions, Of, HasAction, Taken, LastAction, Lifecycle

LEMMA SameDisk ==
    ASSUME Disk, UNCHANGED <<events, class, projected, archives, tombs, stages, hot>>
    PROVE  Disk'
  BY DEF Disk, Refs, Of, Taken, LastAction, Lifecycle, Actions, Rehydrations, Evictable,
         Pinned, Terminal, Cited

\* An operation that ends well leaves no more than it should.
LEMMA Settled ==
    ASSUME Receipted', pc' = "idle", ~failed', projected' = events',
           Tidy', Taken(events)' => ~hot'
    PROVE  Opening'
  <1>1. (\A t \in tombs : HasAction(events, t.id))'
    BY DEF Receipted
  <1> QED
    BY <1>1 DEF Opening, Tidy

\* A failure leaves no constructor under way.
LEMMA Failing ==
    ASSUME Deployed, Fail
    PROVE  Opening' /\ failed' /\ opener' = "none"
  BY DEF Fail, Deployed, Opening

\* Nobody else is at work, and everything is projected, when an append or a
\* plan begins.
LEMMA FreeIs ==
    ASSUME IInv, Deployed, Free
    PROVE  /\ pc = "idle" /\ ~failed /\ projected = events
           /\ Tidy /\ (Taken(events) => ~hot)
           /\ \A t \in tombs : HasAction(events, t.id)
           /\ (Refs(events) # {} /\ ~Taken(events) => hot)
  <1>1. pc = "idle" /\ ~failed
    BY DEF Deployed, Free
  <1>2. projected = events
    BY <1>1 DEF IInv, Logged
  <1>3. \A t \in tombs : HasAction(events, t.id)
    BY <1>1 DEF IInv, Receipted
  <1>4. Refs(events) # {} /\ ~Taken(events) => hot
    BY <1>2 DEF IInv, Disk, Rehydrations, Of
  <1> QED
    BY <1>1, <1>2, <1>3, <1>4 DEF IInv, Opening

\* The same while an operation is under way.
LEMMA BusyIs ==
    ASSUME IInv, pc \notin {"idle", "logged", "announced", "promoted"}
    PROVE  /\ ~failed /\ projected = events
           /\ (pc # "receipted" => \A t \in tombs : HasAction(events, t.id))
           /\ (Refs(events) # {} /\ ~Taken(events) => hot)
  <1>1. ~failed
    BY DEF IInv, Logged
  <1>2. projected = events
    BY <1>1 DEF IInv, Logged
  <1>3. pc # "receipted" => \A t \in tombs : HasAction(events, t.id)
    BY <1>1 DEF IInv, Receipted
  <1>4. Refs(events) # {} /\ ~Taken(events) => hot
    BY <1>2 DEF IInv, Disk, Rehydrations, Of
  <1> QED
    BY <1>1, <1>2, <1>3, <1>4

-----------------------------------------------------------------------------
(* What an append adds.                                                    *)

LEMMA Appended ==
    ASSUME Logged, {e.n : e \in events} = 1..Cardinality(events),
           NEW e, EventOK(e), e.n = Number, events' = events \cup {e}
    PROVE  /\ e \notin events /\ e.n \in Nat
           /\ \A x \in events : x.n < e.n
           /\ IsFiniteSet(events')
           /\ Cardinality(events') = e.n
           /\ {x.n : x \in events'} = 1..Cardinality(events')
           /\ Cardinality(events') <= MaxEvents
           /\ \A x \in events' : EventOK(x) /\ x.n <= Cardinality(events')
           /\ \A x, y \in events' : x.n = y.n => x = y
  <1>1. PICK c \in Nat : c = Cardinality(events)
    BY Numbers
  <1>2. e.n = c + 1
    BY <1>1 DEF Number
  <1>3. \A x \in events : x.n \in Nat /\ x.n <= c /\ EventOK(x)
    BY <1>1, Numbers
  <1>4. e \notin events
    BY <1>2, <1>3
  <1>5. IsFiniteSet(events') /\ Cardinality(events') = c + 1
    BY <1>1, <1>4, FS_AddElement DEF Logged
  <1>6. {x.n : x \in events'} = 1..(c + 1)
    <2>1. {x.n : x \in events'} = {x.n : x \in events} \cup {e.n}
      OBVIOUS
    <2>2. {x.n : x \in events} = 1..c
      BY <1>1
    <2>3. (1..c) \cup {c + 1} = 1..(c + 1)
      OBVIOUS
    <2> QED
      BY <1>2, <2>1, <2>2, <2>3
  <1>7. e.n \in 1..MaxEvents
    BY DEF EventOK
  <1>8. \A x \in events : x.n < e.n
    BY <1>2, <1>3
  <1>9. \A x \in events' : EventOK(x) /\ x.n <= e.n
    BY <1>2, <1>3
  <1>10. \A x, y \in events' : x.n = y.n => x = y
    BY <1>3, <1>8, Numbers
  <1>11. Cardinality(events') = e.n /\ {x.n : x \in events'} = 1..e.n
    BY <1>2, <1>5, <1>6
  <1>12. e.n \in Nat /\ e.n <= MaxEvents
    BY <1>7 DEF BlobRetentionAssumption
  <1>13. Cardinality(events') <= MaxEvents /\ {x.n : x \in events'} = 1..Cardinality(events')
    BY <1>11, <1>12
  <1>14. \A x \in events' : EventOK(x) /\ x.n <= Cardinality(events')
    BY <1>9, <1>11
  <1> QED
    BY <1>4, <1>5, <1>8, <1>10, <1>11, <1>12, <1>13, <1>14

\* The log after an append.
LEMMA AppendedLogged ==
    ASSUME Logged, {e.n : e \in events} = 1..Cardinality(events),
           NEW e, EventOK(e), e.n = Number, events' = events \cup {e},
           projected = events,
           \/ projected' = projected \cup {e}
           \/ projected' = projected
                /\ (failed' \/ pc' \in {"logged", "announced", "promoted"}),
           failed' => pc' = "idle"
    PROVE  Logged'
  <1>1. \A x \in (events \ projected)' : x = e
    OBVIOUS
  <1>2. \A x \in (events \ projected)' : x.n = Cardinality(events')
    BY <1>1, Appended
  <1>3. (\A x \in events : EventOK(x))'
    BY Appended DEF EventOK
  <1> QED
    BY <1>2, <1>3, Appended DEF Logged

\* An event other than one of the life cycle leaves that as it is.
LEMMA SameLifecycle ==
    ASSUME NEW e, e.type \notin {"action", "rehydrated"}, events' = events \cup {e}
    PROVE  /\ Lifecycle(events)' = Lifecycle(events)
           /\ Actions' = Actions /\ Rehydrations' = Rehydrations
           /\ Taken(events)' <=> Taken(events)
           /\ \A id : HasAction(events', id) <=> HasAction(events, id)
           /\ \A id : Rehydrated(id)' <=> Rehydrated(id)
           /\ \A a : LastAction(events, a)' <=> LastAction(events, a)
  <1>1. Of(events', "action") = Of(events, "action")
          /\ Of(events', "rehydrated") = Of(events, "rehydrated")
    BY DEF Of
  <1> QED
    BY <1>1 DEF Lifecycle, Actions, Rehydrations, Taken, HasAction, Rehydrated, LastAction

-----------------------------------------------------------------------------
(* The invariant holds initially and is kept by every action.              *)

LEMMA InitIInv ==
    ASSUME Init
    PROVE  IInv
  <1> USE DEF Init
  <1>1. IsFiniteSet({}) /\ Cardinality({}) = 0
    BY FS_EmptySet
  <1>2. TypeOK
    <2>1. {e.n : e \in events} = 1..Cardinality(events)
      BY <1>1
    <2>2. Cardinality(events) <= MaxEvents
      BY <1>1 DEF BlobRetentionAssumption
    <2>3. now \in 1..MaxTime
      BY DEF BlobRetentionAssumption
    <2>4. cat \in Rows
      BY DEF Rows, NoRow, BlobRetentionAssumption
    <2> QED
      BY <2>1, <2>2, <2>3, <2>4 DEF TypeOK
  <1>3. Logged /\ History /\ Receipted
    BY <1>1 DEF Logged, History, Receipted, Of, Refs, Lifecycle, Actions, Rehydrations
  <1>4. Disk /\ Working /\ Opening
    BY DEF Disk, Working, Opening, Tidy, Actions, Of, Refs, Taken, HasAction
  <1>5. cat = Row(projected)
    BY DEF Row, Refs, Of
  <1> QED
    BY <1>2, <1>3, <1>4, <1>5 DEF IInv

LEMMA StutterIInv ==
    ASSUME IInv, UNCHANGED vars
    PROVE  IInv'
  <1> USE DEF vars
  <1>1. TypeOK'
    BY DEF IInv, TypeOK
  <1>2. Logged'
    BY SameLogged DEF IInv, Logged
  <1>3. History'
    BY SameHistory DEF IInv
  <1>4. Receipted'
    BY SameReceipted DEF IInv, Receipted
  <1>5. Disk'
    BY SameDisk DEF IInv
  <1>6. Working'
    BY DEF IInv, Working, Tidy, HasAction, Of, Taken, LastAction, Lifecycle, Applying,
           Sources, Refs, Evictable, Pinned, Terminal, Cited, Actions, Restoring
  <1>7. Opening'
    BY DEF IInv, Opening, Tidy, HasAction, Of, Taken, LastAction, Lifecycle, Rehydrated
  <1>8. (cat = Row(projected))'
    BY RowFrame DEF IInv
  <1> QED
    BY <1>1, <1>2, <1>3, <1>4, <1>5, <1>6, <1>7, <1>8 DEF IInv

LEMMA TickIInv ==
    ASSUME IInv, Tick
    PROVE  IInv'
  <1> USE DEF Tick, diskVars, opVars
  <1>1. TypeOK'
    BY DEF IInv, TypeOK, BlobRetentionAssumption
  <1>2. Logged'
    BY SameLogged DEF IInv, Logged
  <1>3. History'
    BY SameHistory DEF IInv
  <1>4. Receipted'
    BY SameReceipted DEF IInv, Receipted
  <1>5. Disk'
    BY SameDisk DEF IInv
  <1>6. Working'
    BY DEF Working
  <1>7. Opening'
    BY DEF IInv, Opening, Tidy, HasAction, Of, Taken, LastAction, Lifecycle, Rehydrated
  <1>8. (cat = Row(projected))'
    BY RowFrame DEF IInv
  <1> QED
    BY <1>1, <1>2, <1>3, <1>4, <1>5, <1>6, <1>7, <1>8 DEF IInv

\* An event of the log that is no part of the life cycle is appended.
LEMMA RecordIInv ==
    ASSUME IInv, Deployed, Free, NEW e, Record(e), e.n = Number,
           e.type \in {"reference", "terminal", "cited", "claim"},
           e.type \in {"reference", "terminal"} => e.task \in Tasks,
           e.type = "terminal" => e.at \in 1..MaxTime /\ ~Terminal(projected, e.task),
           e.type \in {"cited", "claim"} => Refs(projected) # {},
           IF e.type = "reference" THEN tombs = {} /\ hot' = TRUE ELSE hot' = hot,
           UNCHANGED <<now, class, archives, tombs, stages, opVars>>
    PROVE  IInv'
  <1> USE DEF opVars
  <1>1. /\ pc = "idle" /\ ~failed /\ projected = events
        /\ Tidy /\ (Taken(events) => ~hot)
        /\ \A t \in tombs : HasAction(events, t.id)
        /\ (Refs(events) # {} /\ ~Taken(events) => hot)
    BY FreeIs
  <1>2. Logged /\ History /\ Receipted /\ Disk /\ TypeOK /\ cat = Row(projected)
    BY DEF IInv
  <1>3. EventOK(e) /\ events' = events \cup {e}
    <2>1. e.n <= MaxEvents
      BY DEF Record
    <2>2. PICK c \in Nat : c = Cardinality(events)
      BY <1>2, Numbers
    <2>3. e.n \in 1..MaxEvents
      BY <2>1, <2>2 DEF Number, BlobRetentionAssumption
    <2> QED
      BY <2>3 DEF EventOK, Record
  <1>4. {x.n : x \in events} = 1..Cardinality(events)
    BY <1>2 DEF TypeOK
  <1>5. /\ e \notin events
        /\ \A x \in events : x.n < e.n
        /\ {x.n : x \in events'} = 1..Cardinality(events')
        /\ Cardinality(events') <= MaxEvents
    BY <1>2, <1>3, <1>4, Appended
  <1>6. /\ Lifecycle(events)' = Lifecycle(events)
        /\ Actions' = Actions /\ Rehydrations' = Rehydrations
        /\ Taken(events)' <=> Taken(events)
        /\ \A id : HasAction(events', id) <=> HasAction(events, id)
        /\ \A id : Rehydrated(id)' <=> Rehydrated(id)
        /\ \A a : LastAction(events, a)' <=> LastAction(events, a)
    BY <1>3, SameLifecycle
  <1>7. \/ projected' = projected \cup {e} /\ cat' = Apply(cat, projected, e)
             /\ opener' = opener /\ failed' = failed
        \/ projected' = projected /\ cat' = cat /\ failed' = TRUE /\ opener' = "none"
    BY DEF Record, Fail, Deployed
  <1>8. e.type = "reference" => Actions = {} /\ Rehydrations = {} /\ Lifecycle(events) = {}
    BY <1>2, LifecycleIs DEF Receipted, History
  <1>9. Refs(events') = IF e.type = "reference" THEN Refs(events) \cup {e} ELSE Refs(events)
    BY <1>3 DEF Refs, Of
  <1>10. Logged'
    BY <1>1, <1>2, <1>3, <1>4, <1>5, <1>7, AppendedLogged DEF Number
  <1>11. History'
    <2>1. (\A x, y \in Of(events, "terminal") : x.task = y.task => x = y)'
      BY <1>1, <1>2, <1>3 DEF History, Of, Terminal
    <2>2. (\A c \in Of(events, "cited") \cup Of(events, "claim") :
             \E r \in Refs(events) : r.n < c.n)'
      <3> SUFFICES ASSUME NEW c \in (Of(events, "cited") \cup Of(events, "claim"))'
                   PROVE  \E r \in Refs(events') : r.n < c.n
        BY DEF Refs, Of
      <3>1. CASE c = e
        <4>1. PICK r \in Refs(events) : TRUE
          BY <1>1, <3>1 DEF Of
        <4> QED
          BY <1>5, <1>9, <3>1, <4>1 DEF Refs, Of
      <3>2. CASE c # e
        <4>1. c \in Of(events, "cited") \cup Of(events, "claim")
          BY <1>3, <3>2 DEF Of
        <4> QED
          BY <1>2, <1>9, <4>1 DEF History
      <3> QED
        BY <3>1, <3>2
    <2>3. \A a \in Actions : Sources(events') = Sources(events)
      BY <1>8, <1>9 DEF Sources
    <2>4. (Lifecycle(events) # {} => Refs(events) # {})'
      BY <1>2, <1>6, <1>8, <1>9 DEF History
    <2>5. (\A l \in Lifecycle(events), r \in Refs(events) : r.n < l.n)'
      BY <1>2, <1>6, <1>8, <1>9 DEF History
    <2> QED
      BY <1>2, <1>6, <2>1, <2>2, <2>3, <2>4, <2>5 DEF History
  <1>12. Receipted'
    BY <1>1, <1>2, <1>6 DEF Receipted
  <1>13. Disk'
    <2>1. stages = {} /\ stages' = {}
      BY <1>1 DEF Tidy
    <2>2. \A a : ~(LastAction(events, a)' /\ hot')
      BY <1>1, <1>6, <1>8 DEF Taken, LastAction, Actions, Lifecycle
    <2>3. hot' \/ Refs(events') = {} \/ Taken(events)'
      BY <1>1, <1>6, <1>9
    <2> QED
      BY <1>2, <1>6, <2>1, <2>2, <2>3 DEF Disk
  <1>14. Working'
    BY <1>1 DEF Working
  <1>15. Opening'
    <2>1. Tidy'
      BY <1>1, <1>6 DEF Tidy
    <2>2. Taken(events)' => ~hot'
      BY <1>1, <1>6, <1>8 DEF Taken, Actions
    <2>3. CASE failed' = TRUE /\ opener' = "none"
      BY <2>3 DEF Opening
    <2>4. CASE projected' = projected \cup {e} /\ failed' = failed
      BY <1>1, <1>3, <1>12, <2>1, <2>2, <2>4, Settled
    <2> QED
      BY <1>7, <2>3, <2>4
  <1>18. Apply(Row(projected), projected, e) = Row(projected \cup {e})
    <2>1. \A x \in projected \cup {e} : x.n \in Nat
      BY <1>1, <1>2, <1>3, <1>4, Appended, Numbers
    <2>2. \A x, y \in projected : x.n = y.n => x = y
      BY <1>1, <1>2, Numbers
    <2> QED
      BY <1>1, <1>5, <1>8, <2>1, <2>2, StepRow
  <1>16. (cat = Row(projected))'
    BY <1>2, <1>7, <1>18, RowFrame
  <1>17. TypeOK'
    <2>1. cat' \in Rows
      <3>1. CASE cat' = cat
        BY <1>2, <3>1 DEF TypeOK
      <3>2. CASE cat' = Apply(cat, projected, e)
        <4>1. Row(projected \cup {e}) \in Rows
          <5>1. \A x \in projected \cup {e} : EventOK(x)
            BY <1>1, <1>2, <1>3, Numbers
          <5> QED
            BY <5>1, RowTyped
        <4> QED
          BY <1>2, <1>18, <3>2, <4>1
      <3> QED
        BY <1>7, <3>1, <3>2
    <2>2. projected' \subseteq events'
      BY <1>10 DEF Logged
    <2>3. /\ hot' \in BOOLEAN /\ failed' \in BOOLEAN
          /\ opener' \in {"none", "recovered", "replayed"}
      BY <1>2, <1>7 DEF TypeOK
    <2> QED
      BY <1>2, <1>5, <2>1, <2>2, <2>3 DEF TypeOK
  <1> QED
    BY <1>10, <1>11, <1>12, <1>13, <1>14, <1>15, <1>16, <1>17 DEF IInv

LEMMA AddReferenceIInv ==
    ASSUME IInv, Deployed, NEW t \in Tasks, AddReference(t)
    PROVE  IInv'
  <1> DEFINE e == [n |-> Number, type |-> "reference", task |-> t]
  <1>1. CASE Record(e)
    <2>1. e.n = Number /\ e.type = "reference" /\ e.task \in Tasks
      OBVIOUS
    <2>2. Free /\ tombs = {} /\ hot' = TRUE
            /\ UNCHANGED <<now, class, archives, tombs, stages, opVars>>
      BY DEF AddReference, Deployed
    <2> HIDE DEF e
    <2> QED
      BY <1>1, <2>1, <2>2, RecordIInv
  <1>2. CASE Fail /\ UNCHANGED <<events, projected, cat>>
    <2> USE DEF opVars
    <2>0. Free /\ tombs = {} /\ hot' = TRUE
            /\ UNCHANGED <<now, class, archives, tombs, stages, opVars>>
      BY DEF AddReference, Deployed
    <2>1. pc = "idle" /\ ~failed /\ projected = events /\ Tidy
      BY <2>0, FreeIs
    <2>2. failed' = TRUE /\ opener' = "none" /\ Opening'
      BY <1>2, Failing DEF Fail
    <2>3. Actions = {}
      BY <2>0 DEF IInv, Receipted
    <2>4. TypeOK'
      BY <1>2, <2>0, <2>2 DEF IInv, TypeOK
    <2>5. Logged'
      BY <1>2, <2>0, <2>1, <2>2, SameLogged DEF IInv
    <2>6. History'
      BY <1>2, SameHistory DEF IInv
    <2>7. Receipted'
      BY <1>2, <2>0, <2>2, SameReceipted DEF IInv
    <2>8. Disk'
      BY <1>2, <2>0, <2>1, <2>3 DEF IInv, Disk, Tidy, Actions, Of
    <2>9. Working'
      BY <2>0, <2>1 DEF Working
    <2>10. (cat = Row(projected))'
      BY <1>2, <2>0, RowFrame DEF IInv
    <2> QED
      BY <2>2, <2>4, <2>5, <2>6, <2>7, <2>8, <2>9, <2>10 DEF IInv
  <1> QED
    BY <1>1, <1>2 DEF AddReference

LEMMA EndTaskIInv ==
    ASSUME IInv, Deployed, NEW t \in Tasks, EndTask(t)
    PROVE  IInv'
  <1> DEFINE e == [n |-> Number, type |-> "terminal", task |-> t, at |-> now]
  <1>1. e.n = Number /\ e.type = "terminal" /\ e.task = t /\ e.at \in 1..MaxTime
    BY DEF IInv, TypeOK
  <1>2. /\ Free /\ Record(e) /\ ~Terminal(projected, t) /\ hot' = hot
        /\ UNCHANGED <<now, class, archives, tombs, stages, opVars>>
    BY DEF EndTask
  <1> HIDE DEF e
  <1> QED
    BY <1>1, <1>2, RecordIInv

LEMMA CiteIInv ==
    ASSUME IInv, Deployed, NEW type \in {"cited", "claim"}, Cite(type)
    PROVE  IInv'
  <1> DEFINE e == [n |-> Number, type |-> type]
  <1>1. e.n = Number /\ e.type = type
    OBVIOUS
  <1>2. /\ Free /\ Record(e) /\ Refs(projected) # {} /\ hot' = hot
        /\ UNCHANGED <<now, class, archives, tombs, stages, opVars>>
    BY DEF Cite
  <1> HIDE DEF e
  <1> QED
    BY <1>1, <1>2, RecordIInv

\* A plan that is not to keep a payload goes with what the catalog says of it.
LEMMA PlanIs ==
    ASSUME TypeOK, cat = Row(projected), NEW t \in 1..MaxTime, cat.avail # "none", Logged
    PROVE  /\ PlanAt(t) \in Plans
           /\ cat.avail = "evicted" => ActionAt(t) = "keep"
           /\ ActionAt(t) # "keep" => ~Pinned(projected)
           /\ ActionAt(t) = "evict" /\ cat.avail = "hot" =>
                class # "evidence" /\ (class = "bulk" => ~Cited(projected))
           /\ Refs(projected) # {}
           /\ cat.avail = "hot" => ~Taken(projected)
  <1>1. class \in {"scratch", "bulk", "evidence"}
    BY DEF TypeOK, BlobRetentionAssumption
  <1>2. ActionAt(t) \in {"keep", "archive", "evict"}
    BY <1>1 DEF ActionAt
  <1>3. PlanAt(t) \in Plans
    <2>1. Sources(projected) \in SUBSET (1..MaxEvents)
      BY DEF Sources, Refs, Of, Logged, EventOK
    <2>2. Pinned(projected) \in BOOLEAN /\ Cited(projected) \in BOOLEAN
      BY DEF Pinned, Cited
    <2>3. cat.avail \in {"hot", "archived", "evicted"}
            /\ cat.expires \in 0..(MaxTime + HotTTL + ArchiveTTL)
      BY DEF TypeOK, Rows
    <2> HIDE DEF BlobRetentionAssumption
    <2> QED
      BY <1>2, <2>1, <2>2, <2>3 DEF PlanAt, Plans
  <1>4. ActionAt(t) = "evict" /\ cat.avail = "hot" =>
          class # "evidence" /\ (class = "bulk" => ~Cited(projected))
    BY <1>1 DEF ActionAt
  <1>5. /\ cat.avail = "evicted" => ActionAt(t) = "keep"
        /\ ActionAt(t) # "keep" => ~Pinned(projected)
    BY DEF ActionAt
  <1>6. Refs(projected) # {}
    BY DEF Row, NoRow
  <1>7. cat.avail = "hot" => ~Taken(projected)
    BY <1>6 DEF Row, Acted
  <1> QED
    BY <1>3, <1>4, <1>5, <1>6, <1>7

LEMMA PlanRetentionIInv ==
    ASSUME IInv, Deployed, PlanRetention
    PROVE  IInv'
  <1> USE DEF PlanRetention, diskVars
  <1>1. pc = "idle" /\ ~failed /\ projected = events /\ \A t \in tombs : HasAction(events, t.id)
    BY FreeIs
  <1>2. now \in 1..MaxTime
    BY DEF IInv, TypeOK
  <1>3. PlanAt(now) \in Plans /\ PlanAt(now).at = now
          /\ (PlanAt(now).avail = "archived" => PlanAt(now).action = "keep")
    <2>1. PlanAt(now) \in Plans
      BY <1>2, PlanIs DEF IInv
    <2> QED
      BY <2>1 DEF PlanAt, Deployed
  <1>4. TypeOK'
    BY <1>3 DEF IInv, TypeOK
  <1>5. Logged'
    BY SameLogged DEF IInv, Logged
  <1>6. History'
    BY SameHistory DEF IInv
  <1>7. Receipted'
    <2>1. Receipted /\ plan' = PlanAt(now)
      BY DEF IInv
    <2>2. \A t \in tombs : t.id.at < plan'.at
      BY <1>3, <2>1
    <2>3. plan' \in Plans /\ plan'.at <= now /\ (plan'.avail = "archived" => plan'.action = "keep")
      BY <1>2, <1>3, <2>1
    <2> HIDE DEF PlanRetention
    <2>4. UNCHANGED <<events, tombs, now>>
      BY DEF PlanRetention
    <2> QED
      BY <1>1, <2>1, <2>2, <2>3, <2>4 DEF Receipted, Actions, Of, HasAction
  <1>8. Disk'
    BY SameDisk DEF IInv
  <1>9. Working'
    BY <1>1 DEF Working
  <1>10. Opening'
    BY DEF IInv, Opening, Tidy, HasAction, Of, Taken, LastAction, Lifecycle, Rehydrated
  <1>11. (cat = Row(projected))'
    BY RowFrame DEF IInv
  <1> QED
    BY <1>4, <1>5, <1>6, <1>7, <1>8, <1>9, <1>10, <1>11 DEF IInv

\* What a decision to collect is based on does not depend on anything else.
LEMMA SamePolicy ==
    ASSUME events' = events, class' = class
    PROVE  /\ Evictable' <=> Evictable
           /\ Pinned(events)' <=> Pinned(events)
           /\ Sources(events)' = Sources(events)
           /\ Refs(events)' = Refs(events)
           /\ Taken(events)' <=> Taken(events)
           /\ Actions' = Actions
           /\ \A a : LastAction(events, a)' <=> LastAction(events, a)
           /\ \A id : HasAction(events', id) <=> HasAction(events, id)
  BY DEF Evictable, Pinned, Cited, Terminal, Sources, Refs, Of, Taken, LastAction, Lifecycle,
         Actions, HasAction

LEMMA StartGCIInv ==
    ASSUME IInv, Deployed, StartGC
    PROVE  IInv'
  <1> USE DEF diskVars
  <1>0. /\ Free /\ plan # NoPlan /\ plan = PlanAt(plan.at)
        /\ UNCHANGED <<now, class, events, hot, archives, tombs, stages, projected, cat,
                       plan, opener, failed>>
    BY DEF StartGC
  <1>1. /\ pc = "idle" /\ ~failed /\ projected = events
        /\ Tidy /\ (Taken(events) => ~hot)
        /\ \A t \in tombs : HasAction(events, t.id)
    BY <1>0, FreeIs
  <1>2. TypeOK /\ Logged /\ Receipted /\ cat = Row(projected) /\ Disk
    BY DEF IInv
  <1>3. plan \in Plans /\ plan.at \in 1..MaxTime
    BY <1>0, <1>2 DEF TypeOK, Plans
  <1>4. tombs # {} => Latest \in tombs /\ \A u \in tombs : u.id.at <= Latest.id.at
    BY <1>2, LatestIs DEF TypeOK
  <1>5. pc' \in {"tidying", "planned"} /\ prior' \in Plans \cup {NoPlan}
    BY <1>2, <1>4 DEF StartGC, TypeOK
  <1>6. TypeOK'
    BY <1>0, <1>2, <1>5 DEF TypeOK, GCSteps
  <1>7. Logged'
    BY <1>0, <1>1, <1>2, SameLogged
  <1>8. History'
    BY <1>0, SameHistory DEF IInv
  <1>9. Receipted'
    BY <1>0, <1>1, <1>2, SameReceipted
  <1>10. Disk'
    BY <1>0, <1>2, SameDisk
  <1>11. Tidy'
    BY <1>0, <1>1 DEF Tidy, HasAction
  <1>12. Working'
    <2>1. CASE pc' = "tidying"
      BY <1>0, <1>1, <1>11, <2>1, SamePolicy DEF Working
    <2>2. CASE pc' = "planned"
      <3>1. plan.action # "keep" /\ prior' = IF tombs = {} THEN NoPlan ELSE Latest.id
        BY <2>2 DEF StartGC
      <3>2. plan.avail = cat.avail /\ plan.action = ActionAt(plan.at)
              /\ plan.refs = Sources(projected)
        BY <1>0 DEF PlanAt
      <3>3. cat.avail # "none"
        BY <1>3, <3>2 DEF Plans
      <3>4. cat.avail = "hot"
        <4>1. cat.avail \in {"hot", "archived", "evicted"}
          BY <1>2, <3>3 DEF TypeOK, Rows
        <4>2. cat.avail # "evicted"
          BY <1>2, <1>3, <3>1, <3>2, <3>3, PlanIs
        <4>3. cat.avail # "archived"
          BY <1>0, <1>2, <3>1, <3>2 DEF Receipted
        <4> QED
          BY <4>1, <4>2, <4>3
      <3>5. /\ ~Pinned(events) /\ Refs(events) # {} /\ ~Taken(events)
            /\ plan.action = "evict" => Evictable
        <4>1. ActionAt(plan.at) # "keep"
          BY <3>1, <3>2
        <4>2. ~Pinned(projected) /\ Refs(projected) # {} /\ ~Taken(projected)
          BY <1>2, <1>3, <3>3, <3>4, <4>1, PlanIs
        <4>3. plan.action = "evict" =>
                class # "evidence" /\ (class = "bulk" => ~Cited(projected))
          BY <1>2, <1>3, <3>2, <3>3, <3>4, PlanIs
        <4> QED
          BY <1>1, <4>2, <4>3 DEF Evictable
      <3>6. Applying'
        BY <1>0, <1>1, <1>3, <1>5, <3>1, <3>2, <3>4, <3>5, SamePolicy DEF Applying, Tidy
      <3>7. (IF tombs = {} THEN prior = NoPlan
             ELSE /\ \E t \in tombs : t.id = prior
                  /\ \A t \in tombs : t.id.at <= prior.at)'
        BY <1>0, <1>4, <3>1
      <3> QED
        BY <1>0, <1>11, <2>2, <3>5, <3>6, <3>7, SamePolicy DEF Working
    <2> QED
      BY <1>5, <2>1, <2>2
  <1>13. Opening'
    BY <1>5 DEF Opening
  <1>14. (cat = Row(projected))'
    BY <1>0, <1>2, RowFrame
  <1> QED
    BY <1>6, <1>7, <1>8, <1>9, <1>10, <1>12, <1>13, <1>14 DEF IInv

LEMMA WriteArchiveIInv ==
    ASSUME IInv, Deployed, WriteArchive
    PROVE  IInv'
  <1>0. /\ pc = "planned" /\ pc' = "packed"
        /\ archives' = IF plan.action = "archive" THEN archives \cup {plan} ELSE archives
        /\ UNCHANGED <<now, class, events, hot, tombs, stages, projected, cat,
                       plan, prior, opener, failed>>
    BY DEF WriteArchive
  <1>1. ~failed /\ projected = events /\ \A t \in tombs : HasAction(events, t.id)
    BY <1>0, BusyIs
  <1>2. TypeOK /\ Logged /\ Receipted /\ cat = Row(projected) /\ Disk /\ Working
    BY DEF IInv
  <1>3. Applying
    BY <1>0, <1>2 DEF Working
  <1>4. TypeOK'
    BY <1>0, <1>2, <1>3 DEF TypeOK, GCSteps, Applying
  <1>5. Logged'
    BY <1>0, <1>1, <1>2, SameLogged
  <1>6. History'
    BY <1>0, SameHistory DEF IInv
  <1>7. Receipted'
    BY <1>0, <1>1, <1>2, SameReceipted
  <1>8. Disk'
    <2>1. \A a \in archives' : a \in Plans /\ a.action = "archive"
      BY <1>0, <1>2, <1>3 DEF Disk, Applying
    <2>2. archives \subseteq archives'
      BY <1>0
    <2>3. UNCHANGED <<events, class, hot, tombs, stages, projected>>
      BY <1>0
    <2> QED
      BY <1>2, <2>1, <2>2, <2>3, SamePolicy DEF Disk, Rehydrations, Of
  <1>9. Working'
    <2>1. Applying'
      <3>1. \A a \in archives' : a = plan \/ HasAction(events, a)
        BY <1>0, <1>3 DEF Applying
      <3> QED
        BY <1>0, <1>3, <3>1, SamePolicy DEF Applying
    <2>2. (~Taken(events)
            /\ IF tombs = {} THEN prior = NoPlan
               ELSE /\ \E t \in tombs : t.id = prior
                    /\ \A t \in tombs : t.id.at <= prior.at)'
      BY <1>0, <1>2, SamePolicy DEF Working
    <2> QED
      BY <1>0, <2>1, <2>2 DEF Working
  <1>10. Opening'
    BY <1>0 DEF Opening
  <1>11. (cat = Row(projected))'
    BY <1>0, <1>2, RowFrame
  <1> QED
    BY <1>4, <1>5, <1>6, <1>7, <1>8, <1>9, <1>10, <1>11 DEF IInv

LEMMA WriteTombstoneIInv ==
    ASSUME IInv, Deployed, WriteTombstone
    PROVE  IInv'
  <1> DEFINE t == [id |-> plan, prev |-> prior]
  <1>0. /\ pc = "packed" /\ pc' = "receipted" /\ tombs' = tombs \cup {t}
        /\ \A u \in tombs : u.id = plan => u = t
        /\ UNCHANGED <<now, class, events, hot, archives, stages, projected, cat,
                       plan, prior, opener, failed>>
    BY DEF WriteTombstone
  <1>1. ~failed /\ projected = events /\ \A u \in tombs : HasAction(events, u.id)
    BY <1>0, BusyIs
  <1>2. TypeOK /\ Logged /\ Receipted /\ cat = Row(projected) /\ Disk /\ Working
    BY DEF IInv
  <1>3. /\ Applying /\ ~Taken(events)
        /\ IF tombs = {} THEN prior = NoPlan
           ELSE /\ \E u \in tombs : u.id = prior
                /\ \A u \in tombs : u.id.at <= prior.at
    BY <1>0, <1>2 DEF Working
  <1>4. t.id = plan /\ t.prev = prior
    OBVIOUS
  <1> HIDE DEF t
  <1>5. plan \in Plans /\ plan.at \in 1..MaxTime /\ \A u \in tombs : u.id.at \in 1..MaxTime
    BY <1>2, <1>3 DEF Applying, Receipted, Plans
  <1>6. \A u \in tombs : u.id.at < plan.at
    <2> SUFFICES ASSUME NEW u \in tombs, u.id = plan PROVE FALSE
      BY <1>2 DEF Receipted
    <2>1. u.prev = prior
      BY <1>0, <1>4
    <2>2. prior # NoPlan /\ plan.at <= prior.at /\ prior.at \in 1..MaxTime
      <3>1. PICK v \in tombs : v.id = prior
        BY <1>3
      <3> QED
        BY <1>2, <1>3, <1>5, <3>1 DEF Receipted, MarkersAssumption
    <2>3. prior.at < plan.at
      BY <1>2, <2>1, <2>2 DEF Receipted
    <2> QED
      BY <1>5, <2>2, <2>3
  <1>7. ~HasAction(events, plan)
    BY <1>2, <1>5, <1>6, LifecycleIs DEF Receipted
  <1>8. TypeOK'
    BY <1>0, <1>2, <1>4, <1>5, <1>3 DEF TypeOK, GCSteps, Applying
  <1>9. Logged'
    BY <1>0, <1>1, <1>2, SameLogged
  <1>10. History'
    BY <1>0, SameHistory DEF IInv
  <1>11. Receipted'
    <2>1. \A a \in Actions : \E u \in tombs' : u.id = a.id
      BY <1>0, <1>2 DEF Receipted
    <2>2. \A u \in tombs' : /\ u.id \in Plans /\ u.id.action # "keep"
                            /\ plan \in Plans /\ (u.id = plan \/ u.id.at < plan.at)
      BY <1>0, <1>2, <1>3, <1>4, <1>5 DEF Receipted, Applying
    <2>3. \A u, v \in tombs' : u.id.at = v.id.at => u = v
      BY <1>0, <1>2, <1>4, <1>5, <1>6 DEF Receipted
    <2>4. ASSUME NEW u \in tombs'
          PROVE  \/ u.prev = NoPlan /\ \A v \in tombs' : u.id.at <= v.id.at
                 \/ /\ \E v \in tombs' : v.id = u.prev
                    /\ u.prev.at < u.id.at
                    /\ \A v \in tombs' : v.id.at <= u.prev.at \/ u.id.at <= v.id.at
      <3>1. CASE u = t
        <4>1. CASE tombs = {}
          BY <1>0, <1>3, <1>4, <1>5, <3>1, <4>1
        <4>2. CASE tombs # {}
          BY <1>0, <1>3, <1>4, <1>5, <1>6, <3>1, <4>2
        <4> QED
          BY <4>1, <4>2
      <3>2. CASE u \in tombs
        <4>1. \/ u.prev = NoPlan /\ \A v \in tombs : u.id.at <= v.id.at
              \/ /\ \E v \in tombs : v.id = u.prev
                 /\ u.prev.at < u.id.at
                 /\ \A v \in tombs : v.id.at <= u.prev.at \/ u.id.at <= v.id.at
          BY <1>2, <3>2 DEF Receipted
        <4>2. u.id.at <= t.id.at
          BY <1>4, <1>5, <1>6, <3>2
        <4>3. tombs \subseteq tombs' /\ \A v \in tombs' : v \in tombs \/ v = t
          BY <1>0
        <4> QED
          BY <4>1, <4>2, <4>3
      <3> QED
        BY <1>0, <3>1, <3>2
    <2>5. \A u \in tombs' : ~HasAction(events, u.id) =>
            \A v \in tombs' : v.id.at <= u.id.at
      BY <1>0, <1>1, <1>4, <1>5, <1>6
    <2> QED
      BY <1>0, <1>1, <1>2, <1>3, <2>1, <2>2, <2>3, <2>4, <2>5, SamePolicy DEF Receipted
  <1>12. Disk'
    <2>1. stages = {}
      BY <1>3 DEF Applying
    <2>2. UNCHANGED <<events, class, hot, archives, stages, projected>>
      BY <1>0
    <2> QED
      BY <1>2, <2>1, <2>2, SamePolicy DEF Disk, Rehydrations, Of
  <1>13. Working'
    <2>1. Applying'
      BY <1>0, <1>3, SamePolicy DEF Applying
    <2>2. /\ ~HasAction(events, plan) /\ ~Taken(events)
          /\ \E u \in tombs' : u.id = plan
          /\ \A u \in tombs' : u.id.at <= plan.at
      BY <1>0, <1>3, <1>4, <1>5, <1>6, <1>7
    <2>3. plan.action = "archive" => plan \in archives
      BY <1>0, <1>2 DEF Working
    <2> QED
      BY <1>0, <2>1, <2>2, <2>3, SamePolicy DEF Working
  <1>14. Opening'
    BY <1>0 DEF Opening
  <1>15. (cat = Row(projected))'
    BY <1>0, <1>2, RowFrame
  <1> QED
    BY <1>8, <1>9, <1>10, <1>11, <1>12, <1>13, <1>14, <1>15 DEF IInv

\* An event of the life cycle leaves everything else as it is.
LEMMA OnlyLifecycle ==
    ASSUME NEW e, e.type \in {"action", "rehydrated"}, events' = events \cup {e}, class' = class
    PROVE  /\ Lifecycle(events') = Lifecycle(events) \cup {e}
           /\ Actions' = IF e.type = "action" THEN Actions \cup {e} ELSE Actions
           /\ Rehydrations' = IF e.type = "rehydrated" THEN Rehydrations \cup {e}
                                                       ELSE Rehydrations
           /\ Refs(events') = Refs(events) /\ Sources(events') = Sources(events)
           /\ \A type \in {"terminal", "cited", "claim"} : Of(events', type) = Of(events, type)
           /\ Pinned(events') <=> Pinned(events)
           /\ Evictable' <=> Evictable
           /\ \A id : HasAction(events', id) <=>
                        HasAction(events, id) \/ (e.type = "action" /\ e.id = id)
  <1>1. \A type : Of(events', type) = IF e.type = type THEN Of(events, type) \cup {e}
                                                      ELSE Of(events, type)
    BY DEF Of
  <1>2. Refs(events') = Refs(events) /\ Sources(events') = Sources(events)
    BY <1>1 DEF Refs, Sources
  <1>3. \A t : Terminal(events', t) <=> Terminal(events, t)
    BY <1>1 DEF Terminal
  <1>4. (Pinned(events') <=> Pinned(events)) /\ (Cited(events') <=> Cited(events))
    BY <1>1, <1>2, <1>3 DEF Pinned, Cited
  <1>5. Evictable' <=> Evictable
    BY <1>4 DEF Evictable
  <1>6. \A id : HasAction(events', id) <=>
                        HasAction(events, id) \/ (e.type = "action" /\ e.id = id)
    BY <1>1 DEF HasAction
  <1> QED
    BY <1>1, <1>2, <1>4, <1>5, <1>6 DEF Lifecycle, Actions, Rehydrations

LEMMA LogActionIInv ==
    ASSUME IInv, Deployed, LogAction
    PROVE  IInv'
  <1> DEFINE e == [n |-> Number, type |-> "action", id |-> plan]
  <1>0. /\ pc = "receipted" /\ pc' = "logged" /\ Number <= MaxEvents
        /\ ~HasAction(events, plan) /\ events' = events \cup {e}
        /\ UNCHANGED <<now, class, hot, archives, tombs, stages, projected, cat,
                       plan, prior, opener, failed>>
    BY DEF LogAction
  <1>1. ~failed /\ projected = events
    BY <1>0, BusyIs
  <1>2. /\ TypeOK /\ Logged /\ History /\ Receipted /\ cat = Row(projected)
        /\ Disk /\ Working
    BY DEF IInv
  <1>3. /\ Applying /\ ~Taken(events)
        /\ \E t \in tombs : t.id = plan
        /\ \A t \in tombs : t.id.at <= plan.at
        /\ plan.action = "archive" => plan \in archives
    BY <1>0, <1>2 DEF Working
  <1>4. e.n = Number /\ e.type = "action" /\ e.id = plan
    OBVIOUS
  <1> HIDE DEF e
  <1>5. EventOK(e)
    <2>1. PICK c \in Nat : c = Cardinality(events)
      BY <1>2, Numbers
    <2>2. e.n \in 1..MaxEvents
      BY <1>0, <1>4, <2>1 DEF Number, BlobRetentionAssumption
    <2> QED
      BY <1>3, <1>4, <2>2 DEF EventOK, Applying
  <1>6. {x.n : x \in events} = 1..Cardinality(events)
    BY <1>2 DEF TypeOK
  <1>7. /\ e \notin events /\ e.n \in Nat
        /\ \A x \in events : x.n < e.n
        /\ {x.n : x \in events'} = 1..Cardinality(events')
        /\ Cardinality(events') <= MaxEvents
    BY <1>0, <1>2, <1>4, <1>5, <1>6, Appended
  <1>8. /\ Lifecycle(events') = Lifecycle(events) \cup {e}
        /\ Actions' = Actions \cup {e} /\ Rehydrations' = Rehydrations
        /\ Refs(events') = Refs(events) /\ Sources(events') = Sources(events)
        /\ \A type \in {"terminal", "cited", "claim"} : Of(events', type) = Of(events, type)
        /\ Pinned(events') <=> Pinned(events)
        /\ Evictable' <=> Evictable
        /\ \A id : HasAction(events', id) <=> HasAction(events, id) \/ plan = id
    BY <1>0, <1>4, OnlyLifecycle
  <1>9. /\ \A l \in Lifecycle(events) : l \in events /\ l.n \in Nat
        /\ \A l \in Lifecycle(events) : l.n < e.n
    BY <1>2, <1>7, LifecycleIs
  <1>10. LastAction(events', e) /\ \A a : LastAction(events', a) => a = e
    <2>1. e \in Of(events', "action") /\ Of(events', "action") = Actions \cup {e}
      BY <1>0, <1>4, <1>8 DEF Of, Actions
    <2>2. \A a \in Actions : a \in Lifecycle(events)
      BY DEF Actions, Lifecycle
    <2> QED
      BY <1>7, <1>8, <1>9, <2>1, <2>2 DEF LastAction
  <1>11. Taken(events')
    BY <1>10 DEF Taken, LastAction
  <1>12. TypeOK'
    BY <1>0, <1>1, <1>2, <1>7 DEF TypeOK, GCSteps
  <1>13. Logged'
    BY <1>0, <1>1, <1>2, <1>4, <1>5, <1>6, AppendedLogged
  <1>14. History'
    <2>1. (\A a \in Actions : a.id.refs = Sources(events) /\ a.id.action # "keep")'
      BY <1>2, <1>3, <1>4, <1>8 DEF History, Applying
    <2>2. (\A a, b \in Actions : a.n < b.n =>
             a.id.at < b.id.at /\ \E r \in Rehydrations : r.id = a.id /\ r.n < b.n)'
      <3> SUFFICES ASSUME NEW a \in Actions', NEW b \in Actions', a.n < b.n
                   PROVE  a.id.at < b.id.at /\ \E r \in Rehydrations : r.id = a.id /\ r.n < b.n
        BY <1>8
      <3>1. CASE b = e
        <4>1. a \in Actions
          BY <1>7, <1>8, <3>1
        <4>2. a.id.at < plan.at
          BY <1>0, <1>2, <4>1, LifecycleIs DEF Receipted
        <4>3. \E r \in Rehydrations : r.id = a.id
          <5>1. ~LastAction(events, a)
            BY <1>3 DEF Taken, LastAction
          <5> QED
            BY <1>2, <4>1, <5>1, BroughtBack
        <4>4. \A r \in Rehydrations : r.n < e.n
          BY <1>2, <1>7, LifecycleIs
        <4> QED
          BY <1>4, <3>1, <4>2, <4>3, <4>4
      <3>2. CASE b \in Actions
        <4>1. a \in Actions
          <5>1. b.n < e.n /\ b.n \in Nat
            BY <1>2, <1>7, <3>2, LifecycleIs
          <5> QED
            BY <1>7, <1>8, <5>1
        <4> QED
          BY <1>2, <3>2, <4>1 DEF History
      <3> QED
        BY <1>8, <3>1, <3>2
    <2>3. (\A r \in Rehydrations : \E a \in Actions :
             /\ a.id = r.id /\ a.n < r.n /\ a.id.action = "evict"
             /\ \A l \in Lifecycle(events) : l.n <= a.n \/ l.n >= r.n)'
      <3> SUFFICES ASSUME NEW r \in Rehydrations
                   PROVE  \E a \in Actions' :
                            /\ a.id = r.id /\ a.n < r.n /\ a.id.action = "evict"
                            /\ \A l \in Lifecycle(events') : l.n <= a.n \/ l.n >= r.n
        BY <1>8
      <3>1. PICK a \in Actions :
              /\ a.id = r.id /\ a.n < r.n /\ a.id.action = "evict"
              /\ \A l \in Lifecycle(events) : l.n <= a.n \/ l.n >= r.n
        BY <1>2 DEF History
      <3>2. e.n >= r.n
        BY <1>2, <1>7, LifecycleIs
      <3> QED
        BY <1>8, <3>1, <3>2
    <2>4. (\A l \in Lifecycle(events), r \in Refs(events) : r.n < l.n)'
      BY <1>2, <1>7, <1>8 DEF History, Refs, Of
    <2>5. Refs(events') # {}
      BY <1>3, <1>8 DEF Applying
    <2> QED
      BY <1>2, <1>8, <2>1, <2>2, <2>3, <2>4, <2>5 DEF History
  <1>15. Receipted'
    <2>1. \A t \in tombs : HasAction(events', t.id)
      <3>1. \A t \in tombs : t.id.at \in Nat /\ plan.at \in Nat
        BY <1>2 DEF Receipted, Plans
      <3>2. ASSUME NEW t \in tombs, ~HasAction(events, t.id) PROVE t.id = plan
        BY <1>2, <1>3, <3>1, <3>2 DEF Receipted
      <3> QED
        BY <1>8, <3>2
    <2>2. \A a \in Actions' : \E t \in tombs : t.id = a.id
      BY <1>2, <1>3, <1>4, <1>8 DEF Receipted
    <2> QED
      BY <1>0, <1>2, <2>1, <2>2 DEF Receipted
  <1>16. Disk'
    <2>1. stages = {}
      BY <1>3 DEF Applying
    <2>2. \A a \in Actions' : a.id.action = "archive" => a.id \in archives
      BY <1>2, <1>3, <1>4, <1>8 DEF Disk
    <2>3. plan.action = "evict" => Evictable'
      BY <1>3, <1>8 DEF Applying
    <2> QED
      BY <1>0, <1>2, <1>4, <1>10, <1>11, <2>1, <2>2, <2>3 DEF Disk
  <1>17. Working'
    <2>1. Applying'
      BY <1>0, <1>3, <1>8 DEF Applying
    <2>2. \E a \in events' \ projected' : a.type = "action" /\ a.id = plan
      BY <1>0, <1>1, <1>4, <1>7
    <2> QED
      BY <1>0, <1>3, <2>1, <2>2 DEF Working
  <1>18. Opening'
    BY <1>0 DEF Opening
  <1>19. (cat = Row(projected))'
    BY <1>0, <1>2, RowFrame
  <1> QED
    BY <1>12, <1>13, <1>14, <1>15, <1>16, <1>17, <1>18, <1>19 DEF IInv

\* The event without a row is the newest one, and its row is the last missing.
LEMMA StepLast ==
    ASSUME Logged, History, Receipted, cat = Row(projected),
           NEW x \in events \ projected, x.type = "rehydrated" => Promotable(x)
    PROVE  /\ Newest = x /\ projected \cup {x} = events
           /\ Apply(cat, projected, x) = Row(events)
           /\ Row(events) \in Rows
  <1>1. x.n = Cardinality(events) /\ \A y \in events \ projected : y = x
    BY Numbers
  <1>2. Newest = x
    BY <1>1, Numbers
  <1>3. projected \cup {x} = events /\ projected \in SUBSET events
    BY <1>1 DEF Logged
  <1>4. Apply(Row(projected), projected, x) = Row(projected \cup {x})
    <2>1. \A f \in events \ projected : f # x => ~Precedes(f, x)
      BY <1>1
    <2>2. \A f \in projected : f.n < x.n \/ Precedes(f, x)
      BY Numbers
    <2> QED
      BY <1>3, <2>1, <2>2, StepOfReplay
  <1>5. Row(events) \in Rows
    BY RowTyped DEF Logged
  <1> QED
    BY <1>2, <1>3, <1>4, <1>5

LEMMA ProjectActionIInv ==
    ASSUME IInv, Deployed, ProjectAction
    PROVE  IInv'
  <1> USE DEF diskVars
  <1>0. /\ pc = "logged" /\ pc' = "applied"
        /\ cat' = Apply(cat, projected, Newest) /\ projected' = projected \cup {Newest}
        /\ UNCHANGED <<now, class, events, hot, archives, tombs, stages,
                       plan, prior, opener, failed>>
    BY DEF ProjectAction
  <1>1. /\ TypeOK /\ Logged /\ History /\ Receipted /\ cat = Row(projected)
        /\ Disk /\ Working
    BY DEF IInv
  <1>2. ~failed /\ \A t \in tombs : HasAction(events, t.id)
    BY <1>0, <1>1 DEF Logged, Receipted
  <1>3. PICK a \in events \ projected : a.type = "action" /\ a.id = plan
    BY <1>0, <1>1 DEF Working
  <1>4. /\ projected' = events /\ cat' = Row(events) /\ Row(events) \in Rows
    BY <1>0, <1>1, <1>3, StepLast
  <1>5. LastAction(events, a) /\ a \in Actions
    <2>1. a.n = Cardinality(events) /\ a \in Actions
      BY <1>1, <1>3, Numbers DEF Actions, Of
    <2>2. \A l \in Lifecycle(events) : l.n <= a.n
      BY <1>1, <2>1, LifecycleIs, Numbers
    <2> QED
      BY <2>1, <2>2 DEF LastAction, Actions
  <1>6. Applying /\ (plan.action = "archive" => plan \in archives)
    BY <1>0, <1>1 DEF Working
  <1>7. TypeOK'
    BY <1>0, <1>1, <1>4 DEF TypeOK, GCSteps
  <1>8. Logged'
    BY <1>0, <1>1, <1>2, <1>4, SameLogged
  <1>9. History'
    BY <1>0, <1>1, SameHistory
  <1>10. Receipted'
    BY <1>0, <1>1, <1>2, <1>4, SameReceipted
  <1>11. Disk'
    <2>1. stages = {} /\ Taken(events)
      BY <1>5, <1>6 DEF Applying, Taken, Actions
    <2> QED
      BY <1>0, <1>1, <2>1, SamePolicy DEF Disk
  <1>12. Working'
    <2>1. Applying'
      BY <1>0, <1>6, SamePolicy DEF Applying
    <2> QED
      BY <1>0, <1>3, <1>5, <1>6, <2>1, SamePolicy DEF Working
  <1>13. Opening'
    BY <1>0 DEF Opening
  <1>14. (cat = Row(projected))'
    BY <1>0, <1>4, RowFrame
  <1> QED
    BY <1>7, <1>8, <1>9, <1>10, <1>11, <1>12, <1>13, <1>14 DEF IInv

LEMMA UnlinkIInv ==
    ASSUME IInv, Deployed, Unlink
    PROVE  IInv'
  <1>1. /\ TypeOK /\ Logged /\ History /\ Receipted /\ cat = Row(projected)
        /\ Disk /\ Working
    BY DEF IInv
  <1>2. pc = "applied" /\ Applying
    BY <1>1 DEF Unlink, Working
  <1>3. /\ pc' = "tidying" /\ hot' = FALSE /\ archives' = archives
        /\ UNCHANGED <<now, class, events, tombs, stages, projected, cat,
                       plan, prior, opener, failed>>
    BY <1>2 DEF Unlink, Applying
  <1>4. ~failed /\ projected = events /\ \A t \in tombs : HasAction(events, t.id)
    BY <1>2, BusyIs
  <1>5. PICK a \in Actions : LastAction(events, a) /\ a.id = plan
    BY <1>1, <1>2 DEF Working
  <1>6. TypeOK'
    BY <1>1, <1>3 DEF TypeOK, GCSteps
  <1>7. Logged'
    BY <1>1, <1>3, <1>4, SameLogged
  <1>8. History'
    BY <1>1, <1>3, SameHistory
  <1>9. Receipted'
    BY <1>1, <1>3, <1>4, SameReceipted
  <1>10. Taken(events)
    BY <1>5 DEF Taken, Actions
  <1>11. Disk'
    BY <1>1, <1>3, <1>10, SamePolicy DEF Disk
  <1>12. Working'
    <2>1. \A x \in archives : HasAction(events, x)
      BY <1>1, <1>2, <1>5, LifecycleIs DEF Applying
    <2>2. Tidy'
      BY <1>2, <1>3, <2>1, SamePolicy DEF Tidy, Applying
    <2> QED
      BY <1>3, <2>2 DEF Working
  <1>13. Opening'
    BY <1>3 DEF Opening
  <1>14. (cat = Row(projected))'
    BY <1>1, <1>3, RowFrame
  <1> QED
    BY <1>6, <1>7, <1>8, <1>9, <1>11, <1>12, <1>13, <1>14 DEF IInv

\* What is removed to reconcile the files with the catalog is of no use, and
\* afterwards a payload that was taken is not hot.
LEMMA ReconciledKeeps ==
    ASSUME Logged, History, Receipted, Disk, stages = {}, cat = Row(events), projected = events,
           Reconciled, UNCHANGED <<class, events, tombs, stages, projected>>
    PROVE  /\ Disk' /\ (Taken(events) => ~hot')
           /\ archives' \subseteq archives
           /\ \A a \in Actions : a.id.action = "archive" => a.id \in archives'
  <1>1. archives' \subseteq archives /\ (hot' => hot)
    BY DEF Reconciled
  <1>2. ASSUME Taken(events)
        PROVE  /\ cat.avail \in {"archived", "evicted"} /\ ~hot'
    <2>1. PICK a : LastAction(events, a)
      BY <1>2 DEF Taken
    <2>2. cat = Acted(a.id)
      BY <2>1, RowWhenTaken
    <2>3. cat.avail \in {"archived", "evicted"}
      BY <2>2 DEF Acted
    <2> QED
      BY <2>3 DEF Reconciled
  <1>3. ASSUME ~Taken(events), Refs(events) # {} PROVE hot' <=> hot
    <2>1. cat.avail = "hot"
      BY <1>3 DEF Row
    <2> QED
      BY <2>1 DEF Reconciled
  <1>4. ASSUME NEW a \in Actions, a.id.action = "archive" PROVE a.id \in archives'
    <2>1. LastAction(events, a)
      BY <1>4, ArchiveIsLast
    <2>2. Taken(events)
      BY <2>1 DEF Taken, LastAction
    <2>3. HasAction(events, Latest.id)
      BY <1>2, <2>2 DEF Reconciled
    <2>4. \A b \in Actions : b.n <= a.n
      BY <2>1 DEF LastAction, Actions, Lifecycle
    <2>5. Latest.id = a.id
      BY <2>3, <2>4, LatestAction
    <2> QED
      BY <1>4, <2>5 DEF Reconciled, Disk
  <1>5. Disk'
    <2>1. Refs(events) # {} /\ ~Taken(events) => hot'
      BY <1>3 DEF Disk, Rehydrations, Of
    <2>2. \A a \in Actions : LastAction(events, a) => ~hot'
      BY <1>2 DEF Taken, LastAction
    <2> QED
      BY <1>1, <1>4, <2>1, <2>2, SamePolicy DEF Disk
  <1> QED
    BY <1>1, <1>2, <1>4, <1>5

LEMMA TidyUpIInv ==
    ASSUME IInv, Deployed, TidyUp
    PROVE  IInv'
  <1>0. /\ pc = "tidying" /\ pc' = "idle" /\ Reconciled /\ prior' = NoPlan
        /\ UNCHANGED <<now, class, events, tombs, stages, projected, cat,
                       plan, opener, failed>>
    BY DEF TidyUp
  <1>1. /\ TypeOK /\ Logged /\ History /\ Receipted /\ cat = Row(projected)
        /\ Disk /\ Working
    BY DEF IInv
  <1>2. ~failed /\ projected = events /\ \A t \in tombs : HasAction(events, t.id)
    BY <1>0, BusyIs
  <1>3. Tidy
    BY <1>0, <1>1 DEF Working
  <1>4. Disk' /\ (Taken(events) => ~hot') /\ archives' \subseteq archives
    BY <1>0, <1>1, <1>2, <1>3, ReconciledKeeps DEF Tidy
  <1>5. TypeOK'
    <2>1. hot' \in BOOLEAN /\ archives' \in SUBSET Plans
      BY <1>0, <1>1, <1>4 DEF TypeOK, Reconciled
    <2> QED
      BY <1>0, <1>1, <2>1 DEF TypeOK
  <1>6. Logged'
    BY <1>0, <1>1, <1>2, SameLogged
  <1>7. History'
    BY <1>0, <1>1, SameHistory
  <1>8. Receipted'
    BY <1>0, <1>1, <1>2, SameReceipted
  <1>9. Working'
    BY <1>0 DEF Working
  <1>10. Tidy'
    BY <1>0, <1>3, <1>4, SamePolicy DEF Tidy
  <1>11. Opening'
    BY <1>0, <1>2, <1>4, <1>8, <1>10, SamePolicy, Settled
  <1>12. (cat = Row(projected))'
    BY <1>0, <1>1, RowFrame
  <1> QED
    BY <1>4, <1>5, <1>6, <1>7, <1>8, <1>9, <1>11, <1>12 DEF IInv

\* An evicted payload was taken by the action that the deciding tombstone is
\* about.
LEMMA EvictedIs ==
    ASSUME Logged, History, Receipted, cat = Row(events), cat.avail = "evicted",
           \A t \in tombs : HasAction(events, t.id)
    PROVE  \E a \in Actions :
             /\ LastAction(events, a) /\ a.id = Latest.id /\ a.id.action = "evict"
             /\ \A b \in Actions : b.n <= a.n
             /\ tombs # {} /\ Latest \in tombs /\ \A t \in tombs : t.id.at <= Latest.id.at
  <1>1. Taken(events)
    BY DEF Row, NoRow
  <1>2. PICK a \in Actions : LastAction(events, a)
    BY <1>1 DEF Taken, Actions
  <1>3. a.id.action = "evict"
    <2>1. cat = Acted(a.id)
      BY <1>2, RowWhenTaken
    <2>2. a.id.action \in {"keep", "archive", "evict"}
      BY LifecycleIs DEF Plans
    <2>3. a.id.action # "keep"
      BY DEF History
    <2> QED
      BY <2>1, <2>2, <2>3 DEF Acted
  <1>4. \A b \in Actions : b.n <= a.n
    BY <1>2 DEF LastAction, Actions, Lifecycle
  <1>5. tombs # {} /\ Latest \in tombs /\ Latest.id = a.id
    BY <1>4, LatestAction
  <1>6. \A t \in tombs : t.id.at <= Latest.id.at
    BY <1>5, LatestIs DEF Receipted
  <1> QED
    BY <1>2, <1>3, <1>4, <1>5, <1>6

LEMMA StageRehydrationIInv ==
    ASSUME IInv, Deployed, StageRehydration
    PROVE  IInv'
  <1>0. /\ Free /\ cat.avail = "evicted" /\ Latest.id.action = "evict"
        /\ Latest.id.refs = Sources(projected)
        /\ prior' = Latest.id /\ stages' = stages \cup {Latest.id} /\ pc' = "staged"
        /\ UNCHANGED <<now, class, events, hot, archives, tombs, projected, cat,
                       plan, opener, failed>>
    BY DEF StageRehydration
  <1>1. /\ pc = "idle" /\ ~failed /\ projected = events
        /\ Tidy /\ (Taken(events) => ~hot)
        /\ \A t \in tombs : HasAction(events, t.id)
    BY <1>0, FreeIs
  <1>2. /\ TypeOK /\ Logged /\ History /\ Receipted /\ cat = Row(events) /\ Disk
    BY <1>1 DEF IInv
  <1>3. PICK a \in Actions :
          /\ LastAction(events, a) /\ a.id = Latest.id /\ a.id.action = "evict"
          /\ \A b \in Actions : b.n <= a.n
          /\ tombs # {} /\ Latest \in tombs /\ \A t \in tombs : t.id.at <= Latest.id.at
    BY <1>0, <1>1, <1>2, EvictedIs
  <1>4. Latest.id \in Plans /\ stages' = {Latest.id} /\ Taken(events) /\ ~hot
    BY <1>0, <1>1, <1>2, <1>3 DEF Receipted, Tidy, Taken, Actions
  <1>5. TypeOK'
    BY <1>0, <1>2, <1>3, <1>4 DEF TypeOK, RehydrateSteps
  <1>6. Logged'
    BY <1>0, <1>1, <1>2, SameLogged
  <1>7. History'
    BY <1>0, <1>2, SameHistory
  <1>8. Receipted'
    BY <1>0, <1>1, <1>2, SameReceipted
  <1>9. Disk'
    <2>1. ASSUME NEW r \in Of(projected, "rehydrated"), r.id = Latest.id PROVE FALSE
      <3>1. r \in Rehydrations /\ r \in Lifecycle(events)
        BY <1>1 DEF Rehydrations, Lifecycle
      <3>2. PICK b \in Actions : b.id = r.id /\ b.n < r.n
        BY <1>2, <3>1 DEF History
      <3>3. b = a
        BY <1>2, <1>3, <2>1, <3>2, SameAction
      <3>4. r.n <= a.n
        BY <1>3, <3>1 DEF LastAction
      <3> QED
        BY <1>2, <3>1, <3>2, <3>3, <3>4, LifecycleIs
    <2>2. \A s \in stages' :
            /\ s \in Plans
            /\ \E b \in Actions : /\ b.id = s /\ s.action = "evict"
                                  /\ \A c \in Actions : c.n <= b.n
            /\ \A t \in tombs : t.id.at <= s.at
            /\ \A r \in Of(projected, "rehydrated") : r.id # s
      BY <1>3, <1>4, <2>1
    <2> QED
      BY <1>0, <1>2, <1>4, <2>2, SamePolicy DEF Disk
  <1>10. Working'
    <2>1. Restoring'
      BY <1>0, <1>1, <1>3, <1>4, SamePolicy DEF Restoring, Tidy
    <2> QED
      BY <1>0, <1>3, <1>4, <2>1, SamePolicy DEF Working
  <1>11. Opening'
    BY <1>0 DEF Opening
  <1>12. (cat = Row(projected))'
    BY <1>0, <1>1, <1>2, RowFrame
  <1> QED
    BY <1>5, <1>6, <1>7, <1>8, <1>9, <1>10, <1>11, <1>12 DEF IInv

LEMMA LogRehydrationIInv ==
    ASSUME IInv, Deployed, LogRehydration
    PROVE  IInv'
  <1> DEFINE e == [n |-> Number, type |-> "rehydrated", id |-> prior]
  <1>0. /\ pc = "staged" /\ pc' = "announced" /\ Number <= MaxEvents
        /\ events' = events \cup {e}
        /\ UNCHANGED <<now, class, hot, archives, tombs, stages, projected, cat,
                       plan, prior, opener, failed>>
    BY DEF LogRehydration
  <1>1. ~failed /\ projected = events /\ \A t \in tombs : HasAction(events, t.id)
    BY <1>0, BusyIs
  <1>2. /\ TypeOK /\ Logged /\ History /\ Receipted /\ cat = Row(projected)
        /\ Disk /\ Working
    BY DEF IInv
  <1>3. Restoring /\ stages = {prior} /\ ~hot
    BY <1>0, <1>2 DEF Working
  <1>a. PICK a \in Actions : LastAction(events, a) /\ a.id = prior
    BY <1>0, <1>2 DEF Working
  <1>4. e.n = Number /\ e.type = "rehydrated" /\ e.id = prior
    OBVIOUS
  <1> HIDE DEF e
  <1>5. EventOK(e)
    <2>1. PICK c \in Nat : c = Cardinality(events)
      BY <1>2, Numbers
    <2>2. e.n \in 1..MaxEvents
      BY <1>0, <1>4, <2>1 DEF Number, BlobRetentionAssumption
    <2> QED
      BY <1>3, <1>4, <2>2 DEF EventOK, Restoring
  <1>6. {x.n : x \in events} = 1..Cardinality(events)
    BY <1>2 DEF TypeOK
  <1>7. /\ e \notin events /\ e.n \in Nat
        /\ \A x \in events : x.n < e.n
        /\ {x.n : x \in events'} = 1..Cardinality(events')
        /\ Cardinality(events') <= MaxEvents
    BY <1>0, <1>2, <1>4, <1>5, <1>6, Appended
  <1>8. /\ Lifecycle(events') = Lifecycle(events) \cup {e}
        /\ Actions' = Actions /\ Rehydrations' = Rehydrations \cup {e}
        /\ Refs(events') = Refs(events) /\ Sources(events') = Sources(events)
        /\ \A type \in {"terminal", "cited", "claim"} : Of(events', type) = Of(events, type)
        /\ \A id : HasAction(events', id) <=> HasAction(events, id)
    BY <1>0, <1>4, OnlyLifecycle
  <1>9. \A l \in Lifecycle(events) : l \in events /\ l.n \in Nat /\ l.n < e.n
    BY <1>2, <1>7, LifecycleIs
  <1>10. \A b : ~LastAction(events', b)
    <2>1. \A b \in Of(events', "action") : b \in Actions /\ b \in Lifecycle(events)
      BY <1>8 DEF Actions, Lifecycle
    <2>2. \A b \in Of(events', "action") : b.n < e.n /\ b.n \in Nat
      BY <1>9, <2>1
    <2> QED
      BY <1>7, <1>8, <2>2 DEF LastAction
  <1>12. TypeOK'
    BY <1>0, <1>1, <1>2, <1>7 DEF TypeOK, RehydrateSteps
  <1>13. Logged'
    BY <1>0, <1>1, <1>2, <1>4, <1>5, <1>6, AppendedLogged
  <1>14. History'
    <2>1. (\A b, c \in Actions : b.n < c.n =>
             b.id.at < c.id.at /\ \E r \in Rehydrations : r.id = b.id /\ r.n < c.n)'
      BY <1>2, <1>8 DEF History
    <2>2. (\A r \in Rehydrations : \E b \in Actions :
             /\ b.id = r.id /\ b.n < r.n /\ b.id.action = "evict"
             /\ \A l \in Lifecycle(events) : l.n <= b.n \/ l.n >= r.n)'
      <3> SUFFICES ASSUME NEW r \in Rehydrations'
                   PROVE  \E b \in Actions :
                            /\ b.id = r.id /\ b.n < r.n /\ b.id.action = "evict"
                            /\ \A l \in Lifecycle(events') : l.n <= b.n \/ l.n >= r.n
        BY <1>8
      <3>1. CASE r = e
        <4>1. \A l \in Lifecycle(events') : l.n <= a.n \/ l.n >= e.n
          BY <1>7, <1>8, <1>a DEF LastAction
        <4>2. a.n < e.n
          BY <1>9, <1>a DEF Actions, Lifecycle
        <4> QED
          BY <1>3, <1>4, <1>a, <3>1, <4>1, <4>2 DEF Restoring
      <3>2. CASE r \in Rehydrations
        <4>1. PICK b \in Actions :
                /\ b.id = r.id /\ b.n < r.n /\ b.id.action = "evict"
                /\ \A l \in Lifecycle(events) : l.n <= b.n \/ l.n >= r.n
          BY <1>2, <3>2 DEF History
        <4>2. e.n >= r.n
          BY <1>2, <1>7, <3>2, LifecycleIs
        <4> QED
          BY <1>8, <4>1, <4>2
      <3> QED
        BY <1>8, <3>1, <3>2
    <2>3. (\A l \in Lifecycle(events), r \in Refs(events) : r.n < l.n)'
      BY <1>2, <1>7, <1>8 DEF History, Refs, Of
    <2>4. Refs(events') # {}
      BY <1>2, <1>8, <1>a DEF History, Actions, Lifecycle
    <2> QED
      BY <1>2, <1>8, <2>1, <2>2, <2>3, <2>4 DEF History
  <1>15. Receipted'
    BY <1>0, <1>1, <1>2, <1>8 DEF Receipted
  <1>16. Disk'
    <2>1. e \in Rehydrations' \ projected' /\ e.id \in stages'
      BY <1>0, <1>1, <1>3, <1>4, <1>7, <1>8
    <2>2. UNCHANGED <<stages, tombs, archives, projected, hot>>
      BY <1>0
    <2> QED
      BY <1>2, <1>8, <1>10, <2>1, <2>2 DEF Disk
  <1>17. Working'
    <2>1. Restoring'
      BY <1>0, <1>3, <1>8 DEF Restoring
    <2>2. \E r \in events' \ projected' : r.type = "rehydrated" /\ r.id = prior
      BY <1>0, <1>1, <1>4, <1>7
    <2> QED
      BY <1>0, <1>3, <2>1, <2>2 DEF Working
  <1>18. Opening'
    BY <1>0 DEF Opening
  <1>19. (cat = Row(projected))'
    BY <1>0, <1>2, RowFrame
  <1> QED
    BY <1>12, <1>13, <1>14, <1>15, <1>16, <1>17, <1>18, <1>19 DEF IInv

LEMMA PromoteIInv ==
    ASSUME IInv, Deployed, Promote
    PROVE  IInv'
  <1>0. /\ pc = "announced" /\ pc' = "promoted" /\ hot' = TRUE /\ stages' = stages \ {prior}
        /\ UNCHANGED <<now, class, events, archives, tombs, projected, cat,
                       plan, prior, opener, failed>>
    BY DEF Promote
  <1>1. /\ TypeOK /\ Logged /\ History /\ Receipted /\ cat = Row(projected)
        /\ Disk /\ Working
    BY DEF IInv
  <1>2. /\ Restoring /\ stages = {prior}
        /\ \E r \in events \ projected : r.type = "rehydrated" /\ r.id = prior
    BY <1>0, <1>1 DEF Working
  <1>3. stages' = {}
    BY <1>0, <1>2
  <1>4. ~failed /\ \A t \in tombs : HasAction(events, t.id)
    BY <1>0, <1>1 DEF Logged, Receipted
  <1>5. \A a : ~LastAction(events, a)
    BY <1>1, <1>2, NotTakenYet DEF Rehydrations, Of
  <1>6. TypeOK'
    BY <1>0, <1>1, <1>3 DEF TypeOK, RehydrateSteps
  <1>7. Logged'
    BY <1>0, <1>1, <1>4, SameLogged
  <1>8. History'
    BY <1>0, <1>1, SameHistory
  <1>9. Receipted'
    BY <1>0, <1>1, <1>4, SameReceipted
  <1>10. Disk'
    BY <1>0, <1>1, <1>3, <1>5, SamePolicy DEF Disk
  <1>11. Working'
    <2>1. Restoring'
      BY <1>0, <1>2, SamePolicy DEF Restoring
    <2> QED
      BY <1>0, <1>2, <1>3, <2>1 DEF Working
  <1>12. Opening'
    BY <1>0 DEF Opening
  <1>13. (cat = Row(projected))'
    BY <1>0, <1>1, RowFrame
  <1> QED
    BY <1>6, <1>7, <1>8, <1>9, <1>10, <1>11, <1>12, <1>13 DEF IInv

LEMMA ProjectRehydrationIInv ==
    ASSUME IInv, Deployed, ProjectRehydration
    PROVE  IInv'
  <1>0. /\ pc = "promoted" /\ pc' = "idle" /\ prior' = NoPlan
        /\ cat' = Apply(cat, projected, Newest) /\ projected' = projected \cup {Newest}
        /\ UNCHANGED <<now, class, events, hot, archives, tombs, stages,
                       plan, opener, failed>>
    BY DEF ProjectRehydration, diskVars
  <1>1. /\ TypeOK /\ Logged /\ History /\ Receipted /\ cat = Row(projected)
        /\ Disk /\ Working
    BY DEF IInv
  <1>2. /\ Restoring /\ stages = {} /\ hot
        /\ \E r \in events \ projected : r.type = "rehydrated" /\ r.id = prior
    BY <1>0, <1>1 DEF Working
  <1>3. PICK r \in events \ projected : r.type = "rehydrated" /\ r.id = prior
    BY <1>2
  <1>4. /\ projected' = events /\ cat' = Row(events) /\ Row(events) \in Rows
    BY <1>0, <1>1, <1>2, <1>3, StepLast DEF Promotable
  <1>5. ~failed /\ \A t \in tombs : HasAction(events, t.id)
    BY <1>0, <1>1 DEF Logged, Receipted
  <1>6. ~Taken(events) /\ \A a : ~LastAction(events, a)
    BY <1>1, <1>3, NotTakenYet DEF Rehydrations, Of
  <1>7. TypeOK'
    BY <1>0, <1>1, <1>4 DEF TypeOK
  <1>8. Logged'
    BY <1>0, <1>1, <1>4, <1>5, SameLogged
  <1>9. History'
    BY <1>0, <1>1, SameHistory
  <1>10. Receipted'
    BY <1>0, <1>1, <1>4, <1>5, SameReceipted
  <1>11. Disk'
    BY <1>0, <1>1, <1>2, <1>6, SamePolicy DEF Disk
  <1>12. Working'
    BY <1>0 DEF Working
  <1>13. Opening'
    <2>1. Tidy'
      BY <1>0, <1>2, SamePolicy DEF Tidy, Restoring
    <2> QED
      BY <1>0, <1>4, <1>5, <1>6, <1>10, <2>1, SamePolicy, Settled
  <1>14. (cat = Row(projected))'
    BY <1>0, <1>4, RowFrame
  <1> QED
    BY <1>7, <1>8, <1>9, <1>10, <1>11, <1>12, <1>13, <1>14 DEF IInv

LEMMA AbandonIInv ==
    ASSUME IInv, Deployed, Abandon
    PROVE  IInv'
  <1>0. /\ pc # "idle" /\ pc' = "idle" /\ prior' = NoPlan /\ Fail
        /\ stages' = stages \/ (pc = "staged" /\ stages' = stages \ {prior})
        /\ UNCHANGED <<now, class, events, hot, archives, tombs, projected, cat, plan>>
    BY DEF Abandon
  <1>1. /\ TypeOK /\ Logged /\ History /\ Receipted /\ cat = Row(projected)
        /\ Disk /\ Working
    BY DEF IInv
  <1>2. failed' = TRUE /\ opener' = "none" /\ Opening'
    BY <1>0, Failing DEF Fail
  <1>3. TypeOK'
    BY <1>0, <1>1, <1>2 DEF TypeOK
  <1>4. Logged'
    BY <1>0, <1>1, <1>2, SameLogged
  <1>5. History'
    BY <1>0, <1>1, SameHistory
  <1>6. Receipted'
    BY <1>0, <1>1, <1>2, SameReceipted
  <1>7. Disk'
    <2>1. CASE stages' = stages
      BY <1>0, <1>1, <2>1, SameDisk
    <2>2. CASE pc = "staged" /\ stages' = stages \ {prior}
      <3>1. Taken(events)
        BY <1>1, <2>2 DEF Working
      <3> QED
        BY <1>0, <1>1, <2>2, <3>1, SamePolicy DEF Disk
    <2> QED
      BY <1>0, <2>1, <2>2
  <1>8. Working'
    BY <1>0 DEF Working
  <1>9. (cat = Row(projected))'
    BY <1>0, <1>1, RowFrame
  <1> QED
    BY <1>2, <1>3, <1>4, <1>5, <1>6, <1>7, <1>8, <1>9 DEF IInv

-----------------------------------------------------------------------------
(* The constructor.                                                        *)

\* Receipts without an event may go: the chain ends at one that stays.
LEMMA FewerReceipts ==
    ASSUME TypeOK, Logged, Receipted, NEW gone \in SUBSET tombs,
           \A t \in gone : ~HasAction(events, t.id),
           tombs' = tombs \ gone, UNCHANGED <<now, events, projected, plan>>,
           failed' \/ \A t \in tombs' : HasAction(events, t.id)
    PROVE  Receipted'
  <1>1. \A a \in Actions : \E t \in tombs' : t.id = a.id
    BY LifecycleIs DEF Receipted
  <1>2. ASSUME NEW t \in tombs'
        PROVE  \/ t.prev = NoPlan /\ \A u \in tombs' : t.id.at <= u.id.at
               \/ /\ \E u \in tombs' : u.id = t.prev
                  /\ t.prev.at < t.id.at
                  /\ \A u \in tombs' : u.id.at <= t.prev.at \/ t.id.at <= u.id.at
    <2>1. t \in tombs
      OBVIOUS
    <2>2. CASE t.prev = NoPlan /\ \A u \in tombs : t.id.at <= u.id.at
      BY <2>2
    <2>3. CASE /\ \E u \in tombs : u.id = t.prev
               /\ t.prev.at < t.id.at
               /\ \A u \in tombs : u.id.at <= t.prev.at \/ t.id.at <= u.id.at
      <3>1. PICK u \in tombs : u.id = t.prev
        BY <2>3
      <3>2. u \notin gone
        <4>1. u.id.at \in Nat /\ t.id.at \in Nat
          BY <2>1 DEF Receipted, Plans
        <4>2. ~(t.id.at <= u.id.at)
          BY <2>3, <3>1, <4>1
        <4> QED
          BY <2>1, <4>2 DEF Receipted
      <3> QED
        BY <2>3, <3>1, <3>2
    <2> QED
      BY <2>1, <2>2, <2>3 DEF Receipted
  <1>3. \A t \in tombs' : ~HasAction(events, t.id) =>
         /\ \A u \in tombs' : u.id.at <= t.id.at
         /\ ~Taken(events) /\ projected' = events
         /\ failed' \/ pc' = "receipted"
    BY DEF Receipted
  <1>4. Actions' = Actions /\ Taken(events)' = Taken(events)
    BY DEF Actions, Of, Taken, LastAction, Lifecycle
  <1>5. tombs' \subseteq tombs
    OBVIOUS
  <1>6. \A t \in tombs' :
         /\ t.id \in Plans /\ t.id.action # "keep"
         /\ plan' \in Plans /\ (t.id = plan' \/ t.id.at < plan'.at)
    BY <1>5 DEF Receipted
  <1>7. \A t, u \in tombs' : t.id.at = u.id.at => t = u
    BY <1>5 DEF Receipted
  <1>8. plan' # NoPlan => /\ plan'.at <= now'
                          /\ plan'.avail = "archived" => plan'.action = "keep"
    BY DEF Receipted
  <1>9. \A id : HasAction(events', id) <=> HasAction(events, id)
    OBVIOUS
  <1> QED
    BY <1>1, <1>2, <1>3, <1>4, <1>6, <1>7, <1>8, <1>9 DEF Receipted

LEMMA RecoverIInv ==
    ASSUME IInv, Deployed, Recover
    PROVE  IInv'
  <1>0. /\ pc = "idle"
        /\ UNCHANGED <<now, class, events, hot, projected, cat, plan, pc, prior>>
    BY DEF Recover, opVars
  <1>1. /\ TypeOK /\ Logged /\ History /\ Receipted /\ cat = Row(projected)
        /\ Disk /\ Opening
    BY DEF IInv
  <1>2. Working'
    BY <1>0 DEF Working
  <1>3. History'
    BY <1>0, <1>1, SameHistory
  <1>4. (cat = Row(projected))'
    BY <1>0, <1>1, RowFrame
  <1>5. ASSUME NEW gone \in SUBSET tombs, NEW lost \in SUBSET archives,
               NEW spent \in SUBSET stages,
               \A t \in gone : ~HasAction(events, t.id),
               \A a \in lost : ~HasAction(events, a),
               \A s \in spent : ~Rehydrated(s) \/ hot,
               tombs' = tombs \ gone, archives' = archives \ lost, stages' = stages \ spent
        PROVE  Disk' /\ stages' \subseteq {t.id : t \in tombs'}
    <2>1. Refs(events) # {} /\ ~Taken(events) =>
            hot \/ \E r \in Rehydrations \ projected : r.id \in stages'
      <3> SUFFICES ASSUME ~hot, NEW r \in Rehydrations \ projected, r.id \in stages
                   PROVE  r.id \in stages'
        BY <1>1 DEF Disk
      <3>1. Rehydrated(r.id)
        BY <1>1, LifecycleIs
      <3> QED
        BY <1>5, <3>1
    <2>2. \A a \in Actions : a.id.action = "archive" => a.id \in archives'
      BY <1>1, <1>5, LifecycleIs DEF Disk
    <2>3. tombs' \subseteq tombs /\ archives' \subseteq archives /\ stages' \subseteq stages
      BY <1>5
    <2>4. \A s \in stages : \E t \in tombs' : t.id = s
      <3> SUFFICES ASSUME NEW s \in stages PROVE \E t \in tombs' : t.id = s
        OBVIOUS
      <3>1. PICK a \in Actions : a.id = s
        BY <1>1 DEF Disk
      <3>2. PICK t \in tombs : t.id = s
        BY <1>1, <3>1 DEF Receipted
      <3>3. HasAction(events, s)
        BY <1>1, <3>1, LifecycleIs
      <3> QED
        BY <1>5, <3>2, <3>3
    <2>5. Disk'
      BY <1>0, <1>1, <2>1, <2>2, <2>3, SamePolicy DEF Disk, Rehydrations, Of
    <2> QED
      BY <2>3, <2>4, <2>5
  <1>6. CASE /\ tombs' = tombs \ Orphans.tombs
             /\ archives' = archives \ Orphans.archives
             /\ stages' = stages \ Orphans.stages
             /\ opener' = "recovered"
             /\ UNCHANGED failed
    <2>1. /\ \A t \in tombs' : HasAction(events, t.id)
          /\ \A a \in archives' : HasAction(events, a)
          /\ \A s \in stages' : Rehydrated(s)
      BY <1>6 DEF Orphans
    <2>2. Receipted'
      <3>1. Orphans.tombs \in SUBSET tombs /\ \A t \in Orphans.tombs : ~HasAction(events, t.id)
        BY DEF Orphans
      <3> QED
        BY <1>0, <1>1, <1>6, <2>1, <3>1, FewerReceipts
    <2>3. Disk' /\ stages' \subseteq {t.id : t \in tombs'}
      <3>1. /\ Orphans.tombs \in SUBSET tombs /\ Orphans.archives \in SUBSET archives
            /\ Orphans.stages \in SUBSET stages
            /\ \A t \in Orphans.tombs : ~HasAction(events, t.id)
            /\ \A a \in Orphans.archives : ~HasAction(events, a)
            /\ \A s \in Orphans.stages : ~Rehydrated(s) \/ hot
        BY DEF Orphans
      <3> QED
        BY <1>5, <1>6, <3>1
    <2>4. TypeOK'
      BY <1>0, <1>1, <1>6, <2>3 DEF TypeOK
    <2>5. Logged'
      BY <1>0, <1>1, <1>6, SameLogged DEF Logged
    <2>6. Opening'
      <3>1. ~failed' => Tidy'
        BY <1>0, <1>1, <1>6, SamePolicy DEF Opening, Tidy
      <3>2. (\A s \in stages : Rehydrated(s))'
        BY <1>0, <2>1 DEF Rehydrated
      <3> QED
        BY <1>0, <1>1, <1>6, <2>1, <3>1, <3>2, SamePolicy DEF Opening
    <2> QED
      BY <1>2, <1>3, <1>4, <2>2, <2>3, <2>4, <2>5, <2>6 DEF IInv
  <1>7. ASSUME NEW gone \in SUBSET Orphans.tombs, NEW lost \in SUBSET Orphans.archives,
               tombs' = tombs \ gone, archives' = archives \ lost, Fail, UNCHANGED stages
        PROVE  IInv'
    <2>1. failed' = TRUE /\ opener' = "none" /\ Opening'
      BY <1>7, Failing DEF Fail
    <2>2. /\ gone \in SUBSET tombs /\ lost \in SUBSET archives
          /\ \A t \in gone : ~HasAction(events, t.id)
          /\ \A a \in lost : ~HasAction(events, a)
      BY DEF Orphans
    <2>3. Receipted'
      BY <1>0, <1>1, <1>7, <2>1, <2>2, FewerReceipts
    <2>4. Disk' /\ stages' \subseteq {t.id : t \in tombs'}
      <3>1. {} \in SUBSET stages /\ (\A s \in {} : ~Rehydrated(s) \/ hot) /\ stages' = stages \ {}
        BY <1>7
      <3> QED
        BY <1>5, <1>7, <2>2, <3>1
    <2>5. TypeOK'
      BY <1>0, <1>1, <1>7, <2>1, <2>2, <2>4 DEF TypeOK
    <2>6. Logged'
      BY <1>0, <1>1, <2>1, SameLogged
    <2> QED
      BY <1>2, <1>3, <1>4, <2>1, <2>3, <2>4, <2>5, <2>6 DEF IInv
  <1> QED
    BY <1>6, <1>7 DEF Recover

\* A rehydration without a row finds its bytes, hot or staged.
LEMMA BytesAreThere ==
    ASSUME Logged, History, Disk, NEW r \in Rehydrations \ projected
    PROVE  hot \/ r.id \in stages
  <1>1. Refs(events) # {}
    BY LifecycleIs DEF History
  <1>2. ~Taken(events)
    BY NotTakenYet
  <1>3. \A x \in Rehydrations \ projected : x = r
    BY LifecycleIs, Numbers
  <1> QED
    BY <1>1, <1>2, <1>3 DEF Disk

\* Staged bytes are the latest thing that happened to the payload.
LEMMA StagedIsLatest ==
    ASSUME Logged, Receipted, Disk, NEW r \in Rehydrations \ projected, r.id \in stages
    PROVE  ~Superseded(r)
  <1>1. ASSUME NEW t \in tombs, t.prev = r.id PROVE FALSE
    <2>1. r.id \in Plans /\ r.id.at \in Nat /\ t.id.at \in Nat
      BY LifecycleIs DEF Receipted, Plans
    <2>2. t.id.at <= r.id.at
      BY DEF Disk
    <2>3. r.id.at < t.id.at
      BY <1>1, <2>1 DEF Receipted, MarkersAssumption
    <2> QED
      BY <2>1, <2>2, <2>3
  <1>2. \A e \in Lifecycle(events) : ~(e.n > r.n)
    BY LifecycleIs, Numbers
  <1> QED
    BY <1>1, <1>2 DEF Superseded

\* Whatever has no row can be applied, and the row is then that of the log.
LEMMA ReplayIs ==
    ASSUME IInv
    PROVE  Replayed(cat, projected) = Row(events) /\ Row(events) \in Rows /\ Row(events) # Failed
  <1>1. Logged /\ History /\ Receipted /\ Disk /\ cat = Row(projected)
    BY DEF IInv
  <1>2. \A r \in Rehydrations \ projected : Promotable(r)
    BY <1>1, BytesAreThere DEF Promotable
  <1>3. \A f \in projected : \A e \in events \ projected : f.n < e.n
    BY <1>1, Numbers
  <1>4. projected \in SUBSET events /\ \A e \in events : EventOK(e)
    BY <1>1 DEF Logged
  <1>5. Replayed(Row(projected), projected) = Row(events)
    BY <1>1, <1>2, <1>3, <1>4, ReplayGivesRow
  <1> QED
    BY <1>1, <1>4, <1>5, RowTyped

LEMMA ReplayIInv ==
    ASSUME IInv, Deployed, Replay
    PROVE  IInv'
  <1> DEFINE promoted == {r \in Of(events \ projected, "rehydrated") : ~Superseded(r)}
  <1>0. /\ pc = "idle" /\ opener = "recovered"
        /\ hot' = (hot \/ promoted # {})
        /\ stages' = stages \ {r.id : r \in promoted}
        /\ \/ /\ cat' = Replayed(cat, projected) /\ projected' = events
              /\ opener' = "replayed" /\ failed' = failed
           \/ Fail /\ UNCHANGED <<cat, projected>>
        /\ UNCHANGED <<now, class, events, archives, tombs, plan, pc, prior>>
    BY DEF Replay, opVars
  <1>1. /\ TypeOK /\ Logged /\ History /\ Receipted /\ cat = Row(projected)
        /\ Disk /\ Opening
    BY DEF IInv
  <1>2. /\ \A t \in tombs : HasAction(events, t.id)
        /\ \A a \in archives : HasAction(events, a)
        /\ \A s \in stages : Rehydrated(s)
    BY <1>0, <1>1 DEF Opening
  <1>3. promoted \subseteq Rehydrations \ projected
    BY DEF Rehydrations, Of
  <1>4. \A r \in Rehydrations \ projected : r.id \in stages => r \in promoted
    BY <1>1, StagedIsLatest DEF Rehydrations, Of
  <1> HIDE DEF promoted
  <1>5. stages' = {}
    <2> SUFFICES ASSUME NEW s \in stages PROVE \E r \in promoted : r.id = s
      BY <1>0
    <2>1. PICK r \in Rehydrations : r.id = s
      BY <1>1, <1>2, LifecycleIs
    <2>2. r \notin projected
      BY <1>1, <2>1 DEF Disk, Of, Rehydrations
    <2> QED
      BY <1>4, <2>1, <2>2
  <1>6. \/ failed' = TRUE /\ opener' = "none" /\ UNCHANGED <<cat, projected>>
        \/ /\ cat' = Row(events) /\ projected' = events
           /\ opener' = "replayed" /\ failed' = failed
    BY <1>0, ReplayIs DEF Fail, Deployed
  <1>7. TypeOK'
    <2>1. hot' \in BOOLEAN /\ cat' \in Rows /\ projected' \subseteq events
      BY <1>0, <1>1, <1>6, ReplayIs DEF TypeOK
    <2> QED
      BY <1>0, <1>1, <1>5, <1>6, <2>1 DEF TypeOK
  <1>8. Logged'
    BY <1>0, <1>1, <1>6, SameLogged
  <1>9. History'
    BY <1>0, <1>1, SameHistory
  <1>10. Receipted'
    BY <1>0, <1>1, <1>2, <1>6, SameReceipted
  <1>11. Disk'
    <2>1. Refs(events) # {} /\ ~Taken(events) => hot'
      <3> SUFFICES ASSUME Refs(events) # {}, ~Taken(events), ~hot PROVE hot'
        BY <1>0
      <3>1. PICK r \in Rehydrations \ projected : r.id \in stages
        BY <1>1 DEF Disk
      <3> QED
        BY <1>0, <1>4, <3>1
    <2>2. ASSUME NEW a \in Actions, LastAction(events, a), hot' PROVE hot
      <3>1. Rehydrations \ projected = {}
        BY <1>1, <2>2, NotTakenYet
      <3> QED
        BY <1>0, <1>3, <2>2, <3>1
    <2> QED
      BY <1>0, <1>1, <1>5, <2>1, <2>2, SamePolicy DEF Disk
  <1>12. Working'
    BY <1>0 DEF Working
  <1>13. Opening'
    <2>1. CASE failed' = TRUE /\ opener' = "none"
      BY <2>1 DEF Opening
    <2>2. CASE projected' = events /\ opener' = "replayed" /\ failed' = failed
      <3>1. ASSUME ~failed PROVE Tidy' /\ (Taken(events) => ~hot')
        <4>1. projected = events
          BY <1>0, <1>1, <3>1 DEF Logged
        <4>2. promoted = {}
          BY <1>3, <4>1 DEF Rehydrations, Of
        <4> QED
          BY <1>0, <1>1, <1>5, <3>1, <4>2, SamePolicy DEF Opening, Tidy
      <3> QED
        BY <1>0, <1>2, <1>5, <2>2, <3>1, SamePolicy DEF Opening
    <2> QED
      BY <1>6, <2>1, <2>2
  <1>14. (cat = Row(projected))'
    BY <1>0, <1>1, <1>6, RowFrame
  <1> QED
    BY <1>7, <1>8, <1>9, <1>10, <1>11, <1>12, <1>13, <1>14 DEF IInv

LEMMA FinishOpenIInv ==
    ASSUME IInv, Deployed, FinishOpen
    PROVE  IInv'
  <1>0. /\ pc = "idle" /\ opener = "replayed" /\ Reconciled
        /\ opener' = "none" /\ failed' = FALSE
        /\ UNCHANGED <<now, class, events, tombs, stages, projected, cat, plan, pc, prior>>
    BY DEF FinishOpen, opVars
  <1>1. /\ TypeOK /\ Logged /\ History /\ Receipted /\ cat = Row(projected)
        /\ Disk /\ Opening
    BY DEF IInv
  <1>2. /\ \A t \in tombs : HasAction(events, t.id)
        /\ \A a \in archives : HasAction(events, a)
        /\ projected = events /\ stages = {}
    BY <1>0, <1>1 DEF Opening
  <1>3. Disk' /\ (Taken(events) => ~hot') /\ archives' \subseteq archives
    BY <1>0, <1>1, <1>2, ReconciledKeeps
  <1>4. TypeOK'
    <2>1. hot' \in BOOLEAN /\ archives' \in SUBSET Plans
      BY <1>0, <1>1, <1>3 DEF TypeOK, Reconciled
    <2> QED
      BY <1>0, <1>1, <2>1 DEF TypeOK
  <1>5. Logged'
    BY <1>0, <1>1, <1>2, SameLogged
  <1>6. History'
    BY <1>0, <1>1, SameHistory
  <1>7. Receipted'
    BY <1>0, <1>1, <1>2, SameReceipted
  <1>8. Working'
    BY <1>0 DEF Working
  <1>9. Opening'
    <2>1. Tidy'
      BY <1>0, <1>2, <1>3, SamePolicy DEF Tidy
    <2> QED
      BY <1>0, <1>2, <1>3, <1>7, <2>1, SamePolicy, Settled
  <1>10. (cat = Row(projected))'
    BY <1>0, <1>1, RowFrame
  <1> QED
    BY <1>3, <1>4, <1>5, <1>6, <1>7, <1>8, <1>9, <1>10 DEF IInv

LEMMA NextIInv ==
    ASSUME IInv, Deployed, [Next]_vars
    PROVE  IInv'
  BY StutterIInv, TickIInv, AddReferenceIInv, EndTaskIInv, CiteIInv, PlanRetentionIInv,
     StartGCIInv, WriteArchiveIInv, WriteTombstoneIInv, LogActionIInv, ProjectActionIInv,
     UnlinkIInv, TidyUpIInv, StageRehydrationIInv, LogRehydrationIInv, PromoteIInv,
     ProjectRehydrationIInv, AbandonIInv, RecoverIInv, ReplayIInv, FinishOpenIInv
  DEF Next

\* The invariant is inductive, for any tasks, times and number of events.
THEOREM Invariance == Deployed /\ Spec => []IInv
  <1>1. Init => IInv
    BY InitIInv
  <1>2. Deployed /\ IInv /\ [Next]_vars => Deployed' /\ IInv'
    BY NextIInv DEF Deployed
  <1> QED
    BY <1>1, <1>2, PTL DEF Spec

\* Type correctness.
THEOREM TypeCorrect == Deployed /\ Spec => []TypeOK
  <1>1. IInv => TypeOK
    BY DEF IInv
  <1> QED
    BY <1>1, Invariance, PTL

-----------------------------------------------------------------------------
(* The next open succeeds.                                                 *)

\* The receipts that recovery keeps are one chain from one root.
LEMMA OneChain ==
    ASSUME Receipted
    PROVE  Chain(Receipts)
  <1> DEFINE R == Receipts
             Children(id) == {t \in R : t.prev = id}
  <1>1. R \subseteq tombs
    BY DEF Receipts
  <1>2. \A t \in tombs : t.id \in Plans /\ t.id.at \in Nat /\ t.id # NoPlan
    BY DEF Receipted, Plans, MarkersAssumption
  <1>3. ASSUME NEW t \in R, t.prev # NoPlan
        PROVE  /\ \E u \in R : u.id = t.prev
               /\ t.prev.at < t.id.at
               /\ \A u \in R : u.id.at <= t.prev.at \/ t.id.at <= u.id.at
    <2>1. PICK u \in tombs : u.id = t.prev
      BY <1>1, <1>3 DEF Receipted
    <2>2. u.id.at < t.id.at
      BY <1>1, <1>3, <2>1 DEF Receipted
    <2>3. HasAction(events, u.id)
      <3>1. ~(t.id.at <= u.id.at)
        BY <1>1, <1>2, <2>2
      <3> QED
        BY <1>1, <3>1 DEF Receipted
    <2> QED
      BY <1>1, <1>3, <2>1, <2>2, <2>3 DEF Receipted, Receipts
  <1>4. ASSUME NEW t \in R, t.prev = NoPlan PROVE \A u \in R : t.id.at <= u.id.at
    <2>1. ~\E u \in tombs : u.id = NoPlan
      BY <1>2
    <2> QED
      BY <1>1, <1>4, <2>1 DEF Receipted
  <1>5. \A t, u \in R : t.id.at = u.id.at => t = u
    BY <1>1 DEF Receipted
  <1> HIDE DEF R
  <1>6. \A id : \A t, u \in Children(id) : t = u
    <2> SUFFICES ASSUME NEW id, NEW t \in R, NEW u \in R, t.prev = id, u.prev = id
                 PROVE  t = u
      OBVIOUS
    <2>1. t.id.at \in Nat /\ u.id.at \in Nat
      BY <1>1, <1>2
    <2>2. CASE id = NoPlan
      <3>1. t.id.at <= u.id.at /\ u.id.at <= t.id.at
        BY <1>4, <2>2
      <3> QED
        BY <1>5, <2>1, <3>1
    <2>3. CASE id # NoPlan
      <3>1. PICK v \in R : v.id = id
        BY <1>3, <2>3
      <3>2. id.at \in Nat
        BY <1>1, <1>2, <3>1
      <3>3. /\ id.at < t.id.at /\ id.at < u.id.at
            /\ u.id.at <= id.at \/ t.id.at <= u.id.at
            /\ t.id.at <= id.at \/ u.id.at <= t.id.at
        BY <1>3, <2>3
      <3> QED
        BY <1>5, <2>1, <3>2, <3>3
    <2> QED
      BY <2>2, <2>3
  <1>7. \A id : Cardinality(Children(id)) <= 1
                  /\ (Children(id) # {} => Cardinality(Children(id)) = 1)
    <2> TAKE id
    <2>1. CASE Children(id) = {}
      BY <2>1, FS_EmptySet
    <2>2. CASE Children(id) # {}
      <3>1. PICK t \in Children(id) : TRUE
        BY <2>2
      <3>2. Children(id) = {t}
        BY <1>6, <3>1
      <3>3. Cardinality({t}) = 1
        BY FS_Singleton
      <3> QED
        BY <3>2, <3>3
    <2> QED
      BY <2>1, <2>2
  <1>8. ASSUME R # {} PROVE Children(NoPlan) # {}
    <2>1. {t.id.at : t \in R} \in SUBSET Nat /\ {t.id.at : t \in R} # {}
      BY <1>1, <1>2, <1>8
    <2>2. PICK k \in {t.id.at : t \in R} : \A j \in {t.id.at : t \in R} : k <= j
      BY <2>1, Least
    <2>3. PICK t \in R : k = t.id.at
      BY <2>2
    <2>4. ~\E u \in R : u.id.at < t.id.at
      BY <1>1, <1>2, <2>2, <2>3
    <2>5. t.prev = NoPlan
      BY <1>3, <2>4
    <2> QED
      BY <2>5
  <1>9. \A t \in R : t.prev = NoPlan \/ \E u \in R : u.id = t.prev
    BY <1>3
  <1> QED
    BY <1>7, <1>8, <1>9 DEF Chain, R

\* What the log refers to is there: the bytes, or the receipt that says where
\* they went.
LEMMA NothingMissing ==
    ASSUME Logged, History, Receipted, Disk
    PROVE  ReceiptsHaveArchives /\ PayloadPresent(Receipts)
  <1>1. ReceiptsHaveArchives
    BY LifecycleIs DEF ReceiptsHaveArchives, Disk
  <1>2. Receipts \in SUBSET tombs /\ \A t \in tombs : t.id \in Plans
    BY DEF Receipts, Receipted
  <1>3. \A t \in Receipts : t.id.action = "archive" => t.id \in archives
    BY <1>1 DEF ReceiptsHaveArchives, Receipts
  <1>4. ASSUME Refs(events) # {}, ~hot
        PROVE  \E t \in Receipts : /\ \A u \in Receipts : u.id.at <= t.id.at
                                   /\ t.id.action = "archive" => t.id \in archives
    <2>1. Actions # {}
      <3>1. CASE Taken(events)
        BY <3>1 DEF Taken, Actions
      <3>2. CASE ~Taken(events)
        BY <1>4, <3>2 DEF Disk, History
      <3> QED
        BY <3>1, <3>2
    <2>2. Receipts # {}
      <3>1. PICK a \in Actions : TRUE
        BY <2>1
      <3>2. PICK t \in tombs : t.id = a.id
        BY <3>1 DEF Receipted
      <3> QED
        BY <3>1, <3>2, LifecycleIs DEF Receipts
    <2>3. PICK t \in Receipts : \A u \in Receipts : u.id.at <= t.id.at
      BY <1>2, <2>2, LatestIs
    <2> QED
      BY <1>3, <2>3
  <1>5. ASSUME NEW r \in Rehydrations, ~hot, \A e \in Lifecycle(events) : ~(e.n > r.n)
        PROVE  r.id \in stages
    <2>1. \A l \in Lifecycle(events) : l.n <= r.n
      BY <1>5, LifecycleIs
    <2>2. ~Taken(events)
      BY <2>1, NotTaken
    <2>3. Refs(events) # {}
      BY LifecycleIs DEF History
    <2>4. PICK q \in Rehydrations \ projected : q.id \in stages
      BY <1>5, <2>2, <2>3 DEF Disk
    <2>5. q = r
      <3>1. q.n = Cardinality(events) /\ r.n <= Cardinality(events) /\ q.n <= r.n
        BY <2>1, LifecycleIs, Numbers
      <3>2. q.n = r.n
        BY <3>1, LifecycleIs
      <3> QED
        BY <3>2, LifecycleIs, Numbers
    <2> QED
      BY <2>4, <2>5
  <1>6. PayloadPresent(Receipts)
    BY <1>4, <1>5 DEF PayloadPresent, Rehydrations
  <1> QED
    BY <1>1, <1>6

\* Wherever an operation was abandoned, the store opens again: archives and
\* receipts are there, the chain of receipts is whole, and every durable event
\* without a row can be applied, whatever there is in the log.
THEOREM StoreOpensAgain == Deployed /\ Spec => []NextOpenSucceeds
  <1>1. IInv => NextOpenSucceeds
    <2>1. IInv => Replayed(cat, projected) # Failed
      BY ReplayIs
    <2> QED
      BY <2>1, OneChain, NothingMissing DEF IInv, NextOpenSucceeds
  <1> QED
    BY <1>1, Invariance, PTL

-----------------------------------------------------------------------------
(* The catalog matches.                                                    *)

\* The row can be recreated from nothing, and the files are what it says.
THEOREM CatalogIsRight == Deployed /\ Spec => []CatalogMatches
  <1>1. ASSUME IInv, pc = "idle", projected = events PROVE Replayed(NoRow, {}) = cat
    <2>1. Logged /\ History /\ Receipted /\ Disk /\ cat = Row(events)
      BY <1>1 DEF IInv
    <2>2. \A r \in Rehydrations \ {} : Promotable(r)
      <3> SUFFICES ASSUME NEW r \in Rehydrations, ~Superseded(r) PROVE hot
        BY DEF Promotable
      <3>1. \A l \in Lifecycle(events) : ~(l.n > r.n)
        BY DEF Superseded
      <3>2. \A l \in Lifecycle(events) : l.n <= r.n
        BY <2>1, <3>1, LifecycleIs
      <3>3. ~Taken(events) /\ Refs(events) # {}
        BY <2>1, <3>2, NotTaken, LifecycleIs DEF History
      <3> QED
        BY <1>1, <2>1, <3>3 DEF Disk, Rehydrations, Of
    <2>3. {} \in SUBSET events /\ \A f \in {} : \A e \in events \ {} : f.n < e.n
      OBVIOUS
    <2>4. Replayed(Row({}), {}) = Row(events)
      BY <2>1, <2>2, <2>3, ReplayGivesRow
    <2>5. Row({}) = NoRow
      BY DEF Row, Refs, Of
    <2> QED
      BY <2>1, <2>4, <2>5
  <1>2. ASSUME IInv, pc = "idle", ~failed
        PROVE  /\ cat.avail = "hot" => hot /\ stages = {}
               /\ cat.avail = "archived" => ~hot /\ InArchive
               /\ cat.avail = "evicted" => ~hot /\ archives = {} /\ stages = {}
    <2>1. Logged /\ History /\ Receipted /\ Disk /\ TypeOK
      BY <1>2 DEF IInv
    <2>2. projected = events /\ \A t \in tombs : HasAction(events, t.id)
      BY <1>2, <2>1 DEF Logged, Receipted
    <2>3. cat = Row(events) /\ Tidy /\ (Taken(events) => ~hot)
      BY <1>2, <2>2 DEF IInv, Opening
    <2>4. cat.avail = "hot" => hot
      <3> SUFFICES ASSUME cat.avail = "hot" PROVE hot
        OBVIOUS
      <3>1. Refs(events) # {} /\ ~Taken(events)
        BY <2>3 DEF Row, NoRow, Acted
      <3> QED
        BY <2>1, <2>2, <3>1 DEF Disk, Rehydrations, Of
    <2>5. ASSUME cat.avail \in {"archived", "evicted"}
          PROVE  /\ ~hot
                 /\ cat.avail = "archived" => InArchive
                 /\ cat.avail = "evicted" => archives = {}
      <3>1. Taken(events)
        BY <2>3, <2>5 DEF Row, NoRow
      <3>2. PICK a \in Actions : LastAction(events, a)
        BY <3>1 DEF Taken, Actions
      <3>3. cat = Acted(a.id) /\ a.id.action \in {"archive", "evict"}
        BY <2>1, <2>3, <3>2, RowWhenTaken, LifecycleIs DEF History, Plans
      <3>4. ASSUME a.id.action = "archive" PROVE InArchive
        <4>1. \A b \in Actions : b.n <= a.n
          BY <3>2 DEF LastAction, Actions, Lifecycle
        <4>2. tombs # {} /\ Latest.id = a.id
          BY <2>1, <2>2, <4>1, LatestAction
        <4> QED
          BY <2>1, <3>4, <4>2 DEF InArchive, Disk
      <3>5. ASSUME a.id.action = "evict", NEW x \in archives PROVE FALSE
        <4>1. PICK b \in Actions : b.id = x
          BY <2>1, <2>3, LifecycleIs DEF Tidy
        <4>2. b.id.action = "archive"
          BY <2>1, <4>1 DEF Disk
        <4>3. a = b
          BY <2>1, <3>2, <4>2, ArchiveIsLast, OneLast
        <4> QED
          BY <3>5, <4>2, <4>3
      <3>6. (cat.avail = "archived" => a.id.action = "archive")
              /\ (cat.avail = "evicted" => a.id.action = "evict")
        BY <3>3 DEF Acted
      <3> QED
        BY <2>3, <3>1, <3>4, <3>5, <3>6
    <2> QED
      BY <2>3, <2>4, <2>5 DEF Tidy
  <1>3. IInv => CatalogMatches
    BY <1>1, <1>2 DEF CatalogMatches
  <1> QED
    BY <1>3, Invariance, PTL

-----------------------------------------------------------------------------
(* What is protected stays readable.                                       *)

\* Where the bytes and the receipts stay, nothing becomes unreadable.
LEMMA StaysReadable ==
    ASSUME Readable, hot => hot', tombs' = tombs, archives \subseteq archives'
    PROVE  Readable'
  BY DEF Readable, InArchive, Latest

\* While an archived payload is the last thing in the log, it is readable.
LEMMA ArchiveIsReadable ==
    ASSUME Logged, History, Receipted, Disk, \A t \in tombs : HasAction(events, t.id),
           NEW a \in Actions, LastAction(events, a), a.id.action = "archive"
    PROVE  InArchive /\ Latest.id = a.id
  <1>1. \A b \in Actions : b.n <= a.n
    BY DEF LastAction, Actions, Lifecycle
  <1>2. tombs # {} /\ Latest.id = a.id
    BY <1>1, LatestAction
  <1> QED
    BY <1>2 DEF InArchive, Disk

LEMMA UnlinkProtected ==
    ASSUME IInv, Unlink, Protected
    PROVE  Readable'
  <1>1. /\ Logged /\ History /\ Receipted /\ Disk /\ Working /\ pc = "applied"
    BY DEF IInv, Unlink
  <1>2. \A t \in tombs : HasAction(events, t.id)
    BY <1>1, BusyIs
  <1>3. Applying /\ \E a \in Actions : LastAction(events, a) /\ a.id = plan
    BY <1>1 DEF Working
  <1>4. PICK a \in Actions : LastAction(events, a) /\ a.id = plan
    BY <1>3
  <1>5. plan.action = "archive"
    <2>1. plan.action # "evict"
      BY <1>3 DEF Applying, Evictable, Protected
    <2>2. plan.action # "keep" /\ plan.action \in {"keep", "archive", "evict"}
      BY <1>3 DEF Applying, Plans
    <2> QED
      BY <2>1, <2>2
  <1>6. InArchive
    BY <1>1, <1>2, <1>4, <1>5, ArchiveIsReadable
  <1>7. archives' = archives /\ tombs' = tombs
    BY <1>3 DEF Applying, Unlink
  <1> QED
    BY <1>6, <1>7 DEF Readable, InArchive, Latest

\* To reconcile the files is to remove what the catalog does not point to.
LEMMA ReconciledProtected ==
    ASSUME Logged, History, Receipted, Disk, stages = {}, cat = Row(events), projected = events,
           \A t \in tombs : HasAction(events, t.id),
           Reconciled, UNCHANGED <<class, events, tombs, stages, projected>>,
           Readable, Protected, Refs(events) # {}
    PROVE  Readable'
  <1>1. CASE ~Taken(events)
    <2>1. hot
      BY <1>1 DEF Disk, Rehydrations, Of
    <2>2. cat.avail = "hot"
      BY <1>1 DEF Row
    <2> QED
      BY <2>1, <2>2 DEF Readable, Reconciled
  <1>2. CASE Taken(events)
    <2>1. PICK a \in Actions : LastAction(events, a)
      BY <1>2 DEF Taken, Actions
    <2>2. a.id.action \in {"archive", "evict"}
      BY LifecycleIs DEF History, Plans
    <2>3. \A b \in Actions : b.n <= a.n
      BY <2>1 DEF LastAction, Actions, Lifecycle
    <2>4. Latest.id = a.id
      BY <2>3, LatestAction
    <2>5. CASE a.id.action = "archive"
      <3>1. a.id \in archives'
        BY <2>5, ReconciledKeeps
      <3>2. tombs # {}
        BY <2>3, LatestAction
      <3> QED
        BY <2>4, <2>5, <3>1, <3>2 DEF Readable, InArchive, Latest
    <2>6. CASE a.id.action = "evict"
      <3>1. ~hot
        BY <2>1, <2>6 DEF Disk, Evictable, Protected
      <3>2. ~InArchive
        BY <2>4, <2>6 DEF InArchive
      <3> QED
        BY <3>1, <3>2 DEF Readable
    <2> QED
      BY <2>2, <2>5, <2>6
  <1> QED
    BY <1>1, <1>2

LEMMA WriteTombstoneProtected ==
    ASSUME IInv, WriteTombstone
    PROVE  Readable'
  <1>1. pc = "packed" /\ hot' = hot
    BY DEF WriteTombstone
  <1>2. Refs(events) # {} /\ ~Taken(events)
    BY <1>1 DEF IInv, Working, Applying
  <1> QED
    BY <1>1, <1>2, BusyIs DEF Readable

\* Recovery forgets only receipts of a payload that is still hot.
LEMMA RecoverProtected ==
    ASSUME IInv, Recover, Readable, Refs(events) # {}
    PROVE  Readable'
  <1>1. /\ Logged /\ History /\ Receipted /\ Disk
    BY DEF IInv
  <1>2. PICK gone \in SUBSET tombs, lost \in SUBSET archives :
          /\ \A t \in gone : ~HasAction(events, t.id)
          /\ \A a \in lost : ~HasAction(events, a)
          /\ tombs' = tombs \ gone /\ archives' = archives \ lost
    <2>1. /\ Orphans.tombs \in SUBSET tombs /\ Orphans.archives \in SUBSET archives
          /\ \A t \in Orphans.tombs : ~HasAction(events, t.id)
          /\ \A a \in Orphans.archives : ~HasAction(events, a)
      BY DEF Orphans
    <2>2. CASE tombs' = tombs \ Orphans.tombs /\ archives' = archives \ Orphans.archives
      BY <2>1, <2>2
    <2>3. CASE \E gone \in SUBSET Orphans.tombs, lost \in SUBSET Orphans.archives :
                 tombs' = tombs \ gone /\ archives' = archives \ lost
      <3>1. PICK gone \in SUBSET Orphans.tombs, lost \in SUBSET Orphans.archives :
                 tombs' = tombs \ gone /\ archives' = archives \ lost
        BY <2>3
      <3>2. /\ gone \in SUBSET tombs /\ lost \in SUBSET archives
            /\ \A t \in gone : ~HasAction(events, t.id)
            /\ \A a \in lost : ~HasAction(events, a)
        BY <2>1
      <3> QED
        BY <3>1, <3>2
    <2> QED
      BY <2>2, <2>3 DEF Recover
  <1>3. hot' = hot
    BY DEF Recover
  <1>4. CASE hot
    BY <1>3, <1>4 DEF Readable
  <1>5. CASE ~hot
    <2>1. InArchive
      BY <1>5 DEF Readable
    <2>2. Latest \in tombs /\ \A u \in tombs : u.id.at <= Latest.id.at
      BY <1>1, <2>1, LatestIs DEF InArchive, Receipted
    <2>3. HasAction(events, Latest.id)
      <3> SUFFICES ASSUME ~HasAction(events, Latest.id) PROVE FALSE
        OBVIOUS
      <3>1. ~Taken(events) /\ projected = events
        BY <1>1, <2>2 DEF Receipted
      <3> QED
        BY <1>1, <1>5, <3>1 DEF Disk, Rehydrations, Of
    <2>4. Latest \in tombs' /\ Latest.id \in archives'
      BY <1>2, <2>1, <2>2, <2>3 DEF InArchive
    <2>5. Latest' = Latest
      <3>1. \A t \in tombs' : (\A u \in tombs' : u.id.at <= t.id.at) => t = Latest
        <4> SUFFICES ASSUME NEW t \in tombs', \A u \in tombs' : u.id.at <= t.id.at
                     PROVE  t = Latest
          OBVIOUS
        <4>1. t \in tombs /\ Latest.id.at <= t.id.at /\ t.id.at <= Latest.id.at
          BY <1>2, <2>2, <2>4
        <4>2. t.id.at \in Nat /\ Latest.id.at \in Nat
          BY <1>1, <2>2, <4>1 DEF Receipted, Plans
        <4>3. t.id.at = Latest.id.at
          BY <4>1, <4>2
        <4> QED
          BY <1>1, <2>2, <4>1, <4>3 DEF Receipted
      <3>2. \A u \in tombs' : u.id.at <= Latest.id.at
        BY <1>2, <2>2
      <3>3. PICK l : l = Latest
        OBVIOUS
      <3>4. (CHOOSE t \in tombs' : \A u \in tombs' : u.id.at <= t.id.at) = l
        BY <2>4, <3>1, <3>2, <3>3
      <3> QED
        BY <3>3, <3>4 DEF Latest
    <2> QED
      BY <2>1, <2>4, <2>5 DEF Readable, InArchive
  <1> QED
    BY <1>4, <1>5

\* No step makes the payload of a protected reference unreadable.
THEOREM ProtectedStaysReadable == Deployed /\ Spec => ProtectedKept
  <1>1. ASSUME IInv, Deployed, [Next]_vars, Refs(events) # {}, Readable, Protected
        PROVE  Readable'
    <2>1. CASE Unlink
      BY <1>1, <2>1, UnlinkProtected
    <2>2. CASE WriteTombstone
      BY <1>1, <2>2, WriteTombstoneProtected
    <2>3. CASE Recover
      BY <1>1, <2>3, RecoverProtected
    <2>4. CASE TidyUp
      <3>1. pc = "tidying" /\ Reconciled
              /\ UNCHANGED <<class, events, tombs, stages, projected>>
        BY <2>4 DEF TidyUp
      <3>2. /\ Logged /\ History /\ Receipted /\ Disk /\ stages = {}
            /\ cat = Row(projected) /\ projected = events
            /\ \A t \in tombs : HasAction(events, t.id)
        BY <1>1, <3>1, BusyIs DEF IInv, Working, Tidy
      <3> QED
        BY <1>1, <3>1, <3>2, ReconciledProtected
    <2>5. CASE FinishOpen
      <3>1. pc = "idle" /\ opener = "replayed" /\ Reconciled
              /\ UNCHANGED <<class, events, tombs, stages, projected>>
        BY <2>5 DEF FinishOpen
      <3>2. /\ Logged /\ History /\ Receipted /\ Disk /\ stages = {}
            /\ cat = Row(projected) /\ projected = events
            /\ \A t \in tombs : HasAction(events, t.id)
        BY <1>1, <3>1 DEF IInv, Opening
      <3> QED
        BY <1>1, <3>1, <3>2, ReconciledProtected
    <2>6. CASE UNCHANGED <<hot, tombs, archives>>
      BY <1>1, <2>6, StaysReadable
    <2>7. ASSUME NEW t \in Tasks, AddReference(t) PROVE Readable'
      BY <1>1, <2>7, StaysReadable DEF AddReference
    <2>8. ASSUME NEW t \in Tasks, EndTask(t) PROVE UNCHANGED <<hot, tombs, archives>>
      BY <2>8 DEF EndTask
    <2>9. ASSUME NEW type \in {"cited", "claim"}, Cite(type)
          PROVE  UNCHANGED <<hot, tombs, archives>>
      BY <2>9 DEF Cite
    <2>10. CASE PlanRetention \/ StartGC \/ LogAction \/ ProjectAction
      BY <2>6, <2>10 DEF PlanRetention, StartGC, LogAction, ProjectAction, diskVars
    <2>11. CASE WriteArchive
      BY <1>1, <2>11, StaysReadable DEF WriteArchive
    <2>12. CASE StageRehydration \/ LogRehydration \/ ProjectRehydration \/ Abandon
      BY <2>6, <2>12 DEF StageRehydration, LogRehydration, ProjectRehydration, Abandon, diskVars
    <2>13. CASE Promote
      BY <1>1, <2>13, StaysReadable DEF Promote
    <2>14. CASE Replay
      BY <1>1, <2>14, StaysReadable DEF Replay
    <2>15. CASE Tick \/ UNCHANGED vars
      BY <2>6, <2>15 DEF Tick, vars, diskVars
    <2> QED
      BY <1>1, <2>1, <2>2, <2>3, <2>4, <2>5, <2>6, <2>7, <2>8, <2>9, <2>10, <2>11, <2>12,
         <2>13, <2>14, <2>15 DEF Next
  <1>2. IInv /\ Deployed /\ [Next]_vars =>
            [Refs(events) # {} /\ Readable /\ Protected => Readable']_vars
    BY <1>1
  <1>3. Deployed => Deployed'
    BY DEF Deployed
  <1> QED
    BY <1>2, <1>3, Invariance, PTL DEF Spec, ProtectedKept

=============================================================================
