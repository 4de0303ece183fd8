-------------------------- MODULE RadarCatalogProofs --------------------------
(***************************************************************************)
(* Proofs about RadarCatalog, for any entries, operators and bounds.       *)
(* That a ledger loads depends on the files around it, and on the order of *)
(* the writes: the invariant says of each intake that what its events rest *)
(* on is on disk or still among its writes (IntakeInv), and the choice of  *)
(* the write of least rank then puts it on disk before any event.          *)
(***************************************************************************)
EXTENDS RadarCatalog, FiniteSetTheorems, WellFoundedInduction, TLAPS

-----------------------------------------------------------------------------
(* The invariant                                                           *)

EventOK(v) ==
    v.kind = "lifecycle" /\ v.seq \in Nat \ {0} /\ v.to \in Statuses /\ v.at \in 0 .. MaxTime

FileOK(f) ==
    \/ f = Paper
    \/ \E e \in Entries : f = Version(e)
    \/ \E e \in Entries, n \in Nat :
          f = Receipt(e, n) \/ \E i \in Intakes : f = Observation(i, e, n)
    \/ EventOK(f)

\* The numbers of the events are 1, 2, ..., each given once.
Numbered(files) ==
    /\ \A v \in Ledger(files) : v.seq \in 1 .. Cardinality(Ledger(files))
    /\ \A v, w \in Ledger(files) : v.seq = w.seq => v = w

DiskInv ==
    /\ IsFiniteSet(disk) /\ \A f \in disk : FileOK(f)
    /\ Numbered(disk) /\ Consistent(disk, FALSE)

\* What the events of an intake rest on is on disk, or will be.
IntakeInv(i) ==
    LET p == intake[i] IN
    /\ p = [writes |-> p.writes, authority |-> p.authority, checked |-> p.checked]
    /\ p.authority \subseteq Entries /\ p.checked \in BOOLEAN
    /\ i = "offline" => p.authority = {}
    /\ p.checked => p.writes # {}
    /\ \A f \in p.writes : FileOK(f)
    /\ p.writes # {} => \E e \in Entries : Version(e) \in disk \cup p.writes
    /\ \A e \in p.authority : HasAuthority(disk \cup p.writes, e)

\* A decision follows an event.
DecisionInv(o) ==
    \/ decision[o] = <<>>
    \/ /\ decision[o] = <<decision[o][1]>>
       /\ EventOK(decision[o][1]) /\ decision[o][1].from # "none"

Inv ==
    /\ DiskInv
    /\ DOMAIN intake = Intakes /\ \A i \in Intakes : IntakeInv(i)
    /\ DOMAIN decision = Operators /\ \A o \in Operators : DecisionInv(o)
    /\ arxiv \in [entry : Entries, response : 1 .. MaxResponses]
    /\ crashes \in 0 .. MaxCrashes /\ amends \in 0 .. MaxAmends

USE CatalogAssumption

-----------------------------------------------------------------------------
(* Files and events                                                        *)

\* A nonempty set of numbers has a least one.
LEMMA Least ==
    ASSUME NEW S \in SUBSET Nat, S # {} PROVE \E m \in S : \A n \in S : m <= n
  <1> DEFINE R == {ss \in Nat \X Nat : ss[1] < ss[2]}
  <1>1. IsWellFoundedOn(R, Nat)
    BY NatLessThanWellFounded DEF OpToRel
  <1> HIDE DEF R
  <1>2. PICK m \in S : \A n \in S : ~(<<n, m>> \in R)
    BY <1>1, WFMin
  <1>3. \A n \in S : ~(n < m)
    BY <1>2 DEF R
  <1> QED
    BY <1>3

\* What a file of the catalog is, by its kind.
LEMMA Kinds ==
    ASSUME NEW f, FileOK(f)
    PROVE  /\ f.kind \in {"paper", "version", "observation", "receipt", "lifecycle"}
           /\ f.kind = "lifecycle" => EventOK(f)
           /\ f.kind = "version" => \E e \in Entries : f = Version(e)
           /\ Rank(f) \in Nat
  <1>1. CASE f = Paper
    BY <1>1 DEF Paper, Rank
  <1>2. ASSUME NEW e \in Entries, f = Version(e) PROVE f.kind = "version" /\ Rank(f) = 1
    BY <1>2 DEF Version, Rank
  <1>3. ASSUME NEW e \in Entries, NEW n \in Nat, f = Receipt(e, n)
        PROVE  f.kind = "receipt" /\ Rank(f) = 3
    BY <1>3 DEF Receipt, Rank
  <1>4. ASSUME NEW e \in Entries, NEW i \in Intakes, NEW n \in Nat, f = Observation(i, e, n)
        PROVE  f.kind = "observation" /\ Rank(f) = 2
    BY <1>4 DEF Observation, Rank
  <1>5. ASSUME EventOK(f) PROVE f.kind = "lifecycle" /\ Rank(f) \in Nat
    BY <1>5 DEF EventOK, Rank
  <1> QED
    BY <1>1, <1>2, <1>3, <1>4, <1>5 DEF FileOK

\* The kinds of the files that an intake writes, and their place in the order
\* of writes.
LEMMA KindOf ==
    ASSUME NEW e
    PROVE  /\ Version(e).kind = "version" /\ Rank(Version(e)) = 1 /\ Paper.kind = "paper"
           /\ \A n : Receipt(e, n).kind = "receipt" /\ Rank(Receipt(e, n)) = 3
           /\ \A i, n : Observation(i, e, n).kind = "observation" /\ Rank(Observation(i, e, n)) = 2
  BY DEF Version, Receipt, Paper, Observation, Rank

\* The statuses that the table allows are statuses.
LEMMA AllowedAre == Allowed \in [Statuses -> SUBSET Statuses]
  BY DEF Allowed, Statuses

\* The last event of a ledger is the one whose number is their count.
LEMMA LedgerIs ==
    ASSUME DiskInv
    PROVE  /\ IsFiniteSet(Ledger(disk)) /\ Cardinality(Ledger(disk)) \in Nat
           /\ \A v \in Ledger(disk) : v \in disk /\ EventOK(v)
           /\ Ledger(disk) # {} => /\ Last(disk) \in Ledger(disk)
                                   /\ Last(disk).seq = Cardinality(Ledger(disk))
                                   /\ Current(disk) = Last(disk).to
  <1>1. Ledger(disk) \in SUBSET disk /\ \A v \in Ledger(disk) : v.kind = "lifecycle"
    BY DEF Ledger, Of
  <1>2. IsFiniteSet(Ledger(disk)) /\ Cardinality(Ledger(disk)) \in Nat
    BY <1>1, FS_Subset, FS_CardinalityType DEF DiskInv
  <1>3. \A v \in Ledger(disk) : v \in disk /\ EventOK(v)
    BY <1>1, Kinds DEF DiskInv
  <1>4. ASSUME Ledger(disk) # {}
        PROVE  /\ Last(disk) \in Ledger(disk) /\ Last(disk).seq = Cardinality(Ledger(disk))
               /\ Current(disk) = Last(disk).to
    <2>1. Cardinality(Ledger(disk)) # 0
      BY <1>2, <1>4, FS_EmptySet
    <2>2. Cardinality(Ledger(disk)) \in 1 .. Cardinality(Ledger(disk))
      BY <1>2, <2>1
    <2>3. \E v \in Ledger(disk) : v.seq = Cardinality(Ledger(disk))
      BY <2>2 DEF DiskInv, Consistent
    <2>4. Last(disk) \in Ledger(disk) /\ Last(disk).seq = Cardinality(Ledger(disk))
      BY <2>3 DEF Last
    <2> QED
      BY <1>4, <2>4 DEF Current
  <1> QED
    BY <1>2, <1>3, <1>4

\* A file more takes no authority away.
LEMMA Authorised ==
    ASSUME NEW A, NEW B, A \subseteq B, NEW e, HasAuthority(A, e)
    PROVE  HasAuthority(B, e)
  <1>1. Of("receipt", A) \subseteq Of("receipt", B)
    BY DEF Of
  <1> QED
    BY <1>1 DEF HasAuthority

\* A file that is no event.
LEMMA Added ==
    ASSUME DiskInv, NEW f, FileOK(f), f.kind # "lifecycle", disk' = disk \cup {f}
    PROVE  DiskInv'
  <1>1. Ledger(disk') = Ledger(disk) /\ Of("version", disk) \subseteq Of("version", disk')
    BY DEF Ledger, Of
  <1>2. IsFiniteSet(disk') /\ \A g \in disk' : FileOK(g)
    BY FS_AddElement DEF DiskInv
  <1>3. Numbered(disk')
    BY <1>1 DEF DiskInv, Numbered
  <1>4. \A e : HasAuthority(disk, e) => HasAuthority(disk', e)
    BY Authorised
  <1>5. \A v \in Ledger(disk) :
          ValidEvent(v, v.prev, \E e \in v.evidence : HasAuthority(disk', e))
    BY <1>4 DEF DiskInv, Consistent, ValidEvent
  <1>6. Consistent(disk', FALSE)
    BY <1>1, <1>5 DEF DiskInv, Consistent
  <1> QED
    BY <1>2, <1>3, <1>6 DEF DiskInv

\* An event, written under the lock.
LEMMA Appended ==
    ASSUME DiskInv, NEW f, NEW a, EventOK(f), MayAppend(f, a), Of("version", disk) # {},
           \A e \in a : HasAuthority(disk, e), disk' = disk \cup {f}
    PROVE  DiskInv'
  <1>1. CASE f \in disk
    <2>1. disk' = disk
      BY <1>1
    <2> QED
      BY <2>1 DEF DiskInv
  <1>2. CASE f \notin disk
    <2> DEFINE L == Ledger(disk)
               N == Cardinality(L)
               primary == /\ f.evidence = a
                          /\ \E g \in Of("version", disk) : f = MetadataVerified(g.entry, Last(disk))
    <2>1. /\ f.seq = N + 1
          /\ ValidEvent(f, IF L = {} THEN <<>> ELSE <<Last(disk)>>, primary)
      BY <1>2 DEF MayAppend
    <2>2. IsFiniteSet(L) /\ N \in Nat /\ (L # {} => Last(disk) \in L) /\ L \subseteq disk
      BY LedgerIs
    <2>3. Ledger(disk') = L \cup {f} /\ Of("version", disk) \subseteq Of("version", disk')
      BY DEF Ledger, Of, EventOK
    <2>4. f \notin L
      BY <1>2, <2>2
    <2>5. Cardinality(Ledger(disk')) = N + 1
      <3> HIDE DEF L
      <3>1. Cardinality(L \cup {f}) = N + 1
        BY <2>2, <2>4, FS_AddElement
      <3> QED
        BY <2>3, <3>1
    <2>6. IsFiniteSet(disk') /\ \A g \in disk' : FileOK(g)
      BY FS_AddElement DEF DiskInv, FileOK
    <2>7. \A v \in L : v.seq \in 1 .. N
      BY DEF DiskInv, Numbered
    <2>8. Numbered(disk')
      <3> HIDE DEF L, N
      <3>1. \A v \in Ledger(disk') : v.seq \in 1 .. Cardinality(Ledger(disk'))
        <4>1. N + 1 \in 1 .. N + 1 /\ \A n \in 1 .. N : n \in 1 .. N + 1
          BY <2>2
        <4> QED
          BY <2>1, <2>3, <2>5, <2>7, <4>1
      <3>2. ASSUME NEW v \in L PROVE v.seq # f.seq
        BY <2>1, <2>2, <2>7
      <3>3. \A v, w \in L : v.seq = w.seq => v = w
        BY DEF DiskInv, Numbered, L
      <3>4. \A v, w \in Ledger(disk') : v.seq = w.seq => v = w
        BY <2>3, <3>2, <3>3
      <3> QED
        BY <3>1, <3>4 DEF Numbered
    <2>9. \A e : HasAuthority(disk, e) => HasAuthority(disk', e)
      BY Authorised
    <2>10. \A v \in L :
             /\ v.prev # <<>> => v.prev[1] \in L
             /\ ValidEvent(v, v.prev, \E e \in v.evidence : HasAuthority(disk', e))
      BY <2>9 DEF DiskInv, Consistent, ValidEvent
    <2>11. /\ f.prev # <<>> => f.prev[1] \in L
           /\ ValidEvent(f, f.prev, \E e \in f.evidence : HasAuthority(disk', e))
      <3>1. f.prev = IF L = {} THEN <<>> ELSE <<Last(disk)>>
        BY <2>1 DEF ValidEvent
      <3>2. primary => \E e \in f.evidence : HasAuthority(disk', e)
        <4> SUFFICES ASSUME primary PROVE \E e \in f.evidence : HasAuthority(disk', e)
          OBVIOUS
        <4>1. PICK g \in Of("version", disk) : f = MetadataVerified(g.entry, Last(disk))
          OBVIOUS
        <4>2. f.evidence = {g.entry}
          BY <4>1 DEF MetadataVerified, Event
        <4>3. g.entry \in a
          BY <4>2
        <4> QED
          BY <2>9, <4>2, <4>3
      <3>3. ValidEvent(f, f.prev, \E e \in f.evidence : HasAuthority(disk', e))
        <4> HIDE DEF primary, L, N
        <4> QED
          BY <2>1, <3>1, <3>2 DEF ValidEvent
      <3> QED
        <4>1. f.prev # <<>> => f.prev[1] \in L
          BY <2>2, <3>1
        <4> QED
          BY <3>3, <4>1
    <2>12. \A k \in 1 .. N + 1 : \E v \in Ledger(disk') : v.seq = k
      <3>1. \A k \in 1 .. N : \E v \in L : v.seq = k
        BY DEF DiskInv, Consistent
      <3> HIDE DEF L, N
      <3>2. \A k \in 1 .. N + 1 : k \in 1 .. N \/ k = N + 1
        BY <2>2
      <3> QED
        BY <2>1, <2>3, <3>1, <3>2
    <2>13. Of("version", disk') # {}
      BY <2>3
    <2>14. Consistent(disk', FALSE)
      <3> HIDE DEF L, N
      <3>1. \A v \in Ledger(disk') :
              /\ v.prev # <<>> => v.prev[1] \in Ledger(disk')
              /\ ValidEvent(v, v.prev, \E e \in v.evidence : HasAuthority(disk', e))
        BY <2>3, <2>10, <2>11
      <3> QED
        BY <2>5, <2>12, <2>13, <3>1 DEF Consistent
    <2> QED
      BY <2>6, <2>8, <2>14 DEF DiskInv
  <1> QED
    BY <1>1, <1>2

-----------------------------------------------------------------------------
(* The steps                                                               *)

\* What a step leaves of an intake or a decision that it does not concern.
LEMMA OthersKeep ==
    ASSUME disk \subseteq disk'
    PROVE  /\ \A i \in Intakes : IntakeInv(i) /\ intake'[i] = intake[i] => IntakeInv(i)'
           /\ \A o \in Operators : DecisionInv(o) /\ decision'[o] = decision[o] => DecisionInv(o)'
  <1>1. \A W, e : HasAuthority(disk \cup W, e) => HasAuthority(disk' \cup W, e)
    <2>1. \A W : disk \cup W \subseteq disk' \cup W
      OBVIOUS
    <2> QED
      BY <2>1, Authorised
  <1>2. \A i \in Intakes : IntakeInv(i) /\ intake'[i] = intake[i] => IntakeInv(i)'
    BY <1>1 DEF IntakeInv
  <1>3. \A o \in Operators : DecisionInv(o) /\ decision'[o] = decision[o] => DecisionInv(o)'
    BY DEF DecisionInv
  <1> QED
    BY <1>2, <1>3

\* An intake that is not at work holds nothing.
LEMMA IdleIs ==
    /\ Idle.writes = {} /\ Idle.authority = {} /\ Idle.checked = FALSE
    /\ Idle = [writes |-> Idle.writes, authority |-> Idle.authority, checked |-> Idle.checked]
  BY DEF Idle

\* An intake that is not at work owes no file.
LEMMA IdleKeeps == \A i \in Intakes : intake'[i] = Idle => IntakeInv(i)'
  BY IdleIs DEF IntakeInv

\* An empty catalog, and nothing planned.
LEMMA Initially == Init => Inv
  <1> SUFFICES ASSUME Init PROVE Inv
    OBVIOUS
  <1>1. Ledger(disk) = {} /\ IsFiniteSet(disk)
    BY FS_EmptySet DEF Init, Ledger, Of
  <1>2. Cardinality(Ledger(disk)) = 0
    BY <1>1, FS_EmptySet
  <1>3. \A k : ~(k \in 1 .. 0)
    OBVIOUS
  <1>4. DiskInv
    BY <1>1, <1>2, <1>3 DEF Init, DiskInv, Numbered, Consistent
  <1>5. DOMAIN intake = Intakes /\ \A i \in Intakes : IntakeInv(i)
    <2>1. \A i \in Intakes : intake[i] = Idle
      BY DEF Init
    <2>2. \A i \in Intakes : IntakeInv(i)
      BY <2>1, IdleIs DEF IntakeInv
    <2> QED
      BY <2>2 DEF Init
  <1>6. DOMAIN decision = Operators /\ \A o \in Operators : DecisionInv(o)
    BY DEF Init, DecisionInv
  <1> QED
    BY <1>4, <1>5, <1>6 DEF Init, Inv

\* The events that an intake plans.
LEMMA PlannedAre ==
    ASSUME DiskInv, NEW i, NEW e \in Entries, NEW v \in PlannedEvents(i, e)
    PROVE  EventOK(v)
  <1>1. EventOK(Initial(e))
    BY DEF Initial, Event, EventOK, Statuses
  <1>2. ASSUME NEW w, EventOK(w) PROVE EventOK(MetadataVerified(e, w))
    <2>1. w.seq + 1 \in Nat \ {0}
      BY <1>2 DEF EventOK
    <2>2. MetadataVerified(e, w) =
            [kind |-> "lifecycle", seq |-> w.seq + 1, prev |-> <<w>>, from |-> "new",
             to |-> "metadata_verified", at |-> 0, evidence |-> {e}, revisit |-> FALSE]
      BY DEF MetadataVerified, Event
    <2>3. 0 \in 0 .. MaxTime /\ "metadata_verified" \in Statuses
      BY DEF Statuses
    <2> QED
      BY <2>1, <2>2, <2>3 DEF EventOK
  <1>3. ASSUME Initial(e) \in disk PROVE EventOK(Last(disk))
    <2>1. Initial(e) \in Ledger(disk)
      BY <1>1, <1>3 DEF EventOK, Ledger, Of
    <2> QED
      BY <2>1, LedgerIs
  <1> QED
    BY <1>1, <1>2, <1>3 DEF PlannedEvents

\* What an intake plans covers what its events rest on.
LEMMA PlanIntakeStep ==
    ASSUME Inv, NEW i \in Intakes, NEW e \in Entries, PlanIntake(i, e) PROVE Inv'
  <1> DEFINE files == PlannedFiles(i, e)
             p == [writes |-> files \cup PlannedEvents(i, e),
                   authority |-> Authority(i, e), checked |-> FALSE]
  <1>1. intake' = [intake EXCEPT ![i] = p] /\ UNCHANGED <<disk, arxiv, decision, crashes, amends>>
    BY DEF PlanIntake
  <1>2. DOMAIN intake' = Intakes /\ intake'[i] = p
        /\ \A j \in Intakes : j # i => intake'[j] = intake[j]
    BY <1>1 DEF Inv
  <1>3. \A f \in p.writes : FileOK(f)
    <2>1. \A f \in files : FileOK(f)
      <3>1. arxiv.response \in Nat /\ 0 \in Nat
        BY DEF Inv
      <3> QED
        BY <3>1 DEF FileOK, PlannedFiles, Intakes
    <2>2. \A f \in PlannedEvents(i, e) : FileOK(f)
      BY PlannedAre DEF Inv, FileOK
    <2> QED
      BY <2>1, <2>2
  <1>4. Version(e) \in p.writes
    BY DEF PlannedFiles
  <1>5. p.authority \subseteq Entries /\ (i = "offline" => p.authority = {})
    BY DEF Authority
  <1>6. ASSUME NEW a \in p.authority PROVE HasAuthority(p.writes, a)
    <2>1. i = "live" /\ a = e
      BY DEF Authority
    <2>2. /\ Receipt(a, arxiv.response) \in p.writes
          /\ Observation("live", a, arxiv.response) \in p.writes
      BY <2>1 DEF PlannedFiles
    <2>3. /\ Receipt(a, arxiv.response).kind = "receipt"
          /\ Receipt(a, arxiv.response).entry = a
          /\ Receipt(a, arxiv.response).response = arxiv.response
      BY DEF Receipt
    <2> QED
      BY <2>2, <2>3 DEF HasAuthority, Of
  <1>7. p = [writes |-> p.writes, authority |-> p.authority, checked |-> p.checked]
        /\ p.checked = FALSE
    OBVIOUS
  <1> HIDE DEF p, files
  <1>8. IntakeInv(i)'
    <2>1. \A a \in p.authority : HasAuthority(disk' \cup p.writes, a)
      BY <1>6, Authorised
    <2> QED
      BY <1>2, <1>3, <1>4, <1>5, <1>7, <2>1 DEF IntakeInv
  <1>9. /\ \A j \in Intakes : IntakeInv(j)'
        /\ \A o \in Operators : DecisionInv(o)'
    BY <1>1, <1>2, <1>8, OthersKeep DEF Inv
  <1> QED
    BY <1>1, <1>2, <1>9 DEF Inv, DiskInv

\* A change of one field leaves the other two.
LEMMA Excepts ==
    ASSUME NEW w, NEW a, NEW c, NEW p, p = [writes |-> w, authority |-> a, checked |-> c]
    PROVE  /\ \A x : [p EXCEPT !.checked = x] = [writes |-> w, authority |-> a, checked |-> x]
           /\ \A x : [p EXCEPT !.writes = x] = [writes |-> x, authority |-> a, checked |-> c]
  <1>1. p \in [writes : {w}, authority : {a}, checked : {c}]
    OBVIOUS
  <1>2. ASSUME NEW x
        PROVE  [p EXCEPT !.checked = x] = [writes |-> w, authority |-> a, checked |-> x]
    BY <1>1
  <1>3. ASSUME NEW x
        PROVE  [p EXCEPT !.writes = x] = [writes |-> x, authority |-> a, checked |-> c]
    BY <1>1
  <1> QED
    BY <1>2, <1>3

\* The check of the plan against the disk goes on or gives up, and writes
\* nothing.
LEMMA CheckedStep == ASSUME Inv, NEW i \in Intakes, Checked(i) PROVE Inv'
  <1>1. /\ intake[i].writes # {} /\ UNCHANGED <<disk, arxiv, decision, crashes, amends>>
        /\ \/ intake' = [intake EXCEPT ![i].checked = TRUE]
           \/ intake' = [intake EXCEPT ![i] = Idle]
    BY DEF Checked
  <1>2. DOMAIN intake' = Intakes /\ \A j \in Intakes : j # i => intake'[j] = intake[j]
    BY <1>1 DEF Inv
  <1>3. CASE intake' = [intake EXCEPT ![i].checked = TRUE]
    <2>0. PICK p : p = intake[i]
      OBVIOUS
    <2>1. IntakeInv(i)
      BY DEF Inv
    <2>2. p = [writes |-> p.writes, authority |-> p.authority, checked |-> p.checked]
      BY <2>0, <2>1 DEF IntakeInv
    <2>3. PICK t : t = TRUE /\ intake'[i] = [p EXCEPT !.checked = t]
      BY <1>3, <2>0 DEF Inv
    <2>4. [p EXCEPT !.checked = t] = [writes |-> p.writes, authority |-> p.authority, checked |-> t]
      BY <2>2, Excepts
    <2>5. PICK q : q = [writes |-> p.writes, authority |-> p.authority, checked |-> t]
      OBVIOUS
    <2>6. intake'[i] = q /\ q.writes = p.writes /\ q.authority = p.authority /\ q.checked = TRUE
          /\ q = [writes |-> q.writes, authority |-> q.authority, checked |-> q.checked]
      BY <2>3, <2>4, <2>5
    <2>7. IntakeInv(i)'
      BY <1>1, <2>0, <2>1, <2>6 DEF IntakeInv
    <2>8. /\ \A j \in Intakes : IntakeInv(j)'
          /\ \A o \in Operators : DecisionInv(o)'
      BY <1>1, <1>2, <2>7, OthersKeep DEF Inv
    <2> QED
      BY <1>1, <1>2, <2>8 DEF Inv, DiskInv
  <1>4. CASE intake' = [intake EXCEPT ![i] = Idle]
    <2>1. intake'[i] = Idle
      BY <1>4 DEF Inv
    <2>2. /\ \A j \in Intakes : IntakeInv(j)'
          /\ \A o \in Operators : DecisionInv(o)'
      BY <1>1, <1>2, <2>1, IdleKeeps, OthersKeep DEF Inv
    <2> QED
      BY <1>1, <1>2, <2>2 DEF Inv, DiskInv
  <1> QED
    BY <1>1, <1>3, <1>4

\* A file that is chosen is a write of the intake, and what it rests on is there.
LEMMA Chosen ==
    ASSUME Inv, NEW i \in Intakes, intake[i].checked, NEW f,
           f = CHOOSE g \in intake[i].writes : \A h \in intake[i].writes : Rank(g) <= Rank(h)
    PROVE  /\ f \in intake[i].writes /\ FileOK(f)
           /\ f.kind = "lifecycle" => /\ Of("version", disk) # {}
                                      /\ \A e \in intake[i].authority : HasAuthority(disk, e)
  <1> DEFINE W == intake[i].writes
  <1>1. IntakeInv(i)
    BY DEF Inv
  <1>2. W # {} /\ \A g \in W : FileOK(g) /\ Rank(g) \in Nat
    BY <1>1, Kinds DEF IntakeInv
  <1>3. \E g \in W : \A h \in W : Rank(g) <= Rank(h)
    <2> DEFINE R == {Rank(g) : g \in W}
    <2>1. R \in SUBSET Nat /\ R # {}
      BY <1>2
    <2>2. PICK m \in R : \A n \in R : m <= n
      BY <2>1, Least
    <2> QED
      BY <2>2
  <1>4. f \in W /\ \A h \in W : Rank(f) <= Rank(h)
    BY <1>3
  <1>5. ASSUME f.kind = "lifecycle", NEW h, Rank(h) \in {1, 2, 3} PROVE h \notin W
    <2>1. EventOK(f)
      BY <1>2, <1>4, <1>5, Kinds
    <2>2. Rank(f) = 3 + f.seq /\ Rank(f) > 3
      <3>1. Rank(f) = 3 + f.seq
        BY <1>5 DEF Rank
      <3>2. f.seq \in Nat \ {0}
        BY <2>1 DEF EventOK
      <3> QED
        BY <3>1, <3>2
    <2> QED
      BY <1>2, <1>4, <1>5, <2>2
  <1>6. ASSUME f.kind = "lifecycle" PROVE Of("version", disk) # {}
    <2>1. PICK e \in Entries : Version(e) \in disk \cup W
      BY <1>1, <1>2 DEF IntakeInv
    <2>2. Version(e) \in disk
      BY <1>5, <1>6, <2>1, KindOf
    <2> QED
      BY <2>2, KindOf DEF Of
  <1>7. ASSUME f.kind = "lifecycle", NEW e \in intake[i].authority PROVE HasAuthority(disk, e)
    <2>1. e \in Entries /\ HasAuthority(disk \cup W, e)
      BY <1>1 DEF IntakeInv
    <2>2. PICK g \in Of("receipt", disk \cup W) :
            g.entry = e /\ Observation("live", e, g.response) \in disk \cup W
      BY <2>1 DEF HasAuthority
    <2>3. g.kind = "receipt" /\ g \in disk \cup W
      BY <2>2 DEF Of
    <2>4. Rank(g) \in {1, 2, 3} /\ Rank(Observation("live", e, g.response)) \in {1, 2, 3}
      BY <2>3, KindOf DEF Rank
    <2>5. g \in disk /\ Observation("live", e, g.response) \in disk
      BY <1>5, <1>7, <2>2, <2>3, <2>4
    <2>6. g \in Of("receipt", disk)
      BY <2>3, <2>5 DEF Of
    <2> QED
      BY <2>2, <2>5, <2>6 DEF HasAuthority
  <1> QED
    BY <1>2, <1>4, <1>6, <1>7

\* The write of least rank: a file that an event rests on is on disk before the
\* event.
LEMMA WriteStep == ASSUME Inv, NEW i \in Intakes, Write(i) PROVE Inv'
  <1> DEFINE f == CHOOSE g \in intake[i].writes : \A h \in intake[i].writes : Rank(g) <= Rank(h)
             good == /\ ~Conflicts(disk, f)
                     /\ f.kind = "lifecycle" => MayAppend(f, intake[i].authority)
             left == intake[i].writes \ {f}
  <1>1. /\ intake[i].checked /\ disk' = IF good THEN Stored(f) ELSE disk
        /\ intake' = [intake EXCEPT ![i] =
               IF good /\ left # {} THEN [intake[i] EXCEPT !.writes = left] ELSE Idle]
        /\ UNCHANGED <<arxiv, decision, crashes, amends>>
    BY DEF Write
  <1>2. /\ f \in intake[i].writes /\ FileOK(f)
        /\ f.kind = "lifecycle" => /\ Of("version", disk) # {}
                                   /\ \A e \in intake[i].authority : HasAuthority(disk, e)
    BY <1>1, Chosen
  <1>3. disk' = disk \/ (disk' = disk \cup {f} /\ good)
    BY <1>1 DEF Stored
  <1> HIDE DEF f
  <1>4. DiskInv'
    <2>1. CASE disk' = disk
      BY <2>1 DEF Inv, DiskInv
    <2>2. CASE disk' = disk \cup {f} /\ good
      <3>1. CASE f.kind = "lifecycle"
        <4>1. EventOK(f)
          BY <1>2, <3>1, Kinds
        <4> QED
          BY <1>2, <2>2, <3>1, <4>1, Appended DEF Inv
      <3>2. CASE f.kind # "lifecycle"
        BY <1>2, <2>2, <3>2, Added DEF Inv
      <3> QED
        BY <3>1, <3>2
    <2> QED
      BY <1>3, <2>1, <2>2
  <1>5. /\ disk \subseteq disk'
        /\ good => f \in disk'
    BY <1>1, <1>3 DEF Stored
  <1> HIDE DEF good, left
  <1>6. DOMAIN intake' = Intakes /\ \A j \in Intakes : j # i => intake'[j] = intake[j]
    BY <1>1 DEF Inv
  <1>7. IntakeInv(i)'
    <2>1. IntakeInv(i)
      BY DEF Inv
    <2>2. CASE ~(good /\ left # {})
      <3>1. intake'[i] = Idle
        BY <1>1, <2>2 DEF Inv
      <3> QED
        BY <3>1, IdleKeeps
    <2>3. CASE good /\ left # {}
      <3>1. PICK p : p = intake[i]
        OBVIOUS
      <3>2. intake'[i] = [p EXCEPT !.writes = left]
        BY <1>1, <2>3, <3>1 DEF Inv
      <3>3. p = [writes |-> p.writes, authority |-> p.authority, checked |-> p.checked]
        BY <2>1, <3>1 DEF IntakeInv
      <3>4. [p EXCEPT !.writes = left] =
               [writes |-> left, authority |-> p.authority, checked |-> p.checked]
        BY <3>3, Excepts
      <3>5. PICK q : q = [writes |-> left, authority |-> p.authority, checked |-> p.checked]
        OBVIOUS
      <3>6. /\ intake'[i] = q /\ q.writes = left /\ q.authority = p.authority /\ q.checked = p.checked
            /\ q = [writes |-> q.writes, authority |-> q.authority, checked |-> q.checked]
        BY <3>2, <3>4, <3>5
      <3>7. left \subseteq p.writes /\ disk \cup p.writes \subseteq disk' \cup left
        <4>1. left = p.writes \ {f}
          BY <3>1 DEF left
        <4> QED
          BY <1>5, <2>3, <4>1
      <3>8. \A e : HasAuthority(disk \cup p.writes, e) => HasAuthority(disk' \cup left, e)
        BY <3>7, Authorised
      <3> QED
        BY <2>1, <2>3, <3>1, <3>6, <3>7, <3>8 DEF IntakeInv
    <2> QED
      BY <2>2, <2>3
  <1>8. /\ \A j \in Intakes : IntakeInv(j)'
        /\ \A o \in Operators : DecisionInv(o)'
    <2>1. /\ \A j \in Intakes : IntakeInv(j) /\ intake'[j] = intake[j] => IntakeInv(j)'
          /\ \A o \in Operators : DecisionInv(o) /\ decision'[o] = decision[o] => DecisionInv(o)'
      BY <1>5, OthersKeep
    <2> QED
      BY <1>1, <1>6, <1>7, <2>1 DEF Inv
  <1> QED
    BY <1>1, <1>4, <1>6, <1>8 DEF Inv

\* A crash between two writes: what is on disk loads, and the intake is
\* forgotten.
LEMMA CrashStep == ASSUME Inv, NEW i \in Intakes, Crash(i) PROVE Inv'
  <1>1. /\ crashes < MaxCrashes /\ crashes' = crashes + 1 /\ intake' = [intake EXCEPT ![i] = Idle]
        /\ UNCHANGED <<disk, arxiv, decision, amends>>
    BY DEF Crash
  <1>2. DOMAIN intake' = Intakes /\ intake'[i] = Idle
        /\ \A j \in Intakes : j # i => intake'[j] = intake[j]
    BY <1>1 DEF Inv
  <1>3. /\ \A j \in Intakes : IntakeInv(j)'
        /\ \A o \in Operators : DecisionInv(o)'
    BY <1>1, <1>2, IdleKeeps, OthersKeep DEF Inv
  <1>4. crashes' \in 0 .. MaxCrashes
    BY <1>1 DEF Inv
  <1> QED
    BY <1>1, <1>2, <1>3, <1>4 DEF Inv, DiskInv

\* An operator plans an event after the last one, with the evidence it needs.
LEMMA PlanTransitionStep == ASSUME Inv, NEW o \in Operators, PlanTransition(o) PROVE Inv'
  <1>1. PICK to \in Allowed[Current(disk)] \ {"metadata_verified"}, at \in Last(disk).at .. MaxTime :
          decision' = [decision EXCEPT ![o] =
                <<Event(<<Last(disk)>>, Current(disk), to, at,
                        IF to \in EvidenceRequired THEN Entries ELSE {},
                        to \in RevisitRequired)>>]
    BY DEF PlanTransition
  <1>2. PICK v : v = Event(<<Last(disk)>>, Current(disk), to, at,
                        IF to \in EvidenceRequired THEN Entries ELSE {},
                        to \in RevisitRequired)
    OBVIOUS
  <1>3. /\ Cardinality(Ledger(disk)) \in 1 .. MaxEvents - 1
        /\ UNCHANGED <<disk, arxiv, intake, crashes, amends>>
    BY DEF PlanTransition
  <1>4. DiskInv
    BY DEF Inv
  <1>5. Ledger(disk) # {}
    <2>1. Cardinality({}) = 0
      BY FS_EmptySet
    <2> QED
      BY <1>3, <2>1
  <1>6. EventOK(Last(disk)) /\ Current(disk) = Last(disk).to
    BY <1>4, <1>5, LedgerIs
  <1>7. Current(disk) \in Statuses /\ Last(disk).at \in 0 .. MaxTime /\ Last(disk).seq \in Nat \ {0}
    BY <1>6 DEF EventOK
  <1>8. v = [kind |-> "lifecycle", seq |-> Last(disk).seq + 1, prev |-> <<Last(disk)>>,
             from |-> Current(disk), to |-> to, at |-> at,
             evidence |-> IF to \in EvidenceRequired THEN Entries ELSE {},
             revisit |-> to \in RevisitRequired]
    BY <1>2 DEF Event
  <1>9. v.kind = "lifecycle" /\ v.seq = Last(disk).seq + 1 /\ v.from = Current(disk) /\ v.to = to /\ v.at = at
    BY <1>8
  <1>10. to \in Statuses
    BY <1>7, AllowedAre
  <1>11. EventOK(v)
    BY <1>7, <1>9, <1>10 DEF EventOK
  <1>12. v.from # "none"
    BY <1>7, <1>9 DEF Statuses
  <1>13. DOMAIN decision' = Operators /\ decision'[o] = <<v>>
         /\ \A p \in Operators : p # o => decision'[p] = decision[p]
    BY <1>1, <1>2 DEF Inv
  <1>14. DecisionInv(o)'
    BY <1>11, <1>12, <1>13 DEF DecisionInv
  <1>15. /\ \A j \in Intakes : IntakeInv(j)'
         /\ \A p \in Operators : DecisionInv(p)'
    BY <1>3, <1>13, <1>14, OthersKeep DEF Inv
  <1> QED
    BY <1>3, <1>13, <1>15 DEF Inv, DiskInv

\* The planned event is appended if the ledger still ends where it was planned.
LEMMA ApplyTransitionStep == ASSUME Inv, NEW o \in Operators, ApplyTransition(o) PROVE Inv'
  <1>1. PICK v : v = decision[o][1]
    OBVIOUS
  <1>2. /\ decision[o] # <<>> /\ decision' = [decision EXCEPT ![o] = <<>>]
        /\ disk' = IF Current(disk) = v.from /\ MayAppend(v, {}) THEN Stored(v) ELSE disk
        /\ UNCHANGED <<arxiv, intake, crashes, amends>>
    BY <1>1 DEF ApplyTransition
  <1>3. EventOK(v) /\ v.from # "none"
    BY <1>1, <1>2 DEF Inv, DecisionInv
  <1>4. DiskInv'
    <2>1. CASE disk' = disk
      BY <2>1 DEF Inv, DiskInv
    <2>2. CASE disk' # disk
      <3>1. Current(disk) = v.from /\ MayAppend(v, {}) /\ disk' = disk \cup {v}
        BY <1>2, <2>2 DEF Stored
      <3>2. Ledger(disk) # {}
        BY <1>3, <3>1 DEF Current
      <3>3. Of("version", disk) # {}
        BY <3>2 DEF Inv, DiskInv, Consistent
      <3> QED
        BY <1>3, <3>1, <3>3, Appended DEF Inv
    <2> QED
      BY <2>1, <2>2
  <1>5. disk \subseteq disk'
    BY <1>2 DEF Stored
  <1>6. DOMAIN decision' = Operators /\ decision'[o] = <<>>
        /\ \A p \in Operators : p # o => decision'[p] = decision[p]
    BY <1>2 DEF Inv
  <1>7. DecisionInv(o)'
    BY <1>6 DEF DecisionInv
  <1>8. /\ \A j \in Intakes : IntakeInv(j)'
        /\ \A p \in Operators : DecisionInv(p)'
    BY <1>2, <1>5, <1>6, <1>7, OthersKeep DEF Inv
  <1> QED
    BY <1>2, <1>4, <1>6, <1>8 DEF Inv

\* A new response, which may amend the metadata upstream, changes no file.
LEMMA AnswerStep == ASSUME Inv, NEW e \in Entries, Answer(e) PROVE Inv'
  <1>1. /\ arxiv.response < MaxResponses /\ (e # arxiv.entry => amends < MaxAmends)
        /\ arxiv' = [entry |-> e, response |-> arxiv.response + 1]
        /\ amends' = IF e # arxiv.entry THEN amends + 1 ELSE amends
        /\ UNCHANGED <<disk, intake, decision, crashes>>
    BY DEF Answer
  <1>2. amends' \in 0 .. MaxAmends
    BY <1>1 DEF Inv
  <1>3. arxiv' \in [entry : Entries, response : 1 .. MaxResponses]
    <2>1. arxiv.response + 1 \in 1 .. MaxResponses
      BY <1>1 DEF Inv
    <2> QED
      BY <1>1, <2>1
  <1>4. /\ \A j \in Intakes : IntakeInv(j)'
        /\ \A p \in Operators : DecisionInv(p)'
    BY <1>1, OthersKeep DEF Inv
  <1> QED
    BY <1>1, <1>2, <1>3, <1>4 DEF Inv, DiskInv

\* Every step preserves the invariant.
LEMMA NextStep == ASSUME Inv, [Next]_vars PROVE Inv'
  <1>1. CASE UNCHANGED vars
    <2>1. UNCHANGED <<disk, arxiv, intake, decision, crashes, amends>>
      BY <1>1 DEF vars
    <2>2. /\ \A j \in Intakes : IntakeInv(j)'
          /\ \A p \in Operators : DecisionInv(p)'
      BY <2>1, OthersKeep DEF Inv
    <2> QED
      BY <2>1, <2>2 DEF Inv, DiskInv
  <1>2. CASE \E i \in Intakes, e \in Entries : PlanIntake(i, e)
    BY <1>2, PlanIntakeStep
  <1>3. CASE \E i \in Intakes : Checked(i) \/ Write(i) \/ Crash(i)
    BY <1>3, CheckedStep, WriteStep, CrashStep
  <1>4. CASE \E o \in Operators : PlanTransition(o) \/ ApplyTransition(o)
    BY <1>4, PlanTransitionStep, ApplyTransitionStep
  <1>5. CASE \E e \in Entries : Answer(e)
    BY <1>5, AnswerStep
  <1> QED
    BY <1>1, <1>2, <1>3, <1>4, <1>5 DEF Next

-----------------------------------------------------------------------------
(* The theorems                                                            *)

\* research_radar.py apply_plan and apply_transition: the invariant of the
\* records of a version.
THEOREM Invariance == Spec => []Inv
  <1> QED
    BY Initially, NextStep, PTL DEF Spec

\* research_radar.py _validate_planned_write: files, plans and decisions are
\* of their kinds, and an offline intake has no authority.
THEOREM TypeCorrect == Spec => []TypeOK
  <1>1. ASSUME Inv PROVE TypeOK
    <2>1. \A f \in disk : f.kind \in {"paper", "version", "observation", "receipt", "lifecycle"}
      BY <1>1, Kinds DEF Inv, DiskInv
    <2>2. \A v \in Ledger(disk) : v.to \in Statuses /\ v.at \in 0 .. MaxTime /\ v.seq >= 1
      BY <1>1, LedgerIs DEF Inv, EventOK
    <2>3. ASSUME NEW o \in Operators PROVE Len(decision[o]) <= 1
      <3>1. decision[o] = <<>> \/ decision[o] = <<decision[o][1]>>
        BY <1>1 DEF Inv, DecisionInv
      <3>2. Len(<<>>) = 0 /\ \A x : Len(<<x>>) = 1
        OBVIOUS
      <3>3. Len(decision[o]) = 0 \/ Len(decision[o]) = 1
        BY <3>1, <3>2, Zenon
      <3>4. \A n : n = 0 \/ n = 1 => n <= 1
        OBVIOUS
      <3> QED
        BY <3>3, <3>4, Zenon
    <2>4. \A i \in Intakes :
            /\ intake[i].authority \subseteq Entries /\ intake[i].checked \in BOOLEAN
            /\ i = "offline" => intake[i].authority = {}
      BY <1>1 DEF Inv, IntakeInv
    <2> QED
      BY <1>1, <2>1, <2>2, <2>3, <2>4 DEF Inv, TypeOK
  <1> QED
    BY <1>1, Invariance, PTL

\* research_radar.py load_lifecycle: whatever intakes and operators do at
\* once, and wherever one dies, the ledger is a chain whose verification has
\* its receipt, and it loads unless more receipts were written than are read.
THEOREM LedgerAlwaysConsistent == Spec => []LedgerLoads
  <1>1. ASSUME Inv PROVE LedgerLoads
    <2>1. Consistent(disk, FALSE)
      BY <1>1 DEF Inv, DiskInv
    <2> QED
      BY <2>1 DEF LedgerLoads, Loads
  <1> QED
    BY <1>1, Invariance, PTL
=============================================================================
