---------------------------- MODULE RadarSyncProofs ----------------------------
(***************************************************************************)
(* Proofs about RadarSync, for any lengths, budgets, papers and bounds.    *)
(* A cursor counts papers of a listing that goes on changing: the          *)
(* invariant says that it is right for SOME listing that was seen since    *)
(* (Covers), that the listings seen grow into one another, so that equal   *)
(* totals mean equal windows, and the same of a page read from the cache.  *)
(***************************************************************************)
EXTENDS RadarSync, FiniteSetTheorems, WellFoundedInduction, TLAPS

-----------------------------------------------------------------------------
(* Sets of natural numbers.                                                *)

\* A nonempty set of numbers has a least one.
LEMMA Least ==
    ASSUME NEW S \in SUBSET Nat, S # {} PROVE \E m \in S : \A n \in S : m <= n
  <1> DEFINE R == {ss \in Nat \X Nat : ss[1] < ss[2]}
  <1>1. IsWellFoundedOn(R, Nat)
    BY NatLessThanWellFounded DEF OpToRel
  <1> HIDE DEF R
  <1>2. PICK m \in S : \A n \in S : ~(<<n, m>> \in R)
    BY <1>1, WFMin
  <1>3. \A n \in S : ~(n < m)
    BY <1>2 DEF R
  <1> QED
    BY <1>3

\* Max of FiniteSetsExt is a maximum.
LEMMA Greatest ==
    ASSUME NEW N \in Nat, NEW S \in SUBSET (1 .. N), S # {}
    PROVE  Max(S) \in S /\ \A n \in S : n <= Max(S)
  <1> DEFINE T == {N - n : n \in S}
  <1>1. T \in SUBSET Nat /\ T # {}
    <2>1. \A n \in S : n \in 1 .. N
      OBVIOUS
    <2>2. \A n \in S : N - n \in Nat
      BY <2>1
    <2> QED
      BY <2>2
  <1>2. PICK t \in T : \A u \in T : t <= u
    BY <1>1, Least
  <1>3. PICK m \in S : t = N - m
    OBVIOUS
  <1>4. \A n \in S : m >= n
    BY <1>2, <1>3
  <1> QED
    BY <1>4 DEF Max

\* How many elements of S are later than k: its place in a listing.
Rank(S, k) == Cardinality({j \in S : j > k})
Below(S, k) == Cardinality({j \in S : j < k})

\* A part of a finite set has no more elements, and less unless it is the
\* whole.
LEMMA Part ==
    ASSUME NEW S, IsFiniteSet(S), NEW T \in SUBSET S
    PROVE  /\ IsFiniteSet(T) /\ Cardinality(T) \in Nat /\ Cardinality(S) \in Nat
           /\ Cardinality(T) <= Cardinality(S)
           /\ T # S => Cardinality(T) < Cardinality(S)
  BY FS_Subset, FS_CardinalityType

\* Every paper of a listing has a place in it.
LEMMA RankBounded ==
    ASSUME NEW S \in SUBSET Nat, IsFiniteSet(S), NEW k \in S
    PROVE  Rank(S, k) \in Nat /\ Rank(S, k) < Cardinality(S)
  <1>1. {j \in S : j > k} \in SUBSET S /\ {j \in S : j > k} # S
    OBVIOUS
  <1> QED
    BY <1>1, Part DEF Rank

\* A listing is newest first: an earlier paper has a later place.
LEMMA RankFalls ==
    ASSUME NEW S \in SUBSET Nat, IsFiniteSet(S), NEW k \in S, NEW j \in S, j < k
    PROVE  Rank(S, k) < Rank(S, j)
  <1> DEFINE K == {i \in S : i > k}
             J == {i \in S : i > j}
  <1>0. \A i \in S : i \in Nat
    OBVIOUS
  <1>a. \A i \in S : i > k => i > j
    BY <1>0
  <1>b. k \in J /\ k \notin K
    BY <1>0
  <1>1. K \in SUBSET J /\ J \in SUBSET S /\ k \in J /\ k \notin K
    BY <1>a, <1>b
  <1>2. IsFiniteSet(J)
    BY <1>1, Part
  <1>3. Cardinality(K) < Cardinality(J)
    BY <1>1, <1>2, Part
  <1> QED
    BY <1>3 DEF Rank

\* A page has no more papers than it was asked for.
LEMMA PageBounded ==
    ASSUME NEW S \in SUBSET Nat, IsFiniteSet(S), NEW offset \in Nat, NEW limit \in Nat
    PROVE  LET ids == {k \in S : offset <= Rank(S, k) /\ Rank(S, k) < offset + limit}
           IN Cardinality(ids) \in Nat /\ Cardinality(ids) <= limit
  <1> DEFINE ids == {k \in S : offset <= Rank(S, k) /\ Rank(S, k) < offset + limit}
             T == offset .. (offset + limit - 1)
             f == [k \in ids |-> Rank(S, k)]
  <1>1. f \in [ids -> T]
    <2> SUFFICES ASSUME NEW k \in ids PROVE Rank(S, k) \in T
      OBVIOUS
    <2>1. Rank(S, k) \in Nat /\ offset <= Rank(S, k) /\ Rank(S, k) < offset + limit
      BY RankBounded
    <2> QED
      BY <2>1
  <1>2. \A j, k \in ids : f[j] = f[k] => j = k
    <2> SUFFICES ASSUME NEW j \in ids, NEW k \in ids, j # k PROVE f[j] # f[k]
      OBVIOUS
    <2>1. Rank(S, j) \in Nat /\ Rank(S, k) \in Nat
      BY RankBounded
    <2>2. CASE j < k
      BY <2>1, <2>2, RankFalls
    <2>3. CASE k < j
      BY <2>1, <2>3, RankFalls
    <2> QED
      BY <2>2, <2>3
  <1>3. f \in Injection(ids, T)
    BY <1>1, <1>2 DEF Injection, IsInjective
  <1>4. IsFiniteSet(T) /\ Cardinality(T) = limit
    BY FS_Interval
  <1> HIDE DEF f, T
  <1>5. IsFiniteSet(ids) /\ Cardinality(ids) <= limit
    BY <1>3, <1>4, FS_Injection
  <1> QED
    BY <1>5, FS_CardinalityType

\* What Smallest selects.
LEMMA SmallestOf ==
    ASSUME NEW S \in SUBSET Nat, IsFiniteSet(S), NEW n \in Nat
    PROVE  /\ Smallest(n, S) \subseteq S
           /\ Cardinality(S) <= n => Smallest(n, S) = S
           /\ \A k \in Smallest(n, S) : \A j \in S : j <= k => j \in Smallest(n, S)
           /\ S # {} /\ n > 0 => Smallest(n, S) # {}
  <1>1. \A k \in S : Below(S, k) \in Nat /\ Below(S, k) < Cardinality(S)
    <2> TAKE k \in S
    <2>1. {j \in S : j < k} \in SUBSET S /\ {j \in S : j < k} # S
      OBVIOUS
    <2> QED
      BY <2>1, Part DEF Below
  <1>2. \A j, k \in S : j <= k => Below(S, j) <= Below(S, k)
    <2> TAKE j, k \in S
    <2> HAVE j <= k
    <2>0. \A i \in S : i \in Nat
      OBVIOUS
    <2>a. \A i \in S : i < j => i < k
      BY <2>0
    <2>1. {i \in S : i < j} \in SUBSET {i \in S : i < k} /\ {i \in S : i < k} \in SUBSET S
      BY <2>a
    <2>2. IsFiniteSet({i \in S : i < k})
      BY <2>1, Part
    <2> QED
      BY <2>1, <2>2, Part DEF Below
  <1>3. Smallest(n, S) = {k \in S : Below(S, k) < n}
    BY DEF Smallest, Below
  <1>4. Cardinality(S) \in Nat
    BY FS_CardinalityType
  <1>5. Cardinality(S) <= n => Smallest(n, S) = S
    <2> SUFFICES ASSUME Cardinality(S) <= n, NEW k \in S PROVE Below(S, k) < n
      BY <1>3
    <2>1. Below(S, k) \in Nat /\ Below(S, k) < Cardinality(S)
      BY <1>1
    <2> QED
      BY <1>4, <2>1
  <1>6. \A k \in Smallest(n, S) : \A j \in S : j <= k => j \in Smallest(n, S)
    <2> SUFFICES ASSUME NEW k \in S, NEW j \in S, Below(S, k) < n, j <= k PROVE Below(S, j) < n
      BY <1>3
    <2>1. Below(S, k) \in Nat /\ Below(S, j) \in Nat /\ Below(S, j) <= Below(S, k)
      BY <1>1, <1>2
    <2> QED
      BY <2>1
  <1>7. ASSUME S # {}, n > 0 PROVE Smallest(n, S) # {}
    <2>1. PICK m \in S : \A i \in S : m <= i
      BY <1>7, Least
    <2>0. \A i \in S : i \in Nat
      OBVIOUS
    <2>a. \A i \in S : ~(i < m)
      BY <2>0, <2>1
    <2>2. {i \in S : i < m} = {}
      BY <2>a
    <2>3. Below(S, m) = 0
      BY <2>2, FS_EmptySet DEF Below
    <2> QED
      BY <1>3, <1>7, <2>3
  <1> QED
    BY <1>3, <1>5, <1>6, <1>7

-----------------------------------------------------------------------------
(* The invariant                                                           *)

Opt(S) == {<<>>} \cup {<<x>> : x \in S}

Submissions == [at : Nat, listed : BOOLEAN]
Cycles == [start : Int, next : Nat, config : Nat, end : Int, total : Int]
Lasts == [end : Int, config : Nat]
Items == [attempts : 0 .. AttemptCap, next : Int]
Queues == UNION {[D -> Items] : D \in SUBSET Artifacts}
Seens == UNION {[D -> {"verified", "manual_review", "unverified"}] : D \in SUBSET Artifacts}
States == [lastDay : Int, last : Opt(Lasts), cycle : Opt(Cycles), recheckDone : Int,
           after : Nat, pending : Queues]
Pages == [ids : SUBSET Nat, total : Nat, known : SUBSET Nat]
Locators == [start : Int, end : Int, offset : Nat, config : Nat]
RunRecs == [phase : {"resolve", "artifacts", "state"}, daily : BOOLEAN, recheck : BOOLEAN,
            d : [cycle : Cycles, complete : BOOLEAN],
            r : [ids : SUBSET Nat, complete : BOOLEAN],
            exact : SUBSET Nat, listed : SUBSET Nat, pending : Queues, seen : Seens]

Listed == {k \in Papers : arxiv[k].listed}

\* The window [start, end) of a listing.
In(K, start, end) == {k \in K : start <= arxiv[k].at /\ arxiv[k].at < end}

\* The page is one of a listing that arXiv has had: it holds the papers from
\* its offset on, as many as it holds.
PageOK(page, start, end, offset) ==
    LET S == In(page.known, start, end) IN
    /\ page.known \subseteq Listed /\ page.total = Cardinality(S) /\ page.ids \subseteq S
    /\ \A k \in S : Rank(S, k) < offset + Cardinality(page.ids)
                      => Rank(S, k) < offset \/ k \in page.ids

\* What the cursor has passed, in the window of listing K, is in `done`.
Covers(c, K, done) ==
    LET S == In(K, c.start, c.end) IN
    /\ K \subseteq Listed /\ c.total = Cardinality(S)
    /\ \A k \in S : Rank(S, k) < c.next => k \in done

\* Listings grow: of two of them one contains the other.
Chained(K) == \A e \in cache : K \subseteq e.page.known \/ e.page.known \subseteq K

\* A window starts where the one before it ended, or earlier.
Follows(c) == st.last # <<>> /\ st.last[1].config = c.config => c.start <= st.last[1].end

CycleOK(c, done) ==
    /\ c.start < c.end /\ c.end <= now /\ c.next \in 0 .. c.total /\ Follows(c)
    /\ \E K \in SUBSET Listed : Covers(c, K, done) /\ Chained(K)

CacheInv ==
    \A e \in cache :
        /\ PageOK(e.page, e.locator.start, e.locator.end, e.locator.offset)
        /\ Chained(e.page.known)

StateInv ==
    /\ st.cycle # <<>> => CycleOK(st.cycle[1], catalog)
    /\ st.last # <<>> => st.last[1].end <= now
    /\ st.lastDay \in {Never} \cup 0 .. now /\ st.recheckDone \in {Never} \cup 0 .. now
    /\ st.after \in {0} \cup catalog

\* The window of run a, when it has resolved what it found.
WindowInv(a) ==
    a.daily =>
      LET c == a.d.cycle
          done == catalog \cup a.exact
      IN /\ c.config = config
         /\ IF a.d.complete
              THEN In(a.listed, c.start, c.end) \subseteq done /\ Follows(c) /\ c.end <= now
              ELSE CycleOK(c, done)

\* Its part of the recheck: every paper up to the next cursor.
RecheckRun(a) ==
    a.recheck =>
      /\ a.r.complete => \A k \in catalog : k > st.after => k \in a.exact
      /\ ~a.r.complete =>
           /\ Max(a.r.ids) \in a.exact
           /\ \A k \in catalog : st.after < k /\ k <= Max(a.r.ids) => k \in a.exact

Settled(a, k) == k \in DOMAIN a.seen /\ a.seen[k] \in {"verified", "manual_review"}

\* Its queue: an artifact keeps its attempts until it is settled; and what
\* is settled is not checked again.
QueueInv(a) ==
    /\ a.phase # "state" => \A k \in DOMAIN a.seen : ~Terminal(k)
    /\ \A k \in DOMAIN st.pending :
         \/ Terminal(k)
         \/ a.phase = "artifacts" /\ Settled(a, k)
         \/ k \in DOMAIN a.pending /\ a.pending[k].attempts >= st.pending[k].attempts

RunInv ==
    run # <<>> =>
      /\ WindowInv(run[1]) /\ RecheckRun(run[1]) /\ QueueInv(run[1])
      /\ run[1].exact \subseteq Papers /\ run[1].listed \subseteq Papers
      /\ run[1].phase # "resolve" => run[1].exact \subseteq catalog

DutyInv ==
    st.after # 0 => duty \subseteq catalog /\ \A k \in duty : k <= st.after => k \in checked

TypeInv ==
    /\ now \in 0 .. MaxTime /\ config \in 1 .. MaxConfigs /\ failures \in 0 .. MaxFailures
    /\ arxiv \in Seq(Submissions)
    /\ catalog \in SUBSET Papers
    /\ cache \in SUBSET [locator : Locators, page : Pages]
    /\ st \in States /\ run \in Opt(RunRecs)

Inv == TypeInv /\ CacheInv /\ StateInv /\ RunInv /\ DutyInv /\ NothingSkipped

USE SyncAssumption

\* The bounds are numbers, and the windows are not empty.
LEMMA Constants ==
    /\ Lookback \in Nat /\ Lookback > 0 /\ MaxRecheck \in Nat /\ MaxRecheck > 0
    /\ MaxFrontier \in Nat /\ MaxBacklog \in Nat /\ MaxArtifacts \in Nat /\ AttemptCap \in Nat
    /\ MaxPapers \in Nat /\ MaxTime \in Nat /\ MaxFailures \in Nat /\ MaxConfigs \in Nat
    /\ MaxConfigs > 0
  OBVIOUS

-----------------------------------------------------------------------------
(* Listings, windows and pages                                             *)

\* The papers are numbered, and the listed ones are among them.
LEMMA PapersAre ==
    ASSUME TypeInv
    PROVE  /\ Len(arxiv) \in Nat /\ Papers = 1 .. Len(arxiv) /\ Papers \in SUBSET Nat /\ IsFiniteSet(Papers)
           /\ \A k \in Papers : arxiv[k].at \in Nat /\ arxiv[k].listed \in BOOLEAN
           /\ Listed \in SUBSET Papers
  <1>1. Len(arxiv) \in Nat /\ Papers = 1 .. Len(arxiv)
    BY DEF TypeInv, Papers
  <1>2. IsFiniteSet(Papers)
    BY <1>1, FS_Interval
  <1>3. \A k \in Papers : arxiv[k] \in [at : Nat, listed : BOOLEAN]
    <2>1. arxiv \in Seq(Submissions)
      BY DEF TypeInv
    <2>2. \A k \in 1 .. Len(arxiv) : arxiv[k] \in Submissions
      BY <2>1
    <2> QED
      BY <1>1, <2>2 DEF Submissions
  <1> QED
    BY <1>1, <1>2, <1>3 DEF Listed

\* The papers of a window are finitely many of those asked for.
LEMMA WindowIs ==
    ASSUME TypeInv, NEW K \in SUBSET Papers, NEW start, NEW end
    PROVE  /\ In(K, start, end) \in SUBSET K /\ In(K, start, end) \in SUBSET Nat
           /\ IsFiniteSet(In(K, start, end)) /\ Cardinality(In(K, start, end)) \in Nat
  <1>1. In(K, start, end) \in SUBSET Papers
    BY DEF In
  <1>2. Papers \in SUBSET Nat /\ IsFiniteSet(Papers)
    BY PapersAre
  <1>3. IsFiniteSet(In(K, start, end)) /\ Cardinality(In(K, start, end)) \in Nat
    BY <1>1, <1>2, Part
  <1> QED
    BY <1>1, <1>2, <1>3 DEF In

\* Two listings with the same total, of which one contains the other, have
\* the same papers in the window.
LEMMA SameWindow ==
    ASSUME TypeInv, NEW K \in SUBSET Papers, NEW L \in SUBSET Papers, NEW start, NEW end,
           K \subseteq L \/ L \subseteq K,
           Cardinality(In(K, start, end)) = Cardinality(In(L, start, end))
    PROVE  In(K, start, end) = In(L, start, end)
  <1>1. IsFiniteSet(In(K, start, end)) /\ IsFiniteSet(In(L, start, end))
    BY WindowIs
  <1>2. CASE K \subseteq L
    <2>1. In(K, start, end) \in SUBSET In(L, start, end)
      BY <1>2 DEF In
    <2> QED
      BY <1>1, <2>1, FS_Subset
  <1>3. CASE L \subseteq K
    <2>1. In(L, start, end) \in SUBSET In(K, start, end)
      BY <1>3 DEF In
    <2> QED
      BY <1>1, <2>1, FS_Subset
  <1> QED
    BY <1>2, <1>3

\* A page that arXiv returns now.
LEMMA PageGood ==
    ASSUME TypeInv, NEW start \in Int, NEW end \in Int, NEW offset \in Nat, NEW limit \in Nat
    PROVE  LET page == Page(start, end, offset, limit)
           IN page \in Pages /\ PageOK(page, start, end, offset) /\ page.known = Listed
  <1> DEFINE S == In(Listed, start, end)
             ids == {k \in S : offset <= Rank(S, k) /\ Rank(S, k) < offset + limit}
  <1>1. S \in SUBSET Nat /\ IsFiniteSet(S) /\ Cardinality(S) \in Nat /\ Listed \in SUBSET Nat
    BY WindowIs, PapersAre
  <1>2. Window(start, end) = S
    BY DEF Window, Listed, In
  <1>3. Page(start, end, offset, limit) = [ids |-> ids, total |-> Cardinality(S), known |-> Listed]
    BY <1>2 DEF Page, Rank, Listed
  <1> DEFINE page == [ids |-> ids, total |-> Cardinality(S), known |-> Listed]
  <1>4. page \in Pages
    BY <1>1 DEF Pages
  <1>5. Cardinality(ids) \in Nat /\ Cardinality(ids) <= limit
    BY <1>1, PageBounded
  <1>6. \A k \in S : Rank(S, k) < offset + Cardinality(ids) => Rank(S, k) < offset \/ k \in ids
    <2> SUFFICES ASSUME NEW k \in S, Rank(S, k) < offset + Cardinality(ids), ~(Rank(S, k) < offset)
                 PROVE  k \in ids
      OBVIOUS
    <2>1. Rank(S, k) \in Nat
      BY <1>1, RankBounded
    <2>2. offset <= Rank(S, k) /\ Rank(S, k) < offset + limit
      BY <1>5, <2>1
    <2> QED
      BY <2>2
  <1>7. PageOK(page, start, end, offset)
    BY <1>6 DEF PageOK
  <1> QED
    BY <1>3, <1>4, <1>7

\* What a page makes of the cursor of its window.
LEMMA AdvanceGood ==
    ASSUME TypeInv, NEW w \in Cycles, NEW page \in Pages,
           PageOK(page, w.start, w.end, w.next),
           w.total = Never => w.next = 0,
           w.total # Never => \E K \in SUBSET Listed :
                                 /\ Covers(w, K, catalog)
                                 /\ K \subseteq page.known \/ page.known \subseteq K
    PROVE  LET d == Advance(w, page) IN
           /\ d \in [cycle : Cycles, complete : BOOLEAN]
           /\ d.cycle.start = w.start /\ d.cycle.end = w.end /\ d.cycle.config = w.config
           /\ d.complete => In(page.known, w.start, w.end) \subseteq catalog \cup page.ids
           /\ ~d.complete => /\ d.cycle.next \in 0 .. d.cycle.total
                             /\ Covers(d.cycle, page.known, catalog \cup page.ids)
  <1> DEFINE S     == In(page.known, w.start, w.end)
             moved == w.total # Never /\ w.total # page.total
             next  == IF moved THEN 0 ELSE w.next + Cardinality(page.ids)
             cycle == [w EXCEPT !.next = next, !.total = page.total]
             d     == [cycle |-> cycle, complete |-> ~moved /\ next >= page.total]
  <1>1. /\ S \in SUBSET Nat /\ IsFiniteSet(S) /\ Cardinality(S) \in Nat
        /\ page.known \in SUBSET Papers /\ page.known \in SUBSET Listed
        /\ page.total = Cardinality(S) /\ page.ids \in SUBSET S
    BY WindowIs, PapersAre DEF PageOK
  <1>2. Cardinality(page.ids) \in Nat
    BY <1>1, Part
  <1>3. w.next \in Nat /\ w.total \in Int /\ next \in Nat
    BY <1>2 DEF Cycles
  <1>4. cycle \in Cycles /\ cycle.next = next /\ cycle.total = page.total
        /\ cycle.start = w.start /\ cycle.end = w.end /\ cycle.config = w.config
    <2>1. page.total \in Int
      BY <1>1
    <2> HIDE DEF S, next
    <2>2. cycle \in Cycles
      BY <1>3, <2>1 DEF Cycles
    <2>3. cycle.next = next /\ cycle.total = page.total
      BY DEF Cycles
    <2>4. cycle.start = w.start /\ cycle.end = w.end /\ cycle.config = w.config
      BY DEF Cycles
    <2> QED
      BY <2>2, <2>3, <2>4
  <1>5. \A k \in S : Rank(S, k) \in Nat /\ Rank(S, k) < Cardinality(S)
    BY <1>1, RankBounded
  <1>6. \A k \in S : Rank(S, k) < next => k \in catalog \cup page.ids
    <2> SUFFICES ASSUME NEW k \in S, Rank(S, k) < next PROVE k \in catalog \cup page.ids
      OBVIOUS
    <2>1. ~moved /\ next = w.next + Cardinality(page.ids)
      BY <1>5
    <2>2. Rank(S, k) < w.next \/ k \in page.ids
      BY <2>1 DEF PageOK
    <2>3. CASE w.total = Never
      BY <1>5, <2>2, <2>3
    <2>4. CASE w.total # Never
      <3>1. PICK K \in SUBSET Listed : /\ Covers(w, K, catalog)
                                       /\ K \subseteq page.known \/ page.known \subseteq K
        BY <2>4
      <3>2. K \in SUBSET Papers /\ Cardinality(In(K, w.start, w.end)) = Cardinality(S)
        BY <1>1, <2>1, <2>4, <3>1, PapersAre DEF Covers
      <3>3. In(K, w.start, w.end) = S
        BY <1>1, <3>1, <3>2, SameWindow
      <3> QED
        BY <2>2, <3>1, <3>3 DEF Covers
    <2> QED
      BY <2>3, <2>4
  <1>7. Advance(w, page) = d
    BY DEF Advance
  <1>8. ASSUME ~moved, next >= page.total PROVE S \subseteq catalog \cup page.ids
    BY <1>1, <1>3, <1>5, <1>6, <1>8
  <1>9. ASSUME ~(~moved /\ next >= page.total) PROVE next \in 0 .. page.total
    BY <1>1, <1>3, <1>9
  <1>10. Covers(cycle, page.known, catalog \cup page.ids)
    BY <1>1, <1>4, <1>6 DEF Covers
  <1> QED
    <2>1. /\ d.cycle = cycle /\ d \in [cycle : Cycles, complete : BOOLEAN]
          /\ d.complete => ~moved /\ next >= page.total
          /\ ~d.complete => ~(~moved /\ next >= page.total)
      BY <1>4
    <2>2. /\ d.complete => S \subseteq catalog \cup page.ids
          /\ ~d.complete => next \in 0 .. page.total
      BY <1>8, <1>9, <2>1
    <2> HIDE DEF moved, next, cycle, d
    <2> QED
      BY <1>4, <1>7, <1>10, <2>1, <2>2

-----------------------------------------------------------------------------
(* The steps                                                               *)

\* Between runs nothing is owed to a run.
LEMMA NoRunInv == run = <<>> => RunInv
  BY DEF RunInv

\* Nothing was synchronised and nothing is in progress.
LEMMA Initially == Init => Inv
  <1> SUFFICES ASSUME Init PROVE Inv
    OBVIOUS
  <1>1. TypeInv
    <2>1. [k \in {} |-> Pending] \in Queues
      <3>1. [k \in {} |-> Pending] \in [{} -> Items] /\ {} \in SUBSET Artifacts
        OBVIOUS
      <3> QED
        BY <3>1 DEF Queues
    <2>2. st \in States
      BY <2>1 DEF Init, States, Opt, Never
    <2>3. now \in 0 .. MaxTime /\ config \in 1 .. MaxConfigs /\ failures \in 0 .. MaxFailures
      BY Constants DEF Init
    <2>4. arxiv \in Seq(Submissions) /\ catalog \in SUBSET Papers /\ run \in Opt(RunRecs)
          /\ cache \in SUBSET [locator : Locators, page : Pages]
      BY DEF Init, Opt
    <2> QED
      BY <2>2, <2>3, <2>4 DEF TypeInv
  <1>2. CacheInv /\ RunInv /\ DutyInv /\ NothingSkipped
    BY DEF Init, CacheInv, RunInv, DutyInv, NothingSkipped
  <1>3. StateInv
    BY DEF Init, StateInv, Never
  <1> QED
    BY <1>1, <1>2, <1>3 DEF Inv

\* The world moves on between runs: days pass and listings grow.
LEMMA WorldStep ==
    ASSUME Inv, run = <<>>,
           now' \in now .. MaxTime, config' \in 1 .. MaxConfigs,
           arxiv' \in Seq(Submissions), Papers \subseteq Papers', Listed \subseteq Listed',
           \A k \in Papers : arxiv'[k].at = arxiv[k].at,
           cache' \subseteq cache,
           UNCHANGED <<catalog, st, run, failures, ghosts>>
    PROVE  Inv'
  <1>1. /\ now \in 0 .. MaxTime /\ now' \in 0 .. MaxTime /\ now <= now'
        /\ now \in Nat /\ now' \in Nat
    BY Constants DEF Inv, TypeInv
  <1>2. \A e \in Int : e <= now => e <= now'
    BY <1>1
  <1>3. TypeInv'
    BY <1>1 DEF Inv, TypeInv
  <1>4. ASSUME NEW K \in SUBSET Papers, NEW start, NEW end PROVE In(K, start, end)' = In(K, start, end)
    BY DEF In
  <1>5. Listed \in SUBSET Papers
    BY PapersAre DEF Inv
  <1>6. CacheInv'
    <2> SUFFICES ASSUME NEW e \in cache'
                 PROVE  /\ PageOK(e.page, e.locator.start, e.locator.end, e.locator.offset)'
                        /\ Chained(e.page.known)'
      BY DEF CacheInv
    <2>1. /\ PageOK(e.page, e.locator.start, e.locator.end, e.locator.offset)
          /\ Chained(e.page.known)
      BY DEF Inv, CacheInv
    <2>2. e.page.known \in SUBSET Papers
      BY <1>5, <2>1 DEF PageOK
    <2>3. In(e.page.known, e.locator.start, e.locator.end)' = In(e.page.known, e.locator.start, e.locator.end)
      BY <1>4, <2>2
    <2>4. PageOK(e.page, e.locator.start, e.locator.end, e.locator.offset)'
      BY <2>1, <2>3 DEF PageOK
    <2> QED
      BY <2>1, <2>4 DEF Chained
  <1>7. StateInv'
    <2>1. ASSUME st.cycle # <<>> PROVE CycleOK(st.cycle[1], catalog)'
      <3>1. CycleOK(st.cycle[1], catalog)
        BY <2>1 DEF Inv, StateInv
      <3>2. PICK K \in SUBSET Listed : Covers(st.cycle[1], K, catalog) /\ Chained(K)
        BY <3>1 DEF CycleOK
      <3>3. In(K, st.cycle[1].start, st.cycle[1].end)' = In(K, st.cycle[1].start, st.cycle[1].end)
        BY <1>4, <1>5
      <3>4. Covers(st.cycle[1], K, catalog)' /\ Chained(K)' /\ K \in SUBSET Listed'
        BY <3>2, <3>3 DEF Covers, Chained
      <3>5. st.cycle[1].end \in Int
        BY <2>1 DEF Inv, TypeInv, States, Opt, Cycles
      <3>6. st.cycle[1].end <= now'
        <4>1. st.cycle[1].end <= now
          BY <3>1 DEF CycleOK
        <4> QED
          BY <1>2, <3>5, <4>1
      <3>7. Follows(st.cycle[1])'
        BY <3>1 DEF CycleOK, Follows
      <3> QED
        BY <3>1, <3>4, <3>6, <3>7 DEF CycleOK
    <2>2. st.last # <<>> => st.last[1].end <= now'
      <3>1. st.last # <<>> => st.last[1].end \in Int
        BY DEF Inv, TypeInv, States, Opt, Lasts
      <3>2. st.last # <<>> => st.last[1].end <= now
        BY DEF Inv, StateInv
      <3> QED
        BY <1>2, <3>1, <3>2
    <2>3. st.lastDay \in {Never} \cup 0 .. now' /\ st.recheckDone \in {Never} \cup 0 .. now'
      <3>1. st.lastDay \in {Never} \cup 0 .. now /\ st.recheckDone \in {Never} \cup 0 .. now
        BY DEF Inv, StateInv
      <3>2. {Never} \cup 0 .. now \subseteq {Never} \cup 0 .. now'
        <4>1. 0 .. now \subseteq 0 .. now'
          BY <1>1
        <4> QED
          BY <4>1
      <3> QED
        BY <3>1, <3>2
    <2>4. st.after \in {0} \cup catalog
      BY DEF Inv, StateInv
    <2> QED
      BY <2>1, <2>2, <2>3, <2>4 DEF StateInv
  <1>8. RunInv' /\ DutyInv' /\ NothingSkipped'
    BY DEF Inv, RunInv, DutyInv, NothingSkipped, ghosts
  <1> QED
    BY <1>3, <1>6, <1>7, <1>8 DEF Inv

\* A later time leaves the listing and the state as they are.
LEMMA TickStep == ASSUME Inv, Tick PROVE Inv'
  <1>1. now' \in now .. MaxTime /\ config' \in 1 .. MaxConfigs
    BY DEF Tick, Inv, TypeInv, env
  <1>2. arxiv' = arxiv /\ arxiv' \in Seq(Submissions)
    BY DEF Tick, Inv, TypeInv, env
  <1>3. Papers' = Papers /\ Listed' = Listed
    BY <1>2 DEF Papers, Listed
  <1> QED
    BY <1>1, <1>2, <1>3, WorldStep DEF Tick

\* A submission is dated now: no window that was opened contains it.
LEMMA SubmitStep == ASSUME Inv, NEW listed \in BOOLEAN, Submit(listed) PROVE Inv'
  <1>1. now' \in now .. MaxTime /\ config' \in 1 .. MaxConfigs /\ now \in Nat
    BY DEF Submit, Inv, TypeInv
  <1>2. arxiv \in Seq(Submissions) /\ [at |-> now, listed |-> listed] \in Submissions
    BY <1>1 DEF Inv, TypeInv, Submissions
  <1>3. /\ arxiv' \in Seq(Submissions) /\ Len(arxiv') = Len(arxiv) + 1
        /\ \A k \in 1 .. Len(arxiv) : arxiv'[k] = arxiv[k]
    BY <1>2 DEF Submit
  <1>4. Len(arxiv) \in Nat
    BY <1>2
  <1>5. Papers \subseteq Papers' /\ \A k \in Papers : arxiv'[k] = arxiv[k]
    <2>1. Papers = 1 .. Len(arxiv) /\ Papers' = 1 .. Len(arxiv')
      BY DEF Papers
    <2>2. 1 .. Len(arxiv) \subseteq 1 .. (Len(arxiv) + 1)
      BY <1>4
    <2> QED
      BY <1>3, <2>1, <2>2
  <1>6. Listed \subseteq Listed'
    BY <1>5 DEF Listed
  <1> QED
    BY <1>1, <1>3, <1>5, <1>6, WorldStep DEF Submit, disk

\* A paper listed late is one more of its window, and changes no page that was
\* read.
LEMMA ListStep == ASSUME Inv, NEW k \in Papers, List(k) PROVE Inv'
  <1>1. now' \in now .. MaxTime /\ config' \in 1 .. MaxConfigs
    BY DEF List, Inv, TypeInv
  <1>2. arxiv \in Seq(Submissions) /\ k \in 1 .. Len(arxiv) /\ arxiv[k] \in Submissions
    <2>1. arxiv \in Seq(Submissions)
      BY DEF Inv, TypeInv
    <2> QED
      BY <2>1 DEF Papers
  <1>3. /\ arxiv' = [arxiv EXCEPT ![k] = [arxiv[k] EXCEPT !.listed = TRUE]]
        /\ [arxiv[k] EXCEPT !.listed = TRUE] \in Submissions
    BY <1>2 DEF List, Submissions
  <1>4. arxiv' \in Seq(Submissions) /\ Len(arxiv') = Len(arxiv)
    <2>1. PICK e \in Submissions : arxiv' = [arxiv EXCEPT ![k] = e]
      BY <1>3
    <2> QED
      BY <1>2, <2>1
  <1>5. /\ \A j \in Papers : j # k => arxiv'[j] = arxiv[j]
        /\ arxiv'[k].at = arxiv[k].at /\ arxiv'[k].listed
    BY <1>2, <1>3 DEF Papers, Submissions
  <1>6. Papers' = Papers /\ Listed \subseteq Listed'
    BY <1>4, <1>5 DEF Papers, Listed
  <1> QED
    BY <1>1, <1>4, <1>5, <1>6, WorldStep DEF List, disk

\* A new configuration changes what the next run opens, and nothing that was
\* done.
LEMMA ReconfigureStep == ASSUME Inv, Reconfigure PROVE Inv'
  <1>1. now' \in now .. MaxTime /\ config' \in 1 .. MaxConfigs
    BY Constants DEF Reconfigure, Inv, TypeInv
  <1>2. arxiv' = arxiv /\ arxiv' \in Seq(Submissions)
    BY DEF Reconfigure, Inv, TypeInv
  <1>3. Papers' = Papers /\ Listed' = Listed
    BY <1>2 DEF Papers, Listed
  <1> QED
    BY <1>1, <1>2, <1>3, WorldStep DEF Reconfigure, disk

\* A run that ends early leaves the state file of the run before, and may
\* have added to the catalog.
LEMMA RunOver ==
    ASSUME Inv, run' = <<>>, catalog \subseteq catalog', catalog' \subseteq Papers,
           failures' \in 0 .. MaxFailures,
           UNCHANGED <<now, arxiv, config, cache, st, ghosts>>
    PROVE  Inv'
  <1>1. Papers' = Papers /\ Listed' = Listed /\ \A K : Chained(K)' = Chained(K)
    BY DEF Listed, Papers, Chained
  <1>2. \A K, start, end : In(K, start, end)' = In(K, start, end)
    BY DEF In
  <1>3. TypeInv'
    BY <1>1 DEF Inv, TypeInv, Opt
  <1>4. CacheInv'
    <2>1. \A page, start, end, offset :
            PageOK(page, start, end, offset)' = PageOK(page, start, end, offset)
      BY <1>1, <1>2 DEF PageOK
    <2> QED
      BY <1>1, <2>1 DEF Inv, CacheInv
  <1>5. StateInv'
    <2>1. ASSUME st.cycle # <<>> PROVE CycleOK(st.cycle[1], catalog)'
      <3>1. CycleOK(st.cycle[1], catalog)
        BY <2>1 DEF Inv, StateInv
      <3>2. PICK K \in SUBSET Listed : Covers(st.cycle[1], K, catalog) /\ Chained(K)
        BY <3>1 DEF CycleOK
      <3>3. Covers(st.cycle[1], K, catalog)'
        BY <1>1, <1>2, <3>2 DEF Covers
      <3>4. Chained(K)' /\ K \in SUBSET Listed'
        BY <1>1, <3>2
      <3> QED
        BY <3>1, <3>3, <3>4 DEF CycleOK, Follows
    <2>2. st.after \in {0} \cup catalog'
      BY DEF Inv, StateInv
    <2> QED
      BY <2>1, <2>2 DEF Inv, StateInv
  <1>6. RunInv'
    BY DEF RunInv
  <1>7. DutyInv' /\ NothingSkipped'
    BY DEF Inv, DutyInv, NothingSkipped, ghosts
  <1> QED
    BY <1>3, <1>4, <1>5, <1>6, <1>7 DEF Inv

\* A run that fails has written what it has written.
LEMMA FailStep == ASSUME Inv, Fail PROVE Inv'
  <1>1. failures' \in 0 .. MaxFailures /\ run' = <<>> /\ catalog \subseteq Papers
    BY Constants DEF Fail, Inv, TypeInv
  <1> QED
    BY <1>1, RunOver DEF Fail, env, disk

\* A run that asks for a spoiled paper may have added the others to the
\* catalog.
LEMMA RefuseStep == ASSUME Inv, Refuse PROVE Inv'
  <1>1. run[1].exact \subseteq Papers
    BY DEF Refuse, Inv, RunInv
  <1>2. run' = <<>> /\ catalog \subseteq catalog' /\ catalog' \subseteq Papers
    BY <1>1 DEF Refuse, Inv, TypeInv
  <1>3. failures' \in 0 .. MaxFailures
    BY DEF Refuse, Inv, TypeInv
  <1> QED
    BY <1>2, <1>3, RunOver DEF Refuse, env

\* A paper that is barred stays in every listing and in the catalog.
LEMMA BarStep == ASSUME Inv, NEW k \in Papers, Bar(k) PROVE Inv'
  <1>1. now' \in now .. MaxTime /\ config' \in 1 .. MaxConfigs /\ arxiv' \in Seq(Submissions)
    BY DEF Bar, Inv, TypeInv
  <1>2. Papers' = Papers /\ Listed' = Listed
    BY DEF Bar, Papers, Listed
  <1> QED
    BY <1>1, <1>2, WorldStep DEF Bar, disk

-----------------------------------------------------------------------------
(* Discovery                                                               *)

\* What is there is of its set.
LEMMA Options == ASSUME NEW S, NEW o \in Opt(S), o # <<>> PROVE o[1] \in S
  BY DEF Opt

\* What is of a set is an option over it.
LEMMA Some == ASSUME NEW S, NEW x \in S PROVE <<x>> \in Opt(S) /\ <<x>> # <<>> /\ <<x>>[1] = x
  BY DEF Opt

\* A window with its fields is a window.
LEMMA CycleOf ==
    ASSUME NEW s \in Int, NEW n \in Nat, NEW c \in Nat, NEW e \in Int, NEW t \in Int
    PROVE  [start |-> s, next |-> n, config |-> c, end |-> e, total |-> t] \in Cycles
  BY DEF Cycles

\* The window that a run advances.
LEMMA WindowGood ==
    ASSUME Inv, NEW w, w = IF History # <<>> THEN History[1] ELSE Opened
    PROVE  /\ w \in Cycles /\ w.start < w.end /\ w.end <= now /\ Follows(w)
           /\ w.config = config
           /\ w.total = Never => w.next = 0
           /\ w.total # Never =>
                \E K \in SUBSET Listed : Covers(w, K, catalog) /\ Chained(K)
  <1>1. now \in Nat /\ config \in Nat /\ Lookback \in Nat /\ Lookback > 0
    BY Constants DEF Inv, TypeInv
  <1>2. CASE CycleActive
    <2>1. w = st.cycle[1] /\ st.cycle # <<>> /\ w.config = config
      BY <1>2 DEF CycleActive, History
    <2>2. w \in Cycles
      BY <2>1, Options DEF Inv, TypeInv, States
    <2>3. CycleOK(w, catalog)
      BY <2>1 DEF Inv, StateInv
    <2>4. w.total # Never
      <3>1. w.total \in Int
        BY <2>2 DEF Cycles
      <3>2. w.next \in 0 .. w.total
        BY <2>3 DEF CycleOK
      <3>3. \A t \in Int : \A n \in 0 .. t : t # -1
        OBVIOUS
      <3> QED
        BY <3>1, <3>2, <3>3 DEF Never
    <2> QED
      BY <2>1, <2>2, <2>3, <2>4 DEF CycleOK
  <1>3. CASE ~CycleActive /\ Behind
    <2>0. PICK e : e = st.last[1].end
      OBVIOUS
    <2>1. st.last # <<>> /\ st.last[1].config = config /\ PreviousEnd = <<e>> /\ PreviousEnd[1] = e
      BY <1>3, <2>0 DEF Behind, PreviousEnd
    <2>2. e \in Int
      BY <2>0, <2>1, Options DEF Inv, TypeInv, States, Lasts
    <2>3. e < now - Lookback
      BY <1>3, <2>1 DEF Behind
    <2>4. w = [start |-> e, next |-> 0, config |-> config,
               end |-> IF e + Lookback < now THEN e + Lookback ELSE now, total |-> Never]
      BY <1>3, <2>1 DEF History
    <2>5. w \in Cycles
      <3>1. PICK x \in Int : x = IF e + Lookback < now THEN e + Lookback ELSE now
        BY <1>1, <2>2
      <3>2. w = [start |-> e, next |-> 0, config |-> config, end |-> x, total |-> Never]
        BY <2>4, <3>1
      <3>3. Never \in Int /\ 0 \in Nat
        BY DEF Never
      <3>4. [start |-> e, next |-> 0, config |-> config, end |-> x, total |-> Never] \in Cycles
        BY <1>1, <2>2, <3>3, CycleOf
      <3> QED
        BY <3>2, <3>4
    <2>6. w.start < w.end /\ w.end <= now
      BY <1>1, <2>2, <2>3, <2>4
    <2>7. Follows(w)
      BY <2>0, <2>2, <2>4 DEF Follows
    <2> QED
      BY <2>4, <2>5, <2>6, <2>7
  <1>4. CASE ~CycleActive /\ ~Behind
    <2>1. w = [start |-> now - Lookback, end |-> now, next |-> 0, config |-> config, total |-> Never]
      BY <1>4 DEF History, Opened
    <2>2. w \in Cycles
      <3>1. PICK s \in Int : s = now - Lookback
        BY <1>1
      <3>2. w = [start |-> s, next |-> 0, config |-> config, end |-> now, total |-> Never]
        BY <2>1, <3>1
      <3>3. now \in Int /\ 0 \in Nat /\ Never \in Int
        BY <1>1 DEF Never
      <3>4. [start |-> s, next |-> 0, config |-> config, end |-> now, total |-> Never] \in Cycles
        BY <1>1, <3>3, CycleOf
      <3> QED
        BY <3>2, <3>4
    <2>3. ASSUME st.last # <<>>, st.last[1].config = config PROVE w.start <= st.last[1].end
      <3>1. PreviousEnd = <<st.last[1].end>>
        BY <2>3 DEF PreviousEnd
      <3>2. ~(st.last[1].end < now - Lookback)
        BY <1>4, <3>1 DEF Behind
      <3>3. st.last[1].end \in Int
        BY <2>3, Options DEF Inv, TypeInv, States, Lasts
      <3> QED
        BY <1>1, <2>1, <3>2, <3>3
    <2>4. Follows(w)
      BY <2>1, <2>3 DEF Follows
    <2> QED
      BY <1>1, <2>1, <2>2, <2>4
  <1> QED
    BY <1>2, <1>3, <1>4

\* What it gets, from the cache or from arXiv.
LEMMA FetchedGood ==
    ASSUME Inv, NEW w \in Cycles, NEW page,
           \/ \E e \in cache : e.locator = Locator(w) /\ e.page = page
           \/ \E limit \in Nat : page = Page(w.start, w.end, w.next, limit)
    PROVE  /\ page \in Pages /\ PageOK(page, w.start, w.end, w.next) /\ Chained(page.known)
           /\ \A K \in SUBSET Listed : Chained(K) => K \subseteq page.known \/ page.known \subseteq K
  <1>1. ASSUME NEW e \in cache, e.locator = Locator(w), e.page = page
        PROVE  /\ page \in Pages /\ PageOK(page, w.start, w.end, w.next) /\ Chained(page.known)
               /\ \A K \in SUBSET Listed : Chained(K) => K \subseteq page.known \/ page.known \subseteq K
    <2>1. page \in Pages
      BY <1>1 DEF Inv, TypeInv
    <2>2. PageOK(page, w.start, w.end, w.next) /\ Chained(page.known)
      BY <1>1 DEF Inv, CacheInv, Locator
    <2>3. \A K \in SUBSET Listed : Chained(K) => K \subseteq page.known \/ page.known \subseteq K
      BY <1>1 DEF Chained
    <2> QED
      BY <2>1, <2>2, <2>3
  <1>2. ASSUME NEW limit \in Nat, page = Page(w.start, w.end, w.next, limit)
        PROVE  /\ page \in Pages /\ PageOK(page, w.start, w.end, w.next) /\ Chained(page.known)
               /\ \A K \in SUBSET Listed : Chained(K) => K \subseteq page.known \/ page.known \subseteq K
    <2>1. w.start \in Int /\ w.end \in Int /\ w.next \in Nat
      BY DEF Cycles
    <2>2. page \in Pages /\ PageOK(page, w.start, w.end, w.next) /\ page.known = Listed
      <3>1. TypeInv
        BY DEF Inv
      <3>2. LET p == Page(w.start, w.end, w.next, limit)
            IN p \in Pages /\ PageOK(p, w.start, w.end, w.next) /\ p.known = Listed
        BY <2>1, <3>1, PageGood
      <3> QED
        BY <1>2, <3>2
    <2>3. \A e \in cache : e.page.known \subseteq Listed
      BY DEF Inv, CacheInv, PageOK
    <2> QED
      BY <2>2, <2>3 DEF Chained
  <1> QED
    BY <1>1, <1>2

\* The part of the recheck that a run does.
LEMMA RecheckGood ==
    ASSUME Inv, NEW r, r = Recheck
    PROVE  /\ r \in [ids : SUBSET Nat, complete : BOOLEAN] /\ r.ids \subseteq Papers
           /\ RecheckDue =>
                /\ r.complete => \A k \in catalog : k > st.after => k \in r.ids
                /\ ~r.complete =>
                     /\ Max(r.ids) \in r.ids
                     /\ \A k \in catalog : st.after < k /\ k <= Max(r.ids) => k \in r.ids
  <1>1. /\ Papers = 1 .. Len(arxiv) /\ Len(arxiv) \in Nat /\ Papers \in SUBSET Nat
        /\ IsFiniteSet(Papers) /\ catalog \in SUBSET Papers
    BY PapersAre DEF Inv, TypeInv
  <1>2. Eligible \in SUBSET Papers /\ Eligible \in SUBSET Nat /\ IsFiniteSet(Eligible)
        /\ Cardinality(Eligible) \in Nat
    <2>1. Eligible \in SUBSET Papers
      BY <1>1 DEF Eligible
    <2> QED
      BY <1>1, <2>1, Part
  <1>3. MaxRecheck \in Nat /\ MaxRecheck > 0
    BY Constants
  <1> DEFINE ids == Smallest(MaxRecheck, Eligible)
  <1>4. /\ ids \subseteq Eligible
        /\ Cardinality(Eligible) <= MaxRecheck => ids = Eligible
        /\ \A k \in ids : \A j \in Eligible : j <= k => j \in ids
        /\ Eligible # {} => ids # {}
    BY <1>2, <1>3, SmallestOf
  <1>5. CASE ~RecheckDue
    BY <1>5 DEF Recheck
  <1>6. CASE RecheckDue
    <2> HIDE DEF ids
    <2>1. r = [ids |-> ids, complete |-> Cardinality(Eligible) <= MaxRecheck]
      BY <1>6 DEF Recheck, ids
    <2>2. r.ids = ids /\ r.complete = (Cardinality(Eligible) <= MaxRecheck)
      BY <2>1
    <2>3. r \in [ids : SUBSET Nat, complete : BOOLEAN]
      BY <1>2, <1>4, <2>1
    <2>4. ASSUME r.complete, NEW k \in catalog, k > st.after PROVE k \in r.ids
      BY <1>4, <2>2, <2>4 DEF Eligible
    <2>5. ASSUME ~r.complete
          PROVE  /\ Max(r.ids) \in r.ids
                 /\ \A k \in catalog : st.after < k /\ k <= Max(r.ids) => k \in r.ids
      <3>1. ids # {}
        <4>1. Eligible # {}
          <5>1. Cardinality({}) = 0
            BY FS_EmptySet
          <5>2. ~(Cardinality(Eligible) <= MaxRecheck)
            BY <2>2, <2>5
          <5> QED
            BY <1>3, <5>1, <5>2
        <4> QED
          BY <1>4, <4>1
      <3>2. ids \in SUBSET (1 .. Len(arxiv))
        BY <1>1, <1>2, <1>4
      <3>3. Max(ids) \in ids
        BY <1>1, <3>1, <3>2, Greatest
      <3>4. ASSUME NEW k \in catalog, st.after < k, k <= Max(ids) PROVE k \in ids
        <4>1. st.after \in Nat /\ k \in Nat
          BY <1>1 DEF Inv, TypeInv, States
        <4>2. k \in Eligible
          BY <3>4, <4>1 DEF Eligible
        <4> QED
          BY <1>4, <3>3, <3>4, <4>2
      <3> QED
        BY <2>2, <3>3, <3>4
    <2> QED
      BY <1>2, <1>4, <2>2, <2>3, <2>4, <2>5
  <1> QED
    BY <1>5, <1>6

\* The items of the artifact queue, and what is in them.
LEMMA QueuesAre ==
    ASSUME NEW q \in Queues
    PROVE  /\ DOMAIN q \in SUBSET Artifacts /\ q \in [DOMAIN q -> Items]
           /\ \A k \in DOMAIN q : /\ q[k] \in Items
                                  /\ q[k].attempts \in Int /\ 0 <= q[k].attempts
                                  /\ q[k].attempts <= AttemptCap
  <1>1. PICK D \in SUBSET Artifacts : q \in [D -> Items]
    BY DEF Queues
  <1>2. AttemptCap \in Nat
    BY Constants
  <1>3. \A k \in D : q[k] \in Items
    BY <1>1
  <1>4. \A k \in D : q[k].attempts \in 0 .. AttemptCap
    BY <1>3 DEF Items
  <1>5. \A n \in 0 .. AttemptCap : n \in Int /\ 0 <= n /\ n <= AttemptCap
    BY <1>2
  <1>6. DOMAIN q = D
    BY <1>1
  <1> QED
    BY <1>1, <1>3, <1>4, <1>5, <1>6

\* The pages a run has read cover what its window owes.
LEMMA DiscoverStep == ASSUME Inv, Discover PROVE Inv'
  <1>1. PICK history \in {History}, frontier \in {Page(now - Lookback, now, 0, MaxFrontier)} :
        \E w \in {IF history # <<>> THEN history[1] ELSE Opened} :
        \E page \in {IF history # <<>> THEN Fetched(w) ELSE frontier} :
        \E d \in {Advance(w, page)}, r \in {Recheck} :
         /\ cache' = IF DailyDue /\ history # <<>> THEN Stored(w, page) ELSE cache
         /\ run' = <<[phase |-> "resolve", daily |-> DailyDue, recheck |-> RecheckDue,
                      d |-> d, r |-> r,
                      exact |-> r.ids \cup IF DailyDue THEN frontier.ids \cup page.ids ELSE {},
                      listed |-> page.known, pending |-> st.pending, seen |-> [k \in {} |-> ""]]>>
    BY DEF Discover
  <1>2. PICK w : w = IF history # <<>> THEN history[1] ELSE Opened
    OBVIOUS
  <1>3. PICK page : page = IF history # <<>> THEN Fetched(w) ELSE frontier
    OBVIOUS
  <1>4. PICK d, r, a :
         /\ d = Advance(w, page) /\ r = Recheck
         /\ cache' = IF DailyDue /\ history # <<>> THEN Stored(w, page) ELSE cache
         /\ a = [phase |-> "resolve", daily |-> DailyDue, recheck |-> RecheckDue,
                 d |-> d, r |-> r,
                 exact |-> r.ids \cup IF DailyDue THEN frontier.ids \cup page.ids ELSE {},
                 listed |-> page.known, pending |-> st.pending, seen |-> [k \in {} |-> ""]]
         /\ run' = <<a>>
    BY <1>1, <1>2, <1>3
  <1>5. UNCHANGED <<now, arxiv, config, catalog, artifact, st, failures, owed, duty, checked, unchecked>>
    BY DEF Discover, env, ghosts
  <1>6. TypeInv /\ now \in Nat /\ Lookback \in Nat /\ MaxFrontier \in Nat /\ MaxBacklog \in Nat
    BY Constants DEF Inv, TypeInv
  <1>7. w = IF History # <<>> THEN History[1] ELSE Opened
    BY <1>1, <1>2
  <1>8. /\ w \in Cycles /\ w.start < w.end /\ w.end <= now /\ Follows(w) /\ w.config = config
        /\ w.total = Never => w.next = 0
        /\ w.total # Never => \E K \in SUBSET Listed : Covers(w, K, catalog) /\ Chained(K)
    BY <1>7, WindowGood
  <1>9. \/ \E e \in cache : e.locator = Locator(w) /\ e.page = page
        \/ \E limit \in Nat : page = Page(w.start, w.end, w.next, limit)
    <2>1. CASE history # <<>>
      BY <1>3, <1>6, <2>1 DEF Fetched
    <2>2. CASE history = <<>>
      <3>1. w = Opened /\ page = Page(now - Lookback, now, 0, MaxFrontier)
        BY <1>1, <1>2, <1>3, <2>2
      <3>2. page = Page(w.start, w.end, w.next, MaxFrontier)
        BY <3>1 DEF Opened
      <3> QED
        BY <1>6, <3>2
    <2> QED
      BY <2>1, <2>2
  <1>10. /\ page \in Pages /\ PageOK(page, w.start, w.end, w.next) /\ Chained(page.known)
         /\ \A K \in SUBSET Listed : Chained(K) => K \subseteq page.known \/ page.known \subseteq K
    BY <1>8, <1>9, FetchedGood
  <1>11. /\ d \in [cycle : Cycles, complete : BOOLEAN]
         /\ d.cycle.start = w.start /\ d.cycle.end = w.end /\ d.cycle.config = w.config
         /\ d.complete => In(page.known, w.start, w.end) \subseteq catalog \cup page.ids
         /\ ~d.complete => /\ d.cycle.next \in 0 .. d.cycle.total
                           /\ Covers(d.cycle, page.known, catalog \cup page.ids)
    <2>1. w.total # Never => \E K \in SUBSET Listed :
             Covers(w, K, catalog) /\ (K \subseteq page.known \/ page.known \subseteq K)
      BY <1>8, <1>10
    <2>2. LET x == Advance(w, page) IN
           /\ x \in [cycle : Cycles, complete : BOOLEAN]
           /\ x.cycle.start = w.start /\ x.cycle.end = w.end /\ x.cycle.config = w.config
           /\ x.complete => In(page.known, w.start, w.end) \subseteq catalog \cup page.ids
           /\ ~x.complete => /\ x.cycle.next \in 0 .. x.cycle.total
                             /\ Covers(x.cycle, page.known, catalog \cup page.ids)
      BY <1>6, <1>8, <1>10, <2>1, AdvanceGood
    <2> QED
      BY <1>4, <2>2
  <1>12. /\ r \in [ids : SUBSET Nat, complete : BOOLEAN] /\ r.ids \subseteq Papers
         /\ RecheckDue =>
              /\ r.complete => \A k \in catalog : k > st.after => k \in r.ids
              /\ ~r.complete =>
                   /\ Max(r.ids) \in r.ids
                   /\ \A k \in catalog : st.after < k /\ k <= Max(r.ids) => k \in r.ids
    BY <1>4, RecheckGood
  <1>13. Listed \in SUBSET Papers /\ Papers \in SUBSET Nat
    BY <1>6, PapersAre
  <1>14. page.known \subseteq Papers /\ page.ids \subseteq Papers /\ frontier.ids \subseteq Papers
    <2>1. page.known \subseteq Papers /\ page.ids \subseteq Papers
      BY <1>10, <1>13 DEF PageOK, In
    <2>2. now - Lookback \in Int /\ now \in Int /\ 0 \in Nat
      BY <1>6
    <2>3. LET p == Page(now - Lookback, now, 0, MaxFrontier)
          IN p \in Pages /\ PageOK(p, now - Lookback, now, 0) /\ p.known = Listed
      BY <1>6, <2>2, PageGood
    <2>4. PageOK(frontier, now - Lookback, now, 0)
      BY <1>1, <2>3
    <2> QED
      BY <1>13, <2>1, <2>4 DEF PageOK, In
  <1>15. /\ a.phase = "resolve" /\ a.daily = DailyDue /\ a.recheck = RecheckDue /\ a.d = d /\ a.r = r
         /\ a.listed = page.known /\ a.pending = st.pending /\ a.seen = [k \in {} |-> ""]
         /\ a.exact = r.ids \cup IF DailyDue THEN frontier.ids \cup page.ids ELSE {}
    BY <1>4
  <1>16. a.exact \subseteq Papers /\ a.listed \subseteq Papers
    BY <1>12, <1>14, <1>15
  <1>17. a \in RunRecs
    <2>1. [k \in {} |-> ""] \in Seens
      <3>1. [k \in {} |-> ""] \in [{} -> {"verified", "manual_review", "unverified"}]
            /\ {} \in SUBSET Artifacts
        OBVIOUS
      <3> QED
        BY <3>1 DEF Seens
    <2>2. a.exact \in SUBSET Nat /\ a.listed \in SUBSET Nat
      BY <1>13, <1>16
    <2>3. st.pending \in Queues
      BY <1>6 DEF TypeInv, States
    <2>4. DailyDue \in BOOLEAN /\ RecheckDue \in BOOLEAN
      BY DEF DailyDue, RecheckDue, CycleActive, ConfigReset
    <2> QED
      BY <1>4, <1>11, <1>12, <1>15, <2>1, <2>2, <2>3, <2>4 DEF RunRecs
  <1>18. /\ cache' \subseteq cache \cup {[locator |-> Locator(w), page |-> page]}
         /\ cache \subseteq cache'
    BY <1>4 DEF Stored
  <1>19. Papers' = Papers /\ Listed' = Listed /\ \A K, x, y : In(K, x, y)' = In(K, x, y)
    BY <1>5 DEF Papers, Listed, In
  <1>20. TypeInv'
    <2>1. Locator(w) \in Locators
      BY <1>6, <1>8 DEF Locator, Locators, Cycles, TypeInv
    <2>2. [locator |-> Locator(w), page |-> page] \in [locator : Locators, page : Pages]
      BY <1>10, <2>1
    <2>3. cache' \in SUBSET [locator : Locators, page : Pages]
      BY <1>6, <1>18, <2>2 DEF TypeInv
    <2>4. run' \in Opt(RunRecs)
      BY <1>4, <1>17, Some
    <2> QED
      BY <1>5, <1>6, <1>19, <2>3, <2>4 DEF TypeInv
  <1>21. ASSUME NEW K \in SUBSET Listed, Chained(K) PROVE Chained(K)'
    BY <1>10, <1>18, <1>21 DEF Chained
  <1>22. CacheInv'
    <2> SUFFICES ASSUME NEW e \in cache'
                 PROVE  /\ PageOK(e.page, e.locator.start, e.locator.end, e.locator.offset)'
                        /\ Chained(e.page.known)'
      BY DEF CacheInv
    <2>1. /\ PageOK(e.page, e.locator.start, e.locator.end, e.locator.offset)
          /\ Chained(e.page.known)
      BY <1>10, <1>18 DEF Inv, CacheInv, Locator
    <2>2. PageOK(e.page, e.locator.start, e.locator.end, e.locator.offset)'
      BY <1>19, <2>1 DEF PageOK
    <2>3. Chained(e.page.known)'
      BY <1>21, <2>1 DEF PageOK
    <2> QED
      BY <2>2, <2>3
  <1>23. StateInv'
    <2>1. ASSUME st.cycle # <<>> PROVE CycleOK(st.cycle[1], catalog)'
      <3>1. CycleOK(st.cycle[1], catalog)
        BY <2>1 DEF Inv, StateInv
      <3>2. PICK K \in SUBSET Listed : Covers(st.cycle[1], K, catalog) /\ Chained(K)
        BY <3>1 DEF CycleOK
      <3>3. Covers(st.cycle[1], K, catalog)'
        BY <1>5, <1>19, <3>2 DEF Covers
      <3>4. Chained(K)' /\ K \in SUBSET Listed'
        BY <1>19, <1>21, <3>2
      <3> QED
        BY <1>5, <3>1, <3>3, <3>4 DEF CycleOK, Follows
    <2> QED
      BY <1>5, <2>1 DEF Inv, StateInv
  <1>24. WindowInv(a)'
    <2> SUFFICES ASSUME DailyDue
                 PROVE  /\ d.cycle.config = config
                        /\ IF d.complete
                             THEN /\ In(page.known, w.start, w.end) \subseteq catalog \cup a.exact
                                  /\ Follows(d.cycle) /\ d.cycle.end <= now
                             ELSE CycleOK(d.cycle, catalog \cup a.exact)'
      BY <1>5, <1>11, <1>15, <1>19 DEF WindowInv, Follows
    <2>1. page.ids \subseteq a.exact
      BY <1>15
    <2>2. Follows(d.cycle) /\ d.cycle.end <= now /\ d.cycle.start < d.cycle.end /\ d.cycle.config = config
      BY <1>8, <1>11 DEF Follows
    <2>3. ASSUME ~d.complete PROVE CycleOK(d.cycle, catalog \cup a.exact)'
      <3>1. Covers(d.cycle, page.known, catalog \cup page.ids) /\ d.cycle.next \in 0 .. d.cycle.total
        BY <1>11, <2>3
      <3>2. Covers(d.cycle, page.known, catalog \cup a.exact)'
        BY <1>5, <1>19, <2>1, <3>1 DEF Covers
      <3>3. Chained(page.known)' /\ page.known \in SUBSET Listed'
        BY <1>10, <1>19, <1>21 DEF PageOK
      <3> QED
        BY <1>5, <2>2, <3>1, <3>2, <3>3 DEF CycleOK, Follows
    <2> QED
      BY <1>11, <2>1, <2>2, <2>3
  <1>25. RecheckRun(a)'
    BY <1>5, <1>12, <1>15 DEF RecheckRun
  <1>26. QueueInv(a)'
    <2>1. \A k \in DOMAIN st.pending : st.pending[k].attempts \in Int
      BY <1>6, QueuesAre DEF TypeInv, States
    <2> QED
      BY <1>5, <1>15, <2>1 DEF QueueInv
  <1>27. RunInv'
    BY <1>4, <1>15, <1>16, <1>19, <1>24, <1>25, <1>26 DEF RunInv
  <1>28. DutyInv' /\ NothingSkipped'
    BY <1>5 DEF Inv, DutyInv, NothingSkipped
  <1> QED
    BY <1>20, <1>22, <1>23, <1>27, <1>28 DEF Inv

-----------------------------------------------------------------------------
(* The artifacts, and the writes                                           *)

\* The queue of a run has what is pending, as it stands, unless it is settled.
LEMMA QueueGood ==
    ASSUME TypeInv, NEW exact, NEW q, q = Queue(exact)
    PROVE  /\ q \in Queues
           /\ \A k \in DOMAIN st.pending : ~Terminal(k) => k \in DOMAIN q /\ q[k] = st.pending[k]
           /\ \A k \in DOMAIN q : ~Terminal(k)
  <1> DEFINE kept  == {k \in DOMAIN st.pending : ~Terminal(k)}
             added == {k \in Candidates(exact) : k \notin kept /\ ~Terminal(k)}
  <1>1. q = [k \in kept \cup added |-> IF k \in kept THEN st.pending[k] ELSE Pending]
    BY DEF Queue
  <1>2. st.pending \in Queues
    BY DEF TypeInv, States
  <1>3. DOMAIN st.pending \in SUBSET Artifacts /\ \A k \in DOMAIN st.pending : st.pending[k] \in Items
    BY <1>2, QueuesAre
  <1>4. kept \subseteq DOMAIN st.pending /\ kept \cup added \in SUBSET Artifacts
    BY <1>3 DEF Candidates
  <1>5. Pending \in Items
    BY Constants DEF Pending, Items
  <1>6. q \in [kept \cup added -> Items]
    BY <1>1, <1>3, <1>4, <1>5
  <1>7. q \in Queues
    BY <1>4, <1>6 DEF Queues
  <1>8. \A k \in DOMAIN st.pending : ~Terminal(k) => k \in DOMAIN q /\ q[k] = st.pending[k]
    BY <1>1
  <1>9. \A k \in DOMAIN q : ~Terminal(k)
    BY <1>1
  <1> QED
    BY <1>7, <1>8, <1>9

\* What the checks leave of it.
LEMMA ChecksGood ==
    ASSUME TypeInv, NEW q \in Queues, NEW selected, NEW verified, NEW p,
           p = AfterChecks(q, selected, verified)
    PROVE  /\ p \in Queues
           /\ \A k \in DOMAIN q :
                \/ k \in verified
                \/ k \in selected /\ q[k].attempts >= AttemptCap
                \/ k \in DOMAIN p /\ p[k].attempts >= q[k].attempts
  <1> DEFINE D == {j \in DOMAIN q :
                     j \notin verified /\ ~(j \in selected /\ q[j].attempts >= AttemptCap)}
             again(k) == [attempts |-> q[k].attempts + 1, next |-> now + RetryDays(q[k].attempts)]
  <1>1. p = [k \in D |-> IF k \in selected THEN again(k) ELSE q[k]]
    BY DEF AfterChecks
  <1>2. now \in Int /\ AttemptCap \in Nat
    BY Constants DEF TypeInv
  <1>3. /\ DOMAIN q \in SUBSET Artifacts
        /\ \A k \in DOMAIN q : /\ q[k] \in Items /\ q[k].attempts \in Int /\ 0 <= q[k].attempts
                               /\ q[k].attempts <= AttemptCap
    BY QueuesAre
  <1>4. \A n : RetryDays(n) \in Int
    BY DEF RetryDays
  <1>5. ASSUME NEW k \in D, k \in selected
        PROVE  again(k) \in Items /\ again(k).attempts = q[k].attempts + 1
    <2>1. q[k].attempts + 1 \in 0 .. AttemptCap
      BY <1>2, <1>3, <1>5
    <2>2. now + RetryDays(q[k].attempts) \in Int
      BY <1>2, <1>4
    <2> QED
      BY <2>1, <2>2 DEF Items
  <1> HIDE DEF again
  <1>6. p \in [D -> Items]
    BY <1>1, <1>3, <1>5
  <1>7. p \in Queues
    BY <1>3, <1>6 DEF Queues
  <1>8. ASSUME NEW k \in D PROVE k \in DOMAIN p /\ p[k].attempts >= q[k].attempts
    <2>1. q[k].attempts \in Int
      BY <1>3
    <2>2. CASE k \in selected
      <3>1. p[k].attempts = q[k].attempts + 1
        BY <1>1, <1>5, <2>2
      <3> QED
        BY <1>1, <2>1, <3>1
    <2>3. CASE k \notin selected
      BY <1>1, <2>1, <2>3
    <2> QED
      BY <2>2, <2>3
  <1> QED
    BY <1>7, <1>8

\* What was found is known, and what is due of the queue is attempted.
LEMMA ResolveStep == ASSUME Inv, Resolve PROVE Inv'
  <1>1. PICK a : a = run[1]
    OBVIOUS
  <1> DEFINE queue == Queue(run[1].exact)
             selected == Smallest(MaxArtifacts, {k \in DOMAIN queue : queue[k].next <= now})
  <1>2. PICK verified \in SUBSET selected : run' = <<[run[1] EXCEPT
            !.phase = "artifacts",
            !.pending = AfterChecks(queue, selected, verified),
            !.seen = [k \in selected |->
                        IF k \in verified THEN "verified"
                        ELSE IF queue[k].attempts >= AttemptCap THEN "manual_review"
                        ELSE "unverified"]]>>
    BY DEF Resolve, Outcomes
  <1>3. queue = Queue(a.exact)
    BY <1>1
  <1>4. selected = Smallest(MaxArtifacts, {k \in DOMAIN queue : queue[k].next <= now})
    OBVIOUS
  <1> HIDE DEF queue, selected
  <1>5. PICK p, seen, b :
         /\ p = AfterChecks(queue, selected, verified)
         /\ seen = [k \in selected |-> IF k \in verified THEN "verified"
                                       ELSE IF queue[k].attempts >= AttemptCap THEN "manual_review"
                                       ELSE "unverified"]
         /\ b = [a EXCEPT !.phase = "artifacts", !.pending = p, !.seen = seen]
         /\ run' = <<b>>
    BY <1>1, <1>2
  <1>6. /\ run # <<>> /\ a.phase = "resolve" /\ catalog' = catalog \cup a.exact
        /\ UNCHANGED <<now, arxiv, config, artifact, cache, st, failures, owed, duty, checked, unchecked>>
    BY <1>1 DEF Resolve, env, ghosts
  <1>7. TypeInv /\ a \in RunRecs
    BY <1>1, <1>6, Options DEF Inv, TypeInv
  <1>8. /\ b.phase = "artifacts" /\ b.pending = p /\ b.seen = seen /\ b.daily = a.daily
        /\ b.recheck = a.recheck /\ b.d = a.d /\ b.r = a.r /\ b.exact = a.exact /\ b.listed = a.listed
    BY <1>5, <1>7 DEF RunRecs
  <1>9. /\ WindowInv(a) /\ RecheckRun(a) /\ QueueInv(a)
        /\ a.exact \subseteq Papers /\ a.listed \subseteq Papers
    BY <1>1, <1>6 DEF Inv, RunInv
  <1>10. /\ queue \in Queues
         /\ \A k \in DOMAIN st.pending :
               ~Terminal(k) => k \in DOMAIN queue /\ queue[k] = st.pending[k]
         /\ \A k \in DOMAIN queue : ~Terminal(k)
    BY <1>1, <1>3, <1>7, QueueGood
  <1>11. /\ p \in Queues
         /\ \A k \in DOMAIN queue :
                \/ k \in verified
                \/ k \in selected /\ queue[k].attempts >= AttemptCap
                \/ k \in DOMAIN p /\ p[k].attempts >= queue[k].attempts
    BY <1>5, <1>7, <1>10, ChecksGood
  <1>12. selected \in SUBSET DOMAIN queue /\ seen \in Seens
    <2>1. selected \in SUBSET DOMAIN queue
      BY <1>4 DEF Smallest
    <2>2. DOMAIN queue \in SUBSET Artifacts
      BY <1>10, QueuesAre
    <2>3. selected \in SUBSET Artifacts
      BY <2>1, <2>2
    <2>4. seen \in [selected -> {"verified", "manual_review", "unverified"}]
      BY <1>5
    <2> QED
      BY <2>1, <2>3, <2>4 DEF Seens
  <1>13. Papers' = Papers /\ Listed' = Listed /\ \A K, x, y : In(K, x, y)' = In(K, x, y)
    BY <1>6 DEF Papers, Listed, In
  <1>14. TypeInv'
    <2>1. b \in RunRecs
      BY <1>5, <1>7, <1>11, <1>12 DEF RunRecs
    <2>2. run' \in Opt(RunRecs)
      BY <1>5, <2>1, Some
    <2>3. catalog' \in SUBSET Papers'
      BY <1>6, <1>7, <1>9, <1>13 DEF TypeInv
    <2> QED
      BY <1>6, <1>7, <2>2, <2>3 DEF TypeInv
  <1>15. CacheInv'
    BY <1>6, <1>13 DEF Inv, CacheInv, PageOK, Chained
  <1>16. StateInv'
    <2>1. ASSUME st.cycle # <<>> PROVE CycleOK(st.cycle[1], catalog)'
      <3>1. CycleOK(st.cycle[1], catalog)
        BY <2>1 DEF Inv, StateInv
      <3>2. PICK K \in SUBSET Listed : Covers(st.cycle[1], K, catalog) /\ Chained(K)
        BY <3>1 DEF CycleOK
      <3>3. Covers(st.cycle[1], K, catalog)'
        BY <1>6, <1>13, <3>2 DEF Covers
      <3>4. Chained(K)' /\ K \in SUBSET Listed'
        BY <1>6, <1>13, <3>2 DEF Chained
      <3> QED
        BY <1>6, <3>1, <3>3, <3>4 DEF CycleOK, Follows
    <2>2. st.after \in {0} \cup catalog'
      BY <1>6 DEF Inv, StateInv
    <2> QED
      BY <1>6, <2>1, <2>2 DEF Inv, StateInv
  <1>17. WindowInv(b)'
    <2> SUFFICES ASSUME a.daily
                 PROVE  /\ a.d.cycle.config = config
                        /\ IF a.d.complete
                             THEN /\ In(a.listed, a.d.cycle.start, a.d.cycle.end) \subseteq catalog' \cup a.exact
                                  /\ Follows(a.d.cycle) /\ a.d.cycle.end <= now
                             ELSE CycleOK(a.d.cycle, catalog \cup b.exact)'
      BY <1>6, <1>8, <1>13 DEF WindowInv, Follows
    <2>1. ASSUME ~a.d.complete PROVE CycleOK(a.d.cycle, catalog \cup b.exact)'
      <3>1. CycleOK(a.d.cycle, catalog \cup a.exact)
        BY <1>9, <2>1 DEF WindowInv
      <3>2. PICK K \in SUBSET Listed : Covers(a.d.cycle, K, catalog \cup a.exact) /\ Chained(K)
        BY <3>1 DEF CycleOK
      <3>3. Covers(a.d.cycle, K, catalog \cup b.exact)'
        BY <1>6, <1>8, <1>13, <3>2 DEF Covers
      <3>4. Chained(K)' /\ K \in SUBSET Listed'
        BY <1>6, <1>13, <3>2 DEF Chained
      <3> QED
        BY <1>6, <3>1, <3>3, <3>4 DEF CycleOK, Follows
    <2> QED
      BY <1>6, <1>9, <2>1 DEF WindowInv
  <1>18. RecheckRun(b)'
    BY <1>6, <1>8, <1>9 DEF RecheckRun
  <1>19. QueueInv(b)'
    <2>0. \A k \in DOMAIN b.seen : ~Terminal(k)'
      BY <1>5, <1>6, <1>8, <1>10, <1>12 DEF Terminal
    <2> SUFFICES ASSUME NEW k \in DOMAIN st.pending, ~Terminal(k)
                 PROVE  \/ Settled(b, k)
                        \/ k \in DOMAIN p /\ p[k].attempts >= st.pending[k].attempts
      BY <1>6, <1>8, <2>0 DEF QueueInv, Terminal, Settled
    <2>1. k \in DOMAIN queue /\ queue[k] = st.pending[k]
      BY <1>10
    <2>2. ASSUME k \in verified \/ (k \in selected /\ queue[k].attempts >= AttemptCap)
          PROVE  Settled(b, k)
      BY <1>2, <1>5, <1>8, <2>2 DEF Settled
    <2> QED
      BY <1>11, <2>1, <2>2
  <1>20. RunInv'
    <2>1. b.exact \subseteq Papers' /\ b.listed \subseteq Papers' /\ b.exact \subseteq catalog'
      BY <1>6, <1>8, <1>9, <1>13
    <2> QED
      BY <1>5, <1>17, <1>18, <1>19, <2>1 DEF RunInv
  <1>21. DutyInv' /\ NothingSkipped'
    BY <1>6 DEF Inv, DutyInv, NothingSkipped
  <1> QED
    BY <1>14, <1>15, <1>16, <1>20, <1>21 DEF Inv

\* The catalog grows by what the run resolved.
LEMMA WriteArtifactsStep == ASSUME Inv, WriteArtifacts PROVE Inv'
  <1>1. PICK a : a = run[1]
    OBVIOUS
  <1>2. PICK b : b = [a EXCEPT !.phase = "state"] /\ run' = <<b>>
    BY <1>1 DEF WriteArtifacts
  <1>3. /\ run # <<>> /\ a.phase = "artifacts" /\ artifact' = Observed(a.seen)
        /\ UNCHANGED <<now, arxiv, config, catalog, cache, st, failures, owed, duty, checked, unchecked>>
    BY <1>1 DEF WriteArtifacts, env, ghosts
  <1>4. TypeInv /\ a \in RunRecs
    BY <1>1, <1>3, Options DEF Inv, TypeInv
  <1>5. /\ b.phase = "state" /\ b.pending = a.pending /\ b.seen = a.seen /\ b.daily = a.daily
        /\ b.recheck = a.recheck /\ b.d = a.d /\ b.r = a.r /\ b.exact = a.exact /\ b.listed = a.listed
    BY <1>2, <1>4 DEF RunRecs
  <1>6. /\ WindowInv(a) /\ RecheckRun(a) /\ QueueInv(a)
        /\ a.exact \subseteq Papers /\ a.listed \subseteq Papers /\ a.exact \subseteq catalog
    BY <1>1, <1>3 DEF Inv, RunInv
  <1>7. /\ Papers' = Papers /\ Listed' = Listed /\ \A K, x, y : In(K, x, y)' = In(K, x, y)
        /\ \A K : Chained(K)' = Chained(K)
    BY <1>3 DEF Papers, Listed, In, Chained
  <1>8. TypeInv'
    <2>1. b \in RunRecs
      BY <1>2, <1>4 DEF RunRecs
    <2>2. run' \in Opt(RunRecs)
      BY <1>2, <2>1, Some
    <2> QED
      BY <1>3, <1>4, <1>7, <2>2 DEF TypeInv
  <1>9. \A c, done : CycleOK(c, done)' = CycleOK(c, done)
    BY <1>3, <1>7 DEF CycleOK, Covers, Follows
  <1>10. CacheInv' /\ StateInv'
    BY <1>3, <1>7, <1>9 DEF Inv, CacheInv, StateInv, PageOK
  <1>11. WindowInv(b)'
    BY <1>3, <1>5, <1>6, <1>7, <1>9 DEF WindowInv, Follows
  <1>12. RecheckRun(b)'
    BY <1>3, <1>5, <1>6 DEF RecheckRun
  <1>13. QueueInv(b)'
    <2>1. DOMAIN st.pending \in SUBSET Artifacts
      BY <1>4, QueuesAre DEF TypeInv, States
    <2> SUFFICES ASSUME NEW k \in DOMAIN st.pending
                 PROVE  \/ Terminal(k)'
                        \/ k \in DOMAIN a.pending /\ a.pending[k].attempts >= st.pending[k].attempts
      BY <1>3, <1>5 DEF QueueInv
    <2>2. /\ k \in DOMAIN a.seen => artifact'[k].status = a.seen[k]
          /\ k \notin DOMAIN a.seen => artifact'[k] = artifact[k]
      BY <1>3, <2>1 DEF Observed
    <2>3. CASE Terminal(k)
      BY <1>3, <1>6, <2>2, <2>3 DEF QueueInv, Terminal
    <2>4. CASE Settled(a, k)
      BY <2>2, <2>4 DEF Settled, Terminal
    <2> QED
      BY <1>6, <2>3, <2>4 DEF QueueInv
  <1>14. RunInv'
    BY <1>2, <1>3, <1>5, <1>6, <1>7, <1>11, <1>12, <1>13 DEF RunInv
  <1>15. DutyInv' /\ NothingSkipped'
    BY <1>3 DEF Inv, DutyInv, NothingSkipped
  <1> QED
    BY <1>8, <1>10, <1>14, <1>15 DEF Inv

\* What a run has rechecked of what the cycle had to do.
LEMMA DutyDone ==
    ASSUME Inv, NEW a, run # <<>>, a = run[1], a.recheck, a.phase = "state",
           NEW k \in IF st.after = 0 THEN catalog ELSE duty,
           a.r.complete \/ k <= Max(a.r.ids)
    PROVE  k \in catalog /\ k \in (IF st.after = 0 THEN {} ELSE checked) \cup a.exact
  <1>1. /\ k \in catalog /\ st.after \in Nat
        /\ Papers = 1 .. Len(arxiv) /\ Len(arxiv) \in Nat /\ catalog \in SUBSET Papers
    BY PapersAre DEF Inv, TypeInv, DutyInv, States
  <1>2. k \in Nat /\ k > 0
    BY <1>1
  <1>3. RecheckRun(a)
    BY DEF Inv, RunInv
  <1>4. CASE k > st.after
    BY <1>1, <1>3, <1>4 DEF RecheckRun
  <1>5. CASE k <= st.after
    BY <1>1, <1>2, <1>5 DEF Inv, DutyInv
  <1> QED
    BY <1>1, <1>2, <1>4, <1>5

\* The smaller of two numbers.
LEMMA MinOfTwo == ASSUME NEW x \in Int, NEW y \in Int, x <= y PROVE Min({y, x}) = x
  <1>1. x \in {y, x} /\ \A z \in {y, x} : x <= z
    OBVIOUS
  <1>2. \A m \in {y, x} : (\A z \in {y, x} : m <= z) => m = x
    OBVIOUS
  <1> QED
    BY <1>1, <1>2 DEF Min

\* The state file says what the run before it and its pages cover together.
LEMMA SaveStateStep == ASSUME Inv, SaveState PROVE Inv'
  <1>1. PICK a : a = run[1]
    OBVIOUS
  <1>2. PICK n : n = NextState(a) /\ st' = n
    BY <1>1 DEF SaveState
  <1>3. /\ run # <<>> /\ a.phase = "state" /\ run' = <<>> /\ owed' = owed \cup Completed(a)
        /\ UNCHANGED <<now, arxiv, config, catalog, cache, failures>>
    BY <1>1 DEF SaveState, env
  <1>4. /\ a.recheck => Rechecked(a.exact, a.r.complete)
        /\ ~a.recheck => UNCHANGED <<duty, checked, unchecked>>
    BY <1>1 DEF SaveState
  <1>5. TypeInv /\ a \in RunRecs
    BY <1>1, <1>3, Options DEF Inv, TypeInv
  <1>6. /\ WindowInv(a) /\ RecheckRun(a) /\ QueueInv(a)
        /\ a.exact \subseteq Papers /\ a.listed \subseteq Papers /\ a.exact \subseteq catalog
    BY <1>1, <1>3 DEF Inv, RunInv
  <1>7. PICK c : c = a.d.cycle
    OBVIOUS
  <1>8. c \in Cycles /\ a.d.complete \in BOOLEAN /\ a.daily \in BOOLEAN /\ a.recheck \in BOOLEAN
        /\ a.r.complete \in BOOLEAN /\ a.pending \in Queues /\ c.end \in Int /\ c.start \in Int
    BY <1>5, <1>7 DEF RunRecs, Cycles
  <1>9. /\ n.lastDay = IF a.daily THEN IF a.d.complete THEN now ELSE Never ELSE st.lastDay
        /\ n.last = IF a.daily /\ a.d.complete
                     THEN <<[end |-> c.end, config |-> c.config]>> ELSE st.last
        /\ n.cycle = IF a.daily THEN IF a.d.complete THEN <<>> ELSE <<c>> ELSE st.cycle
        /\ n.recheckDone = IF a.recheck /\ a.r.complete THEN now ELSE st.recheckDone
        /\ n.after = IF a.recheck THEN IF a.r.complete THEN 0 ELSE Max(a.r.ids) ELSE st.after
        /\ n.pending = a.pending
    BY <1>2, <1>7 DEF NextState, AfterRecheck
  <1>10. n = [lastDay |-> n.lastDay, last |-> n.last, cycle |-> n.cycle,
              recheckDone |-> n.recheckDone, after |-> n.after, pending |-> n.pending]
    BY <1>2 DEF NextState
  <1>11. /\ Papers' = Papers /\ Listed' = Listed /\ \A K, x, y : In(K, x, y)' = In(K, x, y)
         /\ \A K : Chained(K)' = Chained(K)
    BY <1>3 DEF Papers, Listed, In, Chained
  <1>12. catalog \in SUBSET Nat /\ now \in Int /\ st \in States
    <2>1. Papers \in SUBSET Nat
      BY <1>5, PapersAre
    <2> QED
      BY <1>5, <2>1 DEF TypeInv
  <1>13. n.after \in {0} \cup catalog
    BY <1>6, <1>9 DEF Inv, StateInv, RecheckRun
  <1>14. TypeInv'
    <2>1. n.lastDay \in Int /\ n.recheckDone \in Int /\ n.after \in Nat /\ n.pending \in Queues
      <3>1. st.lastDay \in Int /\ st.recheckDone \in Int /\ Never \in Int
        BY <1>12 DEF States, Never
      <3>2. n.lastDay \in Int /\ n.recheckDone \in Int
        BY <1>9, <1>12, <3>1
      <3>3. n.after \in Nat
        <4>1. \A k \in catalog : k \in Nat
          BY <1>12
        <4> QED
          BY <1>13, <4>1
      <3> QED
        BY <1>8, <1>9, <3>2, <3>3
    <2>2. n.last \in Opt(Lasts)
      <3>1. [end |-> c.end, config |-> c.config] \in Lasts
        BY <1>8 DEF Lasts, Cycles
      <3> QED
        BY <1>9, <1>12, <3>1, Some DEF States
    <2>3. n.cycle \in Opt(Cycles)
      <3>1. <<>> \in Opt(Cycles)
        BY DEF Opt
      <3> QED
        BY <1>8, <1>9, <1>12, <3>1, Some DEF States
    <2>4. n \in States
      BY <1>10, <2>1, <2>2, <2>3 DEF States
    <2>5. run' \in Opt(RunRecs)
      BY <1>3 DEF Opt
    <2> QED
      BY <1>2, <1>3, <1>5, <1>11, <2>4, <2>5 DEF TypeInv
  <1>15. CacheInv'
    BY <1>3, <1>11 DEF Inv, CacheInv, PageOK
  <1>16. StateInv'
    <2>1. ASSUME n.cycle # <<>> PROVE CycleOK(n.cycle[1], catalog)'
      <3>1. PICK z : z = n.cycle[1]
        OBVIOUS
      <3>2. n.last = st.last /\ CycleOK(z, catalog)
        <4>1. CASE a.daily
          <5>1. ~a.d.complete /\ z = c /\ n.last = st.last
            BY <1>9, <2>1, <3>1, <4>1
          <5>2. CycleOK(c, catalog \cup a.exact) /\ catalog \cup a.exact = catalog
            BY <1>6, <1>7, <4>1, <5>1 DEF WindowInv
          <5> QED
            BY <5>1, <5>2
        <4>2. CASE ~a.daily
          BY <1>9, <2>1, <3>1, <4>2 DEF Inv, StateInv
        <4> QED
          BY <4>1, <4>2
      <3>3. PICK K \in SUBSET Listed : Covers(z, K, catalog) /\ Chained(K)
        BY <3>2 DEF CycleOK
      <3>4. Covers(z, K, catalog)' /\ Chained(K)' /\ K \in SUBSET Listed'
        BY <1>3, <1>11, <3>3 DEF Covers
      <3>5. Follows(z)'
        BY <1>2, <3>2 DEF CycleOK, Follows
      <3>6. z.start < z.end /\ z.end <= now' /\ z.next \in 0 .. z.total
        BY <1>3, <3>2 DEF CycleOK
      <3>7. CycleOK(z, catalog)'
        BY <3>4, <3>5, <3>6 DEF CycleOK
      <3> QED
        BY <3>1, <3>7
    <2>2. ASSUME n.last # <<>> PROVE n.last[1].end <= now
      <3>1. CASE a.daily /\ a.d.complete
        BY <1>6, <1>7, <1>9, <3>1 DEF WindowInv
      <3>2. CASE ~(a.daily /\ a.d.complete)
        BY <1>9, <2>2, <3>2 DEF Inv, StateInv
      <3> QED
        BY <3>1, <3>2
    <2>3. n.lastDay \in {Never} \cup 0 .. now /\ n.recheckDone \in {Never} \cup 0 .. now
      <3>1. now \in 0 .. now
        BY Constants, <1>5 DEF TypeInv
      <3> QED
        BY <1>9, <3>1 DEF Inv, StateInv
    <2> QED
      BY <1>2, <1>3, <1>13, <2>1, <2>2, <2>3 DEF StateInv
  <1>17. RunInv'
    BY <1>3 DEF RunInv
  <1>18. DutyInv'
    <2> SUFFICES ASSUME n.after # 0
                 PROVE  duty' \subseteq catalog /\ \A k \in duty' : k <= n.after => k \in checked'
      BY <1>2, <1>3 DEF DutyInv
    <2>1. CASE ~a.recheck
      BY <1>4, <1>9, <2>1 DEF Inv, DutyInv
    <2>2. CASE a.recheck
      <3>1. ~a.r.complete /\ n.after = Max(a.r.ids)
        BY <1>9, <2>2
      <3>2. /\ duty' = IF st.after = 0 THEN catalog ELSE duty
            /\ checked' = (IF st.after = 0 THEN {} ELSE checked) \cup a.exact
        BY <1>4, <2>2, <3>1 DEF Rechecked
      <3>3. duty' \subseteq catalog
        BY <3>2 DEF Inv, DutyInv
      <3>4. ASSUME NEW k \in duty', k <= n.after PROVE k \in checked'
        BY <1>1, <1>3, <2>2, <3>1, <3>2, <3>4, DutyDone
      <3> QED
        BY <3>3, <3>4
    <2> QED
      BY <2>1, <2>2
  <1>19. owed' \subseteq catalog'
    <2> SUFFICES ASSUME NEW k \in Completed(a) PROVE k \in catalog
      BY <1>3 DEF Inv, NothingSkipped
    <2>1. /\ k \in a.listed /\ a.daily /\ a.d.complete /\ arxiv[k].at < c.end
          /\ arxiv[k].at >= IF PreviousEnd # <<>> THEN Min({PreviousEnd[1], c.start}) ELSE c.start
      BY <1>7 DEF Completed
    <2>2. /\ In(a.listed, c.start, c.end) \subseteq catalog \cup a.exact
          /\ Follows(c) /\ c.config = config
      BY <1>6, <1>7, <2>1 DEF WindowInv
    <2>3. arxiv[k].at >= c.start
      <3>1. CASE PreviousEnd = <<>>
        BY <2>1, <3>1
      <3>2. CASE PreviousEnd # <<>>
        <4>1. st.last # <<>> /\ st.last[1].config = config /\ PreviousEnd[1] = st.last[1].end
          BY <3>2 DEF PreviousEnd
        <4>2. c.start <= PreviousEnd[1] /\ PreviousEnd[1] \in Int
          BY <1>12, <2>2, <4>1, Options DEF Follows, States, Lasts
        <4>3. Min({PreviousEnd[1], c.start}) = c.start
          BY <1>8, <4>2, MinOfTwo
        <4> QED
          BY <2>1, <3>2, <4>3
      <3> QED
        BY <3>1, <3>2
    <2>4. arxiv[k].at \in Int
      BY <1>5, <1>6, <2>1, PapersAre
    <2>5. k \in In(a.listed, c.start, c.end)
      BY <1>8, <2>1, <2>3, <2>4 DEF In
    <2> QED
      BY <1>6, <2>2, <2>5
  <1>20. unchecked' = {}
    <2>1. CASE ~a.recheck
      BY <1>4, <2>1 DEF Inv, NothingSkipped
    <2>2. CASE a.recheck
      <3> DEFINE duty0 == IF st.after = 0 THEN catalog ELSE duty
                 checked0 == (IF st.after = 0 THEN {} ELSE checked) \cup a.exact
      <3>1. unchecked' = IF a.r.complete THEN unchecked \cup (duty0 \ checked0) ELSE unchecked
        BY <1>4, <2>2 DEF Rechecked
      <3>2. ASSUME a.r.complete, NEW k \in duty0 PROVE k \in checked0
        BY <1>1, <1>3, <2>2, <3>2, DutyDone
      <3>3. unchecked = {}
        BY DEF Inv, NothingSkipped
      <3> QED
        BY <3>1, <3>2, <3>3
    <2> QED
      BY <2>1, <2>2
  <1> QED
    BY <1>14, <1>15, <1>16, <1>17, <1>18, <1>19, <1>20 DEF Inv, NothingSkipped

\* A step that changes nothing changes nothing that is owed.
LEMMA StutterStep == ASSUME Inv, UNCHANGED vars PROVE Inv'
  <1>1. UNCHANGED <<now, arxiv, config, catalog, cache, st, artifact, run, failures,
                    owed, duty, checked, unchecked>>
    BY DEF vars, env, disk, ghosts
  <1>2. /\ Papers' = Papers /\ Listed' = Listed /\ \A K, x, y : In(K, x, y)' = In(K, x, y)
        /\ \A K : Chained(K)' = Chained(K)
    BY <1>1 DEF Papers, Listed, In, Chained
  <1>3. \A c, done : CycleOK(c, done)' = CycleOK(c, done)
    <2> TAKE c, done
    <2>1. Follows(c)' = Follows(c)
      BY <1>1 DEF Follows
    <2>2. \A K : Covers(c, K, done)' = Covers(c, K, done)
      BY <1>2 DEF Covers
    <2> QED
      BY <1>1, <1>2, <2>1, <2>2 DEF CycleOK
  <1>4. TypeInv' /\ DutyInv' /\ NothingSkipped'
    BY <1>1, <1>2 DEF Inv, TypeInv, DutyInv, NothingSkipped
  <1>5. CacheInv' /\ StateInv'
    BY <1>1, <1>2, <1>3 DEF Inv, CacheInv, StateInv, PageOK
  <1>6. ASSUME run # <<>> PROVE WindowInv(run[1])' /\ RecheckRun(run[1])' /\ QueueInv(run[1])'
    <2>1. WindowInv(run[1]) /\ RecheckRun(run[1]) /\ QueueInv(run[1])
      BY <1>6 DEF Inv, RunInv
    <2>2. WindowInv(run[1])'
      BY <1>1, <1>2, <1>3, <2>1 DEF WindowInv, Follows
    <2>3. RecheckRun(run[1])'
      BY <1>1, <2>1 DEF RecheckRun
    <2>4. QueueInv(run[1])'
      BY <1>1, <2>1 DEF QueueInv, Terminal, Settled
    <2> QED
      BY <2>2, <2>3, <2>4
  <1>7. RunInv'
    BY <1>1, <1>2, <1>6 DEF Inv, RunInv
  <1> QED
    BY <1>4, <1>5, <1>7 DEF Inv

\* The lengths of nothing and of one.
LEMMA LengthOf == Len(<<>>) = 0 /\ \A x : Len(<<x>>) = 1
  OBVIOUS

\* Every step preserves the invariant.
LEMMA NextStep == ASSUME Inv, [Next]_vars PROVE Inv'
  <1>1. CASE Discover
    BY <1>1, DiscoverStep
  <1>2. CASE Resolve
    BY <1>2, ResolveStep
  <1>3. CASE WriteArtifacts
    BY <1>3, WriteArtifactsStep
  <1>4. CASE SaveState
    BY <1>4, SaveStateStep
  <1>5. CASE Fail
    BY <1>5, FailStep
  <1>6. CASE Tick
    BY <1>6, TickStep
  <1>7. CASE \E listed \in BOOLEAN : Submit(listed)
    BY <1>7, SubmitStep
  <1>8. CASE \E k \in Papers : List(k) \/ Bar(k)
    BY <1>8, ListStep, BarStep
  <1>9. CASE Reconfigure
    BY <1>9, ReconfigureStep
  <1>10. CASE UNCHANGED vars
    BY <1>10, StutterStep
  <1>11. CASE Refuse
    BY <1>11, RefuseStep
  <1> QED
    BY <1>1, <1>2, <1>3, <1>4, <1>5, <1>6, <1>7, <1>8, <1>9, <1>10, <1>11 DEF Next, Sync

\* Only a paper of the catalog is barred, and the catalog only grows.
BarredInv == barred \subseteq catalog

LEMMA BarredStep == ASSUME BarredInv, [Next]_vars PROVE BarredInv'
  <1>1. \/ barred' = barred /\ catalog \subseteq catalog'
        \/ \E k \in Papers : Bar(k)
    BY DEF Next, Sync, Discover, Resolve, Refuse, WriteArtifacts, SaveState, Fail, Tick,
           Submit, List, Reconfigure, env, disk, vars
  <1> QED
    BY <1>1 DEF BarredInv, Bar, disk

-----------------------------------------------------------------------------
(* The theorems                                                            *)

\* research_radar.py sync_research_radar: the invariant of the synchronisation.
THEOREM Invariance == Spec => []Inv
  <1> QED
    BY Initially, NextStep, PTL DEF Spec

\* research_radar.py _load_sync_state: every state that a run leaves behind,
\* however it ends, is one that the next run loads.
THEOREM TypeCorrect == Spec => []TypeOK
  <1>1. ASSUME Inv, BarredInv PROVE TypeOK
    <2>1. TypeInv /\ StateInv
      BY <1>1 DEF Inv
    <2>2. st \in States /\ st.pending \in Queues /\ catalog \in SUBSET Papers
      BY <2>1 DEF TypeInv, States
    <2>3. DOMAIN st.pending \subseteq Artifacts
      BY <2>2, QueuesAre
    <2>4. ASSUME NEW k \in DOMAIN st.pending PROVE st.pending[k].attempts \in 0 .. AttemptCap
      <3>1. st.pending[k].attempts \in Int /\ 0 <= st.pending[k].attempts
            /\ st.pending[k].attempts <= AttemptCap
        BY <2>2, QueuesAre
      <3> QED
        BY <3>1, Constants
    <2>5. Loads(st)
      BY <2>1, <2>4 DEF Loads, StateInv, CycleOK
    <2>6. Len(run) <= 1
      <3>1. run = <<>> \/ run = <<run[1]>>
        BY <2>1 DEF TypeInv, Opt
      <3>2. Len(run) = 0 \/ Len(run) = 1
        BY <3>1, Zenon, LengthOf
      <3>3. \A n : n = 0 \/ n = 1 => n <= 1
        OBVIOUS
      <3> QED
        BY <3>2, <3>3, Zenon
    <2> QED
      BY <1>1, <2>1, <2>2, <2>3, <2>5, <2>6
         DEF TypeOK, TypeInv, StateInv, CycleOK, BarredInv
  <1>2. Init => BarredInv
    BY DEF Init, BarredInv
  <1>3. Spec => []BarredInv
    BY <1>2, BarredStep, PTL DEF Spec
  <1> QED
    BY <1>1, <1>3, Invariance, PTL

\* research_radar.py _sync_research_radar_once: whatever fails, restarts, is
\* listed late or reconfigured, what a completed window contained is in the
\* catalog, and a completed recheck has requested every paper it began with.
THEOREM NothingIsSkipped == Spec => []NothingSkipped
  <1>1. Inv => NothingSkipped
    BY DEF Inv
  <1> QED
    BY <1>1, Invariance, PTL

\* research_radar.py _sync_research_radar_once, pending_after: no step takes an
\* artifact back to an earlier attempt, and none leaves the queue unsettled.
THEOREM RetriesAreKept == Spec => RetriesNeverReset
  <1> DEFINE Kept ==
        \A k \in DOMAIN st.pending :
          \/ Terminal(k)
          \/ k \in DOMAIN st'.pending /\ st'.pending[k].attempts >= st.pending[k].attempts
  <1>1. ASSUME Inv, Next PROVE Kept
    <2>1. CASE st' = st
      <3>1. \A k \in DOMAIN st.pending : st.pending[k].attempts \in Int
        BY <1>1, QueuesAre DEF Inv, TypeInv, States
      <3> QED
        BY <2>1, <3>1
    <2>2. CASE SaveState
      <3>1. run # <<>> /\ run[1].phase = "state" /\ st'.pending = run[1].pending
        BY <2>2 DEF SaveState, NextState
      <3>2. QueueInv(run[1])
        BY <1>1, <3>1 DEF Inv, RunInv
      <3> QED
        BY <3>1, <3>2 DEF QueueInv
    <2> QED
      BY <1>1, <2>1, <2>2 DEF Next, Sync, Discover, Resolve, Refuse, WriteArtifacts, Fail, Tick,
                              Submit, List, Bar, Reconfigure, disk
  <1>2. ASSUME Inv, [Next]_vars PROVE [Kept]_vars
    BY <1>1, <1>2
  <1> QED
    BY <1>2, Invariance, PTL DEF Spec, RetriesNeverReset
=============================================================================
