------------------------------ MODULE RadarSync ------------------------------
(***************************************************************************)
(* The Research Radar's scheduled synchronisation                          *)
(* (src/src/agent_continuity/research_radar.py sync_research_radar): the   *)
(* daily discovery of papers through windows and pages, the weekly recheck *)
(* of the papers known, the queue of artifacts to verify, and the cadence  *)
(* state which is replaced last.  arXiv lists papers, some of them late;   *)
(* a run may fail or die at any point; the configuration may change.       *)
(*                                                                         *)
(* Papers are numbered in the order of their submission, which is the      *)
(* order of their identifiers.  One unit of time is one UTC day, and the   *)
(* second by which a window overlaps the one before it is dropped.         *)
(* RadarCatalog has the records of one paper in detail: here a paper is in *)
(* the catalog once the files of its first intake are written.             *)
(***************************************************************************)
EXTENDS Integers, Sequences, FiniteSets, FiniteSetsExt

CONSTANTS
    Lookback,       \* days a discovery window is long
    RecheckDays,    \* days between two version rechecks
    MaxFrontier, MaxBacklog, MaxRecheck, MaxArtifacts,   \* the budgets of a run
    AttemptCap,     \* failed attempts after which an artifact is left to the operator
    Links,          \* per artifact: the paper whose metadata names it
    ObservationBound,   \* observations of a paper that are read, 200 in the code
    MaxPapers, MaxTime, MaxLate, MaxFailures, MaxConfigs, MaxBarred  \* BOUNDS

ASSUME SyncAssumption ==
    /\ {Lookback, RecheckDays, MaxFrontier, MaxBacklog, MaxRecheck} \subseteq Nat \ {0}
    /\ {MaxArtifacts, AttemptCap, MaxPapers, MaxTime, MaxLate, MaxFailures} \subseteq Nat
    /\ {MaxBarred, ObservationBound} \subseteq Nat
    /\ MaxConfigs \in Nat \ {0}

ASSUME LinksAssumption == Links \in Seq(1 .. MaxPapers)

VARIABLES
    now,            \* the day
    arxiv,          \* per paper: its submission, and whether searches return it
    config,         \* the configuration in force
    catalog,        \* the papers with records on disk
    artifact,       \* per artifact: its latest observation, and how many there are
    cache,          \* the history pages stored today
    st,             \* state/sync-state.json
    run,            \* the run that holds the sync lock, or <<>>
    late, failures, \* how often arXiv listed late, and runs failed
    barred,         \* papers whose records can no longer be brought up to date
    \* Not in the code, for the properties only:
    owed,           \* papers that the windows completed so far contained
    duty, checked, unchecked    \* the recheck cycle: to do, done, missed at its end

env == <<arxiv, config, late, barred>>
disk == <<catalog, artifact, cache, st>>
ghosts == <<owed, duty, checked, unchecked>>
vars == <<now, env, disk, run, failures, ghosts>>

Never == -1

Papers == 1 .. Len(arxiv)

Artifacts == DOMAIN Links

Smallest(n, S) == {k \in S : Cardinality({j \in S : j < k}) < n}

-----------------------------------------------------------------------------
(* arXiv's search: the papers of [start, end), newest first, a page of at  *)
(* most `limit` of them from `offset` on, and how many there are in all.   *)
(* (`known`, for a property only: what the window held at that moment.)    *)

Window(start, end) ==
    {k \in Papers : arxiv[k].listed /\ start <= arxiv[k].at /\ arxiv[k].at < end}

Page(start, end, offset, limit) ==
    LET all == Window(start, end)
        rank(k) == Cardinality({j \in all : j > k})
    IN [ids |-> {k \in all : offset <= rank(k) /\ rank(k) < offset + limit},
        total |-> Cardinality(all), known |-> {k \in Papers : arxiv[k].listed}]

Locator(w) == [start |-> w.start, end |-> w.end, offset |-> w.next, config |-> config]

(* BoundedNetworkClient.fetch: a history page stored today is read again   *)
(* from the cache.  (A frontier page's locator names the second it is made *)
(* at, so that it is never found there.)                                   *)
Fetched(w) ==
    IF \E c \in cache : c.locator = Locator(w)
      THEN (CHOOSE c \in cache : c.locator = Locator(w)).page
      ELSE Page(w.start, w.end, w.next, MaxBacklog)

-----------------------------------------------------------------------------
(* What a run has to do, from the cadence state. *)

(* _load_sync_state: a run does nothing with a state that is not whole. *)
Loads(s) ==
    /\ s.after \in {0} \cup catalog
    /\ s.cycle # <<>> =>
         s.cycle[1].start < s.cycle[1].end /\ s.cycle[1].next \in 0 .. s.cycle[1].total
    /\ \A k \in DOMAIN s.pending : s.pending[k].attempts \in 0 .. AttemptCap

(* "Research Radar clock regression": no timestamp of the state is later. *)
ClockSane ==
    /\ st.last # <<>> => st.last[1].end <= now
    /\ st.cycle # <<>> => st.cycle[1].start <= now /\ st.cycle[1].end <= now
    /\ st.recheckDone <= now

CycleActive == st.cycle # <<>> /\ st.cycle[1].config = config

ConfigReset == st.cycle # <<>> /\ ~CycleActive

DailyDue == CycleActive \/ ConfigReset \/ st.lastDay # now

RecheckDue ==
    \/ st.after # 0
    \/ st.recheckDone = Never
    \/ now - st.recheckDone >= RecheckDays

(* The end of the last completed window, unless another configuration's. *)
PreviousEnd ==
    IF st.last # <<>> /\ st.last[1].config = config THEN <<st.last[1].end>> ELSE <<>>

Behind == PreviousEnd # <<>> /\ PreviousEnd[1] < now - Lookback

(* The window whose pages the run advances besides the frontier's: the     *)
(* cycle under way, or what follows the last completed window when the     *)
(* frontier does not reach back to it.                                     *)
History ==
    IF CycleActive THEN st.cycle
    ELSE IF Behind
           THEN <<[start |-> PreviousEnd[1], next |-> 0, config |-> config,
                   end |-> IF PreviousEnd[1] + Lookback < now
                             THEN PreviousEnd[1] + Lookback ELSE now,
                   total |-> Never]>>
           ELSE <<>>

(* A mutant: a page is counted on, whatever total it comes with. *)
AdvanceTrusting(w, page) ==
    LET next == w.next + Cardinality(page.ids) IN
    [cycle |-> [w EXCEPT !.next = next, !.total = page.total],
     complete |-> next >= page.total]

(* A mutant: the total a window began with is kept. *)
AdvanceForgetful(w, page) ==
    LET moved == w.total # Never /\ w.total # page.total
        next  == IF moved THEN 0 ELSE w.next + Cardinality(page.ids)
    IN [cycle |-> [w EXCEPT !.next = next, !.total = IF moved THEN @ ELSE page.total],
        complete |-> ~moved /\ next >= page.total]

(* A page moves the cursor of its window; a total other than the last      *)
(* page's starts the window again.                                         *)
Advance(w, page) ==
    LET moved == w.total # Never /\ w.total # page.total
        next  == IF moved THEN 0 ELSE w.next + Cardinality(page.ids)
    IN [cycle |-> [w EXCEPT !.next = next, !.total = page.total],
        complete |-> ~moved /\ next >= page.total]

-----------------------------------------------------------------------------
(* A run: the discovery pages, the exact-ID requests and artifact checks,  *)
(* and then the writes.                                                    *)

(* The papers of this run's part of the recheck, from the cursor on. *)
Eligible == {k \in catalog : k > st.after}

Recheck ==
    IF RecheckDue
      THEN [ids |-> Smallest(MaxRecheck, Eligible),
            complete |-> Cardinality(Eligible) <= MaxRecheck]
      ELSE [ids |-> {}, complete |-> FALSE]

(* Without a history window, the frontier page opens one. *)
Opened == [start |-> now - Lookback, end |-> now, next |-> 0,
           config |-> config, total |-> Never]

(* _store_cached_fetch: what the parser accepted is kept for the day. *)
Stored(w, page) == cache \cup {[locator |-> Locator(w), page |-> page]}

(* _sync_write_lock: one run at a time.  (A run without --apply changes    *)
(* nothing.)                                                               *)
Unlocked == run = <<>>

(* Discovery: the frontier page, always, and a page of the history.        *)
Discover ==
    /\ Unlocked /\ Loads(st) /\ ClockSane
    /\ DailyDue \/ RecheckDue
    /\ \E history \in {History}, frontier \in {Page(now - Lookback, now, 0, MaxFrontier)} :
       \E w \in {IF history # <<>> THEN history[1] ELSE Opened} :
       \E page \in {IF history # <<>> THEN Fetched(w) ELSE frontier} :
       \E d \in {Advance(w, page)}, r \in {Recheck} :
         /\ cache' = IF DailyDue /\ history # <<>> THEN Stored(w, page) ELSE cache
         /\ run' = <<[phase |-> "resolve", daily |-> DailyDue, recheck |-> RecheckDue,
                      d |-> d, r |-> r,
                      exact |-> r.ids \cup IF DailyDue THEN frontier.ids \cup page.ids ELSE {},
                      listed |-> page.known, pending |-> st.pending, seen |-> [k \in {} |-> ""]]>>
    /\ UNCHANGED <<now, env, catalog, artifact, st, failures, ghosts>>

Terminal(k) == artifact[k].status \in {"verified", "manual_review"}

(* extract_artifact_candidates: the artifacts that metadata links to. *)
Candidates(exact) == {k \in Artifacts : Links[k] \in exact}

(* "artifact observation count exceeds the v1 bound": every check made one. *)
Crowded(paper) ==
    MapThenSumSet(LAMBDA k : artifact[k].filed, {k \in Artifacts : Links[k] = paper})
        > ObservationBound

(* What ends every run that asks for it: a paper that is barred, or the    *)
(* observations of one, or of a paper with an artifact in the queue.       *)
Refused(a) ==
    \/ \E paper \in a.exact : paper \in barred \/ Crowded(paper)
    \/ \E k \in DOMAIN st.pending : Crowded(Links[k])

(* _pending_artifact: a new one is due at once. *)
Pending == [attempts |-> 0, next |-> 0]

(* The queue, less what is settled, and the new papers' artifacts. *)
Queue(exact) ==
    LET kept  == {k \in DOMAIN st.pending : ~Terminal(k)}
        added == {k \in Candidates(exact) : k \notin kept /\ ~Terminal(k)}
    IN [k \in kept \cup added |-> IF k \in kept THEN st.pending[k] ELSE Pending]

(* 1, 2, 4, 4, ... days. *)
RetryDays(attempts) ==
    CASE attempts = 0 -> 1
      [] attempts = 1 -> 2
      [] OTHER -> 4

(* A mutant: an artifact that is not due goes back without its attempts. *)
AfterChecksAnew(queue, selected, verified) ==
    [k \in {j \in DOMAIN queue :
              /\ j \notin verified
              /\ ~(j \in selected /\ queue[j].attempts >= AttemptCap)} |->
        IF k \in selected
          THEN [attempts |-> queue[k].attempts + 1,
                next |-> now + RetryDays(queue[k].attempts)]
          ELSE [attempts |-> 0, next |-> queue[k].next]]

(* A mutant: the last attempt is counted once too often. *)
AfterChecksOneMore(queue, selected, verified) ==
    [k \in {j \in DOMAIN queue :
              /\ j \notin verified
              /\ ~(j \in selected /\ queue[j].attempts > AttemptCap)} |->
        IF k \in selected
          THEN [attempts |-> queue[k].attempts + 1,
                next |-> now + RetryDays(queue[k].attempts)]
          ELSE queue[k]]

(* The queue after the checks: a failed one waits for its next attempt,    *)
(* until the last is spent.                                                *)
AfterChecks(queue, selected, verified) ==
    [k \in {j \in DOMAIN queue :
              /\ j \notin verified
              /\ ~(j \in selected /\ queue[j].attempts >= AttemptCap)} |->
        IF k \in selected
          THEN [attempts |-> queue[k].attempts + 1,
                next |-> now + RetryDays(queue[k].attempts)]
          ELSE queue[k]]

(* verify_artifact_candidate: what is asked of GitHub or Hugging Face may  *)
(* be verified or not; a refused or failed request is not verified.        *)
Outcomes(selected) == SUBSET selected

(* The exact-ID requests and the checks of the artifacts that are due,     *)
(* each verified or not; then the discovery observations and apply_plan of *)
(* what was resolved.                                                      *)
Resolve ==
    LET queue    == Queue(run[1].exact)
        selected == Smallest(MaxArtifacts, {k \in DOMAIN queue : queue[k].next <= now})
    IN
    /\ run # <<>> /\ run[1].phase = "resolve" /\ ~Refused(run[1])
    /\ \E verified \in Outcomes(selected) :
         run' = <<[run[1] EXCEPT
            !.phase = "artifacts",
            !.pending = AfterChecks(queue, selected, verified),
            !.seen = [k \in selected |->
                        IF k \in verified THEN "verified"
                        ELSE IF queue[k].attempts >= AttemptCap THEN "manual_review"
                        ELSE "unverified"]]>>
    /\ catalog' = catalog \cup run[1].exact
    /\ UNCHANGED <<now, env, artifact, cache, st, failures, ghosts>>

(* An error is raised before the state is saved, and by the next run that  *)
(* asks for the same.  (Only the number of receipts is an error while the  *)
(* plan is applied: then the other papers' files may be written.)          *)
Refuse ==
    /\ run # <<>> /\ run[1].phase = "resolve" /\ Refused(run[1])
    /\ run' = <<>>
    /\ catalog' \in {catalog, catalog \cup run[1].exact}
    /\ UNCHANGED <<now, env, artifact, cache, st, failures, ghosts>>

(* _apply_auxiliary_writes of the observations: the latest one counts. *)
Observed(seen) ==
    [k \in Artifacts |->
        IF k \in DOMAIN seen THEN [status |-> seen[k], filed |-> artifact[k].filed + 1]
                             ELSE artifact[k]]

(* The observations of artifacts, the triage and the record of the run. *)
WriteArtifacts ==
    /\ run # <<>> /\ run[1].phase = "artifacts"
    /\ artifact' = Observed(run[1].seen)
    /\ run' = <<[run[1] EXCEPT !.phase = "state"]>>
    /\ UNCHANGED <<now, env, catalog, cache, st, failures, ghosts>>

(* The cursor moves to the last paper rechecked. *)
AfterRecheck(r) ==
    IF r.complete THEN [done |-> now, after |-> 0]
    ELSE [done |-> st.recheckDone, after |-> Max(r.ids)]

NextState(a) ==
    LET b == IF a.recheck THEN AfterRecheck(a.r)
             ELSE [done |-> st.recheckDone, after |-> st.after]
        c == a.d.cycle
    IN [lastDay |-> IF a.daily THEN IF a.d.complete THEN now ELSE Never ELSE st.lastDay,
        last |-> IF a.daily /\ a.d.complete
                   THEN <<[end |-> c.end, config |-> c.config]>> ELSE st.last,
        cycle |-> IF a.daily THEN IF a.d.complete THEN <<>> ELSE <<c>> ELSE st.cycle,
        recheckDone |-> b.done, after |-> b.after, pending |-> a.pending]

(* For the properties: what the window that the run completed contained,   *)
(* from the end of the window before it on; and the recheck's progress.    *)
Completed(a) ==
    LET c == a.d.cycle IN
    {k \in a.listed :
        /\ a.daily /\ a.d.complete /\ arxiv[k].at < c.end
        /\ arxiv[k].at >= IF PreviousEnd # <<>> THEN Min({PreviousEnd[1], c.start}) ELSE c.start}

Rechecked(exact, complete) ==
    LET duty0    == IF st.after = 0 THEN catalog ELSE duty
        checked0 == (IF st.after = 0 THEN {} ELSE checked) \cup exact
    IN
    /\ duty' = IF complete THEN {} ELSE duty0
    /\ checked' = IF complete THEN {} ELSE checked0
    /\ unchecked' = IF complete THEN unchecked \cup (duty0 \ checked0) ELSE unchecked

(* _write_sync_state: one atomic replacement, after everything else. *)
SaveState ==
    /\ run # <<>> /\ run[1].phase = "state"
    /\ st' = NextState(run[1])
    /\ run' = <<>>
    /\ owed' = owed \cup Completed(run[1])
    /\ IF run[1].recheck THEN Rechecked(run[1].exact, run[1].r.complete)
                         ELSE UNCHANGED <<duty, checked, unchecked>>
    /\ UNCHANGED <<now, env, catalog, artifact, cache, failures>>

(* A request fails, a budget is spent or the process dies: what is written *)
(* stays, and the run is over.                                             *)
Fail ==
    /\ run # <<>> /\ failures < MaxFailures
    /\ run' = <<>> /\ failures' = failures + 1
    /\ UNCHANGED <<now, env, disk, ghosts>>

Sync == Discover \/ Resolve \/ Refuse \/ WriteArtifacts \/ SaveState

-----------------------------------------------------------------------------
(* The world: days pass, papers are submitted and listed at once or late,  *)
(* the operator changes the configuration.  All between runs: a run reads  *)
(* arXiv's listing in its first step only, and works on a configuration of *)
(* its own.                                                                *)

Tick ==
    /\ run = <<>> /\ now < MaxTime
    /\ now' = now + 1 /\ cache' = {}
    /\ UNCHANGED <<env, catalog, artifact, st, run, failures, ghosts>>

Submit(listed) ==
    /\ run = <<>> /\ now < MaxTime /\ Len(arxiv) < MaxPapers
    /\ ~listed => late < MaxLate
    /\ arxiv' = Append(arxiv, [at |-> now, listed |-> listed])
    /\ late' = IF listed THEN late ELSE late + 1
    /\ UNCHANGED <<now, config, barred, disk, run, failures, ghosts>>

List(k) ==
    /\ run = <<>> /\ now < MaxTime /\ ~arxiv[k].listed
    /\ arxiv' = [arxiv EXCEPT ![k].listed = TRUE]
    /\ UNCHANGED <<now, config, late, barred, disk, run, failures, ghosts>>

Reconfigure ==
    /\ run = <<>> /\ config < MaxConfigs
    /\ config' = config + 1
    /\ UNCHANGED <<now, arxiv, late, barred, disk, run, failures, ghosts>>

(* plan_ingestion: arXiv changes the metadata of a version in place, which *)
(* is a conflict with the record of it; or apply_plan: a receipt more and  *)
(* its ledger no longer loads (Overfull of RadarCatalog).  Neither passes. *)
Bar(k) ==
    /\ run = <<>> /\ now < MaxTime
    /\ k \in catalog \ barred /\ Cardinality(barred) < MaxBarred
    /\ barred' = barred \cup {k}
    /\ UNCHANGED <<now, arxiv, config, late, disk, run, failures, ghosts>>

Init ==
    /\ now = 0 /\ arxiv = <<>> /\ config = 1 /\ late = 0 /\ failures = 0 /\ barred = {}
    /\ catalog = {} /\ cache = {} /\ run = <<>>
    /\ artifact = [k \in Artifacts |-> [status |-> "none", filed |-> 0]]
    /\ st = [lastDay |-> Never, last |-> <<>>, cycle |-> <<>>,
             recheckDone |-> Never, after |-> 0, pending |-> [k \in {} |-> Pending]]
    /\ owed = {} /\ duty = {} /\ checked = {} /\ unchecked = {}

Next ==
    \/ Sync \/ Fail \/ Tick
    \/ \E listed \in BOOLEAN : Submit(listed)
    \/ \E k \in Papers : List(k) \/ Bar(k)
    \/ Reconfigure

(* The task runs again and again, and a day ends however often it runs:    *)
(* no run is a day long, so that a day may end between two runs.           *)
Fairness == WF_vars(Sync) /\ SF_vars(Tick)

Spec == Init /\ [][Next]_vars /\ Fairness

-----------------------------------------------------------------------------
(* Types; and every state that a run leaves is one that the next run       *)
(* loads: a cursor within its total, a recheck cursor that is a paper of   *)
(* the catalog, a queue whose attempts are within their bound.             *)
TypeOK ==
    /\ now \in 0 .. MaxTime /\ config \in 1 .. MaxConfigs
    /\ catalog \subseteq Papers /\ failures \in 0 .. MaxFailures
    /\ Len(run) <= 1 /\ Loads(st)
    /\ st.cycle # <<>> => st.cycle[1].end <= now
    /\ st.last # <<>> => st.last[1].end <= now
    /\ {st.lastDay, st.recheckDone} \subseteq {Never} \cup 0 .. now
    /\ DOMAIN st.pending \subseteq Artifacts /\ barred \subseteq catalog

(* research_radar.py _sync_research_radar_once, discovery and recheck: no  *)
(* failure, restart, late listing or change of the configuration makes the *)
(* radar skip a paper: what a completed window contained when it was       *)
(* completed, from where the last one ended, is in the catalog, and a      *)
(* completed recheck has requested every paper that was known at its start.*)
NothingSkipped == owed \subseteq catalog /\ unchecked = {}

(* docs/RESEARCH_RADAR_V1.md, of the queue of artifacts: a candidate       *)
(* cannot silently go back to an earlier attempt; it leaves the queue      *)
(* verified or for the operator's review.                                  *)
RetriesNeverReset ==
    [][\A k \in DOMAIN st.pending :
          \/ Terminal(k)
          \/ k \in DOMAIN st'.pending /\ st'.pending[k].attempts >= st.pending[k].attempts
      ]_vars

(* The papers whose request is an error: a window that one of them is in,  *)
(* or a recheck, stays at its page.                                        *)
Spoiled == barred \cup {k \in catalog : Crowded(k)}

(* research_radar.py _sync_research_radar_once: a window that was begun is *)
(* completed (or given up for a new configuration's), although its pages   *)
(* are a few papers each and its total may move, as long as no paper is    *)
(* spoiled.                                                                *)
CycleEnds == (st.cycle # <<>>) ~> (st.cycle = <<>> \/ Spoiled # {})
=============================================================================
