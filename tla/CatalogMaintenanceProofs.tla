---------------------- MODULE CatalogMaintenanceProofs ----------------------
(***************************************************************************)
(* Proofs about CatalogMaintenance, for any threads, runs and limits.      *)
(* That a command is started once on a thread is not inductive: a run      *)
(* selects threads from what attempted-ids.json said when it began, and    *)
(* writes the file from its copy.  Inv adds what the instance lock         *)
(* protects between those steps.                                           *)
(***************************************************************************)
EXTENDS CatalogMaintenance, TLAPS

\* The copy of the run that holds the lock is the file.
KnownInv == \A p \in Runs : job[p].pc # "idle" => job[p].known = attempted

\* What a run has selected and not come to was never attempted.
PendingInv == \A p \in Runs :
    /\ job[p].pc = "idle" => job[p].selected = {}
    /\ \A r \in job[p].selected :
         r.id \in Subagents /\ attempted[r.id] = "none" /\ r.id # job[p].at
    /\ \A r, s \in job[p].selected : r.id = s.id => r = s

\* The thread a run is at, and how far it is with it.
AtInv == \A p \in Runs :
    /\ job[p].pc \in {"record", "archive", "wait", "verify"} => job[p].at \in Subagents
    /\ job[p].pc = "record" => attempted[job[p].at] = "none"
    /\ job[p].pc = "archive" => attempted[job[p].at] = "attempting" /\ invoked[job[p].at] = 0

\* A thread on which a command is running was attempted.
CommandInv == \A t \in commands : attempted[t] # "none"

Quiet(t, cutoff) == t \in Subagents /\ tail[t].complete /\ tail[t].at < cutoff

\* Between the second look and the command the thread is quiet, unless it
\* was written to.
QuietInv == \A p \in Runs :
    /\ job[p].pc # "idle" => job[p].cutoff <= now - MinAge
    /\ job[p].pc \in {"record", "archive"} =>
         job[p].at \in resumed \/ Quiet(job[p].at, job[p].cutoff)

Inv == TypeOK /\ KnownInv /\ PendingInv /\ AtInv /\ CommandInv /\ QuietInv
       /\ OnceAndOnRecord /\ SparesActive

USE CatalogAssumption DEF codex, ghosts, Outcome

-----------------------------------------------------------------------------
\* The types of job[p], of the rows it selected, and the rest of TypeOK.
Job == [pc : {"idle", "next", "record", "archive", "wait", "verify"},
        cutoff : Int, known : [Threads -> Outcome],
        selected : SUBSET [id : Threads, updated : 0 .. now],
        at : Threads \cup {NoThread}]

\* The job of a run is one.
LEMMA JobOf == ASSUME TypeOK, NEW p \in Runs PROVE job[p] \in Job
  BY DEF TypeOK, Job

\* A run that changes its own job to one of the right type keeps the types.
LEMMA JobTyped ==
    ASSUME TypeOK, NEW p \in Runs, NEW new \in Job, UNCHANGED now,
           job' = [job EXCEPT ![p] = new]
    PROVE  job' \in [Runs -> Job']
  BY DEF TypeOK, Job

\* What candidate_rows and the selection return.
LEMMA SelectedRows ==
    ASSUME TypeOK, NEW cutoff
    PROVE  /\ Selected(cutoff) \subseteq [id : Threads, updated : 0 .. now]
           /\ \A r \in Selected(cutoff) : r.id \in Subagents /\ attempted[r.id] = "none"
           /\ \A r, s \in Selected(cutoff) : r.id = s.id => r = s
  <1>1. \A r \in Selected(cutoff) :
           \E t \in Subagents : attempted[t] = "none" /\ r = Row(t)
    BY DEF Selected, Candidates, First, Wanted
  <1>2. \A t \in Subagents : Row(t) \in [id : Threads, updated : 0 .. now] /\ Row(t).id = t
    BY DEF Row, TypeOK
  <1> QED
    BY <1>1, <1>2

\* No run is active and nothing was attempted when the program is installed.
LEMMA Initially == Init => Inv
  <1> SUFFICES ASSUME Init PROVE Inv
    OBVIOUS
  <1>1. TypeOK
    BY DEF Init, TypeOK, Idle
  <1>2. KnownInv /\ PendingInv /\ AtInv /\ QuietInv
    BY DEF Init, Idle, KnownInv, PendingInv, AtInv, QuietInv
  <1>3. CommandInv /\ OnceAndOnRecord /\ SparesActive
    BY DEF Init, CommandInv, OnceAndOnRecord, SparesActive
  <1> QED
    BY <1>1, <1>2, <1>3 DEF Inv

\* One lemma per action: it preserves Inv.
LEMMA BeginStep ==
    ASSUME Inv, NEW p \in Runs, Begin(p) PROVE Inv'
  <1>1. TypeOK'
    <2> DEFINE new == [pc |-> "next", cutoff |-> now - MinAge, known |-> attempted,
                       selected |-> Selected(now - MinAge), at |-> NoThread]
    <2>1. new \in Job
      BY SelectedRows DEF Inv, TypeOK, Job
    <2>2. job' \in [Runs -> Job']
      BY <2>1, JobTyped DEF Inv, Begin
    <2> QED
      BY <2>2 DEF Inv, TypeOK, Job, Begin, LockFree
  <1>2. KnownInv'
    BY DEF Inv, KnownInv, Begin
  <1>3. PendingInv'
    BY SelectedRows DEF Inv, PendingInv, Begin, NoThread
  <1>4. AtInv'
    BY DEF Inv, AtInv, Begin
  <1>5. CommandInv'
    BY DEF Inv, CommandInv, Begin
  <1>6. QuietInv'
    BY DEF Inv, QuietInv, TypeOK, Begin, LockFree
  <1>7. OnceAndOnRecord'
    BY DEF Inv, OnceAndOnRecord, Begin
  <1>8. SparesActive'
    BY DEF Inv, SparesActive, Begin
  <1> QED
    BY <1>1, <1>2, <1>3, <1>4, <1>5, <1>6, <1>7, <1>8 DEF Inv

\* A run that has come to the end of its selection gives the lock back.
LEMMA EndStep ==
    ASSUME Inv, NEW p \in Runs, End(p) PROVE Inv'
  <1>1. TypeOK'
    BY DEF Inv, TypeOK, End, Finish, Idle
  <1>2. KnownInv'
    BY DEF Inv, KnownInv, End, Finish, Idle
  <1>3. PendingInv'
    BY DEF Inv, PendingInv, End, Finish, Idle
  <1>4. AtInv'
    BY DEF Inv, AtInv, End, Finish, Idle
  <1>5. CommandInv'
    BY DEF Inv, CommandInv, End
  <1>6. QuietInv'
    BY DEF Inv, QuietInv, Quiet, End, Finish, Idle
  <1>7. OnceAndOnRecord'
    BY DEF Inv, OnceAndOnRecord, End
  <1>8. SparesActive'
    BY DEF Inv, SparesActive, End
  <1> QED
    BY <1>1, <1>2, <1>3, <1>4, <1>5, <1>6, <1>7, <1>8 DEF Inv

\* The second look at a thread selects it for its attempt, or drops it.
LEMMA RecheckStep ==
    ASSUME Inv, NEW p \in Runs, Recheck(p) PROVE Inv'
  <1>1. PICK row \in job[p].selected : Recheck(p)!2!(row)
    BY DEF Recheck
  <1>2. /\ row.id \in Subagents /\ row.id \in Threads /\ attempted[row.id] = "none"
        /\ job[p].selected \ {row} \in SUBSET [id : Threads, updated : 0 .. now]
    BY DEF Inv, TypeOK, PendingInv
  <1>3. job[p].pc = "next" /\ UNCHANGED <<now, place, updated, tail, uses, attempted, lock,
                                          commands, faults, invoked>>
    BY DEF Recheck
  <1> DEFINE found == [job[p] EXCEPT !.pc = "record", !.selected = job[p].selected \ {row},
                                     !.at = row.id]
             passed == [job[p] EXCEPT !.selected = job[p].selected \ {row}]
  <1>4. CASE StillEligible(row, job[p].cutoff)
    <2>1. job' = [job EXCEPT ![p] = found] /\ resumed' = resumed \ {row.id}
      BY <1>1, <1>4 DEF Inv, TypeOK
    <2>2. found \in Job
      BY <1>2, JobOf DEF Inv, Job
    <2>3. job' \in [Runs -> Job']
      BY <1>3, <2>1, <2>2, JobTyped DEF Inv
    <2>4. TypeOK'
      BY <1>3, <2>1, <2>3 DEF Inv, TypeOK, Job
    <2>5. KnownInv' /\ PendingInv' /\ AtInv'
      BY <1>2, <1>3, <2>1 DEF Inv, KnownInv, PendingInv, AtInv
    <2>6. CommandInv' /\ OnceAndOnRecord' /\ SparesActive'
      BY <1>2, <1>3, <2>1 DEF Inv, CommandInv, OnceAndOnRecord, SparesActive
    <2>7. QuietInv'
      BY <1>2, <1>3, <1>4, <2>1 DEF Inv, TypeOK, QuietInv, Quiet, StillEligible, Terminal
    <2> QED
      BY <2>4, <2>5, <2>6, <2>7 DEF Inv
  <1>5. CASE ~StillEligible(row, job[p].cutoff)
    <2>1. job' = [job EXCEPT ![p] = passed] /\ resumed' = resumed
      BY <1>1, <1>5 DEF Inv, TypeOK
    <2>2. passed \in Job
      BY <1>2, JobOf DEF Inv, Job
    <2>3. job' \in [Runs -> Job']
      BY <1>3, <2>1, <2>2, JobTyped DEF Inv
    <2>4. TypeOK'
      <3>1. \A q \in Runs : job'[q].pc = job[q].pc
        BY <2>1 DEF Inv, TypeOK
      <3> QED
        BY <1>3, <2>1, <2>3, <3>1 DEF Inv, TypeOK, Job
    <2>5. KnownInv' /\ PendingInv' /\ AtInv' /\ QuietInv'
      BY <1>2, <1>3, <2>1 DEF Inv, KnownInv, PendingInv, AtInv, QuietInv, Quiet
    <2>6. CommandInv' /\ OnceAndOnRecord' /\ SparesActive'
      BY <1>3, <2>1 DEF Inv, CommandInv, OnceAndOnRecord, SparesActive
    <2> QED
      BY <2>4, <2>5, <2>6 DEF Inv
  <1> QED
    BY <1>4, <1>5

\* The attempt goes to attempted-ids.json before anything is started.
LEMMA RecordStep ==
    ASSUME Inv, NEW p \in Runs, Record(p) PROVE Inv'
  <1>1. TypeOK'
    <2> DEFINE new == [job[p] EXCEPT !.pc = "archive", !.known = Noted(p, "attempting")]
    <2>0. job[p] \in Job /\ Noted(p, "attempting") \in [Threads -> Outcome]
      BY JobOf DEF Inv, Job, Noted
    <2>1. new \in Job
      BY <2>0 DEF Job
    <2>2. job' \in [Runs -> Job']
      <3>1. job' = [job EXCEPT ![p] = new]
        BY DEF Record, Inv, TypeOK
      <3> QED
        BY <2>1, <3>1, JobTyped DEF Inv, Record
    <2> QED
      BY <2>2 DEF Inv, TypeOK, Job, Record, AtInv, At
  <1>2. KnownInv'
    BY DEF Inv, KnownInv, TypeOK, Record
  <1>3. /\ job[p].at \in Subagents /\ job[p].known = attempted
        /\ attempted' = [attempted EXCEPT ![job[p].at] = "attempting"]
        /\ attempted[job[p].at] = "none" /\ lock = p
        /\ UNCHANGED invoked
    BY DEF Inv, TypeOK, KnownInv, AtInv, Record, Noted, At, ghosts
  <1>4. /\ \A q \in Runs : job[q].pc # "idle" => q = p
        /\ job' = [job EXCEPT ![p].pc = "archive", ![p].known = attempted']
        /\ job \in [Runs -> Job]
    BY <1>3 DEF Inv, TypeOK, Record, Job
  <1>5. \A q \in Runs : /\ job'[q].selected = job[q].selected
                        /\ job'[q].at = job[q].at
                        /\ q = p => job'[q].pc = "archive"
                        /\ q # p => job'[q].pc = "idle"
                        /\ job'[q].pc = "idle" => job[q].pc = "idle"
    BY <1>4 DEF Job
  <1>6. PendingInv'
    <2>1. ASSUME NEW q \in Runs, NEW r \in job[q].selected
          PROVE  /\ r.id \in Subagents /\ attempted'[r.id] = "none" /\ r.id # job[q].at
      <3>1. q = p
        BY <1>4, <2>1 DEF Inv, PendingInv
      <3>2. r.id \in Subagents /\ attempted[r.id] = "none" /\ r.id # job[p].at
        BY <2>1, <3>1 DEF Inv, PendingInv
      <3> QED
        BY <1>3, <3>1, <3>2 DEF Inv, TypeOK
    <2> QED
      BY <1>5, <2>1 DEF Inv, PendingInv
  <1>7. AtInv'
    <2>1. invoked[job[p].at] = 0
      <3>1. job[p].at \in Threads
        BY <1>3, CatalogAssumption
      <3>2. invoked[job[p].at] \in Nat /\ invoked[job[p].at] <= 1 /\ invoked[job[p].at] # 1
        BY <1>3, <3>1 DEF Inv, TypeOK, OnceAndOnRecord
      <3> QED
        BY <3>2
    <2>2. attempted'[job[p].at] = "attempting"
      BY <1>3 DEF Inv, TypeOK
    <2> QED
      BY <1>3, <1>5, <2>1, <2>2 DEF AtInv
  <1>8. CommandInv'
    BY DEF Inv, TypeOK, KnownInv, AtInv, Record, Noted, At
  <1>9. QuietInv'
    BY DEF Inv, QuietInv, TypeOK, AtInv, Quiet, Record
  <1>10. OnceAndOnRecord'
    BY DEF Inv, TypeOK, KnownInv, AtInv, Record, Noted, At
  <1>11. SparesActive'
    BY DEF Inv, SparesActive, Record
  <1> QED
    BY <1>1, <1>2, <1>6, <1>7, <1>8, <1>9, <1>10, <1>11 DEF Inv

\* The command is started on the thread that was recorded.
LEMMA ArchiveStep ==
    ASSUME Inv, NEW p \in Runs, Archive(p) PROVE Inv'
  <1>1. TypeOK'
    <2> DEFINE new == [job[p] EXCEPT !.pc = "wait"]
    <2>1. new \in Job
      BY JobOf DEF Inv, Job
    <2>2. job' \in [Runs -> Job'] /\ \A q \in Runs : job'[q].pc = "idle" <=> job[q].pc = "idle"
      <3>1. job' = [job EXCEPT ![p] = new]
        BY DEF Archive, Inv, TypeOK
      <3>2. job[p].pc # "idle" /\ new.pc # "idle"
        BY JobOf DEF Archive, Inv, Job
      <3> QED
        BY <2>1, <3>1, <3>2, JobTyped DEF Inv, TypeOK, Archive
    <2>3. At(p) \in Threads
      BY DEF Inv, AtInv, Archive, At
    <2>4. commands' \subseteq Threads /\ invoked' \in [Threads -> Nat] /\ faults' \in 0 .. MaxFaults
      BY <2>3 DEF Inv, TypeOK, Archive
    <2>5. \A q \in Runs : job'[q].pc # "idle" <=> lock' = q
      BY <2>2 DEF Inv, TypeOK, Archive
    <2>6. UNCHANGED <<now, place, updated, tail, uses, attempted, lock, resumed>>
      BY DEF Archive
    <2> QED
      BY <2>2, <2>4, <2>5, <2>6 DEF Inv, TypeOK, Job
  <1>2. KnownInv'
    BY DEF Inv, KnownInv, Archive
  <1>3. PendingInv'
    BY DEF Inv, PendingInv, Archive
  <1>4. AtInv'
    BY DEF Inv, AtInv, TypeOK, KnownInv, Archive
  <1>5. CommandInv'
    BY DEF Inv, CommandInv, AtInv, Archive, At
  <1>6. QuietInv'
    BY DEF Inv, QuietInv, Quiet, Archive
  <1>7. OnceAndOnRecord'
    BY DEF Inv, OnceAndOnRecord, AtInv, Archive, At
  <1>8. SparesActive'
    BY DEF Inv, SparesActive, TypeOK, QuietInv, Quiet, Archive, At, NoRun
  <1> QED
    BY <1>1, <1>2, <1>3, <1>4, <1>5, <1>6, <1>7, <1>8 DEF Inv

\* A run stops waiting for the command of its thread, which was recorded.
LEMMA WaitedStep ==
    ASSUME Inv, NEW p \in Runs, Waited(p) PROVE Inv'
  <1>1. TypeOK'
    <2> DEFINE new == [job[p] EXCEPT !.pc = "verify"]
    <2>1. new \in Job
      BY JobOf DEF Inv, Job
    <2>2. job' \in [Runs -> Job'] /\ \A q \in Runs : job'[q].pc = "idle" <=> job[q].pc = "idle"
      <3>1. job' = [job EXCEPT ![p] = new]
        BY DEF Waited, Inv, TypeOK
      <3>2. job[p].pc # "idle" /\ new.pc # "idle"
        BY JobOf DEF Waited, Inv, Job
      <3> QED
        BY <2>1, <3>1, <3>2, JobTyped DEF Inv, TypeOK, Waited
    <2>3. At(p) \in Threads
      BY DEF Inv, AtInv, Waited, At
    <2>4. commands' \subseteq Threads /\ invoked' \in [Threads -> Nat] /\ faults' \in 0 .. MaxFaults
      BY <2>3 DEF Inv, TypeOK, Waited
    <2>5. \A q \in Runs : job'[q].pc # "idle" <=> lock' = q
      BY <2>2 DEF Inv, TypeOK, Waited
    <2>6. UNCHANGED <<now, place, updated, tail, uses, attempted, lock, resumed>>
      BY DEF Waited
    <2> QED
      BY <2>2, <2>4, <2>5, <2>6 DEF Inv, TypeOK, Job
  <1>2. KnownInv'
    BY DEF Inv, KnownInv, Waited
  <1>3. PendingInv'
    BY DEF Inv, PendingInv, Waited
  <1>4. AtInv'
    BY DEF Inv, AtInv, Waited
  <1>5. CommandInv'
    BY DEF Inv, CommandInv, Waited
  <1>6. QuietInv'
    BY DEF Inv, QuietInv, Quiet, Waited
  <1>7. OnceAndOnRecord'
    BY DEF Inv, OnceAndOnRecord, Waited
  <1>8. SparesActive'
    BY DEF Inv, SparesActive, Waited
  <1> QED
    BY <1>1, <1>2, <1>3, <1>4, <1>5, <1>6, <1>7, <1>8 DEF Inv

\* The third look at a thread writes only its outcome.
LEMMA VerifyStep ==
    ASSUME Inv, NEW p \in Runs, Verify(p) PROVE Inv'
  <1>1. /\ job[p].pc = "verify" /\ lock = p /\ job[p].at \in Subagents
        /\ job[p].known = attempted
    BY DEF Inv, TypeOK, KnownInv, AtInv, Verify
  <1>2. UNCHANGED <<now, place, updated, tail, uses, commands, faults, invoked, resumed>>
    BY DEF Verify
  <1>3. CASE place[At(p)] = "archived"
    <2> DEFINE new == [job[p] EXCEPT !.pc = "next", !.known = Noted(p, "archived"),
                                     !.at = NoThread]
    <2>1. /\ job' = [job EXCEPT ![p] = new] /\ UNCHANGED lock
          /\ attempted' = [attempted EXCEPT ![job[p].at] = "archived"]
          /\ new.known = attempted'
      <3>1. /\ attempted' = Noted(p, "archived")
            /\ job' = [job EXCEPT ![p] = Onward(p, Noted(p, "archived"))]
            /\ UNCHANGED lock
        BY <1>3 DEF Verify
      <3>2. new = Onward(p, Noted(p, "archived"))
        BY DEF Onward
      <3>3. Noted(p, "archived") = [attempted EXCEPT ![job[p].at] = "archived"]
        BY <1>1 DEF Noted, At
      <3>4. new.known = Noted(p, "archived")
        BY JobOf DEF Inv, Job
      <3> HIDE DEF new
      <3> QED
        BY <3>1, <3>2, <3>3, <3>4
    <2>2. new \in Job
      <3>1. job[p] \in Job /\ Noted(p, "archived") \in [Threads -> Outcome]
        BY JobOf DEF Inv, Job, Noted
      <3> QED
        BY <3>1 DEF Job
    <2>3. job' \in [Runs -> Job']
      BY <1>2, <2>1, <2>2, JobTyped DEF Inv
    <2>4. TypeOK'
      BY <1>1, <1>2, <2>1, <2>3 DEF Inv, TypeOK, Job
    <2>5. KnownInv'
      BY <1>1, <2>1 DEF Inv, TypeOK, KnownInv, NoRun
    <2>6. PendingInv'
      BY <1>1, <2>1 DEF Inv, TypeOK, PendingInv, NoThread
    <2>7. AtInv' /\ QuietInv'
      BY <1>1, <1>2, <2>1 DEF Inv, TypeOK, AtInv, QuietInv
    <2>8. CommandInv' /\ OnceAndOnRecord' /\ SparesActive'
      BY <1>1, <1>2, <2>1 DEF Inv, CommandInv, OnceAndOnRecord, SparesActive
    <2> QED
      BY <2>4, <2>5, <2>6, <2>7, <2>8 DEF Inv
  <1>4. CASE place[At(p)] # "archived"
    <2>1. /\ job' = [job EXCEPT ![p] = Idle] /\ lock' = NoRun
          /\ attempted' = [attempted EXCEPT ![job[p].at] = "failed"]
      BY <1>1, <1>4 DEF Verify, Noted, At, Finish, Inv
    <2>2. Idle \in Job
      BY DEF Idle, Job
    <2>3. job' \in [Runs -> Job']
      BY <1>2, <2>1, <2>2, JobTyped DEF Inv
    <2>4. TypeOK'
      BY <1>1, <1>2, <2>1, <2>3 DEF Inv, TypeOK, Job, Idle
    <2>5. KnownInv' /\ PendingInv' /\ AtInv'
      BY <1>1, <1>2, <2>1 DEF Inv, TypeOK, KnownInv, PendingInv, AtInv, Idle
    <2>6. QuietInv'
      BY <1>1, <1>2, <2>1 DEF Inv, QuietInv, Quiet, Idle
    <2>7. CommandInv' /\ OnceAndOnRecord' /\ SparesActive'
      BY <1>1, <1>2, <2>1 DEF Inv, CommandInv, OnceAndOnRecord, SparesActive
    <2> QED
      BY <2>4, <2>5, <2>6, <2>7 DEF Inv
  <1> QED
    BY <1>3, <1>4

\* A run that dies leaves the ledger and the commands as they are.
LEMMA DieStep ==
    ASSUME Inv, NEW p \in Runs, Die(p) PROVE Inv'
  <1>1. TypeOK'
    BY DEF Inv, TypeOK, Die, Finish, Idle
  <1>2. KnownInv'
    BY DEF Inv, KnownInv, Die, Finish, Idle
  <1>3. PendingInv'
    BY DEF Inv, PendingInv, Die, Finish, Idle
  <1>4. AtInv'
    BY DEF Inv, AtInv, Die, Finish, Idle
  <1>5. CommandInv'
    BY DEF Inv, CommandInv, Die
  <1>6. QuietInv'
    BY DEF Inv, QuietInv, Quiet, Die, Finish, Idle
  <1>7. OnceAndOnRecord'
    BY DEF Inv, OnceAndOnRecord, Die
  <1>8. SparesActive'
    BY DEF Inv, SparesActive, Die
  <1> QED
    BY <1>1, <1>2, <1>3, <1>4, <1>5, <1>6, <1>7, <1>8 DEF Inv

\* A command takes effect, or half of it, or none, and ends.
LEMMA CommandStep ==
    ASSUME Inv, NEW t \in Threads, Command(t) PROVE Inv'
  <1>1. TypeOK'
    BY DEF Inv, TypeOK, Command
  <1>2. KnownInv'
    BY DEF Inv, KnownInv, Command
  <1>3. PendingInv'
    BY DEF Inv, PendingInv, Command
  <1>4. AtInv'
    BY DEF Inv, AtInv, Command
  <1>5. CommandInv'
    BY DEF Inv, CommandInv, Command
  <1>6. QuietInv'
    BY DEF Inv, QuietInv, Quiet, Command
  <1>7. OnceAndOnRecord'
    BY DEF Inv, OnceAndOnRecord, Command
  <1>8. SparesActive'
    BY DEF Inv, SparesActive, Command
  <1> QED
    BY <1>1, <1>2, <1>3, <1>4, <1>5, <1>6, <1>7, <1>8 DEF Inv

\* A thread that is written to counts as resumed.
LEMMA WriteStep ==
    ASSUME Inv, NEW t \in Threads, Write(t) PROVE Inv'
  <1>1. TypeOK'
    BY DEF Inv, TypeOK, Write, Used
  <1>2. KnownInv'
    BY DEF Inv, KnownInv, Write
  <1>3. PendingInv'
    BY DEF Inv, PendingInv, Write
  <1>4. AtInv'
    BY DEF Inv, AtInv, Write
  <1>5. CommandInv'
    BY DEF Inv, CommandInv, Write
  <1>6. QuietInv'
    BY DEF Inv, QuietInv, Quiet, Write
  <1>7. OnceAndOnRecord'
    BY DEF Inv, OnceAndOnRecord, Write
  <1>8. SparesActive'
    BY DEF Inv, SparesActive, Write
  <1> QED
    BY <1>1, <1>2, <1>3, <1>4, <1>5, <1>6, <1>7, <1>8 DEF Inv

\* Codex indexes threads whatever the program does.
LEMMA IndexStep ==
    ASSUME Inv, NEW t \in Threads, Index(t) PROVE Inv'
  <1>1. TypeOK'
    BY DEF Inv, TypeOK, Index
  <1>2. KnownInv'
    BY DEF Inv, KnownInv, Index
  <1>3. PendingInv'
    BY DEF Inv, PendingInv, Index
  <1>4. AtInv'
    BY DEF Inv, AtInv, Index
  <1>5. CommandInv'
    BY DEF Inv, CommandInv, Index
  <1>6. QuietInv'
    BY DEF Inv, QuietInv, Quiet, Index
  <1>7. OnceAndOnRecord'
    BY DEF Inv, OnceAndOnRecord, Index
  <1>8. SparesActive'
    BY DEF Inv, SparesActive, Index
  <1> QED
    BY <1>1, <1>2, <1>3, <1>4, <1>5, <1>6, <1>7, <1>8 DEF Inv

\* A user who archives or restores a thread changes no record of the program.
LEMMA ManageStep ==
    ASSUME Inv, NEW t \in Threads, Manage(t) PROVE Inv'
  <1>1. TypeOK'
    BY DEF Inv, TypeOK, Manage, Used
  <1>2. KnownInv'
    BY DEF Inv, KnownInv, Manage
  <1>3. PendingInv'
    BY DEF Inv, PendingInv, Manage
  <1>4. AtInv'
    BY DEF Inv, AtInv, Manage
  <1>5. CommandInv'
    BY DEF Inv, CommandInv, Manage
  <1>6. QuietInv'
    BY DEF Inv, QuietInv, Quiet, Manage
  <1>7. OnceAndOnRecord'
    BY DEF Inv, OnceAndOnRecord, Manage
  <1>8. SparesActive'
    BY DEF Inv, SparesActive, Manage
  <1> QED
    BY <1>1, <1>2, <1>3, <1>4, <1>5, <1>6, <1>7, <1>8 DEF Inv

\* Time passes: what was quiet stays so.
LEMMA TickStep ==
    ASSUME Inv, Tick PROVE Inv'
  <1>1. TypeOK'
    BY DEF Inv, TypeOK, Tick
  <1>2. KnownInv'
    BY DEF Inv, KnownInv, Tick
  <1>3. PendingInv'
    BY DEF Inv, PendingInv, Tick
  <1>4. AtInv'
    BY DEF Inv, AtInv, Tick
  <1>5. CommandInv'
    BY DEF Inv, CommandInv, Tick
  <1>6. QuietInv'
    BY DEF Inv, QuietInv, TypeOK, Quiet, Tick
  <1>7. OnceAndOnRecord'
    BY DEF Inv, OnceAndOnRecord, Tick
  <1>8. SparesActive'
    BY DEF Inv, SparesActive, TypeOK, Tick
  <1> QED
    BY <1>1, <1>2, <1>3, <1>4, <1>5, <1>6, <1>7, <1>8 DEF Inv

\* So does a step in which nothing happens.
LEMMA Stutter == Inv /\ UNCHANGED vars => Inv'
  BY DEF Inv, vars, TypeOK, KnownInv, PendingInv, AtInv, CommandInv, QuietInv, Quiet,
         OnceAndOnRecord, SparesActive

(* Inv is an invariant: what run_maintenance selects, rechecks and records *)
(* under the instance lock stays true until the archive command is run.    *)
THEOREM Invariance == Spec => []Inv
  <1>1. Inv /\ [Next]_vars => Inv'
    <2> SUFFICES ASSUME Inv, Next PROVE Inv'
      BY Stutter
    <2>1. ASSUME NEW p \in Runs, Begin(p) \/ Step(p) \/ Die(p) PROVE Inv'
      BY <2>1, BeginStep, EndStep, RecheckStep, RecordStep, ArchiveStep, WaitedStep,
         VerifyStep, DieStep DEF Step
    <2>2. ASSUME NEW t \in Threads, Command(t) \/ Write(t) \/ Index(t) \/ Manage(t)
          PROVE  Inv'
      BY <2>2, CommandStep, WriteStep, IndexStep, ManageStep
    <2> QED
      BY <2>1, <2>2, TickStep DEF Next
  <1> QED
    BY Initially, <1>1, PTL DEF Spec

(* The state has its types, and the run inside maintenance.lock is the one *)
(* that is active.                                                         *)
THEOREM TypeCorrect == Spec => []TypeOK
  BY Invariance, PTL DEF Inv

(* automatic_retries_per_id: `codex archive` is started at most once on a  *)
(* thread, and only on one that attempted-ids.json names.                  *)
THEOREM ArchivedOnceAndOnRecord == Spec => []OnceAndOnRecord
  BY Invariance, PTL DEF Inv

(* minimum_age_seconds and terminal_record: a command works on a subagent's *)
(* thread that is complete and idle, unless it was written to after the    *)
(* second look of row_is_still_eligible.                                   *)
THEOREM ActiveThreadsSpared == Spec => []SparesActive
  BY Invariance, PTL DEF Inv
=============================================================================
