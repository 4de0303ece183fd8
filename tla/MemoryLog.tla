----------------------------- MODULE MemoryLog -----------------------------
(***************************************************************************)
(* The durable write path of MemoryStore (memory_store.py): one JSONL      *)
(* segment per (host, session) is the truth, SQLite's event_index is a     *)
(* disposable projection of it.  Several processes share one root; every   *)
(* mutation runs under one kernel lock that the operating system frees     *)
(* when its holder dies.  A process may die between any two durable steps, *)
(* a line may be torn, and a power loss may drop what was never synced:    *)
(* the end of a file, or a whole new file whose directory was not synced.  *)
(*                                                                         *)
(* A record keeps what the properties tell apart: its place in the hash    *)
(* chain (seq, prev) and its claim, the key that at most one event of the  *)
(* store may insert: its event_id, the memory_id a memory/committed event  *)
(* creates, or the task a task/completed|failed event terminates.  A       *)
(* record hash is represented by the claim of the record it names.         *)
(***************************************************************************)
EXTENDS Naturals, Sequences

CONSTANTS
    Procs,      \* operating-system processes using the root
    NoProc,     \* nobody: the lock is free
    Segments,   \* event segments, one per (host_id, session_id)
    Claims,     \* unique keys that events insert
    NoClaim,    \* the null previous_record_sha256 of a first record
    NoRecord,   \* no append is under way
    ClaimsOf,   \* the claims that writers of a segment may use
    MaxLen,     \* bound: records per segment
    PowerFails  \* whether the machine may lose power

Record == [seg: Segments, seq: 1..MaxLen, prev: Claims \cup {NoClaim},
           claim: Claims]

ASSUME MemoryLogAssumption ==
    /\ NoProc \notin Procs
    /\ NoClaim \notin Claims
    /\ NoRecord \notin Record
    /\ ClaimsOf \in [Segments -> SUBSET Claims]
    /\ MaxLen \in Nat
    /\ PowerFails \in BOOLEAN

VARIABLES
    log,      \* the complete lines of each segment file
    torn,     \* the segment file ends in an unterminated line
    synced,   \* how many of the segment's lines have reached the disk
    files,    \* segments whose file exists
    entered,  \* segments whose directory entry has reached the disk
    indexed,  \* rows of event_index: the records that are projected
    lock,     \* holder of _exclusive_store_lock
    open,     \* processes whose MemoryStore(...) constructor returned
    pc,       \* what each process is doing
    op,       \* the record a process is appending
    orphaned, \* segments whose creating append() ended before it had synced
              \* the directory: no later append() does (history)
    acked     \* records whose append() returned normally, but for those of
              \* orphaned segments (history)

vars == <<log, torn, synced, files, entered, indexed, lock, open, pc, op,
          orphaned, acked>>
diskVars == <<log, torn, synced, files, entered>>

Waiting == {"append", "replay"}
Creating == {"created", "entering"}
Holding == {"checked", "written", "synced", "cleared"} \cup Creating

TypeOK ==
    /\ log \in [Segments -> Seq(Record)]
    /\ torn \in [Segments -> BOOLEAN]
    /\ synced \in [Segments -> Nat]
    /\ files \subseteq Segments
    /\ entered \subseteq files
    /\ indexed \subseteq Record
    /\ lock \in Procs \cup {NoProc}
    /\ open \subseteq Procs
    /\ pc \in [Procs -> {"idle"} \cup Waiting \cup Holding]
    /\ op \in [Procs -> Record \cup {NoRecord}]
    /\ acked \subseteq Record
    /\ orphaned \subseteq Segments

Init ==
    /\ log = [s \in Segments |-> <<>>]
    /\ torn = [s \in Segments |-> FALSE]
    /\ synced = [s \in Segments |-> 0]
    /\ files = {}
    /\ entered = {}
    /\ indexed = {}
    /\ lock = NoProc
    /\ open = {}
    /\ pc = [p \in Procs |-> "idle"]
    /\ op = [p \in Procs |-> NoRecord]
    /\ acked = {}
    /\ orphaned = {}

-----------------------------------------------------------------------------
(* What the code reads back from the disk and from the index.              *)

Lines(segment) == {segment[i] : i \in DOMAIN segment}
Durable == UNION {Lines(log[s]) : s \in Segments}

\* The hash that line i of a segment must name as its predecessor's.
HashBefore(segment, i) == IF i = 1 THEN NoClaim ELSE segment[i - 1].claim

\* The record that append() builds after the last line of a segment.
Chained(segment, r) ==
    /\ r.seq = Len(segment) + 1
    /\ r.prev = HashBefore(segment, Len(segment) + 1)

\* _read_segment: numbered from 1, each line naming the hash before it.
ChainIntact(segment) ==
    \A i \in DOMAIN segment :
        segment[i].seq = i /\ segment[i].prev = HashBefore(segment, i)

Readable(s) == ~torn[s] /\ ChainIntact(log[s])

\* Mutant of TailIndexed: the tail is not looked at.
TailIgnored(s) == s \in Segments

\* append(): the last record of this segment has an index row.
TailIndexed(s) == log[s] # <<>> => log[s][Len(log[s])] \in indexed

\* event_id not yet indexed, and the preflighted reducer raises no conflict.
ClaimFree(c) == \A r \in indexed : r.claim # c

Admissible(s, c) == Readable(s) /\ TailIndexed(s) /\ ClaimFree(c)

\* Mutant of NothingExtra: rows without a record are tolerated.
ExtraTolerated == indexed \subseteq Record

\* _verify_locked, and the "extra" check of an incremental replay.
Verified == \A s \in Segments : Readable(s)
NothingExtra == indexed \subseteq Durable

\* Every record of missing can be applied on top of present.
Applicable(missing, present) ==
    \A r \in missing, q \in missing \cup present :
        r.claim = q.claim => r = q

-----------------------------------------------------------------------------
(* append()                                                                *)

\* A process that has no call under way; it holds nothing.
Return(p) ==
    /\ pc' = [pc EXCEPT ![p] = "idle"]
    /\ op' = [op EXCEPT ![p] = NoRecord]

Release(p) == lock' = NoProc /\ Return(p)

\* The append under way has created a file that a power loss may take away.
Orphan(p) ==
    orphaned' = orphaned \cup (IF pc[p] \in Creating THEN {op[p].seg} ELSE {})

CallAppend(p) ==
    /\ p \in open
    /\ pc[p] = "idle"
    /\ pc' = [pc EXCEPT ![p] = "append"]
    /\ UNCHANGED <<diskVars, indexed, lock, open, op, orphaned, acked>>

\* Mutant of LockTimeout: the lock is waited for without a bound.
WaitUnbounded(p) ==
    /\ pc[p] \in Waiting
    /\ lock # NoProc
    /\ UNCHANGED vars

\* The bounded wait for the store lock expires: StoreLockTimeout.
LockTimeout(p) ==
    /\ pc[p] \in Waiting
    /\ lock # NoProc
    /\ Return(p)
    /\ UNCHANGED <<diskVars, indexed, lock, open, orphaned, acked>>

\* Mutants of PrepareAppend: the lock is not taken; numbers start at zero.
PrepareUnlocked(p, s, c) ==
    /\ pc[p] = "append"
    /\ c \in ClaimsOf[s]
    /\ Admissible(s, c)
    /\ Len(log[s]) < MaxLen
    /\ pc' = [pc EXCEPT ![p] = "checked"]
    /\ op' = [op EXCEPT ![p] = [seg |-> s, seq |-> Len(log[s]) + 1,
                                prev |-> HashBefore(log[s], Len(log[s]) + 1),
                                claim |-> c]]
    /\ UNCHANGED <<diskVars, indexed, lock, open, orphaned, acked>>
PrepareFromZero(p, s, c) ==
    /\ pc[p] = "append"
    /\ lock = NoProc
    /\ c \in ClaimsOf[s]
    /\ Admissible(s, c)
    /\ Len(log[s]) < MaxLen
    /\ lock' = p
    /\ pc' = [pc EXCEPT ![p] = "checked"]
    /\ op' = [op EXCEPT ![p] = [seg |-> s, seq |-> Len(log[s]),
                                prev |-> HashBefore(log[s], Len(log[s]) + 1),
                                claim |-> c]]
    /\ UNCHANGED <<diskVars, indexed, open, orphaned, acked>>

\* The lock is taken, the segment and the index are read, the reducer is
\* rehearsed in a savepoint, and the record is built.
PrepareAppend(p, s, c) ==
    /\ pc[p] = "append"
    /\ lock = NoProc
    /\ c \in ClaimsOf[s]
    /\ Admissible(s, c)
    /\ Len(log[s]) < MaxLen
    /\ lock' = p
    /\ pc' = [pc EXCEPT ![p] = "checked"]
    /\ op' = [op EXCEPT ![p] = [seg |-> s, seq |-> Len(log[s]) + 1,
                                prev |-> HashBefore(log[s], Len(log[s]) + 1),
                                claim |-> c]]
    /\ UNCHANGED <<diskVars, indexed, open, orphaned, acked>>

\* A torn or broken segment, an unprojected tail, or a key already taken.
RefuseAppend(p, s, c) ==
    /\ pc[p] = "append"
    /\ lock = NoProc
    /\ c \in ClaimsOf[s]
    /\ ~Admissible(s, c)
    /\ Return(p)
    /\ UNCHANGED <<diskVars, indexed, lock, open, orphaned, acked>>

\* segment_was_new is what append() found before open("ab") made the file.
WriteLine(p) ==
    /\ pc[p] = "checked"
    /\ log' = [log EXCEPT ![op[p].seg] = Append(@, op[p])]
    /\ files' = files \cup {op[p].seg}
    /\ pc' = [pc EXCEPT ![p] =
                 IF op[p].seg \in files THEN "written" ELSE "created"]
    /\ UNCHANGED <<torn, synced, entered, indexed, lock, open, op,
                   orphaned, acked>>

\* A short write, down to nothing in a file that was only created; the writer
\* raises, or dies.
TearLine(p) ==
    /\ pc[p] = "checked"
    /\ torn' \in {torn, [torn EXCEPT ![op[p].seg] = TRUE]}
    /\ files' = files \cup {op[p].seg}
    /\ orphaned' = orphaned \cup ({op[p].seg} \ files)
    /\ open' \in {open, open \ {p}}
    /\ Release(p)
    /\ UNCHANGED <<log, synced, entered, indexed, acked>>

\* fsync of the file covers its lines; only the append that created the file
\* goes on to sync the directories.
SyncLine(p) ==
    /\ pc[p] \in {"written", "created"}
    /\ synced' = [synced EXCEPT ![op[p].seg] = Len(log[op[p].seg])]
    /\ pc' = [pc EXCEPT ![p] = IF @ = "created" THEN "entering" ELSE "synced"]
    /\ UNCHANGED <<log, torn, files, entered, indexed, lock, open, op,
                   orphaned, acked>>

\* Mutant of SyncDirectory: the file is synced, its directory is not.
SkipDirectory(p) ==
    /\ pc[p] = "entering"
    /\ pc' = [pc EXCEPT ![p] = "synced"]
    /\ UNCHANGED <<diskVars, indexed, lock, open, op, orphaned, acked>>

SyncDirectory(p) ==
    /\ pc[p] = "entering"
    /\ entered' = entered \cup {op[p].seg}
    /\ pc' = [pc EXCEPT ![p] = "synced"]
    /\ UNCHANGED <<log, torn, synced, files, indexed, lock, open, op,
                   orphaned, acked>>

\* fsync of the file or of a directory raises after the line is complete:
\* append() raises, the line stays.
SyncFails(p) ==
    /\ pc[p] \in {"written"} \cup Creating
    /\ Orphan(p)
    /\ Release(p)
    /\ UNCHANGED <<diskVars, indexed, open, acked>>

\* append() returned: what may be held against a power loss.
Acknowledge(r) ==
    acked' = acked \cup (IF r.seg \in orphaned THEN {} ELSE {r})

\* Mutant of Project: only the newest row is kept.
ProjectReplacing(p) ==
    /\ pc[p] = "synced"
    /\ indexed' = {r \in indexed : r.seg # op[p].seg} \cup {op[p]}
    /\ Acknowledge(op[p])
    /\ Release(p)
    /\ UNCHANGED <<diskVars, open, orphaned>>

Project(p) ==
    /\ pc[p] = "synced"
    /\ indexed' = indexed \cup {op[p]}
    /\ Acknowledge(op[p])
    /\ Release(p)
    /\ UNCHANGED <<diskVars, open, orphaned>>

\* "event is durable but projection failed; reopen the store to replay it"
ProjectFails(p) ==
    /\ pc[p] = "synced"
    /\ Release(p)
    /\ UNCHANGED <<diskVars, indexed, open, orphaned, acked>>

-----------------------------------------------------------------------------
(* replay(), called by the constructor and by live processes               *)

CallReplay(p) ==
    /\ pc[p] = "idle"
    /\ pc' = [pc EXCEPT ![p] = "replay"]
    /\ UNCHANGED <<diskVars, indexed, lock, open, op, orphaned, acked>>

\* Verify, then index and apply every missing record in one transaction.
ReplayMissing(p) ==
    /\ pc[p] = "replay"
    /\ lock = NoProc
    /\ Verified
    /\ NothingExtra
    /\ Applicable(Durable \ indexed, indexed)
    /\ indexed' = indexed \cup Durable
    /\ open' = open \cup {p}
    /\ Return(p)
    /\ UNCHANGED <<diskVars, lock, orphaned, acked>>

\* Verification fails, the index has extra rows, two records conflict, or the
\* database raises; a constructor does not return.
ReplayFails(p) ==
    /\ pc[p] = "replay"
    /\ lock = NoProc
    /\ Return(p)
    /\ UNCHANGED <<diskVars, indexed, lock, open, orphaned, acked>>

\* rebuild=True: the projection is cleared in a transaction of its own.
ClearProjection(p) ==
    /\ pc[p] = "replay"
    /\ lock = NoProc
    /\ Verified
    /\ lock' = p
    /\ indexed' = {}
    /\ pc' = [pc EXCEPT ![p] = "cleared"]
    /\ UNCHANGED <<diskVars, open, op, orphaned, acked>>

RebuildProjection(p) ==
    /\ pc[p] = "cleared"
    /\ Applicable(Durable, {})
    /\ indexed' = Durable
    /\ open' = open \cup {p}
    /\ Release(p)
    /\ UNCHANGED <<diskVars, orphaned, acked>>

\* Two records conflict, or the database raises: the index stays empty.
RebuildFails(p) ==
    /\ pc[p] = "cleared"
    /\ Release(p)
    /\ UNCHANGED <<diskVars, indexed, open, orphaned, acked>>

-----------------------------------------------------------------------------
(* Failures                                                                *)

\* The process dies; the kernel releases the lock if it held it.
Crash(p) ==
    /\ p \in open \/ pc[p] # "idle"
    /\ open' = open \ {p}
    /\ lock' = IF lock = p THEN NoProc ELSE lock
    /\ Orphan(p)
    /\ Return(p)
    /\ UNCHANGED <<diskVars, indexed, acked>>

\* Every process dies.  A segment file keeps at least what was synced of it,
\* unless its directory entry was never synced: then it may be gone.  The
\* index (WAL, synchronous=FULL) keeps every transaction.
PowerLoss ==
    /\ PowerFails
    /\ \E gone \in SUBSET (files \ entered), kept \in [Segments -> 0..MaxLen] :
         /\ \A s \in Segments :
              kept[s] \in IF s \in gone THEN {0} ELSE synced[s]..Len(log[s])
         /\ log' = [s \in Segments |-> SubSeq(log[s], 1, kept[s])]
         /\ torn' \in [Segments -> BOOLEAN]
         /\ \A s \in Segments :
              torn'[s] => s \notin gone /\ (torn[s] \/ kept[s] < Len(log[s]))
         /\ synced' = [s \in Segments |-> IF s \in gone THEN 0 ELSE synced[s]]
         /\ files' = files \ gone
         /\ entered' = files'
    /\ orphaned' = orphaned \cup
         {op[p].seg : p \in {q \in Procs : pc[q] \in Creating}}
    /\ lock' = NoProc
    /\ open' = {}
    /\ pc' = [p \in Procs |-> "idle"]
    /\ op' = [p \in Procs |-> NoRecord]
    /\ UNCHANGED <<indexed, acked>>

-----------------------------------------------------------------------------
\* The steps a process takes by itself once it has made a call.
Proceed(p) ==
    \/ LockTimeout(p)
    \/ \E s \in Segments, c \in Claims :
         PrepareAppend(p, s, c) \/ RefuseAppend(p, s, c)
    \/ WriteLine(p)
    \/ TearLine(p)
    \/ SyncLine(p)
    \/ SyncDirectory(p)
    \/ SyncFails(p)
    \/ Project(p)
    \/ ProjectFails(p)
    \/ ReplayMissing(p)
    \/ ReplayFails(p)
    \/ ClearProjection(p)
    \/ RebuildProjection(p)
    \/ RebuildFails(p)

Next ==
    \/ \E p \in Procs : CallAppend(p) \/ CallReplay(p) \/ Crash(p) \/ Proceed(p)
    \/ PowerLoss

Spec == Init /\ [][Next]_vars

\* A process that has made a call keeps being scheduled until the call ends.
FairSpec == Spec /\ \A p \in Procs : WF_vars(Proceed(p))

-----------------------------------------------------------------------------
(* Properties                                                              *)

\* Whatever dies wherever, every segment file is one unbroken hash chain of
\* its own records: nothing is skipped, interleaved or written twice.
ChainsIntact ==
    \A s \in Segments :
        /\ ChainIntact(log[s])
        /\ \A r \in Lines(log[s]) : r.seg = s

\* append() looks at the last record only (memory_store.py:750), so an index
\* row for a record must imply a row for every record before it.
NoGapInIndex ==
    \A s \in Segments : \A i, j \in DOMAIN log[s] :
        i < j /\ log[s][j] \in indexed => log[s][i] \in indexed

\* A record whose append() returned, in a segment whose creating append() got
\* as far as syncing the directory (memory_store.py:819), is on the disk for
\* ever after, through crashes, torn lines and power loss: within the synced
\* lines of a file that the directory on the disk names.
AcknowledgedKept ==
    \A r \in acked :
        /\ r.seg \in entered
        /\ \E i \in 1..synced[r.seg] :
             i <= Len(log[r.seg]) /\ log[r.seg][i] = r

\* While any process has the store open, readers of the index (search() takes
\* no lock) see only events that are in the log.
ReadersSeeOnlyLogged == open # {} => indexed \subseteq Durable

\* "A projection failure is repaired automatically by replay on the next
\* open" (memory_store.py:824): durable records never conflict with each other.
Replayable == Applicable(Durable \ indexed, Durable)

\* Every call on the store comes back, even while others hold the lock.
CallsReturn == \A p \in Procs : pc[p] # "idle" ~> pc[p] = "idle"

\* The log implements the history its callers are promised.
History == INSTANCE EventHistory WITH
    Records <- Record, history <- log, view <- indexed

ImplementsHistory == History!Spec
=============================================================================
