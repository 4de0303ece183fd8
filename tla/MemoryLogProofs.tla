-------------------------- MODULE MemoryLogProofs --------------------------
(***************************************************************************)
(* Proofs about MemoryLog for any number of processes and segments.  The   *)
(* safety properties of MemoryLog are not inductive: append() decides what *)
(* may be written from the last line of a segment and from the index, and  *)
(* only later writes, syncs and projects it.  Inv adds what the lock       *)
(* protects between those steps.                                           *)
(***************************************************************************)
EXTENDS MemoryLog, TLAPS

\* The lock is held by exactly the process that is inside the lock.
LockInv == \A p \in Procs : lock = p <=> pc[p] \in Holding

\* Only an open store appends.
OpenInv == \A p \in Procs :
    pc[p] \in {"append", "checked", "written", "synced"} \cup Creating
      => p \in open

\* Every line lies in its own segment, under a claim of that segment.
SegmentInv == \A s \in Segments : \A i \in 1..Len(log[s]) :
    /\ log[s][i] \in Record
    /\ log[s][i].seg = s
    /\ log[s][i].seq = i
    /\ log[s][i].prev = HashBefore(log[s], i)
    /\ log[s][i].claim \in ClaimsOf[s]

\* A claim occurs once in a segment.
ClaimInv == \A s \in Segments : \A i, j \in 1..Len(log[s]) :
    log[s][i].claim = log[s][j].claim => i = j

\* The index holds a prefix of every segment.
PrefixInv == \A s \in Segments : \A i, j \in 1..Len(log[s]) :
    i < j /\ log[s][j] \in indexed => log[s][i] \in indexed

SyncInv == \A s \in Segments : synced[s] <= Len(log[s])

\* A file that the directory on the disk does not name is orphaned, unless its
\* creating append is still under way.
FileInv == \A s \in files \ entered :
    \/ s \in orphaned
    \/ \E p \in Procs : pc[p] \in Creating /\ op[p].seg = s

AckInv == \A r \in acked :
    /\ r \in Record
    /\ r.seg \in entered
    /\ 1 <= r.seq
    /\ r.seq <= synced[r.seg]
    /\ log[r.seg][r.seq] = r

\* Rows beyond the log exist only while no store is open.
ViewInv == open # {} => \A r \in indexed :
    r.seq <= Len(log[r.seg]) /\ log[r.seg][r.seq] = r

\* What the process inside the lock knows about its segment.
CheckedInv == \A p \in Procs : pc[p] = "checked" =>
    /\ op[p] \in Record
    /\ Chained(log[op[p].seg], op[p])
    /\ op[p].claim \in ClaimsOf[op[p].seg]
    /\ \A i \in 1..Len(log[op[p].seg]) :
         /\ log[op[p].seg][i] \in indexed
         /\ log[op[p].seg][i].claim # op[p].claim

WrittenInv == \A p \in Procs : pc[p] \in {"written", "synced"} \cup Creating =>
    /\ op[p] \in Record
    /\ op[p].seq = Len(log[op[p].seg])
    /\ log[op[p].seg][op[p].seq] = op[p]
    /\ \A i \in 1..(op[p].seq - 1) : log[op[p].seg][i] \in indexed
    /\ pc[p] \in {"entering", "synced"} =>
         synced[op[p].seg] = Len(log[op[p].seg])
    /\ IF pc[p] \in Creating THEN op[p].seg \in files \ entered
                             ELSE op[p].seg \in entered \cup orphaned

Inv ==
    /\ TypeOK
    /\ LockInv
    /\ OpenInv
    /\ SegmentInv
    /\ ClaimInv
    /\ PrefixInv
    /\ SyncInv
    /\ FileInv
    /\ AckInv
    /\ ViewInv
    /\ CheckedInv
    /\ WrittenInv

USE MemoryLogAssumption

-----------------------------------------------------------------------------
(* Facts about the operators of MemoryLog.                                 *)

\* Reading a line of an extended segment.
LEMMA AppendLines ==
    ASSUME NEW S, NEW q \in Seq(S), NEW r \in S
    PROVE  /\ Append(q, r) \in Seq(S)
           /\ Len(Append(q, r)) = Len(q) + 1
           /\ \A i \in 1..Len(q) : Append(q, r)[i] = q[i]
           /\ Append(q, r)[Len(q) + 1] = r
  OBVIOUS

\* Reading a line of a truncated segment.
LEMMA TruncatedLines ==
    ASSUME NEW S, NEW q \in Seq(S), NEW k \in 0..Len(q)
    PROVE  /\ SubSeq(q, 1, k) \in Seq(S)
           /\ Len(SubSeq(q, 1, k)) = k
           /\ \A i \in 1..k : SubSeq(q, 1, k)[i] = q[i]
  OBVIOUS

\* A record is durable when some segment has it on some line.
LEMMA DurableLines ==
    ASSUME TypeOK
    PROVE  \A r : r \in Durable <=>
             \E s \in Segments : \E i \in 1..Len(log[s]) : r = log[s][i]
  <1>1. \A s \in Segments : DOMAIN log[s] = 1..Len(log[s])
    BY DEF TypeOK
  <1>2. QED
    BY <1>1 DEF Durable, Lines

-----------------------------------------------------------------------------
\* An empty root, with no process inside.
LEMMA InitInv == Init => Inv
  <1> SUFFICES ASSUME Init PROVE Inv
    OBVIOUS
  <1>1. TypeOK
    BY DEF Init, TypeOK, Waiting, Holding, Creating
  <1>2. LockInv /\ OpenInv /\ CheckedInv /\ WrittenInv
    BY DEF Init, LockInv, OpenInv, CheckedInv, WrittenInv, Holding, Creating
  <1>3. /\ SegmentInv /\ ClaimInv /\ PrefixInv /\ SyncInv /\ FileInv
        /\ AckInv /\ ViewInv
    BY DEF Init, SegmentInv, ClaimInv, PrefixInv, SyncInv, FileInv, AckInv,
           ViewInv
  <1>4. QED
    BY <1>1, <1>2, <1>3 DEF Inv
-----------------------------------------------------------------------------
(* Steps that leave the log and the index alone.                           *)

\* What says nothing about processes survives a step that does not touch the
\* files or the index.
LEMMA QuietFiles ==
    ASSUME Inv, UNCHANGED <<log, synced, entered, indexed, acked>>
    PROVE  /\ SegmentInv' /\ ClaimInv' /\ PrefixInv' /\ SyncInv' /\ AckInv'
           /\ open' \subseteq open => ViewInv'
  <1>1. SegmentInv' /\ ClaimInv' /\ PrefixInv'
    BY DEF Inv, SegmentInv, ClaimInv, PrefixInv
  <1>2. SyncInv' /\ AckInv'
    BY DEF Inv, SyncInv, AckInv
  <1>3. ASSUME open' \subseteq open PROVE ViewInv'
    BY <1>3 DEF Inv, ViewInv
  <1>4. QED
    BY <1>1, <1>2, <1>3

\* Appends that create a file go on, and no file is created or entered.
LEMMA FilesStay ==
    ASSUME Inv, UNCHANGED <<files, entered>>, orphaned \subseteq orphaned',
           \A q \in Procs : pc[q] \in Creating =>
             pc'[q] \in Creating /\ op'[q] = op[q]
    PROVE  FileInv'
  BY DEF Inv, FileInv

\* A call that ends without touching the lines or the index: a timeout, a
\* refusal, an error after any step, or the death of the process.  A file that
\* it had created and not entered is orphaned.
LEMMA ReturnQuietly ==
    ASSUME Inv, NEW p \in Procs, Return(p),
           UNCHANGED <<log, synced, entered, indexed, acked>>,
           torn' \in [Segments -> BOOLEAN],
           files \subseteq files', files' \subseteq Segments,
           orphaned \subseteq orphaned', orphaned' \subseteq Segments,
           files' \ files \subseteq orphaned',
           pc[p] \in Creating => op[p].seg \in orphaned',
           lock' = IF lock = p THEN NoProc ELSE lock,
           open' \in {open, open \ {p}}
    PROVE  Inv'
  <1>1. /\ pc'[p] = "idle"
        /\ \A q \in Procs \ {p} : pc'[q] = pc[q] /\ op'[q] = op[q]
    BY DEF Return, Inv, TypeOK
  <1>2. TypeOK'
    BY DEF Return, Inv, TypeOK, Waiting, Holding, Creating
  <1>3. LockInv'
    BY <1>1 DEF Inv, LockInv, Holding, Creating
  <1>4. OpenInv'
    BY <1>1 DEF Inv, OpenInv, Creating
  <1>5. CheckedInv'
    <2>1. ASSUME NEW q \in Procs, pc'[q] = "checked"
          PROVE  pc[q] = "checked" /\ op'[q] = op[q]
      BY <1>1, <2>1
    <2>2. UNCHANGED <<log, indexed>>
      OBVIOUS
    <2>3. CheckedInv
      BY DEF Inv
    <2>4. QED
      BY <2>1, <2>2, <2>3 DEF CheckedInv, Chained, HashBefore
  <1>6. WrittenInv'
    BY <1>1 DEF Inv, WrittenInv, Creating
  <1>7. FileInv'
    <2>1. ASSUME NEW s \in files' \ entered', s \notin orphaned'
          PROVE  \E q \in Procs : pc'[q] \in Creating /\ op'[q].seg = s
      <3>1. s \in files \ entered /\ s \notin orphaned
        BY <2>1
      <3>2. PICK q \in Procs : pc[q] \in Creating /\ op[q].seg = s
        BY <3>1 DEF Inv, FileInv
      <3>3. q # p
        BY <2>1, <3>2
      <3>4. QED
        BY <1>1, <3>2, <3>3
    <2>2. QED
      BY <2>1 DEF FileInv
  <1>8. QED
    BY <1>2, <1>3, <1>4, <1>5, <1>6, <1>7, QuietFiles DEF Inv

\* A call waits for the lock, and changes no file.
LEMMA CallInv ==
    ASSUME Inv, NEW p \in Procs, CallAppend(p) \/ CallReplay(p)
    PROVE  Inv'
  <1>1. /\ pc' \in {[pc EXCEPT ![p] = "append"], [pc EXCEPT ![p] = "replay"]}
        /\ pc[p] = "idle"
        /\ UNCHANGED <<log, torn, synced, files, entered, indexed, lock, open, op,
                       orphaned, acked>>
    BY DEF CallAppend, CallReplay, diskVars
  <1>2. TypeOK'
    BY <1>1 DEF Inv, TypeOK, Waiting, Holding, Creating
  <1>3. LockInv' /\ OpenInv'
    BY DEF CallAppend, CallReplay, diskVars, Inv, TypeOK, LockInv, OpenInv,
           Holding, Creating
  <1>4. \A q \in Procs : pc[q] \in Holding \/ pc'[q] \in Holding => pc'[q] = pc[q]
    BY <1>1 DEF Inv, TypeOK, Holding, Creating
  <1>5. CheckedInv'
    BY <1>1, <1>4 DEF Inv, CheckedInv, Chained, HashBefore, Holding, Creating
  <1>6. WrittenInv'
    BY <1>1, <1>4 DEF Inv, WrittenInv, Holding, Creating
  <1>7. FileInv'
    BY <1>1, <1>4, FilesStay DEF Holding, Creating
  <1>8. QED
    BY <1>1, <1>2, <1>3, <1>5, <1>6, <1>7, QuietFiles DEF Inv

\* Every step that only ends a call.
LEMMA EndOfCallInv ==
    ASSUME Inv, NEW p \in Procs,
           \/ LockTimeout(p)
           \/ \E s \in Segments, c \in Claims : RefuseAppend(p, s, c)
           \/ TearLine(p) \/ SyncFails(p) \/ ProjectFails(p)
           \/ ReplayFails(p) \/ RebuildFails(p) \/ Crash(p)
    PROVE  Inv'
  <1>1. CASE LockTimeout(p)
    <2>1. lock # p
      BY <1>1 DEF LockTimeout, Inv, LockInv, Waiting, Holding, Creating
    <2>2. QED
      BY <1>1, <2>1, ReturnQuietly
      DEF LockTimeout, diskVars, Inv, TypeOK, Waiting, Creating
  <1>2. CASE \E s \in Segments, c \in Claims : RefuseAppend(p, s, c)
    BY <1>2, ReturnQuietly DEF RefuseAppend, diskVars, Inv, TypeOK, Creating
  <1>3. CASE TearLine(p)
    <2>1. lock = p /\ op[p] \in Record
      BY <1>3 DEF TearLine, Inv, LockInv, Holding, Creating, CheckedInv
    <2>2. torn' \in [Segments -> BOOLEAN]
      BY <1>3, <2>1 DEF TearLine, Inv, TypeOK
    <2>3. QED
      <3>1. /\ files \subseteq files' /\ files' \subseteq Segments
            /\ orphaned \subseteq orphaned' /\ orphaned' \subseteq Segments
            /\ files' \ files \subseteq orphaned'
        BY <1>3, <2>1 DEF TearLine, Inv, TypeOK, Record
      <3>2. pc[p] \notin Creating
        BY <1>3 DEF TearLine, Creating
      <3>3. QED
        BY <1>3, <2>1, <2>2, <3>1, <3>2, ReturnQuietly DEF TearLine, Release
  <1>4. CASE SyncFails(p) \/ ProjectFails(p) \/ RebuildFails(p)
    <2>1. lock = p
      BY <1>4
      DEF SyncFails, ProjectFails, RebuildFails, Inv, LockInv, Holding, Creating
    <2>2. CASE SyncFails(p)
      <3>1. op[p].seg \in Segments
        BY <2>2 DEF SyncFails, Inv, WrittenInv, Record
      <3>2. /\ orphaned \subseteq orphaned' /\ orphaned' \subseteq Segments
            /\ pc[p] \in Creating => op[p].seg \in orphaned'
        BY <2>2, <3>1 DEF SyncFails, Orphan, Inv, TypeOK
      <3>3. QED
        BY <2>1, <2>2, <3>2, ReturnQuietly
        DEF SyncFails, Release, diskVars, Inv, TypeOK
    <2>3. CASE ProjectFails(p) \/ RebuildFails(p)
      BY <2>1, <2>3, ReturnQuietly
      DEF ProjectFails, RebuildFails, Release, diskVars, Inv, TypeOK, Creating
    <2>4. QED
      BY <1>4, <2>2, <2>3
  <1>5. CASE ReplayFails(p)
    BY <1>5, ReturnQuietly DEF ReplayFails, diskVars, Inv, TypeOK, Creating
  <1>6. CASE Crash(p)
    <2>1. pc[p] \in Creating => op[p].seg \in Segments
      BY DEF Inv, WrittenInv, Record
    <2>2. /\ orphaned \subseteq orphaned' /\ orphaned' \subseteq Segments
          /\ pc[p] \in Creating => op[p].seg \in orphaned'
      BY <1>6, <2>1 DEF Crash, Orphan, Inv, TypeOK
    <2>3. QED
      BY <1>6, <2>2, ReturnQuietly DEF Crash, diskVars, Inv, TypeOK
  <1>7. QED
    BY <1>1, <1>2, <1>3, <1>4, <1>5, <1>6
-----------------------------------------------------------------------------
(* Steps of append().                                                      *)

\* The last line is indexed, so by PrefixInv every line is: the claim that is
\* free in the index is free in the segment.
LEMMA PrepareAppendInv ==
    ASSUME Inv, NEW p \in Procs, NEW s \in Segments, NEW c \in Claims,
           PrepareAppend(p, s, c)
    PROVE  Inv'
  <1> DEFINE r == [seg |-> s, seq |-> Len(log[s]) + 1,
                   prev |-> HashBefore(log[s], Len(log[s]) + 1), claim |-> c]
  <1> USE DEF diskVars
  <1>1. /\ op' = [op EXCEPT ![p] = r]
        /\ pc' = [pc EXCEPT ![p] = "checked"]
        /\ lock = NoProc /\ lock' = p /\ pc[p] = "append"
        /\ UNCHANGED <<log, torn, synced, files, entered, indexed, open, orphaned,
                       acked>>
    BY DEF PrepareAppend
  <1>2. r \in Record
    <2>1. Len(log[s]) \in Nat /\ Len(log[s]) + 1 \in 1..MaxLen
      BY DEF PrepareAppend, Inv, TypeOK
    <2>2. HashBefore(log[s], Len(log[s]) + 1) \in Claims \cup {NoClaim}
      BY <2>1 DEF HashBefore, Inv, SegmentInv, Record
    <2>3. QED
      BY <2>1, <2>2 DEF Record
  <1>3. TypeOK'
    BY <1>1, <1>2 DEF Inv, TypeOK, Holding, Creating
  <1>4. LockInv'
    BY <1>1 DEF Inv, TypeOK, LockInv, Holding, Creating
  <1>5. OpenInv'
    BY <1>1 DEF Inv, TypeOK, OpenInv
  <1>6. CheckedInv'
    <2>1. \A i \in 1..Len(log[s]) :
             log[s][i] \in indexed /\ log[s][i].claim # c
      <3>1. CASE log[s] = <<>>
        BY <3>1
      <3>2. CASE log[s] # <<>>
        <4>1. Len(log[s]) \in 1..Len(log[s]) /\ log[s][Len(log[s])] \in indexed
          BY <3>2 DEF PrepareAppend, Admissible, TailIndexed, Inv, TypeOK
        <4>2. \A i \in 1..Len(log[s]) : log[s][i] \in indexed
          BY <4>1 DEF Inv, PrefixInv
        <4>3. QED
          BY <4>2 DEF PrepareAppend, Admissible, ClaimFree
      <3>3. QED
        BY <3>1, <3>2
    <2>2. Chained(log[s], r) /\ c \in ClaimsOf[s]
      BY DEF Chained, PrepareAppend
    <2>3. op'[p] = r /\ \A q \in Procs \ {p} : op'[q] = op[q] /\ pc'[q] = pc[q]
      BY <1>1 DEF Inv, TypeOK
    <2>4. ASSUME NEW q \in Procs, pc'[q] = "checked"
          PROVE  /\ op'[q] \in Record
                 /\ Chained(log'[op'[q].seg], op'[q])
                 /\ op'[q].claim \in ClaimsOf[op'[q].seg]
                 /\ \A i \in 1..Len(log'[op'[q].seg]) :
                      /\ log'[op'[q].seg][i] \in indexed'
                      /\ log'[op'[q].seg][i].claim # op'[q].claim
      <3>1. CASE q = p
        BY <1>1, <1>2, <2>1, <2>2, <2>3, <3>1
      <3>2. CASE q # p
        BY <1>1, <2>3, <2>4, <3>2 DEF Inv, CheckedInv
      <3>3. QED
        BY <3>1, <3>2
    <2>5. QED
      BY <2>4 DEF CheckedInv
  <1>7. WrittenInv' /\ FileInv'
    <2>1. \A q \in Procs \ {p} : op'[q] = op[q] /\ pc'[q] = pc[q]
      BY <1>1 DEF Inv, TypeOK
    <2>2. pc'[p] = "checked"
      BY <1>1 DEF Inv, TypeOK
    <2>3. WrittenInv'
      BY <1>1, <2>1, <2>2 DEF Inv, WrittenInv, Creating
    <2>4. FileInv'
      BY <1>1, <2>1, FilesStay DEF Creating
    <2>5. QED
      BY <2>3, <2>4
  <1>8. QED
    BY <1>1, <1>3, <1>4, <1>5, <1>6, <1>7, QuietFiles DEF Inv

\* The line that was checked is written: chained to the last one, under a new
\* claim, after lines that are all indexed.
LEMMA WriteLineInv ==
    ASSUME Inv, NEW p \in Procs, WriteLine(p)
    PROVE  Inv'
  <1> DEFINE r == op[p]
             s == op[p].seg
             n == Len(log[s])
  <1>1. /\ pc[p] = "checked" /\ lock = p
        /\ log' = [log EXCEPT ![s] = Append(@, r)]
        /\ files' = files \cup {s}
        /\ pc' = [pc EXCEPT ![p] = IF s \in files THEN "written" ELSE "created"]
        /\ UNCHANGED <<torn, synced, entered, indexed, lock, open, op, orphaned,
                       acked>>
    BY DEF WriteLine, Inv, LockInv, Holding, Creating
  <1>2. /\ r \in Record /\ s \in Segments /\ r.seg = s
        /\ Chained(log[s], r)
        /\ r.claim \in ClaimsOf[s]
        /\ \A i \in 1..n : log[s][i] \in indexed /\ log[s][i].claim # r.claim
    BY <1>1 DEF Inv, CheckedInv, Record
  <1>3. log[s] \in Seq(Record) /\ n \in Nat
    BY <1>2 DEF Inv, TypeOK
  <1>4. /\ log'[s] \in Seq(Record)
        /\ Len(log'[s]) = n + 1
        /\ \A i \in 1..n : log'[s][i] = log[s][i]
        /\ log'[s][n + 1] = r
        /\ \A t \in Segments \ {s} : log'[t] = log[t]
    BY <1>1, <1>2, <1>3, AppendLines DEF Inv, TypeOK
  <1>5. TypeOK'
    BY <1>1, <1>2, <1>4 DEF Inv, TypeOK, Holding, Creating
  <1>6. LockInv' /\ OpenInv'
    BY <1>1 DEF Inv, TypeOK, LockInv, OpenInv, Holding, Creating
  <1>7. \A t \in Segments : \A i \in 1..Len(log[t]) :
           i \in 1..Len(log'[t]) /\ log'[t][i] = log[t][i]
    <2>1. \A i \in 1..n : i \in 1..Len(log'[s]) /\ log'[s][i] = log[s][i]
      BY <1>3, <1>4
    <2>2. QED
      BY <1>4, <2>1
  <1>8. SegmentInv'
    <2>1. ASSUME NEW t \in Segments \ {s}, NEW i \in 1..Len(log'[t])
          PROVE  /\ log'[t][i] \in Record
                 /\ log'[t][i].seg = t
                 /\ log'[t][i].seq = i
                 /\ log'[t][i].prev = HashBefore(log'[t], i)
                 /\ log'[t][i].claim \in ClaimsOf[t]
      BY <1>4 DEF Inv, SegmentInv
    <2>2. ASSUME NEW i \in 1..Len(log'[s])
          PROVE  /\ log'[s][i] \in Record
                 /\ log'[s][i].seg = s
                 /\ log'[s][i].seq = i
                 /\ log'[s][i].prev = HashBefore(log'[s], i)
                 /\ log'[s][i].claim \in ClaimsOf[s]
      <3>1. HashBefore(log'[s], i) = HashBefore(log[s], i)
        BY <1>3, <1>4 DEF HashBefore
      <3>2. CASE i = n + 1
        BY <1>2, <1>3, <1>4, <3>1, <3>2 DEF Chained
      <3>3. CASE i \in 1..n
        BY <1>2, <1>4, <3>1, <3>3 DEF Inv, SegmentInv
      <3>4. QED
        BY <1>3, <1>4, <3>2, <3>3
    <2>3. QED
      BY <2>1, <2>2 DEF SegmentInv
  <1>9. ClaimInv'
    <2>1. \A i, j \in 1..n : log'[s][i].claim = log'[s][j].claim => i = j
      <3>1. \A i, j \in 1..n : log[s][i].claim = log[s][j].claim => i = j
        BY <1>2 DEF Inv, ClaimInv
      <3>2. QED
        BY <1>4, <3>1
    <2>2. \A i \in 1..n : log'[s][i].claim # log'[s][n + 1].claim
      BY <1>2, <1>4
    <2>3. 1..Len(log'[s]) = (1..n) \cup {n + 1}
      BY <1>3, <1>4
    <2>4. \A i, j \in 1..Len(log'[s]) :
             log'[s][i].claim = log'[s][j].claim => i = j
      BY <2>1, <2>2, <2>3
    <2>5. \A t \in Segments \ {s} : \A i, j \in 1..Len(log'[t]) :
             log'[t][i].claim = log'[t][j].claim => i = j
      BY <1>4 DEF Inv, ClaimInv
    <2>6. QED
      BY <2>4, <2>5 DEF ClaimInv
  <1>10. PrefixInv'
    <2>1. ASSUME NEW t \in Segments, NEW i \in 1..Len(log'[t]),
                 NEW j \in 1..Len(log'[t]), i < j, log'[t][j] \in indexed'
          PROVE  log'[t][i] \in indexed'
      <3>1. CASE t # s
        BY <1>1, <1>4, <2>1, <3>1 DEF Inv, PrefixInv
      <3>2. CASE t = s
        BY <1>1, <1>2, <1>3, <1>4, <2>1, <3>2
      <3>3. QED
        BY <3>1, <3>2
    <2>2. QED
      BY <2>1 DEF PrefixInv
  <1>11. SyncInv'
    BY <1>1, <1>2, <1>3, <1>4 DEF Inv, SyncInv, TypeOK
  <1>12. AckInv'
    <2>1. ASSUME NEW a \in acked
          PROVE  /\ a \in Record /\ 1 <= a.seq /\ a.seq <= synced[a.seg]
                 /\ a.seg \in entered /\ log'[a.seg][a.seq] = a
      <3>1. /\ a \in Record /\ 1 <= a.seq /\ a.seq <= synced[a.seg]
            /\ a.seg \in entered /\ log[a.seg][a.seq] = a
        BY DEF Inv, AckInv
      <3>2. a.seg \in Segments /\ a.seq \in Nat
        BY <3>1 DEF Record
      <3>3. a.seq \in 1..Len(log[a.seg])
        BY <3>1, <3>2 DEF Inv, SyncInv, TypeOK
      <3>4. QED
        BY <1>7, <3>1, <3>2, <3>3
    <2>2. QED
      BY <1>1, <2>1 DEF AckInv
  <1>13. ViewInv'
    <2>1. ASSUME open # {}, NEW a \in indexed
          PROVE  a.seq <= Len(log'[a.seg]) /\ log'[a.seg][a.seq] = a
      <3>1. a.seq <= Len(log[a.seg]) /\ log[a.seg][a.seq] = a
        BY <2>1 DEF Inv, ViewInv
      <3>2. a.seg \in Segments /\ a.seq \in Nat /\ 1 <= a.seq
        BY DEF Inv, TypeOK, Record
      <3>3. a.seq \in 1..Len(log[a.seg])
        BY <3>1, <3>2 DEF Inv, TypeOK
      <3>4. Len(log'[a.seg]) \in Nat
        BY <1>5, <3>2 DEF TypeOK
      <3>5. QED
        BY <1>7, <3>1, <3>2, <3>3, <3>4
    <2>2. QED
      BY <1>1, <2>1 DEF ViewInv
  <1>14. \A q \in Procs \ {p} : pc'[q] = pc[q] /\ pc[q] \notin Holding
    BY <1>1 DEF Inv, TypeOK, LockInv
  <1>15. CheckedInv'
    BY <1>1, <1>14 DEF CheckedInv, Holding, Creating, Inv, TypeOK
  <1>16. WrittenInv'
    <2>1. r.seq = n + 1 /\ \A i \in 1..n : log'[s][i] \in indexed
      BY <1>2, <1>4 DEF Chained
    <2>2. \A q \in Procs :
             pc'[q] \in {"written", "synced"} \cup Creating => q = p
      BY <1>14 DEF Holding, Creating
    <2>3. pc'[p] = IF s \in files THEN "written" ELSE "created"
      BY <1>1 DEF Inv, TypeOK
    <2>4. (r.seq - 1) = n
      BY <2>1, <1>3
    <2>5. IF pc'[p] \in Creating THEN s \in files' \ entered'
                              ELSE s \in entered' \cup orphaned'
      <3>1. CASE s \in files
        <4>1. s \in entered \cup orphaned
          BY <1>1, <1>14, <3>1 DEF Inv, FileInv, Holding, Creating
        <4>2. QED
          BY <1>1, <2>3, <3>1, <4>1 DEF Creating
      <3>2. CASE s \notin files
        BY <1>1, <2>3, <3>2 DEF Creating, Inv, TypeOK
      <3>3. QED
        BY <3>1, <3>2
    <2>6. QED
      BY <1>1, <1>2, <1>4, <2>1, <2>2, <2>3, <2>4, <2>5 DEF WrittenInv
  <1>17. FileInv'
    <2>1. ASSUME NEW t \in files' \ entered', t \notin orphaned'
          PROVE  \E q \in Procs : pc'[q] \in Creating /\ op'[q].seg = t
      <3>1. CASE t \in files
        <4>1. t \in orphaned
          BY <1>1, <1>14, <2>1, <3>1 DEF Inv, FileInv, Holding, Creating
        <4>2. QED
          BY <1>1, <2>1, <4>1
      <3>2. CASE t \notin files
        <4>1. t = s
          BY <1>1, <2>1, <3>2
        <4>2. pc'[p] = "created"
          BY <1>1, <3>2, <4>1 DEF Inv, TypeOK
        <4>3. QED
          BY <1>1, <4>1, <4>2 DEF Creating
      <3>3. QED
        BY <3>1, <3>2
    <2>2. QED
      BY <2>1 DEF FileInv
  <1>18. QED
    BY <1>5, <1>6, <1>8, <1>9, <1>10, <1>11, <1>12, <1>13, <1>15, <1>16, <1>17
    DEF Inv
\* fsync covers every line of the file.
LEMMA SyncLineInv ==
    ASSUME Inv, NEW p \in Procs, SyncLine(p)
    PROVE  Inv'
  <1> DEFINE s == op[p].seg
  <1>1. /\ pc[p] \in {"written", "created"} /\ lock = p
        /\ synced' = [synced EXCEPT ![s] = Len(log[s])]
        /\ pc' = [pc EXCEPT ![p] = IF @ = "created" THEN "entering" ELSE "synced"]
        /\ UNCHANGED <<log, torn, files, entered, indexed, lock, open, op,
                       orphaned, acked>>
    BY DEF SyncLine, Inv, LockInv, Holding, Creating
  <1>2. op[p] \in Record /\ s \in Segments /\ Len(log[s]) \in Nat
    BY <1>1 DEF Inv, WrittenInv, Record, TypeOK, Creating
  <1>3. TypeOK'
    BY <1>1, <1>2 DEF Inv, TypeOK, Holding, Creating
  <1>4. LockInv' /\ OpenInv'
    BY <1>1 DEF Inv, TypeOK, LockInv, OpenInv, Holding, Creating
  <1>5. SegmentInv' /\ ClaimInv' /\ PrefixInv' /\ ViewInv'
    BY <1>1 DEF Inv, SegmentInv, ClaimInv, PrefixInv, ViewInv
  <1>6. SyncInv'
    BY <1>1, <1>2 DEF Inv, SyncInv, TypeOK
  <1>7. AckInv'
    <2>1. ASSUME NEW a \in acked
          PROVE  /\ a \in Record /\ 1 <= a.seq /\ a.seq <= synced'[a.seg]
                 /\ a.seg \in entered /\ log'[a.seg][a.seq] = a
      <3>1. /\ a \in Record /\ 1 <= a.seq /\ a.seq <= synced[a.seg]
            /\ a.seg \in entered /\ log[a.seg][a.seq] = a
        BY DEF Inv, AckInv
      <3>2. a.seg \in Segments /\ a.seq \in Nat
        BY <3>1 DEF Record
      <3>3. synced[a.seg] <= synced'[a.seg]
        BY <1>1, <1>2, <3>2 DEF Inv, SyncInv, TypeOK
      <3>4. synced[a.seg] \in Nat /\ synced'[a.seg] \in Nat
        BY <1>3, <3>2 DEF Inv, TypeOK
      <3>5. QED
        BY <1>1, <3>1, <3>2, <3>3, <3>4
    <2>2. QED
      BY <1>1, <2>1 DEF AckInv
  <1>8. \A q \in Procs \ {p} : pc'[q] = pc[q] /\ pc[q] \notin Holding
    BY <1>1 DEF Inv, TypeOK, LockInv
  <1>9. CheckedInv' /\ WrittenInv' /\ FileInv'
    <2>1. \A q \in Procs :
             pc'[q] \in {"checked", "written", "synced"} \cup Creating => q = p
      BY <1>8 DEF Holding, Creating
    <2>2. /\ pc'[p] = IF pc[p] = "created" THEN "entering" ELSE "synced"
          /\ synced'[s] = Len(log[s])
      BY <1>1, <1>2 DEF Inv, TypeOK
    <2>3. WrittenInv'
      BY <1>1, <2>1, <2>2 DEF Inv, WrittenInv, Creating
    <2>4. CheckedInv'
      BY <2>1, <2>2 DEF CheckedInv
    <2>5. FileInv'
      BY <1>1, <1>8, <2>2, FilesStay DEF Creating
    <2>6. QED
      BY <2>3, <2>4, <2>5
  <1>10. QED
    BY <1>3, <1>4, <1>5, <1>6, <1>7, <1>9 DEF Inv

\* The creating append enters its file: nobody else can be creating it.
LEMMA SyncDirectoryInv ==
    ASSUME Inv, NEW p \in Procs, SyncDirectory(p)
    PROVE  Inv'
  <1> DEFINE s == op[p].seg
  <1>1. /\ pc[p] = "entering" /\ lock = p
        /\ entered' = entered \cup {s}
        /\ pc' = [pc EXCEPT ![p] = "synced"]
        /\ UNCHANGED <<log, torn, synced, files, indexed, lock, open, op,
                       orphaned, acked>>
    BY DEF SyncDirectory, Inv, LockInv, Holding, Creating
  <1>2. /\ op[p] \in Record /\ s \in files \ entered
        /\ synced[s] = Len(log[s])
    BY <1>1 DEF Inv, WrittenInv, Creating
  <1>3. TypeOK'
    BY <1>1, <1>2 DEF Inv, TypeOK, Holding, Creating
  <1>4. LockInv' /\ OpenInv'
    BY <1>1 DEF Inv, TypeOK, LockInv, OpenInv, Holding, Creating
  <1>5. /\ SegmentInv' /\ ClaimInv' /\ PrefixInv' /\ SyncInv' /\ AckInv'
        /\ ViewInv'
    BY <1>1
    DEF Inv, SegmentInv, ClaimInv, PrefixInv, SyncInv, AckInv, ViewInv
  <1>6. /\ pc'[p] = "synced"
        /\ \A q \in Procs \ {p} : pc'[q] = pc[q] /\ pc[q] \notin Holding
    BY <1>1 DEF Inv, TypeOK, LockInv
  <1>7. CheckedInv'
    BY <1>6 DEF CheckedInv, Holding
  <1>8. WrittenInv'
    BY <1>1, <1>2, <1>6 DEF Inv, WrittenInv, Holding, Creating
  <1>9. FileInv'
    BY <1>1, <1>6 DEF Inv, FileInv, Holding, Creating
  <1>10. QED
    BY <1>3, <1>4, <1>5, <1>7, <1>8, <1>9 DEF Inv

\* The projected record is the last line, after a prefix that is indexed.
LEMMA ProjectInv ==
    ASSUME Inv, NEW p \in Procs, Project(p)
    PROVE  Inv'
  <1> DEFINE r == op[p]
             s == op[p].seg
  <1>1. /\ pc[p] = "synced" /\ lock = p /\ lock' = NoProc
        /\ indexed' = indexed \cup {r}
        /\ acked' = acked \cup (IF s \in orphaned THEN {} ELSE {r})
        /\ Return(p)
        /\ UNCHANGED <<log, torn, synced, files, entered, open, orphaned>>
    BY DEF Project, Acknowledge, Release, diskVars, Inv, LockInv, Holding, Creating
  <1>2. /\ r \in Record /\ s \in Segments /\ r.seg = s
        /\ r.seq = Len(log[s]) /\ r.seq \in Nat /\ 1 <= r.seq
        /\ log[s][r.seq] = r
        /\ \A i \in 1..(r.seq - 1) : log[s][i] \in indexed
        /\ synced[s] = Len(log[s])
        /\ s \in entered \cup orphaned
    BY <1>1 DEF Inv, WrittenInv, Record, Creating
  <1>3. TypeOK'
    BY <1>1, <1>2 DEF Return, Inv, TypeOK
  <1>4. /\ pc'[p] = "idle"
        /\ \A q \in Procs \ {p} : pc'[q] = pc[q] /\ pc[q] \notin Holding
    BY <1>1 DEF Return, Inv, TypeOK, LockInv
  <1>5. LockInv' /\ OpenInv'
    BY <1>1, <1>4 DEF Inv, LockInv, OpenInv, Holding, Creating
  <1>6. CheckedInv' /\ WrittenInv'
    BY <1>4 DEF CheckedInv, WrittenInv, Holding, Creating
  <1>7. SegmentInv' /\ ClaimInv' /\ SyncInv'
    BY <1>1 DEF Inv, SegmentInv, ClaimInv, SyncInv
  <1>8. PrefixInv'
    <2>1. ASSUME NEW t \in Segments, NEW i \in 1..Len(log[t]),
                 NEW j \in 1..Len(log[t]), i < j, log[t][j] \in indexed'
          PROVE  log[t][i] \in indexed'
      <3>1. CASE log[t][j] \in indexed
        BY <1>1, <2>1, <3>1 DEF Inv, PrefixInv
      <3>2. CASE log[t][j] = r
        <4>1. t = s /\ j = r.seq
          BY <1>2, <3>2 DEF Inv, SegmentInv
        <4>2. i \in 1..(r.seq - 1)
          BY <1>2, <2>1, <4>1
        <4>3. QED
          BY <1>1, <1>2, <4>1, <4>2
      <3>3. QED
        BY <1>1, <2>1, <3>1, <3>2
    <2>2. QED
      BY <1>1, <2>1 DEF PrefixInv
  <1>9. AckInv'
    BY <1>1, <1>2 DEF Inv, AckInv
  <1>10. ViewInv'
    BY <1>1, <1>2 DEF Inv, ViewInv
  <1>11. FileInv'
    BY <1>1, <1>4, FilesStay DEF Holding, Creating
  <1>12. QED
    BY <1>3, <1>5, <1>6, <1>7, <1>8, <1>9, <1>10, <1>11 DEF Inv

-----------------------------------------------------------------------------
(* Steps of replay().                                                      *)

\* An index that equals the log satisfies everything that is asked of it.
LEMMA IndexedLog ==
    ASSUME Inv, indexed' = Durable, UNCHANGED <<log, synced, entered, acked>>
    PROVE  /\ indexed' \subseteq Record
           /\ SegmentInv' /\ ClaimInv' /\ PrefixInv' /\ SyncInv' /\ AckInv'
           /\ ViewInv'
  <1>1. \A r : r \in indexed' <=>
             \E s \in Segments : \E i \in 1..Len(log[s]) : r = log[s][i]
    BY DurableLines DEF Inv
  <1>2. SegmentInv' /\ ClaimInv' /\ SyncInv' /\ AckInv'
    BY DEF Inv, SegmentInv, ClaimInv, SyncInv, AckInv
  <1>3. PrefixInv'
    BY <1>1 DEF PrefixInv
  <1>4. indexed' \subseteq Record
    BY <1>1 DEF Inv, SegmentInv
  <1>5. ViewInv'
    <2>1. ASSUME NEW r \in indexed'
          PROVE  r.seq <= Len(log[r.seg]) /\ log[r.seg][r.seq] = r
      <3>1. PICK s \in Segments : \E i \in 1..Len(log[s]) : r = log[s][i]
        BY <1>1
      <3>2. PICK i \in 1..Len(log[s]) : r = log[s][i]
        BY <3>1
      <3>3. r.seg = s /\ r.seq = i
        BY <3>2 DEF Inv, SegmentInv
      <3>4. QED
        BY <3>2, <3>3 DEF Inv, TypeOK
    <2>2. QED
      BY <2>1 DEF ViewInv
  <1>6. QED
    BY <1>2, <1>3, <1>4, <1>5

\* A replay completes the index from the durable lines.
LEMMA ReplayMissingInv ==
    ASSUME Inv, NEW p \in Procs, ReplayMissing(p)
    PROVE  Inv'
  <1>1. /\ pc[p] = "replay" /\ lock = NoProc /\ lock' = NoProc
        /\ indexed' = Durable
        /\ open' = open \cup {p}
        /\ Return(p)
        /\ UNCHANGED <<log, torn, synced, files, entered, orphaned, acked>>
    BY DEF ReplayMissing, NothingExtra, diskVars
  <1>2. /\ pc'[p] = "idle"
        /\ \A q \in Procs \ {p} : pc'[q] = pc[q]
        /\ \A q \in Procs : pc'[q] \notin Holding
    BY <1>1 DEF Return, Inv, TypeOK, LockInv, Holding, Creating
  <1>3. TypeOK'
    BY <1>1, IndexedLog DEF Return, Inv, TypeOK
  <1>4. LockInv' /\ OpenInv'
    BY <1>1, <1>2 DEF Inv, LockInv, OpenInv
  <1>5. CheckedInv' /\ WrittenInv'
    BY <1>2 DEF CheckedInv, WrittenInv, Holding, Creating
  <1>6. FileInv'
    BY <1>1, <1>2, FilesStay DEF Holding, Creating
  <1>7. QED
    BY <1>1, <1>3, <1>4, <1>5, <1>6, IndexedLog DEF Inv

\* A rebuild empties the index in a transaction of its own, the lock held.
LEMMA ClearProjectionInv ==
    ASSUME Inv, NEW p \in Procs, ClearProjection(p)
    PROVE  Inv'
  <1>1. /\ pc[p] = "replay" /\ lock = NoProc /\ lock' = p /\ indexed' = {}
        /\ pc' = [pc EXCEPT ![p] = "cleared"]
        /\ UNCHANGED <<log, torn, synced, files, entered, open, op, orphaned,
                       acked>>
    BY DEF ClearProjection, diskVars
  <1>2. /\ pc'[p] = "cleared"
        /\ \A q \in Procs \ {p} : pc'[q] = pc[q] /\ pc'[q] \notin Holding
    BY <1>1 DEF Inv, TypeOK, LockInv
  <1>3. TypeOK'
    BY <1>1 DEF Inv, TypeOK, Holding, Creating
  <1>4. LockInv' /\ OpenInv'
    BY <1>1, <1>2 DEF Inv, LockInv, OpenInv, Holding, Creating
  <1>5. CheckedInv' /\ WrittenInv'
    BY <1>2 DEF CheckedInv, WrittenInv, Holding, Creating
  <1>6. SegmentInv' /\ ClaimInv' /\ SyncInv' /\ AckInv'
    BY <1>1 DEF Inv, SegmentInv, ClaimInv, SyncInv, AckInv
  <1>7. PrefixInv' /\ ViewInv'
    BY <1>1 DEF PrefixInv, ViewInv
  <1>8. FileInv'
    BY <1>1, <1>2, FilesStay DEF Holding, Creating
  <1>9. QED
    BY <1>3, <1>4, <1>5, <1>6, <1>7, <1>8 DEF Inv

\* The second transaction of a rebuild completes the index.
LEMMA RebuildProjectionInv ==
    ASSUME Inv, NEW p \in Procs, RebuildProjection(p)
    PROVE  Inv'
  <1>1. /\ pc[p] = "cleared" /\ lock = p /\ lock' = NoProc
        /\ indexed' = Durable
        /\ open' = open \cup {p}
        /\ Return(p)
        /\ UNCHANGED <<log, torn, synced, files, entered, orphaned, acked>>
    BY DEF RebuildProjection, Release, diskVars, Inv, LockInv, Holding, Creating
  <1>2. /\ pc'[p] = "idle"
        /\ \A q \in Procs \ {p} : pc'[q] = pc[q] /\ pc[q] \notin Holding
    BY <1>1 DEF Return, Inv, TypeOK, LockInv
  <1>3. TypeOK'
    BY <1>1, IndexedLog DEF Return, Inv, TypeOK
  <1>4. LockInv' /\ OpenInv'
    BY <1>1, <1>2 DEF Inv, LockInv, OpenInv, Holding, Creating
  <1>5. CheckedInv' /\ WrittenInv'
    BY <1>2 DEF CheckedInv, WrittenInv, Holding, Creating
  <1>6. FileInv'
    BY <1>1, <1>2, FilesStay DEF Holding, Creating
  <1>7. QED
    BY <1>1, <1>3, <1>4, <1>5, <1>6, IndexedLog DEF Inv

-----------------------------------------------------------------------------
\* Each segment keeps a prefix that contains every synced line.
LEMMA PowerLossInv ==
    ASSUME Inv, PowerLoss
    PROVE  Inv'
  <1>1. /\ lock' = NoProc /\ open' = {}
        /\ pc' = [p \in Procs |-> "idle"] /\ op' = [p \in Procs |-> NoRecord]
        /\ torn' \in [Segments -> BOOLEAN]
        /\ orphaned' = orphaned \cup
             {op[p].seg : p \in {q \in Procs : pc[q] \in Creating}}
        /\ UNCHANGED <<indexed, acked>>
    BY DEF PowerLoss
  <1>2. PICK gone \in SUBSET (files \ entered),
             kept \in [Segments -> 0..MaxLen] :
           /\ \A s \in Segments :
                kept[s] \in IF s \in gone THEN {0} ELSE synced[s]..Len(log[s])
           /\ log' = [s \in Segments |-> SubSeq(log[s], 1, kept[s])]
           /\ synced' = [s \in Segments |-> IF s \in gone THEN 0 ELSE synced[s]]
           /\ files' = files \ gone
           /\ entered' = files'
    BY DEF PowerLoss
  <1>3. \A s \in Segments :
           /\ log[s] \in Seq(Record) /\ Len(log[s]) \in Nat
           /\ synced'[s] \in Nat /\ kept[s] \in 0..Len(log[s])
           /\ synced'[s] <= kept[s]
    BY <1>2 DEF Inv, TypeOK
  <1>4. \A s \in Segments :
           /\ log'[s] \in Seq(Record)
           /\ Len(log'[s]) = kept[s]
           /\ \A i \in 1..kept[s] : log'[s][i] = log[s][i]
    BY <1>2, <1>3, TruncatedLines
  <1>5. \A s \in Segments : \A i \in 1..Len(log'[s]) :
           i \in 1..Len(log[s]) /\ log'[s][i] = log[s][i]
    BY <1>3, <1>4
  <1>6. TypeOK'
    <2>1. log' \in [Segments -> Seq(Record)] /\ synced' \in [Segments -> Nat]
      BY <1>2, <1>3, <1>4
    <2>2. files' \subseteq Segments /\ entered' \subseteq files'
      BY <1>2 DEF Inv, TypeOK
    <2>3. orphaned' \subseteq Segments
      BY <1>1 DEF Inv, WrittenInv, TypeOK, Creating, Record
    <2>4. QED
      BY <1>1, <2>1, <2>2, <2>3 DEF Inv, TypeOK
  <1>7. /\ LockInv' /\ OpenInv' /\ CheckedInv' /\ WrittenInv' /\ FileInv'
        /\ ViewInv'
    BY <1>1, <1>2
    DEF LockInv, OpenInv, CheckedInv, WrittenInv, FileInv, ViewInv, Holding,
        Creating
  <1>8. SegmentInv'
    <2>1. ASSUME NEW s \in Segments, NEW i \in 1..Len(log'[s])
          PROVE  HashBefore(log'[s], i) = HashBefore(log[s], i)
      BY <1>3, <1>4 DEF HashBefore
    <2>2. QED
      BY <1>5, <2>1 DEF Inv, SegmentInv
  <1>9. ClaimInv' /\ PrefixInv'
    <2>1. ASSUME NEW s \in Segments, NEW i \in 1..Len(log'[s]),
                 NEW j \in 1..Len(log'[s])
          PROVE  /\ log'[s][i].claim = log'[s][j].claim => i = j
                 /\ i < j /\ log'[s][j] \in indexed => log'[s][i] \in indexed
      <3>1. /\ i \in 1..Len(log[s]) /\ log'[s][i] = log[s][i]
            /\ j \in 1..Len(log[s]) /\ log'[s][j] = log[s][j]
        BY <1>5
      <3>2. QED
        BY <3>1 DEF Inv, ClaimInv, PrefixInv
    <2>2. QED
      BY <1>1, <2>1 DEF ClaimInv, PrefixInv
  <1>10. SyncInv'
    BY <1>1, <1>3, <1>4 DEF SyncInv
  <1>11. AckInv'
    <2>1. ASSUME NEW a \in acked
          PROVE  /\ a \in Record /\ 1 <= a.seq /\ a.seq <= synced'[a.seg]
                 /\ a.seg \in entered' /\ log'[a.seg][a.seq] = a
      <3>1. /\ a \in Record /\ 1 <= a.seq /\ a.seq <= synced[a.seg]
            /\ a.seg \in entered /\ log[a.seg][a.seq] = a
        BY DEF Inv, AckInv
      <3>2. a.seg \in Segments /\ a.seq \in Nat
        BY <3>1 DEF Record
      <3>3. a.seg \in entered' /\ synced'[a.seg] = synced[a.seg]
        BY <1>2, <3>1, <3>2 DEF Inv, TypeOK
      <3>4. a.seq \in 1..kept[a.seg]
        BY <1>3, <3>1, <3>2, <3>3
      <3>5. QED
        BY <1>4, <3>1, <3>2, <3>3, <3>4
    <2>2. QED
      BY <1>1, <2>1 DEF AckInv
  <1>12. QED
    BY <1>6, <1>7, <1>8, <1>9, <1>10, <1>11 DEF Inv
-----------------------------------------------------------------------------
(* The theorems.                                                           *)

\* Every step preserves the invariant.
LEMMA NextInv == Inv /\ [Next]_vars => Inv'
  <1> SUFFICES ASSUME Inv, [Next]_vars PROVE Inv'
    OBVIOUS
  <1>1. ASSUME NEW p \in Procs, CallAppend(p) \/ CallReplay(p) \/ Crash(p)
        PROVE  Inv'
    BY <1>1, CallInv, EndOfCallInv
  <1>2. ASSUME NEW p \in Procs, Proceed(p)
        PROVE  Inv'
    <2>1. ASSUME NEW s \in Segments, NEW c \in Claims, PrepareAppend(p, s, c)
          PROVE  Inv'
      BY <2>1, PrepareAppendInv
    <2>2. CASE WriteLine(p)
      BY <2>2, WriteLineInv
    <2>3. CASE SyncLine(p)
      BY <2>3, SyncLineInv
    <2>4. CASE SyncDirectory(p)
      BY <2>4, SyncDirectoryInv
    <2>5. CASE Project(p)
      BY <2>5, ProjectInv
    <2>6. CASE ReplayMissing(p)
      BY <2>6, ReplayMissingInv
    <2>7. CASE ClearProjection(p)
      BY <2>7, ClearProjectionInv
    <2>8. CASE RebuildProjection(p)
      BY <2>8, RebuildProjectionInv
    <2>9. QED
      BY <1>2, <2>1, <2>2, <2>3, <2>4, <2>5, <2>6, <2>7, <2>8, EndOfCallInv
      DEF Proceed
  <1>3. CASE PowerLoss
    BY <1>3, PowerLossInv
  <1>4. CASE UNCHANGED vars
    <2>1. open' \subseteq open
      BY <1>4 DEF vars
    <2>2. TypeOK' /\ LockInv' /\ OpenInv'
      BY <1>4 DEF vars, Inv, TypeOK, LockInv, OpenInv
    <2>3. CheckedInv' /\ WrittenInv'
      BY <1>4 DEF vars, Inv, CheckedInv, WrittenInv
    <2>4. FileInv'
      BY <1>4, FilesStay DEF vars
    <2>5. QED
      BY <1>4, <2>1, <2>2, <2>3, <2>4, QuietFiles DEF vars, Inv
  <1>5. QED
    BY <1>1, <1>2, <1>3, <1>4 DEF Next

\* The strengthened invariant holds in every reachable state.
THEOREM Invariance == Spec => []Inv
  BY InitInv, NextInv, PTL DEF Spec

\* Every variable keeps its type, for any processes, segments and claims.
THEOREM TypeCorrect == Spec => []TypeOK
  <1>1. Inv => TypeOK
    BY DEF Inv
  <1>2. QED
    BY <1>1, Invariance, PTL

\* However the steps of append(), crashes, torn lines and power losses fall,
\* every segment is one unbroken chain.
THEOREM ChainsStayIntact == Spec => []ChainsIntact
  <1>1. Inv => ChainsIntact
    <2> SUFFICES ASSUME Inv PROVE ChainsIntact
      OBVIOUS
    <2>1. \A s \in Segments : DOMAIN log[s] = 1..Len(log[s])
      BY DEF Inv, TypeOK
    <2>2. QED
      BY <2>1 DEF Inv, SegmentInv, ChainsIntact, ChainIntact, Lines
  <1>2. QED
    BY <1>1, Invariance, PTL

\* Looking at the last line is enough: the index never has a gap.
THEOREM IndexHasNoGap == Spec => []NoGapInIndex
  <1>1. Inv => NoGapInIndex
    <2> SUFFICES ASSUME Inv PROVE NoGapInIndex
      OBVIOUS
    <2>1. \A s \in Segments : DOMAIN log[s] = 1..Len(log[s])
      BY DEF Inv, TypeOK
    <2>2. QED
      BY <2>1 DEF Inv, PrefixInv, NoGapInIndex
  <1>2. QED
    BY <1>1, Invariance, PTL

\* An acknowledged record survives every failure that is modelled, in a segment
\* whose creating append synced the directory.
THEOREM AcknowledgedRecordsKept == Spec => []AcknowledgedKept
  <1>1. Inv => AcknowledgedKept
    <2> SUFFICES ASSUME Inv, NEW r \in acked
                 PROVE  /\ r.seg \in entered
                        /\ \E i \in 1..synced[r.seg] :
                             i <= Len(log[r.seg]) /\ log[r.seg][i] = r
      BY DEF AcknowledgedKept
    <2>1. /\ r.seg \in Segments /\ r.seq \in Nat /\ 1 <= r.seq
          /\ r.seg \in entered
          /\ r.seq <= synced[r.seg] /\ log[r.seg][r.seq] = r
      BY DEF Inv, AckInv, Record
    <2>2. /\ synced[r.seg] \in Nat /\ Len(log[r.seg]) \in Nat
          /\ synced[r.seg] <= Len(log[r.seg])
      BY <2>1 DEF Inv, SyncInv, TypeOK
    <2>3. QED
      BY <2>1, <2>2
  <1>2. QED
    BY <1>1, Invariance, PTL

\* A reader of the index is never shown an event that the log does not have.
THEOREM ReadersAreSound == Spec => []ReadersSeeOnlyLogged
  <1>1. Inv => ReadersSeeOnlyLogged
    <2> SUFFICES ASSUME Inv, open # {}, NEW r \in indexed PROVE r \in Durable
      BY DEF ReadersSeeOnlyLogged
    <2>1. r.seg \in Segments /\ r.seq \in 1..MaxLen
      BY DEF Inv, TypeOK, Record
    <2>2. r.seq <= Len(log[r.seg]) /\ log[r.seg][r.seq] = r
      BY DEF Inv, ViewInv
    <2>3. r.seq \in 1..Len(log[r.seg])
      BY <2>1, <2>2 DEF Inv, TypeOK
    <2>4. QED
      BY <2>1, <2>2, <2>3, DurableLines DEF Inv
  <1>2. QED
    BY <1>1, Invariance, PTL

\* When no two segments share claims, the durable records can always be
\* replayed together, whatever was left unprojected by dead processes.
THEOREM PrivateClaimsReplay ==
    ASSUME \A s, t \in Segments : s # t => ClaimsOf[s] \cap ClaimsOf[t] = {}
    PROVE  Spec => []Replayable
  <1>1. Inv => Replayable
    <2> SUFFICES ASSUME Inv, NEW r \in Durable, NEW q \in Durable,
                        r.claim = q.claim
                 PROVE  r = q
      BY DEF Replayable, Applicable
    <2>1. PICK s \in Segments : \E i \in 1..Len(log[s]) : r = log[s][i]
      BY DurableLines DEF Inv
    <2>2. PICK i \in 1..Len(log[s]) : r = log[s][i]
      BY <2>1
    <2>3. PICK t \in Segments : \E j \in 1..Len(log[t]) : q = log[t][j]
      BY DurableLines DEF Inv
    <2>4. PICK j \in 1..Len(log[t]) : q = log[t][j]
      BY <2>3
    <2>5. r.claim \in ClaimsOf[s] /\ q.claim \in ClaimsOf[t]
      BY <2>2, <2>4 DEF Inv, SegmentInv
    <2>6. s = t
      BY <2>5
    <2>7. i = j
      BY <2>2, <2>4, <2>6 DEF Inv, ClaimInv
    <2>8. QED
      BY <2>2, <2>4, <2>6, <2>7
  <1>2. QED
    BY <1>1, Invariance, PTL

-----------------------------------------------------------------------------
(* The log implements the history that callers are promised.               *)

\* An empty root is an empty history.
LEMMA InitHistory == Init => History!Init
  BY DEF Init, History!Init

\* A step of the store is a step of the history it promises, or none.
LEMMA StepHistory == Inv /\ [Next]_vars => [History!Next]_(History!absVars)
  <1> SUFFICES ASSUME Inv, [Next]_vars
               PROVE  [History!Next]_(History!absVars)
    OBVIOUS
  <1> USE DEF History!absVars
  <1>1. History!Recorded = Durable
    BY DEF History!Recorded, History!Lines, Durable, Lines
  <1>2. ASSUME NEW p \in Procs, WriteLine(p)
        PROVE  History!Next
    <2>1. /\ op[p] \in Record /\ op[p].seg \in Segments
          /\ Chained(log[op[p].seg], op[p])
      BY <1>2 DEF WriteLine, Inv, CheckedInv, Record
    <2>2. History!Extend(op[p].seg, op[p])
      BY <1>2, <2>1 DEF WriteLine, History!Extend
    <2>3. QED
      BY <2>1, <2>2 DEF History!Next
  <1>3. ASSUME NEW p \in Procs, Project(p)
        PROVE  History!Next
    <2>1. op[p] \in Durable
      <3>1. /\ op[p].seg \in Segments
            /\ op[p].seq \in 1..Len(log[op[p].seg])
            /\ log[op[p].seg][op[p].seq] = op[p]
        BY <1>3 DEF Project, Inv, WrittenInv, Record
      <3>2. QED
        BY <3>1, DurableLines DEF Inv
    <2>2. History!Acknowledge(op[p]) \/ History!Reveal(op[p])
      BY <1>3
      DEF Project, Acknowledge, diskVars, History!Acknowledge, History!Reveal
    <2>3. QED
      BY <1>1, <2>1, <2>2 DEF History!Next
  <1>4. ASSUME NEW p \in Procs, ReplayMissing(p) \/ RebuildProjection(p)
        PROVE  History!Next
    BY <1>1, <1>4
    DEF ReplayMissing, NothingExtra, RebuildProjection, diskVars,
        History!Next, History!Refresh
  <1>5. ASSUME NEW p \in Procs, ClearProjection(p)
        PROVE  History!Next
    BY <1>5 DEF ClearProjection, diskVars, History!Next, History!Discard
  <1>6. CASE PowerLoss
    <2>1. PICK gone \in SUBSET (files \ entered),
               kept \in [Segments -> 0..MaxLen] :
             /\ \A s \in Segments :
                  kept[s] \in IF s \in gone THEN {0} ELSE synced[s]..Len(log[s])
             /\ log' = [s \in Segments |-> SubSeq(log[s], 1, kept[s])]
      BY <1>6 DEF PowerLoss
    <2>2. \A s \in Segments :
             /\ log[s] \in Seq(Record) /\ Len(log[s]) \in Nat
             /\ kept[s] \in 0..Len(log[s])
      BY <2>1 DEF Inv, TypeOK
    <2>3. \A s \in Segments : Len(log'[s]) = kept[s] /\ kept[s] <= Len(log[s])
      BY <2>1, <2>2, TruncatedLines
    <2>4. log' = [s \in Segments |-> SubSeq(log[s], 1, Len(log'[s]))]
      BY <2>1, <2>3
    <2>5. Inv'
      BY <1>6, PowerLossInv
    <2>6. acked' \subseteq Durable'
      <3>1. ASSUME NEW a \in acked' PROVE a \in Durable'
        <4>1. /\ a.seg \in Segments /\ a.seq \in Nat /\ 1 <= a.seq
              /\ a.seq <= synced'[a.seg] /\ log'[a.seg][a.seq] = a
          BY <2>5 DEF Inv, AckInv, Record
        <4>2. /\ synced'[a.seg] \in Nat /\ Len(log'[a.seg]) \in Nat
              /\ synced'[a.seg] <= Len(log'[a.seg])
          BY <2>5, <4>1 DEF Inv, SyncInv, TypeOK
        <4>3. a.seq \in DOMAIN log'[a.seg]
          BY <2>5, <4>1, <4>2 DEF Inv, TypeOK
        <4>4. QED
          BY <4>1, <4>3 DEF Durable, Lines
      <3>2. QED
        BY <3>1
    <2>7. UNCHANGED <<indexed, acked>>
      BY <1>6 DEF PowerLoss
    <2>8. History!Lose
      BY <2>3, <2>4, <2>6, <2>7 DEF History!Lose, History!Lines, Durable, Lines
    <2>9. QED
      BY <2>8 DEF History!Next
  <1>7. ASSUME NEW p \in Procs,
               \/ CallAppend(p) \/ CallReplay(p) \/ Crash(p) \/ LockTimeout(p)
               \/ \E s \in Segments, c \in Claims :
                    PrepareAppend(p, s, c) \/ RefuseAppend(p, s, c)
               \/ TearLine(p) \/ SyncLine(p) \/ SyncDirectory(p)
               \/ SyncFails(p) \/ ProjectFails(p) \/ ReplayFails(p) \/ RebuildFails(p)
        PROVE  UNCHANGED <<log, indexed, acked>>
    BY <1>7
    DEF CallAppend, CallReplay, Crash, LockTimeout, PrepareAppend,
        RefuseAppend, TearLine, SyncLine, SyncDirectory, SyncFails,
        ProjectFails, ReplayFails, RebuildFails, diskVars
  <1>8. CASE UNCHANGED vars
    BY <1>8 DEF vars
  <1>9. QED
    BY <1>2, <1>3, <1>4, <1>5, <1>6, <1>7, <1>8 DEF Next, Proceed

\* Locking, crashing, tearing, syncing, replaying and rebuilding are invisible
\* except as steps of an append-only history that keeps what it acknowledged.
THEOREM LogImplementsHistory == Spec => ImplementsHistory
  BY InitHistory, StepHistory, Invariance, PTL
  DEF Spec, ImplementsHistory, History!Spec
=============================================================================
