---------------------------- MODULE EventHistory ----------------------------
(***************************************************************************)
(* What a MemoryStore root promises its callers, with neither locks nor    *)
(* crashes: an append-only history per segment, a view that readers see,   *)
(* and a set of assured records that no failure removes.  The events       *)
(* themselves are opaque here: Chained(h, r) says that r may follow h.     *)
(***************************************************************************)
EXTENDS Naturals, Sequences

CONSTANTS Segments, Records, Chained(_, _)

VARIABLES history, view, acked

absVars == <<history, view, acked>>

Lines(h) == {h[i] : i \in DOMAIN h}
Recorded == UNION {Lines(history[s]) : s \in Segments}

Init ==
    /\ history = [s \in Segments |-> <<>>]
    /\ view = {}
    /\ acked = {}

\* One record is added at the end of one segment; nobody has been told yet.
Extend(s, r) ==
    /\ r \in Records
    /\ Chained(history[s], r)
    /\ history' = [history EXCEPT ![s] = Append(@, r)]
    /\ UNCHANGED <<view, acked>>

\* The caller learns that its record is kept, and readers see it.
Acknowledge(r) ==
    /\ view' = view \cup {r}
    /\ acked' = acked \cup {r}
    /\ UNCHANGED history

\* Readers see a record whose file a power loss may still take as a whole.
Reveal(r) ==
    /\ view' = view \cup {r}
    /\ UNCHANGED <<history, acked>>

\* Readers see everything that is recorded, and nothing else.
Refresh ==
    /\ view' = Recorded
    /\ UNCHANGED <<history, acked>>

\* The view is disposable.
Discard ==
    /\ view' = {}
    /\ UNCHANGED <<history, acked>>

\* The ends of segments are lost, but no assured record is.
Lose ==
    /\ history' = [s \in Segments |->
                     SubSeq(history[s], 1, Len(history'[s]))]
    /\ \A s \in Segments : Len(history'[s]) <= Len(history[s])
    /\ acked \subseteq UNION {Lines(history'[s]) : s \in Segments}
    /\ UNCHANGED <<view, acked>>

Next ==
    \/ \E s \in Segments, r \in Records : Extend(s, r)
    \/ \E r \in Recorded : Acknowledge(r) \/ Reveal(r)
    \/ Refresh
    \/ Discard
    \/ Lose

Spec == Init /\ [][Next]_absVars
=============================================================================
