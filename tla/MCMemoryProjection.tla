------------------------- MODULE MCMemoryProjection -------------------------
(***************************************************************************)
(* Two sessions, three memories that may supersede each other in either    *)
(* direction of their sort order, one task, and a handful of events.       *)
(***************************************************************************)
EXTENDS MemoryProjection, TLC

CONSTANTS s1, s2, t1

Sessions == Permutations(Segments)
=============================================================================
