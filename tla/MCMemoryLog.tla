---------------------------- MODULE MCMemoryLog ----------------------------
(***************************************************************************)
(* Two processes share a root with two segments of at most two records.    *)
(* PrivateClaims: the writers of a segment use keys that no other segment  *)
(* uses (one session per task, fresh event ids).  SharedClaims: two        *)
(* sessions work on the same task or retry the same event id.              *)
(***************************************************************************)
EXTENDS MemoryLog, TLC

CONSTANTS p1, p2, s1, s2, c1, c2, c3

PrivateClaims == (s1 :> {c1, c2}) @@ (s2 :> {c3})
SharedClaims == (s1 :> {c1}) @@ (s2 :> {c1})
=============================================================================
