-------------------------- MODULE MCBlobRetention --------------------------
(***************************************************************************)
(* One payload, referenced by one or two tasks, over a few days: long      *)
(* enough to be evicted, brought back and evicted again.                   *)
(***************************************************************************)
EXTENDS BlobRetention, TLC

CONSTANTS t1, t2

AnyTask == Permutations(Tasks)
=============================================================================
