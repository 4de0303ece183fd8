---------------------------- MODULE MCRunMemory ----------------------------
(***************************************************************************)
(* One run, interrupted anywhere and resumed in every way.                 *)
(***************************************************************************)
EXTENDS RunMemory
=============================================================================
