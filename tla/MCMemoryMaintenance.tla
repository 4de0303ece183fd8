-------------------------- MODULE MCMemoryMaintenance --------------------------
(***************************************************************************)
(* Three payloads of five bytes in all, of which a run collects at most    *)
(* two, or two bytes: the second is as large as the limit.                 *)
(***************************************************************************)
EXTENDS MemoryMaintenance

MCSize == <<1, 2, 2>>
MCDisposal == <<"evict", "evict", "archive">>
=============================================================================
