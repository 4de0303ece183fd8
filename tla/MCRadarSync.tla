----------------------------- MODULE MCRadarSync -----------------------------
(* Three papers, the first with two artifacts, pages of one paper, and a   *)
(* window of two days.                                                     *)
EXTENDS RadarSync
MCLinks == <<1, 1>>
=============================================================================
