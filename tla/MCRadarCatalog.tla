--------------------------- MODULE MCRadarCatalog ---------------------------
(* One paper version, two entries arXiv may return for it, two operators   *)
(* and the two kinds of intake.                                            *)
EXTENDS RadarCatalog
CONSTANTS alice, bob
MCOperators == {alice, bob}
MCEntries == {"e1", "e2"}

(* The entries are alike: let arXiv begin with one of them. *)
MCInit == Init /\ arxiv.entry = "e1"
MCSpec == MCInit /\ [][Next]_vars /\ Fairness
=============================================================================
