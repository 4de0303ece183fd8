------------------------- MODULE MCCatalogMaintenance -------------------------
(* Two finished subagent threads, two processes, one thread in a run.       *)
EXTENDS CatalogMaintenance
=============================================================================
