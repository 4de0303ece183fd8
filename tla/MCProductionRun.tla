-------------------------- MODULE MCProductionRun --------------------------
(***************************************************************************)
(* The routes of the worker over a repository of two paths, one of which   *)
(* exists.  With ManifestPath = noPath neither is a root manifest.json.    *)
(***************************************************************************)
EXTENDS ProductionRun

CONSTANTS p1, p2, noPath
=============================================================================
