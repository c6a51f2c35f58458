----------------------------- MODULE MCJobWorker -----------------------------
(***************************************************************************)
(* JobWorker on small instances.  Nothing is redefined: the sets of model  *)
(* values and the bounds are given by the cfg files.                       *)
(***************************************************************************)
EXTENDS JobWorker
=============================================================================
