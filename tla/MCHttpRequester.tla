--------------------------- MODULE MCHttpRequester ---------------------------
(***************************************************************************)
(* HttpRequester on small instances: two URLs that redirect to each other  *)
(* or to themselves.                                                       *)
(***************************************************************************)
EXTENDS HttpRequester
=============================================================================
