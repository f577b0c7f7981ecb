--------------------------- MODULE MCParamsEndpoint ---------------------------
(***************************************************************************)
(* Two clients and a few publications: enough for a publication between    *)
(* any two reads of a handler, for one client's request to fill the cache  *)
(* the other is answered from, and for a retry during an orphaned handler. *)
(***************************************************************************)
EXTENDS ParamsEndpoint

CONSTANTS c1, c2
==============================================================================
