--------------------------- MODULE MCResourceClient ---------------------------
(* ResourceClient for TLC. *)
EXTENDS ResourceClient
===============================================================================
