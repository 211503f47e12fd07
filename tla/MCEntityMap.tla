----------------------------- MODULE MCEntityMap -----------------------------
(* Model-checking instance of EntityMap: the main thread and two others share  *)
(* the handles of one entity.  Liveness is checked, so no symmetry is used.    *)
EXTENDS EntityMap
=============================================================================
