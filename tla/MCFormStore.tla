------------------------------ MODULE MCFormStore ------------------------------
(* FormStore for TLC; the counters saturate early. *)
EXTENDS FormStore, TLC

CONSTANTS email, name

MCFields == {email, name}
Symmetry == Permutations(MCFields)
===============================================================================
