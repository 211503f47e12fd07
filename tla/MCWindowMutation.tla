--------------------------- MODULE MCWindowMutation ---------------------------
(* WindowMutation for TLC: one gated domain whose requests overtake one another. *)
EXTENDS WindowMutation

PointerInput == {"PointerInput"}
===============================================================================
