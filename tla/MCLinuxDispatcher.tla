-------------------------- MODULE MCLinuxDispatcher --------------------------
(* LinuxDispatcher for TLC.  Liveness is checked, so no symmetry is used. *)
EXTENDS LinuxDispatcher

CONSTANTS w1, w2

TwoWorkers == {w1, w2}
Threads == {w1, w2, Main}
Tasks == 0 .. MaxItems
Levels == <<"high", "low", "high">>
==============================================================================
