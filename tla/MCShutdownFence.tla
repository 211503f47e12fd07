-------------------------- MODULE MCShutdownFence --------------------------
(* Small instances of the shutdown fence.                                  *)
EXTENDS ShutdownFence

CONSTANTS w1, c1

=============================================================================
