------------------------- MODULE MCWindowActivation -------------------------
EXTENDS WindowActivation, TLC
CONSTANTS w1, w2
=============================================================================
