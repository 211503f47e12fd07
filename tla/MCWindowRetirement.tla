------------------------- MODULE MCWindowRetirement -------------------------
EXTENDS WindowRetirement

CONSTANTS w1, w2
=============================================================================
