--------------------------- MODULE MCNativeIngress ---------------------------
EXTENDS NativeIngress
=============================================================================
