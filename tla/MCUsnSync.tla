----------------------------- MODULE MCUsnSync -----------------------------
EXTENDS UsnSync, TLC
=============================================================================
