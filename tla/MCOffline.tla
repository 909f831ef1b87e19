----------------------------- MODULE MCOffline -----------------------------
(* The note, its notebook, two contents after the first, one attachment.   *)
EXTENDS Offline
=============================================================================
