--------------------------- MODULE MCSyncControl ---------------------------
(* SyncControl with its constants given in the .cfg file.                  *)
EXTENDS SyncControl
=============================================================================
