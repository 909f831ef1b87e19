----------------------------- MODULE MCNoteSync -----------------------------
(* NoteSync with its constants given in the .cfg files.                    *)
EXTENDS NoteSync
=============================================================================
