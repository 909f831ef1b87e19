---------------------------- MODULE MCNotesList ----------------------------
EXTENDS NotesList, TLC

\* Ids are only compared.
Symmetry == Permutations(Notes)
=============================================================================
