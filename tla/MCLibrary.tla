----------------------------- MODULE MCLibrary -----------------------------
(* Library with its constants given in the .cfg files.                     *)
EXTENDS Library, TLC
Symmetry == Permutations(Notes) \cup Permutations(Guids) \cup Permutations(Tags)
                \cup Permutations(Notebooks \ {FirstNotebook})
=============================================================================
