---------------------------- MODULE LibraryClaims ----------------------------
(***************************************************************************)
(* What comments in the code say of the library, as properties of Library. *)
(* TLC refutes each of them.                                               *)
(***************************************************************************)
EXTENDS Library

\* storagemanager.cpp:456: a note is created by a pull when no note with this
\* guid exists.
NoDuplicate ==
    [][\A g \in Guids, n \in Notes :
          PullGist(g) /\ byGuid[g] = None /\ Live(n) => lib.note[n].guid # g]_vars

\* evernoteaccess.cpp:647: a pull does not overwrite local changes, be they in
\* the way of the note's own part of a sync chunk or of its notebook's.
LocalChangesKept ==
    [][\A n \in Notes, b \in Notebooks, d \in BOOLEAN :
          PullNotebook(b, d) /\ n \in unpushed /\ NotebookHere(lib.note[n].nb)
              => lib'.note[n].nb = lib.note[n].nb]_vars

\* storagemanager.cpp:1602: when the server takes the default notebook away, the
\* device is to "pick another notebook to be default".  So what it calls the
\* default one is none of those that the server has no more.
AnotherPicked == shelf.default \notin shelf.kept

\* storagemanager.cpp:1084: defaultNotebookId asserts that there is a default
\* notebook, and the note pages and the trash rely on that.
DefaultExists == NotebookHere(shelf.default)

=============================================================================
