--------------------------- MODULE NoteSyncClaims ---------------------------
(***************************************************************************)
(* What comments in the code say of saves, fetches and pushes, as          *)
(* properties of NoteSync.  TLC refutes each of them.                      *)
(***************************************************************************)
EXTENDS NoteSync

\* storagemanager.cpp:256: a conflict seen by a save is deferred to the next
\* sync for resolution.  So the sync leaves the list only with the note's base
\* brought up to what the server was last heard to have.
DeferredUntilResolved ==
    [][SyncDeferClear /\ deferred => base = syncHash]_vars

\* storagemanager.cpp:611: what setPushedNote removes from content.ini is the
\* same as what has been pushed.
DropsOnlyPushed == [][PushedDrop => file = snap.content]_vars

\* storagemanager.cpp:547: of the two sides of a conflict, a content that has
\* been changed by the user is saved in a file.  So what a fetch that knows the
\* note's base writes over such a content has the user's edits in it.
UserChangesSaved ==
    [][\A p \in Thread :
          FetchWrite(p) /\ fetch[p].base # None /\ BothChanged(p)
              => file \subseteq file' \cup cache']_vars

=============================================================================
