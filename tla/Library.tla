------------------------------ MODULE Library ------------------------------
(***************************************************************************)
(* The library: notes, notebooks and tags, and the list.ini files that say *)
(* which notes are in a notebook, under a tag, favourites, in the trash or *)
(* in the list of all notes.  A note's gist.ini says the same again, and   *)
(* every operation writes both.  The operations come from the pages, for   *)
(* the note they show, and from EvernoteAccess::synchronize.               *)
(*                                                                         *)
(* An operation of StorageManager is one step here.  What happens between  *)
(* the steps is the interleaving of the pages with a sync: a page shows a  *)
(* note that the sync changes, and changes one that the sync is at.  Lists *)
(* are sets: their order is left out.  A guid of a notebook or tag is that *)
(* notebook or tag itself.                                                 *)
(***************************************************************************)
EXTENDS Naturals

CONSTANTS
    Notes,          \* the local note ids that may be given out
    Guids,          \* the guids the server may give to notes
    Notebooks, Tags,
    FirstNotebook,  \* nb000001, the first one the device has heard of
    None            \* the empty id

ASSUME FirstNotebookAssumption == FirstNotebook \in Notebooks
ASSUME NoneAssumption == None \notin Notes \cup Guids \cup Notebooks \cup Tags

VARIABLES
    lib,        \* the notes' gists, and the lists of notes
    shelf,      \* the notebooks, the tags and the default notebook
    byGuid,     \* Notes/byGuid.ini
    unpushed,   \* NotesToPush
    waiting,    \* NoteIdsForUncreatedNotebook/..., NoteIdsForUncreatedTag/...
    page,       \* the note page that is open, and whether it took it for trashed
    sync,       \* where synchronize() is
    srv         \* which guids the server has given to a note, and taken back

vars == <<lib, shelf, byGuid, unpushed, waiting, page, sync, srv>>

Gist == [st : {"unused", "live", "gone"}, nb : Notebooks \cup {None},
         tags : SUBSET Tags, fav : BOOLEAN, trashed : BOOLEAN,
         guid : Guids \cup {None}]

\* st: the id was not given out yet, or its files were removed.
Blank(st) == [st |-> st, nb |-> None, tags |-> {}, fav |-> FALSE,
              trashed |-> FALSE, guid |-> None]

\* "local": the server has not been told of it.  kept: the notebooks that the
\* server has taken away and that stay here, known by their guid, all the same.
Standing == {"unknown", "local", "synced", "gone"}

Libraries == [note : [Notes -> Gist], all : SUBSET Notes, trash : SUBSET Notes,
              favs : SUBSET Notes, inNb : [Notebooks -> SUBSET Notes],
              tagged : [Tags -> SUBSET Notes]]
Shelves   == [nb : [Notebooks -> Standing], tag : [Tags -> Standing],
              default : Notebooks, kept : SUBSET Notebooks]

TypeOK ==
    /\ lib \in Libraries
    /\ shelf \in Shelves
    /\ byGuid \in [Guids -> Notes \cup {None}]
    /\ unpushed \in SUBSET Notes
    /\ waiting \in [nb : [Notebooks -> SUBSET Notes], tag : [Tags -> SUBSET Notes]]
    /\ page \in [note : Notes \cup {None}, trashed : BOOLEAN]
    /\ sync \in [pulling : Notes \cup {None}, left : SUBSET Notes,
                 pushing : Notes \cup {None}]
    /\ srv \in [Guids -> {"free", "given", "expunged"}]

NoPage == [note |-> None, trashed |-> FALSE]
Idle   == [pulling |-> None, left |-> {}, pushing |-> None]

\* After the first sync of an account without notes, which is when the pages open.
Init ==
    /\ lib = [note |-> [n \in Notes |-> Blank("unused")], all |-> {}, trash |-> {},
              favs |-> {}, inNb |-> [b \in Notebooks |-> {}],
              tagged |-> [t \in Tags |-> {}]]
    /\ shelf = [nb |-> [b \in Notebooks |->
                            IF b = FirstNotebook THEN "synced" ELSE "unknown"],
                tag |-> [t \in Tags |-> "unknown"], default |-> FirstNotebook, kept |-> {}]
    /\ byGuid = [g \in Guids |-> None]
    /\ unpushed = {}
    /\ waiting = [nb |-> [b \in Notebooks |-> {}], tag |-> [t \in Tags |-> {}]]
    /\ page = NoPage
    /\ sync = Idle
    /\ srv = [g \in Guids |-> "free"]

Live(n)         == lib.note[n].st = "live"
NotebookHere(b) == b # None /\ shelf.nb[b] \in {"local", "synced"}
TagHere(t)      == shelf.tag[t] \in {"local", "synced"}

\* The server has no such notebook any more.
TakenAway(b)    == shelf.nb[b] = "gone" \/ b \in shelf.kept

-----------------------------------------------------------------------------
(* The operations of StorageManager on gists and lists, each the library     *)
(* that it makes of library L.                                             *)

\* setNotebookForNote, for each note of S.
\* (a mutant: the notes stay in the list of the notebook they come from)
PutInNotebookToo(L, S, b) ==
    LET moved == {n \in S : L.note[n].nb # b} IN
    [L EXCEPT !.note = [n \in Notes |-> IF n \in moved THEN [@[n] EXCEPT !.nb = b] ELSE @[n]],
              !.inNb[b] = @ \cup moved]
PutInNotebook(L, S, b) ==
    LET moved == {n \in S : L.note[n].nb # b} IN
    [L EXCEPT !.note = [n \in Notes |-> IF n \in moved THEN [@[n] EXCEPT !.nb = b] ELSE @[n]],
              !.inNb = [c \in Notebooks |->
                            IF c = b THEN @[c] \cup moved
                            ELSE @[c] \ {n \in moved : L.note[n].nb = c}]]

\* The end of createNotebook: into the list of the new notebook, which may be
\* the note's own, after it is taken out of that.
PutInNew(L, n, b) ==
    [L EXCEPT !.note[n].nb = b,
              !.inNb = [c \in Notebooks |->
                            IF c = L.note[n].nb THEN @[c] \ {n}
                            ELSE IF c = b THEN @[c] \cup {n} ELSE @[c]]]

\* setTagsOnNote
SetTags(L, n, T) ==
    [L EXCEPT !.note[n].tags = T,
              !.tagged = [t \in Tags |->
                             IF t \in T \ L.note[n].tags THEN @[t] \cup {n}
                             ELSE IF t \in L.note[n].tags \ T THEN @[t] \ {n}
                             ELSE @[t]]]

\* addTagToNote, for each note of S.
AddTag(L, S, t) ==
    LET new == {n \in S : t \notin L.note[n].tags} IN
    [L EXCEPT !.note = [n \in Notes |->
                           IF n \in new THEN [L.note[n] EXCEPT !.tags = @ \cup {t}]
                           ELSE L.note[n]],
              !.tagged[t] = @ \cup new]

\* The end of createTag.
AddNewTag(L, n, t) ==
    [L EXCEPT !.note[n].tags = @ \cup {t}, !.tagged[t] = @ \cup {n}]

\* The end of expungeTag: the tag is taken off the notes of its list.
Untagged(L, t) ==
    [L EXCEPT !.note = [n \in Notes |->
                           IF n \in L.tagged[t] THEN [L.note[n] EXCEPT !.tags = @ \ {t}]
                           ELSE L.note[n]],
              !.tagged[t] = {}]

\* setFavouriteNote
SetFavourite(L, n, f) ==
    [L EXCEPT !.note[n].fav = f,
              !.favs = IF L.note[n].fav = f THEN @
                       ELSE IF f THEN @ \cup {n} ELSE @ \ {n}]

\* removeNoteReferences, for every list but the trash.  A trashed note stays in
\* the list of its notebook: the views show of it only what is in lib.all.
Unlisted(L, n) ==
    [L EXCEPT !.inNb = [b \in Notebooks |->
                           IF b = L.note[n].nb /\ NotebookHere(b) /\ ~L.note[n].trashed
                           THEN @[b] \ {n} ELSE @[b]],
              !.tagged = [t \in Tags |->
                           IF t \in L.note[n].tags THEN @[t] \ {n} ELSE @[t]],
              !.all = @ \ {n},
              !.favs = @ \ {n}]

\* moveNoteToTrash, which marks the note first.
\* (a mutant: the references stay)
MarkTrashed(L, n) ==
    [L EXCEPT !.note[n].trashed = TRUE, !.trash = @ \cup {n}]
MoveToTrash(L, n) ==
    IF L.note[n].trashed THEN L
    ELSE [Unlisted([L EXCEPT !.note[n].trashed = TRUE], n) EXCEPT !.trash = @ \cup {n}]

\* restoreNoteFromTrash.  A note whose notebook is not here gets the default
\* one, but is not entered in the list of that.
\* (a mutant: favourites forgotten)
RestoreUnmarked(L, n) ==
    IF ~L.note[n].trashed THEN L
    ELSE [L EXCEPT !.note[n].trashed = FALSE,
                   !.note[n].nb = IF NotebookHere(@) THEN @ ELSE shelf.default,
                   !.note[n].tags = {t \in @ : TagHere(t)},
                   !.tagged = [t \in Tags |-> IF t \in L.note[n].tags /\ TagHere(t)
                                              THEN @[t] \cup {n} ELSE @[t]],
                   !.all = @ \cup {n}, !.trash = @ \ {n}]
Restore(L, n) ==
    LET gist == L.note[n]
        tags == {t \in gist.tags : TagHere(t)}
    IN IF ~gist.trashed THEN L
       ELSE [L EXCEPT !.note[n] = [gist EXCEPT
                          !.trashed = FALSE,
                          !.nb = IF NotebookHere(gist.nb) THEN gist.nb ELSE shelf.default,
                          !.tags = tags],
                      !.tagged = [t \in Tags |-> IF t \in tags THEN @[t] \cup {n} ELSE @[t]],
                      !.all = @ \cup {n},
                      !.favs = IF gist.fav THEN @ \cup {n} ELSE @,
                      !.trash = @ \ {n}]

\* The end of expungeNoteFromTrash and of expungeNote: the files go.
Removed(L, n) == [L EXCEPT !.note[n] = Blank("gone"), !.trash = @ \ {n}]

\* createStorageObject, for a note: in the list of all notes.
Created(L, n, g) ==
    [L EXCEPT !.note[n] = [Blank("live") EXCEPT !.guid = g], !.all = @ \cup {n}]

\* removeGuidMapping: QSettings::remove("") removes every key there is.
RemoveGuidMapping(g) ==
    byGuid' = [h \in Guids |-> IF g \in {h, None} THEN None ELSE byGuid[h]]

\* setNoteHasUnpushedChanges
Flag(n, has) == unpushed' = IF has THEN unpushed \cup {n} ELSE unpushed \ {n}
FlagIfChanged(n) == unpushed' = IF lib' = lib THEN unpushed ELSE unpushed \cup {n}

-----------------------------------------------------------------------------
(* The pages.                                                              *)

\* createNote, with its notebook, and setNoteHasUnpushedChanges.
CreateNote(n) ==
    /\ lib.note[n].st = "unused"
    /\ page = NoPage
    /\ lib' = PutInNotebook(Created(lib, n, None), {n}, shelf.default)
    /\ page' = [note |-> n, trashed |-> FALSE]
    /\ Flag(n, TRUE)
    /\ UNCHANGED <<shelf, byGuid, waiting, sync, srv>>

OpenPage(n) ==
    /\ Live(n) /\ page = NoPage
    /\ page' = [note |-> n, trashed |-> lib.note[n].trashed]
    /\ UNCHANGED <<lib, shelf, byGuid, unpushed, waiting, sync, srv>>

ClosePage ==
    /\ page # NoPage
    /\ page' = NoPage
    /\ UNCHANGED <<lib, shelf, byGuid, unpushed, waiting, sync, srv>>

\* The page shows note n and offers what it offers for a trashed note, or for
\* one that is not, as it was when the page was opened.
Shows(n, trashed) == page = [note |-> n, trashed |-> trashed] /\ Live(n)

\* saveNotebook of NotebookPickerPage.
PickNotebook(n, b) ==
    /\ Shows(n, FALSE) /\ shelf.nb[b] # "unknown"
    /\ lib' = PutInNotebook(lib, {n}, b)
    /\ FlagIfChanged(n)
    /\ UNCHANGED <<shelf, byGuid, waiting, page, sync, srv>>

\* createNotebook of NotebookPickerPage: a new one, or one whose name differs
\* from what was typed only in its spaces, the note's own included.  names.ini
\* still has the names of those that are gone, which does not bring them back.
MakeNotebook(n, b) ==
    /\ Shows(n, FALSE)
    /\ shelf' = [shelf EXCEPT
          !.nb[b] = IF @ = "unknown" THEN "local" ELSE @,
          !.default = IF b = FirstNotebook /\ shelf.nb[b] # "gone" THEN b ELSE @]
    /\ lib' = PutInNew(lib, n, b)
    /\ Flag(n, TRUE)
    /\ UNCHANGED <<byGuid, waiting, page, sync, srv>>

\* saveTags of TagsPickerPage.
PickTags(n, T) ==
    /\ Shows(n, FALSE) /\ \A t \in T : shelf.tag[t] # "unknown"
    /\ lib' = SetTags(lib, n, T)
    /\ FlagIfChanged(n)
    /\ UNCHANGED <<shelf, byGuid, waiting, page, sync, srv>>

\* createTag of TagsPickerPage.
MakeTag(n, t) ==
    /\ Shows(n, FALSE)
    /\ shelf' = [shelf EXCEPT !.tag[t] = IF @ = "unknown" THEN "local" ELSE @]
    /\ lib' = AddNewTag(lib, n, t)
    /\ Flag(n, TRUE)
    /\ UNCHANGED <<byGuid, waiting, page, sync, srv>>

MarkFavourite(n, f) ==
    /\ Shows(n, FALSE)
    /\ lib' = SetFavourite(lib, n, f)
    /\ FlagIfChanged(n)
    /\ UNCHANGED <<shelf, byGuid, waiting, page, sync, srv>>

\* moveNoteToTrash.  A note the server does not have need not be pushed.
TrashNote(n) ==
    /\ Shows(n, FALSE)
    /\ lib' = MoveToTrash(lib, n)
    /\ IF lib.note[n].trashed THEN UNCHANGED unpushed
       ELSE Flag(n, lib.note[n].guid # None)
    /\ page' = NoPage
    /\ UNCHANGED <<shelf, byGuid, waiting, sync, srv>>

RestoreNote(n) ==
    /\ Shows(n, TRUE)
    /\ lib' = Restore(lib, n)
    /\ FlagIfChanged(n)
    /\ page' = NoPage
    /\ UNCHANGED <<shelf, byGuid, waiting, sync, srv>>

\* expungeNoteFromTrash, which only a note without a guid comes through.
ExpungeFromTrash(n) ==
    /\ Shows(n, TRUE)
    /\ lib.note[n].guid = None /\ n \in lib.trash
    /\ lib' = Removed(lib, n)
    /\ RemoveGuidMapping(lib.note[n].guid)
    /\ Flag(n, FALSE)
    /\ page' = NoPage
    /\ UNCHANGED <<shelf, waiting, sync, srv>>

-----------------------------------------------------------------------------
(* synchronize(), and the server: pulls first, then pushes.                *)

MayPull == sync = Idle

\* A notebook of a sync chunk.  Notes seen before it are put in it now.
PullNotebook(b, isDefault) ==
    /\ MayPull /\ ~TakenAway(b)
    /\ shelf' = [shelf EXCEPT !.nb[b] = "synced",
                              !.default = IF isDefault THEN b ELSE @]
    /\ lib' = PutInNotebook(lib, waiting.nb[b], b)
    /\ waiting' = [waiting EXCEPT !.nb[b] = {}]
    /\ UNCHANGED <<byGuid, unpushed, page, sync, srv>>

PullTag(t) ==
    /\ MayPull /\ shelf.tag[t] # "gone"
    /\ shelf' = [shelf EXCEPT !.tag[t] = "synced"]
    /\ lib' = AddTag(lib, waiting.tag[t], t)
    /\ waiting' = [waiting EXCEPT !.tag[t] = {}]
    /\ UNCHANGED <<byGuid, unpushed, page, sync, srv>>

\* storeNoteGist: a note with this guid is made, or the one there is updated.
PullGist(g) ==
    /\ MayPull /\ srv[g] # "expunged"
    /\ srv' = [srv EXCEPT ![g] = "given"]
    /\ \/ /\ byGuid[g] = None
          /\ \E n \in Notes :
                /\ lib.note[n].st = "unused"
                /\ lib' = Created(lib, n, g)
                /\ byGuid' = [byGuid EXCEPT ![g] = n]
                /\ sync' = [sync EXCEPT !.pulling = n]
       \/ /\ byGuid[g] # None
          /\ lib' = [lib EXCEPT !.note[byGuid[g]].guid = g]
          /\ sync' = [sync EXCEPT !.pulling = byGuid[g]]
          /\ UNCHANGED byGuid
    /\ UNCHANGED <<shelf, unpushed, waiting, page>>

\* storeNoteNotebooksTagsTrashedness: notebook b, tags T, trashed or not.  Those
\* not known yet are written down.
Place(n, b, T, active) ==
    LET known == {t \in T : shelf.tag[t] = "synced"}
        put   == IF shelf.nb[b] = "synced" THEN PutInNotebook(lib, {n}, b) ELSE lib
        put2  == SetTags(put, n, known)
    IN  /\ lib' = IF active THEN Restore(put2, n) ELSE MoveToTrash(put2, n)
        /\ waiting' = [nb  |-> IF shelf.nb[b] = "synced" THEN waiting.nb
                               ELSE [waiting.nb EXCEPT ![b] = @ \cup {n}],
                       tag |-> [t \in Tags |-> IF t \in T \ known THEN waiting.tag[t] \cup {n}
                                               ELSE waiting.tag[t]]]

\* ... unless the note has changes of its own by now.
PullPlace ==
    LET n == sync.pulling IN
    /\ n # None
    /\ sync' = [sync EXCEPT !.pulling = None]
    /\ \/ /\ n \in unpushed
          /\ UNCHANGED <<lib, waiting>>
       \/ /\ n \notin unpushed
          /\ \E b \in Notebooks, T \in SUBSET Tags, active \in BOOLEAN :
                /\ ~TakenAway(b) /\ \A t \in T : shelf.tag[t] # "gone"
                /\ Place(n, b, T, active)
    /\ UNCHANGED <<shelf, byGuid, unpushed, page, srv>>

\* expungeNote
ExpungeNote(g) ==
    LET n == byGuid[g] IN
    /\ MayPull /\ n # None
    /\ lib' = Removed(Unlisted(lib, n), n)
    /\ RemoveGuidMapping(lib.note[n].guid)
    /\ Flag(n, FALSE)
    /\ srv' = [srv EXCEPT ![g] = "expunged"]
    /\ UNCHANGED <<shelf, waiting, page, sync>>

\* expungeNotebook: its notes go into the default one.  When it is the default
\* one itself, the test for another that could take its place returns if there is
\* one, and goes on if there is none: the empty id is neither made the default
\* nor given to a note, and the notebook goes.
\* (a mutant: the default notebook is taken away, and with it its name)
ExpungeDefaultToo(b) ==
    /\ MayPull /\ shelf.nb[b] = "synced" /\ ~TakenAway(b)
    /\ lib' = [PutInNotebook(lib, lib.inNb[b], shelf.default) EXCEPT !.inNb[b] = {}]
    /\ shelf' = [shelf EXCEPT !.nb[b] = "gone", !.default = IF @ = b THEN None ELSE @]
    /\ UNCHANGED <<byGuid, unpushed, waiting, page, sync, srv>>
\* (a mutant: the default notebook is taken away)
ExpungeAnyNotebook(b) ==
    /\ MayPull /\ shelf.nb[b] = "synced" /\ ~TakenAway(b)
    /\ lib' = [PutInNotebook(lib, lib.inNb[b], shelf.default) EXCEPT !.inNb[b] = {}]
    /\ shelf' = [shelf EXCEPT !.nb[b] = "gone"]
    /\ UNCHANGED <<byGuid, unpushed, waiting, page, sync, srv>>
ExpungeNotebook(b) ==
    /\ MayPull /\ shelf.nb[b] = "synced" /\ ~TakenAway(b)
    /\ \/ /\ b # shelf.default
          /\ lib' = [PutInNotebook(lib, lib.inNb[b], shelf.default) EXCEPT !.inNb[b] = {}]
          /\ shelf' = [shelf EXCEPT !.nb[b] = "gone"]
       \/ /\ b = shelf.default /\ \E c \in Notebooks \ {b} : NotebookHere(c)
          /\ shelf' = [shelf EXCEPT !.kept = @ \cup {b}]
          /\ UNCHANGED lib
       \/ /\ b = shelf.default /\ \A c \in Notebooks \ {b} : ~NotebookHere(c)
          /\ lib' = [lib EXCEPT !.inNb[b] = {}]
          /\ shelf' = [shelf EXCEPT !.nb[b] = "gone"]
    /\ UNCHANGED <<byGuid, unpushed, waiting, page, sync, srv>>

\* expungeTag
ExpungeTag(t) ==
    /\ MayPull /\ shelf.tag[t] = "synced"
    /\ lib' = Untagged(lib, t)
    /\ shelf' = [shelf EXCEPT !.tag[t] = "gone"]
    /\ UNCHANGED <<byGuid, unpushed, waiting, page, sync, srv>>

\* The push loop reads NotesToPush once.
PushStart ==
    /\ sync = Idle /\ unpushed # {}
    /\ sync' = [sync EXCEPT !.left = unpushed]
    /\ UNCHANGED <<lib, shelf, byGuid, unpushed, waiting, page, srv>>

\* The next note: its notebook and tags are made on the server, then it is
\* sent.  A note without content, as one whose files are gone, is skipped.
PushNote(n) ==
    /\ n \in sync.left /\ sync.pushing = None
    /\ \/ /\ Live(n)
          /\ sync' = [sync EXCEPT !.left = @ \ {n}, !.pushing = n]
       \/ sync' = [sync EXCEPT !.left = @ \ {n}]
    /\ shelf' = [shelf EXCEPT
          !.nb = [b \in Notebooks |-> IF b = lib.note[n].nb /\ @[b] = "local" THEN "synced" ELSE @[b]],
          !.tag = [t \in Tags |-> IF t \in lib.note[n].tags /\ @[t] = "local" THEN "synced" ELSE @[t]]]
    /\ UNCHANGED <<lib, byGuid, unpushed, waiting, page, srv>>

\* The answer: a new note's guid, and the flag.
Pushed(g) ==
    LET n == sync.pushing IN
    /\ n # None
    /\ \/ /\ lib.note[n].guid = None /\ srv[g] = "free"
          /\ lib' = [lib EXCEPT !.note[n].guid = g]
          /\ byGuid' = [byGuid EXCEPT ![g] = n]
          /\ srv' = [srv EXCEPT ![g] = "given"]
       \/ /\ lib.note[n].guid = g
          /\ UNCHANGED <<lib, byGuid, srv>>
    /\ Flag(n, FALSE)
    /\ sync' = [sync EXCEPT !.pushing = None]
    /\ UNCHANGED <<shelf, waiting, page>>

\* A call fails and the sync ends, or the program is started again.
SyncFails ==
    /\ sync # Idle
    /\ sync' = Idle
    /\ page' \in {page, NoPage}
    /\ UNCHANGED <<lib, shelf, byGuid, unpushed, waiting, srv>>

-----------------------------------------------------------------------------
PageStep(n) ==
    \/ CreateNote(n) \/ OpenPage(n) \/ ClosePage
    \/ \E b \in Notebooks : PickNotebook(n, b) \/ MakeNotebook(n, b)
    \/ \E T \in SUBSET Tags : PickTags(n, T)
    \/ \E t \in Tags : MakeTag(n, t)
    \/ \E f \in BOOLEAN : MarkFavourite(n, f)
    \/ TrashNote(n) \/ RestoreNote(n) \/ ExpungeFromTrash(n)

PullStep ==
    \/ \E b \in Notebooks : ExpungeNotebook(b) \/ \E d \in BOOLEAN : PullNotebook(b, d)
    \/ \E t \in Tags : PullTag(t) \/ ExpungeTag(t)
    \/ \E g \in Guids : PullGist(g) \/ ExpungeNote(g)
    \/ PullPlace

PushStep ==
    \/ PushStart
    \/ \E n \in Notes : PushNote(n)
    \/ \E g \in Guids : Pushed(g)

Next == (\E n \in Notes : PageStep(n)) \/ PullStep \/ PushStep \/ SyncFails

Spec == Init /\ [][Next]_vars

-----------------------------------------------------------------------------
\* Every note that is not removed is in the list of all notes or in the trash,
\* as its gist says, and never in both: none is lost from view, whether the
\* page, the sync, or one behind the other's back, moved it.
Listed ==
    \A n \in Notes :
        /\ n \in lib.trash <=> lib.note[n].trashed
        /\ Live(n) => (n \in lib.all <=> ~lib.note[n].trashed)

\* A notebook's list names only notes that say they are in it, so none is in
\* two notebooks.
OneNotebook ==
    \A n \in Notes, b \in Notebooks :
        Live(n) /\ NotebookHere(b) /\ n \in lib.inNb[b] => lib.note[n].nb = b

\* A tag's list names the notes that have the tag, and all of them outside the
\* trash, also after a way through the trash during which tags came or went.
TagsAgree ==
    \A n \in Notes, t \in Tags :
        Live(n) /\ TagHere(t) =>
            /\ n \in lib.tagged[t] => t \in lib.note[n].tags
            /\ t \in lib.note[n].tags /\ ~lib.note[n].trashed => n \in lib.tagged[t]

\* The list of favourites names the notes that say so, and all of them outside
\* the trash.
FavouritesAgree ==
    \A n \in Notes :
        Live(n) => /\ n \in lib.favs => lib.note[n].fav
                   /\ lib.note[n].fav /\ ~lib.note[n].trashed => n \in lib.favs

\* The lists of what is on a note, its tags and its star, agree with the note.
MarksAgree == TagsAgree /\ FavouritesAgree

\* The default notebook leaves the device only as the last of all, and while it
\* is here no other one takes a note along: what is in the list of a notebook
\* that goes is in the list of the default one after.
DefaultTakesOver ==
    [][NotebookHere(shelf.default) =>
          \/ \A b \in Notebooks : ~NotebookHere(b)'
          \/ /\ NotebookHere(shelf.default)'
             /\ \A b \in Notebooks, n \in Notes :
                   NotebookHere(b) /\ ~NotebookHere(b)' /\ Live(n) /\ n \in lib.inNb[b]
                       => n \in lib'.inNb[shelf'.default]]_vars

=============================================================================
