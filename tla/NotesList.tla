----------------------------- MODULE NotesList -----------------------------
(***************************************************************************)
(* The list of notes a page shows (NotesListModel) and the lists of the    *)
(* store that it follows.  Two threads write the store: the pages on the   *)
(* main thread ("ui") and the synchronisation ("sync").  A signal of the   *)
(* main thread runs the model's slots at once; one of the sync thread is   *)
(* queued and handled later.  A third thread, ListNotesThread, loads the   *)
(* model when a page opens another list.                                   *)
(*                                                                         *)
(* A list is of all notes, of the trash, or of a mark: a notebook, a tag   *)
(* or the favourites, which differ only in the name of their signal.  The  *)
(* slots are one step each; the loads of one model do not overlap.         *)
(***************************************************************************)
EXTENDS Naturals, Sequences, FiniteSets, SequencesExt

CONSTANTS
    Notes,       \* the note ids; bound: notes ever created
    None,
    MaxTime,     \* bound: timestamps are 1 .. MaxTime, and MaxTime is "now"
    MaxQueue     \* bound: signals of the sync thread on their way

ASSUME BoundsAssumption == None \notin Notes /\ MaxTime \in Nat \ {0} /\ MaxQueue \in Nat

Time == 0 .. MaxTime
Types == {"NoNotes", "AllNotes", "Marked", "TrashNotes"}
Actor == {"ui", "sync"}

VARIABLES
    unused,    \* ids that CurrentMaxLocalNoteIdNumber has not reached
    gist,      \* gist.ini of each note: its timestamp, Trashed, and the mark
    all,       \* Notes/list.ini
    trash,     \* SpecialNotebooks/Trash/list.ini
    marked,    \* the list.ini of the mark; its order is never used
    shown,     \* m_noteIdsList of the model
    type,      \* m_notesListType (with the query string)
    hooked,    \* the slots of the type are connected
    load,      \* ListNotesThread: where it is, and what it has read
    op,        \* the order update each actor is in, and what it has read
    queue,     \* signals of the sync thread on their way to the model
    off        \* ghost: notes of which the model may be wrong, see ShowsTheList

store == <<unused, gist, all, trash, marked>>
model == <<shown, type, hooked>>
vars == <<unused, gist, all, trash, marked, shown, type, hooked, load, op, queue, off>>

NoGist == [at |-> 0, trashed |-> FALSE, mark |-> FALSE]
Idle == [note |-> None, ids |-> <<>>, restoring |-> FALSE]

Created(n) == [sig |-> "created", note |-> n, is |-> TRUE]
Expunged(n) == [sig |-> "expunged", note |-> n, is |-> TRUE]
TimeChanged(n) == [sig |-> "display", note |-> n, is |-> TRUE]
MarkSet(n, is) == [sig |-> "mark", note |-> n, is |-> is]
Trashedness(n, is) == [sig |-> "trash", note |-> n, is |-> is]

\* A list of ids names each once.
Ids == {s \in Seq(Notes) : IsInjective(s)}
Signals == [sig : {"created", "expunged", "display", "mark", "trash"}, note : Notes, is : BOOLEAN]

TypeOK ==
    /\ unused \subseteq Notes
    /\ gist \in [Notes -> [at : Time, trashed : BOOLEAN, mark : BOOLEAN]]
    /\ all \in Ids /\ trash \in Ids /\ marked \subseteq Notes
    /\ shown \in Seq(Notes)
    /\ type \in Types /\ hooked \in BOOLEAN
    /\ load.pc \in {"off", "read", "set"} /\ load.ids \in Ids
    /\ op \in [Actor -> [note : Notes \cup {None}, ids : Ids, restoring : BOOLEAN]]
    /\ queue \in Seq(Signals) /\ Len(queue) <= MaxQueue
    /\ off \subseteq Notes

Init ==
    /\ unused = Notes /\ gist = [n \in Notes |-> NoGist]
    /\ all = <<>> /\ trash = <<>> /\ marked = {}
    /\ shown = <<>> /\ type = "NoNotes" /\ hooked = FALSE
    /\ load = [pc |-> "off", ids |-> <<>>]
    /\ op = [p \in Actor |-> Idle]
    /\ queue = <<>> /\ off = {}

-----------------------------------------------------------------------------
(* Positions *)

\* Where a note goes in a list: before the first one that is older than it.
InsertionPosition(n, ids, g) ==
    LET older == {i \in DOMAIN ids : g[n].at > g[ids[i]].at}
    IN  IF older = {} THEN Len(ids) + 1 ELSE CHOOSE i \in older : \A j \in older : i <= j

Insert(n, ids, g) == InsertAt(ids, InsertionPosition(n, ids, g), n)

\* indexOf: where n is first.
Position(n, ids) ==
    CHOOSE i \in DOMAIN ids : ids[i] = n /\ \A j \in 1 .. i - 1 : ids[j] # n

\* removeAt(indexOf(n)) and removeOne(n)
Without(n, ids) == IF Contains(ids, n) THEN RemoveAt(ids, Position(n, ids)) ELSE ids

\* Those of ids that are in S, in their order: each goes to the place that is
\* the number of those up to it.
Chosen(ids, S) ==
    LET kept     == {i \in DOMAIN ids : ids[i] \in S}
        place(i) == Cardinality({j \in kept : j <= i})
    IN  [k \in 1 .. Cardinality(kept) |-> ids[CHOOSE i \in kept : place(i) = k]]

PrependAgain(n, ids) == <<n>> \o ids

PrependOver(n, ids) == <<n>>

\* addObjectIdToCollectionData
Prepend(n, ids) == IF Contains(ids, n) THEN ids ELSE <<n>> \o ids

-----------------------------------------------------------------------------
(* The slots: what is shown after a signal; g is the store when it runs *)

NoteCreated(n, g) ==
    IF type = "AllNotes" /\ ~Contains(shown, n) THEN Insert(n, shown, g) ELSE shown

NoteExpunged(n) == Without(n, shown)

NoteDisplayDataChanged(n, g) ==
    IF Contains(shown, n) THEN Insert(n, Without(n, shown), g) ELSE shown

\* notebookForNoteChanged, tagsForNoteChanged and noteFavouritenessChanged.
MarkChanged(n, is, g) ==
    CASE type = "Marked" /\ Contains(shown, n) /\ ~is -> Without(n, shown)
      [] type = "Marked" /\ ~Contains(shown, n) /\ is -> Insert(n, shown, g)
      [] OTHER -> shown

NoteTrashedOnly(n, is, g) == IF is # (type = "TrashNotes") THEN Without(n, shown) ELSE shown

\* A restored note goes back to a list of a mark it has; the list of all
\* notes has no branch of its own here.
NoteTrashednessChanged(n, is, g) ==
    CASE Contains(shown, n) /\ is # (type = "TrashNotes") -> Without(n, shown)
      [] ~Contains(shown, n) /\ is /\ type = "TrashNotes" -> Insert(n, shown, g)
      [] ~Contains(shown, n) /\ ~is /\ type = "Marked" /\ g[n].mark -> Insert(n, shown, g)
      [] OTHER -> shown

Slot(e, g) ==
    CASE e.sig = "created" -> NoteCreated(e.note, g)
      [] e.sig = "expunged" -> NoteExpunged(e.note)
      [] e.sig = "display" -> NoteDisplayDataChanged(e.note, g)
      [] e.sig = "mark" -> MarkChanged(e.note, e.is, g)
      [] e.sig = "trash" -> NoteTrashednessChanged(e.note, e.is, g)

\* The signals of the constructor's connects, and those of the type.
Connected(e) ==
    CASE e.sig = "created" -> hooked /\ type = "AllNotes"
      [] e.sig = "mark" -> hooked /\ type = "Marked"
      [] OTHER -> TRUE

\* Actor p emits e when the store's gists are g.
Emit(p, e, g) ==
    IF ~Connected(e) THEN UNCHANGED <<shown, queue>>
    ELSE IF p = "ui" THEN shown' = Slot(e, g) /\ UNCHANGED queue
    ELSE Len(queue) < MaxQueue /\ queue' = Append(queue, e) /\ UNCHANGED shown

-----------------------------------------------------------------------------
(* The hazards that put a note "off" *)

Queued == {queue[i].note : i \in DOMAIN queue}
InHand == {op[p].note : p \in Actor} \ {None}
Busy == Queued \cup InHand
Loading == load.pc # "off"

\* A page changes n while what the synchronisation did to it is on its way.
Overtakes(p, n) == p = "ui" /\ n \in Queued

\* The list of all notes does not get back a note that was restored.
NotTakenBack(e) ==
    e.sig = "trash" /\ ~e.is /\ type = "AllNotes" /\ ~Contains(shown, e.note)

\* What happens to a note during a load, the load or the slots may miss.
Missed(n) == {m \in {n} : Loading}

\* The notes of S may be off from now on; an empty model is never wrong.
PutOff(S) == off' = IF type = "NoNotes" THEN {} ELSE off \cup S

\* The event loop of the main thread reaches a queued signal.
Deliver ==
    /\ queue # <<>>
    /\ op["ui"] = Idle
    /\ shown' = Slot(Head(queue), gist)
    /\ queue' = Tail(queue)
    /\ PutOff({n \in {Head(queue).note} : Loading \/ NotTakenBack(Head(queue))})
    /\ UNCHANGED <<store, type, hooked, load, op>>

-----------------------------------------------------------------------------
(* Loading a list *)

\* A page opens the list t: setNotesListQuery disconnects the old type's
\* slots and load() empties the model and reads the list of all notes.  What
\* it reads is right for the notes nobody is changing.
SetNotesListQuery(t) ==
    /\ ~Loading
    /\ t # type /\ t # "NoNotes"
    /\ hooked' = FALSE
    /\ type' = t
    /\ shown' = <<>>
    /\ load' = [pc |-> "read", ids |-> IF t = "TrashNotes" THEN <<>> ELSE all]
    /\ off' = Busy
    /\ UNCHANGED <<store, op, queue>>

\* The list of the mark decides which of all notes, in their order.
LoadRead ==
    /\ load.pc = "read"
    /\ shown' = CASE type = "AllNotes" -> load.ids
                  [] type = "TrashNotes" -> trash
                  [] type = "Marked" -> Chosen(load.ids, marked)
    /\ load' = [pc |-> "set", ids |-> <<>>]
    /\ UNCHANGED <<store, type, hooked, op, queue, off>>

ConnectTypeDependantSlots ==
    /\ load.pc = "set"
    /\ hooked' = TRUE
    /\ load' = [load EXCEPT !.pc = "off"]
    /\ UNCHANGED <<store, shown, type, op, queue, off>>

\* A logout empties the model.  The slots it leaves connected do nothing
\* while the type is another, as does a second connection of the same slot:
\* they are left out.
ClearNotesListQuery ==
    /\ ~Loading
    /\ op["ui"] = Idle
    /\ type # "NoNotes"
    /\ shown' = <<>>
    /\ type' = "NoNotes"
    /\ hooked' = FALSE
    /\ off' = {}
    /\ UNCHANGED <<store, load, op, queue>>

-----------------------------------------------------------------------------
(* Operations on the store, by either actor *)

Known == ToSet(all) \cup ToSet(trash)

\* The notes actor p may take in hand: one actor at a time changes a note.
MayTake(p) == IF op[p] = Idle THEN Notes \ InHand ELSE {}

\* updateNotesListOrder of n reads the list under one lock ...
BeginOrder(p, n, ids, restoring) ==
    op' = [op EXCEPT ![p] = IF Contains(ids, n)
                            THEN [note |-> n, ids |-> ids, restoring |-> restoring]
                            ELSE Idle]

\* ... and writes it under another, whatever it has become meanwhile.  The
\* page then announces the new time; a restored note leaves the trash first.
WriteOrder(p) ==
    LET n == op[p].note IN
    /\ op[p] # Idle
    /\ all' = Insert(n, Without(n, op[p].ids), gist)
    /\ trash' = IF op[p].restoring THEN Without(n, trash) ELSE trash
    /\ CASE op[p].restoring -> Emit(p, Trashedness(n, FALSE), gist)
         [] ~op[p].restoring /\ p = "ui" -> Emit(p, TimeChanged(n), gist)
         [] OTHER -> UNCHANGED <<shown, queue>>
    /\ PutOff(Missed(n) \cup SymDiff(ToSet(all), ToSet(all'))
              \cup {m \in {n} : op[p].restoring /\ p = "ui" /\ NotTakenBack(Trashedness(n, FALSE))})
    /\ op' = [op EXCEPT ![p] = Idle]
    /\ UNCHANGED <<unused, gist, marked, type, hooked, load>>

\* What the end of an operation on n adds to the notes that may be off.
Touch(p, n) == PutOff(Missed(n) \cup {m \in {n} : Overtakes(p, n)})

\* createNote, and setSyncedNoteGist of a note not seen before: the gist of
\* a new id, and the id in front of the list.
CreateNote(p, n, t) ==
    /\ op[p] = Idle
    /\ n \in unused
    /\ unused' = unused \ {n}
    /\ gist' = [gist EXCEPT ![n].at = t]
    /\ all' = Prepend(n, all)
    /\ Emit(p, Created(n), gist')
    /\ Touch(p, n)
    /\ UNCHANGED <<trash, marked, type, hooked, load, op>>

\* updateNoteTitle: the new time, the order of the list, then the signal.
UpdateNoteTitle(n) ==
    /\ n \in Known
    /\ gist' = [gist EXCEPT ![n].at = MaxTime]
    /\ BeginOrder("ui", n, all, FALSE)
    /\ IF Contains(all, n) THEN UNCHANGED <<shown, queue>> ELSE Emit("ui", TimeChanged(n), gist')
    /\ Touch("ui", n)
    /\ UNCHANGED <<unused, all, trash, marked, type, hooked, load>>

\* setSyncedNoteGist of a known note announces the new time before the
\* order of the list is updated.
SetSyncedNoteGist(n, t) ==
    /\ t # gist[n].at
    /\ n \in Known
    /\ gist' = [gist EXCEPT ![n].at = t]
    /\ Emit("sync", TimeChanged(n), gist')
    /\ BeginOrder("sync", n, all, FALSE)
    /\ Touch("sync", n)
    /\ UNCHANGED <<unused, all, trash, marked, type, hooked, load>>

\* setNotebookForNote, setTagsOnNote and setFavouriteness; a page offers
\* them outside the trash only.
SetMark(p, n) ==
    /\ n \in IF p = "ui" THEN ToSet(all) ELSE Known
    /\ gist' = [gist EXCEPT ![n].mark = ~gist[n].mark]
    /\ marked' = IF gist[n].mark THEN marked \ {n} ELSE marked \cup {n}
    /\ Emit(p, MarkSet(n, ~gist[n].mark), gist')
    /\ PutOff(Missed(n) \cup {m \in {n} : Overtakes(p, n) \/ gist[n].trashed})
    /\ UNCHANGED <<unused, all, trash, type, hooked, load, op>>

\* moveNoteToTrash: the gist, removeNoteReferences and the trash.  The list of
\* a notebook keeps the note, out of sight: load() wants it in the list of
\* all notes, too.  Those of tags and the favourites do not.
MoveNoteToTrash(p, n) ==
    /\ ~gist[n].trashed /\ n \in Known
    /\ gist' = [gist EXCEPT ![n].trashed = TRUE]
    /\ all' = Without(n, all)
    /\ marked' \in {marked, marked \ {n}}
    /\ trash' = Prepend(n, trash)
    /\ Emit(p, Trashedness(n, TRUE), gist')
    /\ Touch(p, n)
    /\ UNCHANGED <<unused, type, hooked, load, op>>

\* restoreNoteFromTrash: the gist and the lists the note goes back to; their
\* order, the trash and the signal are left to WriteOrder.
RestoreNoteFromTrash(p, n) ==
    /\ gist[n].trashed /\ n \in Known
    /\ gist' = [gist EXCEPT ![n].trashed = FALSE]
    /\ all' = Prepend(n, all)
    /\ marked' = IF gist[n].mark THEN marked \cup {n} ELSE marked
    /\ BeginOrder(p, n, all', TRUE)
    /\ Touch(p, n)
    /\ UNCHANGED <<unused, trash, model, load, queue>>

\* expungeNote of the synchronisation, and expungeNoteFromTrash of the page:
\* out of every list, and the files are gone.  (What the list of a notebook
\* keeps of a note that was in the trash is left out.)
ExpungeNote(p, n) ==
    /\ n \in IF p = "ui" THEN ToSet(trash) ELSE Known
    /\ all' = Without(n, all) /\ trash' = Without(n, trash)
    /\ marked' = marked \ {n}
    /\ gist' = [gist EXCEPT ![n] = NoGist]
    /\ Emit(p, Expunged(n), gist')
    /\ Touch(p, n)
    /\ UNCHANGED <<unused, type, hooked, load, op>>

-----------------------------------------------------------------------------
Step(p) ==
    \/ WriteOrder(p)
    \/ \E n \in MayTake(p) :
          \/ SetMark(p, n) \/ ExpungeNote(p, n)
          \/ MoveNoteToTrash(p, n) \/ RestoreNoteFromTrash(p, n)

Next ==
    \/ \E p \in Actor : Step(p)
    \/ \E n \in Notes : CreateNote("ui", n, MaxTime)
    \/ \E n \in Notes, t \in Time \ {0} : CreateNote("sync", n, t)
    \/ \E n \in MayTake("ui") : UpdateNoteTitle(n)
    \/ \E n \in MayTake("sync"), t \in Time \ {0} : SetSyncedNoteGist(n, t)
    \/ Deliver
    \/ \E t \in Types : SetNotesListQuery(t)
    \/ LoadRead \/ ConnectTypeDependantSlots
    \/ ClearNotesListQuery

Spec == Init /\ [][Next]_vars

-----------------------------------------------------------------------------
(* Properties *)

\* The list of the store that the model stands for.
Listed ==
    CASE type = "NoNotes" -> {}
      [] type = "AllNotes" -> ToSet(all)
      [] type = "Marked" -> marked \cap ToSet(all)
      [] type = "TrashNotes" -> ToSet(trash)

\* Between loads, a note whose changes have all arrived is shown if and only
\* if the store's list has it: what a load has read and what the signals add
\* to it fit together, for whatever page, in whatever order.  Not so ("off")
\* for a note that changed during the load, or under the hands of both
\* actors, or that an order update wrote over, or that was marked in the
\* trash or restored from it while all notes were shown.  And no note is shown
\* twice, though a load and the signal of a new note may both bring it.
ShowsTheList ==
    /\ IsInjective(shown)
    /\ ~Loading => \A n \in Notes \ (off \cup Busy) : Contains(shown, n) <=> n \in Listed

\* A note leaves the lists of the store only by being expunged, or when an
\* order update writes back the list it read before the note was added.
KeptInAList ==
    [][\A n \in Known \ Known' :
          \/ gist'[n] = NoGist
          \/ \E p \in Actor : op[p] # Idle /\ op'[p] = Idle /\ ~Contains(op[p].ids, n)]_vars

\* The comment in noteDisplayDataChanged: "the list is always kept in order,
\* sorted on timestamp, latest first" - here, when nothing is on its way.
LatestFirst ==
    ~Loading /\ Busy = {} /\ type # "TrashNotes" =>
        \A i, j \in DOMAIN shown : i < j => gist[shown[i]].at >= gist[shown[j]].at
=============================================================================
