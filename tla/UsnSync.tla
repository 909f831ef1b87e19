------------------------------ MODULE UsnSync ------------------------------
(***************************************************************************)
(* Pull and push of notebooks and notes by update sequence number (USN):   *)
(* EvernoteAccess::synchronize from getSyncState to its end, with what     *)
(* StorageManager does for it with names and guids, against a server that  *)
(* other clients change between any two calls.  A call that changes the    *)
(* server is two steps, its effect there and the use of its answer here,   *)
(* and the sync may end between them: the reply is lost, or the program    *)
(* is.  Tags are notebooks as far as this module goes.  What is pulled and *)
(* pushed of a note is in NoteSync and Library; here it is one change.     *)
(***************************************************************************)
EXTENDS Naturals, FiniteSets

CONSTANTS
    Books, Notes,           \* the local ids of notebooks and of notes, counted up
    BookGuids, NoteGuids,   \* the guids the server may give to them
    Names,                  \* of notebooks
    None,                   \* no id, no guid, no name
    MaxUsn,                 \* as many changes the account sees (a bound)
    ChunkSize,              \* maxEntries of getSyncChunk
    FoldKeys                \* QSettings takes keys that differ in case for one

ASSUME BoundsAssumption == MaxUsn \in Nat /\ ChunkSize \in Nat \ {0} /\ FoldKeys \in BOOLEAN
ASSUME NoneAssumption == None \notin Books \cup Notes \cup BookGuids \cup NoteGuids \cup Names
ASSUME GuidsAssumption == BookGuids \cap NoteGuids = {}
ASSUME IdsAssumption == Books \subseteq Nat /\ Notes \subseteq Nat

VARIABLES
    srv,    \* the account on the server
    dev,    \* what the device has stored
    sync    \* where synchronize() is, and what it holds

vars == <<srv, dev, sync>>

Guids == BookGuids \cup NoteGuids
Usns  == 0..MaxUsn

Accounts ==
    [count : Usns,                                  \* updateCount
     at    : [Guids -> Usns],                       \* the USN of the last change
     gone  : SUBSET Guids,                          \* expunged
     name  : [BookGuids -> Names \cup {None}],
     full  : Usns]                                  \* fullSyncBefore, in updates

LocalBook == [st : {"unused", "here", "gone"}, name : Names \cup {None},
              guid : BookGuids \cup {None}]
LocalNote == [st : {"unused", "here", "gone"}, guid : NoteGuids \cup {None},
              nb : Books \cup {None}]

Devices ==
    [usn   : Usns,                                  \* "USN"
     full  : BOOLEAN,                               \* "FullSyncDone"
     time  : Usns,                                  \* "LastSyncServerTime", in updates
     book  : [Books -> LocalBook], note : [Notes -> LocalNote],
     names : [Names -> Books \cup {None}],          \* Notebooks/names.ini
     nbOf  : [BookGuids -> Books \cup {None}],      \* Notebooks/byGuid.ini
     ntOf  : [NoteGuids -> Notes \cup {None}],      \* Notes/byGuid.ini
     books : SUBSET Books, notes : SUBSET Notes]    \* with unpushed changes

\* What a chunk has of the objects changed since the device's USN.
NoChunk == [high |-> 0, count |-> 0, at |-> [g \in Guids |-> 0],
            gone |-> {}, name |-> [h \in BookGuids |-> None]]
NoCall == [kind |-> "none", id |-> None, guid |-> None, usn |-> 0]

Chunks == [high : Usns, count : Usns, at : [Guids -> Usns],
           gone : SUBSET Guids, name : [BookGuids -> Names \cup {None}]]
Calls  == [kind : {"none", "update", "create", "note", "usn"},
           id : Books \cup Notes \cup {None}, guid : Guids \cup {None}, usn : Usns]
Syncs  == [pc : {"off", "pull", "apply", "push"}, full : BOOLEAN, max : Usns,
           chunk : Chunks, books : SUBSET Books, notes : SUBSET Notes,
           call : Calls,
           got : [Guids -> Usns]]                  \* (of the model: the changes it has had)

TypeOK == srv \in Accounts /\ dev \in Devices /\ sync \in Syncs

Off(got) == [pc |-> "off", full |-> FALSE, max |-> 0, chunk |-> NoChunk,
             books |-> {}, notes |-> {}, call |-> NoCall, got |-> got]

\* Before the first sync of a new account.
Init ==
    /\ srv = [count |-> 0, at |-> [g \in Guids |-> 0], gone |-> {},
              name |-> [h \in BookGuids |-> None], full |-> 0]
    /\ dev = [usn |-> 0, full |-> FALSE, time |-> 0,
              book |-> [b \in Books |-> [st |-> "unused", name |-> None, guid |-> None]],
              note |-> [n \in Notes |-> [st |-> "unused", guid |-> None, nb |-> None]],
              names |-> [x \in Names |-> None], nbOf |-> [h \in BookGuids |-> None],
              ntOf |-> [m \in NoteGuids |-> None], books |-> {}, notes |-> {}]
    /\ sync = Off([g \in Guids |-> 0])

-----------------------------------------------------------------------------
(* The server.                                                             *)

NameFree(x, h) == \A k \in BookGuids \ {h} : srv.name[k] = x => k \in srv.gone
OnServer(g)    == srv.at[g] > 0 /\ g \notin srv.gone

\* Object g is made or changed.
Changed(g) ==
    [srv EXCEPT !.count = @ + 1, !.at[g] = srv.count + 1]
Named(h, x) == [Changed(h) EXCEPT !.name[h] = x]

\* Another client makes, renames or expunges a notebook, or makes, changes or
\* expunges a note.
OtherBook(h, x) ==
    /\ srv.count < MaxUsn /\ h \notin srv.gone /\ NameFree(x, h)
    /\ srv' = Named(h, x)
    /\ UNCHANGED <<dev, sync>>
OtherNote(m) ==
    /\ srv.count < MaxUsn /\ m \notin srv.gone
    /\ srv' = Changed(m)
    /\ UNCHANGED <<dev, sync>>
OtherExpunge(g) ==
    /\ srv.count < MaxUsn /\ OnServer(g)
    /\ srv' = [Changed(g) EXCEPT !.gone = @ \cup {g}]
    /\ UNCHANGED <<dev, sync>>

\* The server no longer keeps what it takes to bring an older device up to date
\* (a bound: once, and between two syncs, as only the start of one looks at it).
Forget ==
    /\ sync.pc = "off" /\ srv.full = 0 /\ srv.count > 0
    /\ srv' = [srv EXCEPT !.full = srv.count]
    /\ UNCHANGED <<dev, sync>>

-----------------------------------------------------------------------------
(* StorageManager: notebooks by name and by guid, notes by guid.           *)

\* createStorageObject takes the next number.
NextIds(unused) == {i \in unused : \A j \in unused : i <= j}
NextBook(d) == NextIds({b \in Books : d.book[b].st = "unused"})
NextNote(d) == NextIds({n \in Notes : d.note[n].st = "unused"})

\* createNotebook: the local id it returns for name x, in device d.
IdsFor(d, x) == IF d.names[x] # None THEN {d.names[x]} ELSE NextBook(d)

CreateNotebook(d, b, x) ==
    IF d.names[x] # None THEN d
    ELSE [d EXCEPT !.book[b] = [st |-> "here", name |-> x, guid |-> None],
                   !.names[x] = b]

SetNotebookGuid(d, b, h) == [d EXCEPT !.book[b].guid = h, !.nbOf[h] = b]

\* setSyncedNotebookData, the results it may have.
SetSyncedNotebookData(d, h, x) ==
    IF d.nbOf[h] # None
    THEN {SetNotebookGuid([d EXCEPT !.book[d.nbOf[h]].name = x], d.nbOf[h], h)}
    ELSE {SetNotebookGuid(CreateNotebook(d, b, x), b, h) : b \in IdsFor(d, x)}

\* setSyncedNoteGist
SetSyncedNoteGist(d, m) ==
    IF d.ntOf[m] # None THEN {d}
    ELSE {[d EXCEPT !.note[n] = [st |-> "here", guid |-> m, nb |-> None], !.ntOf[m] = n] :
              n \in NextNote(d)}

ExpungeNote(d, n) ==
    [d EXCEPT !.note[n] = [st |-> "gone", guid |-> None, nb |-> None],
              !.ntOf = [m \in NoteGuids |-> IF m = d.note[n].guid THEN None ELSE d.ntOf[m]],
              !.notes = @ \ {n}]

\* expungeNotebook of one that is not the default.  The key that is removed from
\* names.ini is the name, where every entry is under the name in upper case.
ExpungeNotebook(d, b) ==
    [d EXCEPT !.book[b] = [st |-> "gone", name |-> None, guid |-> None],
              !.names = [x \in Names |-> IF FoldKeys /\ x = d.book[b].name THEN None ELSE d.names[x]],
              !.nbOf = [h \in BookGuids |-> IF h = d.book[b].guid THEN None ELSE d.nbOf[h]],
              !.note = [n \in Notes |-> [d.note[n] EXCEPT !.nb = IF d.note[n].nb = b THEN None ELSE d.note[n].nb]]]

-----------------------------------------------------------------------------
(* The user, at any time.                                                  *)

\* A bound: there stay ids for what may come from the server.
RoomForNote ==
    Cardinality({k \in Notes : dev.note[k].st = "unused"}) >
    Cardinality({m \in NoteGuids \ srv.gone : dev.ntOf[m] = None})
RoomForBook ==
    Cardinality({b \in Books : dev.book[b].st = "unused"}) >
    Cardinality({h \in BookGuids \ srv.gone : dev.nbOf[h] = None})

\* createNote in the default notebook, and any change of a note.
EditNote(n) ==
    /\ n \notin dev.notes
    /\ dev.note[n].st = "here" \/ (n \in NextNote(dev) /\ RoomForNote)
    /\ dev' = [dev EXCEPT !.note[n].st = "here", !.notes = @ \cup {n}]
    /\ UNCHANGED <<srv, sync>>

\* createNotebook of a page, with the note it shows.  (A name that is taken is a
\* move of the note: see Library.)
NewNotebook(n, x) ==
    /\ dev.note[n].st = "here" /\ dev.note[n].nb = None /\ dev.names[x] = None /\ RoomForBook
    /\ \E b \in IdsFor(dev, x) :
          dev' = [CreateNotebook(dev, b, x) EXCEPT !.note[n].nb = b, !.notes = @ \cup {n}]
    /\ UNCHANGED <<srv, sync>>

\* renameNotebook and the flag.
RenameNotebook(b, x) ==
    /\ dev.book[b].st = "here" /\ dev.book[b].name # None /\ dev.names[x] = None
    /\ dev' = [dev EXCEPT !.book[b].name = x, !.books = @ \cup {b},
                          !.names = [y \in Names |-> IF y = x THEN b
                                                     ELSE IF y = dev.book[b].name THEN None
                                                     ELSE dev.names[y]]]
    /\ UNCHANGED <<srv, sync>>

-----------------------------------------------------------------------------
(* synchronize(): the pull.                                                *)

\* Up to the first chunk.  The server may ask for a full sync, which ends it.
SyncStart ==
    /\ sync.pc = "off"
    /\ ~ (dev.usn > 0 /\ dev.usn < srv.count /\ srv.full > dev.time)
    /\ sync' = [sync EXCEPT !.pc = "pull", !.max = srv.count,
                            !.full = ~dev.full \/ dev.usn = 0]
    /\ UNCHANGED <<srv, dev>>

\* The server's answer to getSyncChunk: the changes from the device's USN to high,
\* as many as ChunkSize; without what was expunged, if it is for a full sync.
Later(usn, full) == {g \in Guids : srv.at[g] > usn /\ (full => g \notin srv.gone)}

ChunkTo(high) ==
    LET in == {g \in Later(dev.usn, sync.full) : srv.at[g] <= high}
    IN [high  |-> high, count |-> srv.count,
        at    |-> [g \in Guids |-> IF g \in in THEN srv.at[g] ELSE 0],
        gone  |-> in \cap srv.gone,
        name  |-> [h \in BookGuids |-> IF h \in in THEN srv.name[h] ELSE None]]

MayAnswer(high) ==
    LET later == Later(dev.usn, sync.full) IN
    /\ Cardinality({g \in later : srv.at[g] <= high}) <= ChunkSize
    /\ high = srv.count \/ \E g \in later : srv.at[g] = high

\* (a mutant: the USN is saved when the chunk has come)
GetSyncChunkSaved ==
    /\ sync.pc = "pull" /\ dev.usn < sync.max
    /\ \E high \in (dev.usn + 1)..srv.count :
          /\ MayAnswer(high)
          /\ sync' = [sync EXCEPT !.pc = "apply", !.chunk = ChunkTo(high)]
          /\ dev' = [dev EXCEPT !.usn = high]
    /\ UNCHANGED srv

GetSyncChunk ==
    /\ sync.pc = "pull" /\ dev.usn < sync.max
    /\ \E high \in (dev.usn + 1)..srv.count :
          /\ MayAnswer(high)
          /\ sync' = [sync EXCEPT !.pc = "apply", !.chunk = ChunkTo(high)]
    /\ UNCHANGED <<srv, dev>>

InChunk == {g \in Guids : sync.chunk.at[g] > 0}
Applied(g) == [sync EXCEPT !.chunk.at[g] = 0, !.got[g] = sync.chunk.at[g]]

\* Notebooks first, then notes, then what was expunged.
ApplyNotebook(h) ==
    /\ sync.pc = "apply" /\ h \in InChunk \ sync.chunk.gone
    /\ dev' \in SetSyncedNotebookData(dev, h, sync.chunk.name[h])
    /\ sync' = Applied(h)
    /\ UNCHANGED srv
ApplyNote(m) ==
    /\ sync.pc = "apply" /\ m \in InChunk \ sync.chunk.gone
    /\ InChunk \cap BookGuids \subseteq sync.chunk.gone
    /\ dev' \in SetSyncedNoteGist(dev, m)
    /\ sync' = Applied(m)
    /\ UNCHANGED srv
\* One of these that the device does not know, or a default notebook, is left.
ApplyExpunged(g) ==
    /\ sync.pc = "apply" /\ g \in InChunk /\ InChunk \subseteq sync.chunk.gone
    /\ \/ /\ g \in NoteGuids /\ dev.ntOf[g] # None
          /\ dev' = ExpungeNote(dev, dev.ntOf[g])
       \/ /\ g \in BookGuids /\ dev.nbOf[g] # None
          /\ dev' = ExpungeNotebook(dev, dev.nbOf[g])
       \/ /\ g \in NoteGuids => dev.ntOf[g] = None
          /\ UNCHANGED dev
    /\ sync' = Applied(g)
    /\ UNCHANGED srv

\* The checkpoint after each chunk.
Checkpoint ==
    /\ sync.pc = "apply" /\ InChunk = {}
    /\ dev' = [dev EXCEPT !.usn = sync.chunk.high, !.time = sync.chunk.count, !.full = TRUE]
    /\ sync' = [sync EXCEPT !.pc = "pull", !.max = sync.chunk.count, !.chunk = NoChunk]
    /\ UNCHANGED srv

-----------------------------------------------------------------------------
(* synchronize(): the push.                                                *)

\* (a mutant: of the notes, only those the server has)
PushStartKnown ==
    /\ sync.pc = "pull" /\ dev.usn >= sync.max
    /\ sync' = [sync EXCEPT !.pc = "push", !.books = dev.books,
                            !.notes = {n \in dev.notes : dev.note[n].guid # None},
                            !.max = 0, !.full = FALSE]
    /\ UNCHANGED <<srv, dev>>

\* What is to be pushed is read once.  max and full have had their use.
PushStart ==
    /\ sync.pc = "pull" /\ dev.usn >= sync.max
    /\ sync' = [sync EXCEPT !.pc = "push", !.books = dev.books, !.notes = dev.notes,
                            !.max = 0, !.full = FALSE]
    /\ UNCHANGED <<srv, dev>>

Pushing == sync.pc = "push" /\ sync.call = NoCall
Call(kind, id, g) == [kind |-> kind, id |-> id, guid |-> g, usn |-> srv.count + 1]

\* updateNotebook, of those that have a name and a guid; the others are left.
PushNotebook(b) ==
    LET nb == dev.book[b] IN
    /\ Pushing /\ b \in sync.books
    /\ \/ /\ nb.name = None \/ nb.guid = None
          /\ sync' = [sync EXCEPT !.books = @ \ {b}]
          /\ UNCHANGED srv
       \/ /\ nb.name # None /\ nb.guid # None
          /\ srv.count < MaxUsn /\ OnServer(nb.guid) /\ NameFree(nb.name, nb.guid)
          /\ srv' = Named(nb.guid, nb.name)
          /\ sync' = [sync EXCEPT !.books = @ \ {b}, !.call = Call("update", b, nb.guid)]
    /\ UNCHANGED dev

\* A note whose notebook the server does not have: createNotebook.
NeedsNotebook(n) ==
    LET b == dev.note[n].nb IN
    b # None /\ dev.book[b].name # None /\ dev.book[b].guid = None

PushNewNotebook(n) ==
    LET b == dev.note[n].nb IN
    /\ Pushing /\ sync.books = {} /\ n \in sync.notes /\ NeedsNotebook(n)
    /\ srv.count < MaxUsn
    /\ \E h \in BookGuids :
          /\ srv.at[h] = 0 /\ NameFree(dev.book[b].name, h)
          /\ srv' = Named(h, dev.book[b].name)
          /\ sync' = [sync EXCEPT !.call = Call("create", b, h)]
    /\ UNCHANGED dev

\* (a mutant: the flag is cleared when the note is sent)
PushNoteForgotten(n) ==
    /\ Pushing /\ sync.books = {} /\ n \in sync.notes /\ ~NeedsNotebook(n)
    /\ sync' = [sync EXCEPT !.notes = @ \ {n}]
    /\ dev' = [dev EXCEPT !.notes = @ \ {n}]
    /\ UNCHANGED srv

\* createNote or updateNote.
PushNote(n) ==
    /\ Pushing /\ sync.books = {} /\ n \in sync.notes /\ ~NeedsNotebook(n)
    /\ dev.note[n].st = "here" /\ srv.count < MaxUsn
    /\ \E m \in NoteGuids :
          /\ IF dev.note[n].guid = None THEN srv.at[m] = 0
             ELSE m = dev.note[n].guid /\ OnServer(m)
          /\ srv' = Changed(m)
          /\ sync' = [sync EXCEPT !.notes = @ \ {n}, !.call = Call("note", n, m)]
    /\ UNCHANGED dev

\* A note that is no longer here, or that the server does not take: it is passed
\* over, and stays for the next sync.
PassOver(n) ==
    /\ Pushing /\ sync.books = {} /\ n \in sync.notes
    /\ sync' = [sync EXCEPT !.notes = @ \ {n}]
    /\ UNCHANGED <<srv, dev>>
MustPassOver(n) ==
    dev.note[n].st # "here" \/ dev.note[n].guid \in srv.gone

\* The answer, up to the USN.  updateNotebook clears the flag of the notebook,
\* createNotebook does not.
Answered ==
    LET c == sync.call IN
    /\ c.kind \in {"update", "create", "note"}
    /\ \/ /\ c.kind = "update"
          /\ dev' = [dev EXCEPT !.books = @ \ {c.id}]
       \/ /\ c.kind = "create"
          /\ dev' = SetNotebookGuid(dev, c.id, c.guid)
       \/ /\ c.kind = "note"
          /\ dev' = [dev EXCEPT !.note[c.id].guid = c.guid, !.ntOf[c.guid] = c.id,
                                !.notes = @ \ {c.id}]
    /\ sync' = [sync EXCEPT !.call.kind = "usn", !.got[c.guid] = c.usn]
    /\ UNCHANGED srv

\* (a mutant: the next sync is to begin one later)
SaveUsnOneMore ==
    /\ sync.call.kind = "usn"
    /\ dev' = [dev EXCEPT !.usn = IF sync.call.usn = @ + 1 THEN @ + 2 ELSE @]
    /\ sync' = [sync EXCEPT !.call = NoCall]
    /\ UNCHANGED srv

\* (a mutant: whatever the answer says is taken over)
SaveUsnAnyway ==
    /\ sync.call.kind = "usn"
    /\ dev' = [dev EXCEPT !.usn = sync.call.usn]
    /\ sync' = [sync EXCEPT !.call = NoCall]
    /\ UNCHANGED srv

\* Nothing has changed on the server between the last pull or push and this one.
SaveUsn ==
    /\ sync.call.kind = "usn"
    /\ dev' = [dev EXCEPT !.usn = IF sync.call.usn = @ + 1 THEN @ + 1 ELSE @]
    /\ sync' = [sync EXCEPT !.call = NoCall]
    /\ UNCHANGED srv

SyncDone ==
    /\ Pushing /\ sync.books = {} /\ sync.notes = {}
    /\ sync' = Off(sync.got)
    /\ UNCHANGED <<srv, dev>>

\* A call fails, before or after the server has done it, or the program ends.
SyncFails ==
    /\ sync.pc # "off"
    /\ sync' = Off(sync.got)
    /\ UNCHANGED <<srv, dev>>

-----------------------------------------------------------------------------
Others ==
    \/ \E h \in BookGuids, x \in Names : OtherBook(h, x)
    \/ \E m \in NoteGuids : OtherNote(m)
    \/ \E g \in Guids : OtherExpunge(g)
    \/ Forget

User ==
    \/ \E n \in Notes : EditNote(n) \/ \E x \in Names : NewNotebook(n, x)
    \/ \E b \in Books, x \in Names : RenameNotebook(b, x)

Synchronize ==
    \/ SyncStart \/ GetSyncChunk \/ Checkpoint \/ PushStart
    \/ \E h \in BookGuids : ApplyNotebook(h)
    \/ \E m \in NoteGuids : ApplyNote(m)
    \/ \E g \in Guids : ApplyExpunged(g)
    \/ \E b \in Books : PushNotebook(b)
    \/ \E n \in Notes : PushNewNotebook(n) \/ PushNote(n) \/ (MustPassOver(n) /\ PassOver(n))
    \/ Answered \/ SaveUsn \/ SyncDone

Next == Others \/ User \/ Synchronize \/ SyncFails \/ \E n \in Notes : PassOver(n)

Spec == Init /\ [][Next]_vars
FairSpec == Spec /\ WF_vars(Synchronize)

-----------------------------------------------------------------------------
(* Properties.                                                             *)

Live == {g \in Guids : OnServer(g)}

\* What the stored USN promises: of every note and notebook in the account whose
\* last change is not later, the device has had that change, and it has the note
\* under its guid.  A crash in a chunk, a reply that is lost and a change by
\* others between two pushes must not break it (EA 705, 753, 978).
MirrorUpToUsn ==
    \A g \in Live : srv.at[g] <= dev.usn =>
        /\ sync.got[g] = srv.at[g]
        /\ g \in NoteGuids => dev.ntOf[g] # None /\ dev.note[dev.ntOf[g]].guid = g

\* The same as a refinement: the device is a mirror of the account that only
\* moves forward.
Account == INSTANCE Mirror WITH
    Objects <- Guids, count <- srv.count, there <- Live, last <- srv.at,
    got <- sync.got, upTo <- dev.usn
MirrorsAccount == Account!Spec

\* A note that the user has changed stays to be pushed until the server has it or
\* has expunged it, whatever becomes of the sync that pushes it.
UnpushedKept ==
    [][\A n \in dev.notes : n \in dev.notes'
          \/ dev.note'[n].st = "gone"
          \/ /\ dev.note'[n].guid \in Guids
             /\ srv.at[dev.note'[n].guid] > 0]_vars

\* What the device cannot get over by itself: the server asks for a full sync
\* (EA 571), or refuses a name, or has expunged a note that the device does not
\* hear of any more: in a full sync that had it in an earlier chunk (EA 711).
Refused ==
    \/ dev.usn > 0 /\ dev.usn < srv.count /\ srv.full > dev.time
    \/ \E b \in dev.books : LET nb == dev.book[b] IN
          /\ nb.name # None /\ nb.guid # None
          /\ ~(OnServer(nb.guid) /\ NameFree(nb.name, nb.guid))
    \/ \E n \in dev.notes : NeedsNotebook(n) /\
          ~\E h \in BookGuids : srv.at[h] = 0 /\ NameFree(dev.book[dev.note[n].nb].name, h)
    \/ \E n \in dev.notes : dev.note[n].guid = None /\ \A m \in NoteGuids : srv.at[m] > 0
    \/ \E n \in dev.notes : dev.note[n].guid \in srv.gone /\ dev.usn = srv.count
    \/ srv.count = MaxUsn

\* When no one changes anything any more and no call fails, syncs bring the device
\* to the state of the account, and its changes there, unless they are refused.
\* (Every step of synchronize() changes sync.)
CatchesUp ==
    <>[][sync' # sync /\ Synchronize]_vars => []<>((dev.usn = srv.count /\ dev.notes = {}) \/ Refused)

=============================================================================
