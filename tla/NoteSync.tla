------------------------------ MODULE NoteSync ------------------------------
(***************************************************************************)
(* The content of one note, from the editor through the local store to the *)
(* Evernote server and back.  Two threads work on it.  "ui" opens the note *)
(* (GetNoteDataThread), edits it and saves it (QmlDataAccess and the       *)
(* StorageManager operations it calls).  "sync" is EvernoteAccess::        *)
(* synchronize on the sync thread.  Each action is one locked access of a  *)
(* settings file, or one call to the server, because that is where the two *)
(* threads interleave; a crash may come between any two.                   *)
(*                                                                         *)
(* A content is the set of edits it incorporates, so that "is built on"    *)
(* and "keeps" are set inclusion; the MD5 hash of a content is the content *)
(* itself and the empty hash is {}.                                        *)
(***************************************************************************)
EXTENDS Naturals, FiniteSets

CONSTANTS
    MaxEdits,   \* bound on the edits made anywhere, merges included
    FoldKeys    \* QSettings compares the keys of an ini file ignoring case

ASSUME MaxEditsAssumption == MaxEdits \in Nat \ {0}
ASSUME FoldKeysAssumption == FoldKeys \in BOOLEAN

VARIABLES
    \* the note's gist.ini
    origin,     \* "none" no local note, "here" CreatedHere, "server" pulled
    guid,       \* the note has a server guid
    pinned,     \* a favourite, or in an offline notebook
    base,       \* BaseContentHash
    syncHash,   \* SyncContentHash
    synced,     \* SyncUSN is set
    \* content.ini and the shared disk cache
    fileValid,  \* ContentValid
    file,       \* Content (and ContentHash)
    cache,      \* the content cached for the guid, {} when there is none
    \* lists
    toPush,     \* in NotesToPush
    deferred,   \* in NoteIdsWithDeferredConflictResolution
    \* the server
    srv,        \* the content on the server, {} before the note is there
    pulled,     \* the checkpointed USN covers the note's last change there
    \* the threads
    lock,       \* holder of note_content_edit_lock
    ui,         \* the editor page and what it is doing
    sy,         \* where synchronize() is
    due,        \* maxUsn, as synchronize() last heard it, covers a new change
    chunk,      \* the content hash in the sync chunk being processed
    snap,       \* what the push loop has read of the note
    fetch,      \* each thread's call of fetchNote / setFetchedNoteContent
    \* observation
    edits       \* the last edit made

gist   == <<origin, guid, pinned, base, syncHash, synced>>
store  == <<fileValid, file, cache>>
lists  == <<toPush, deferred>>
server == <<srv, pulled>>
syncThread == <<sy, due, chunk, snap>>
vars   == <<gist, store, lists, server, lock, ui, syncThread, fetch, edits>>

Thread  == {"ui", "sync"}
Edit    == 1 .. MaxEdits
Content == SUBSET Edit
None    == {}                       \* the empty hash

UiPc    == {"closed", "open", "fetching", "editing", "saveContent", "saveBase",
            "saveConflict", "flag"}
SyncPc  == {"idle", "deferred", "deferFetch", "deferClear", "pull", "gist",
            "decide", "pullFetch", "checkpoint", "prefetch", "prefetching",
            "push", "readContent", "call", "setGuid", "pushedGist",
            "pushedContent", "pushedDrop", "pushedCache", "clearFlag", "usn"}
FetchPc == {"off", "ask", "apply", "compare", "write", "gist"}

UiState    == [pc: UiPc, plain: BOOLEAN, text: Content, ticks: Content, dirty: BOOLEAN,
               base: Content, sync: Content, conflict: BOOLEAN]
FetchState == [pc: FetchPc, got: Content, base: Content, merged: Content, ok: BOOLEAN]
SnapState  == [guid: BOOLEAN, base: Content, sync: Content,
               content: Content, alone: BOOLEAN]

Closed  == [pc |-> "closed", plain |-> TRUE, text |-> {}, ticks |-> {}, dirty |-> FALSE,
            base |-> None, sync |-> None, conflict |-> FALSE]
NoFetch == [pc |-> "off", got |-> {}, base |-> None, merged |-> {}, ok |-> TRUE]
NoSnap  == [guid |-> FALSE, base |-> None, sync |-> None, content |-> {}, alone |-> FALSE]

Init ==
    /\ origin = "none"
    /\ guid = FALSE
    /\ pinned \in BOOLEAN
    /\ base = None /\ syncHash = None /\ synced = FALSE
    /\ fileValid = FALSE /\ file = {} /\ cache = {}
    /\ toPush = FALSE /\ deferred = FALSE
    /\ srv \in {{}, {1}}
    /\ pulled = (srv = {})
    /\ lock = "none"
    /\ ui = Closed
    /\ sy = "idle" /\ due = FALSE /\ chunk = {} /\ snap = NoSnap
    /\ fetch = [p \in Thread |-> NoFetch]
    /\ edits = Cardinality(srv)

-----------------------------------------------------------------------------
(* What the store answers.                                                 *)

\* noteNeedsToBeAvailableOffline
OfflineNeeded == origin = "here" \/ pinned

\* noteContentAvailableOffline
OfflineAvailable == base # None /\ syncHash = base /\ fileValid

\* The content noteData returns, given the SyncContentHash it has read:
\* content.ini's, else the disk cache's if it is the synced one, else none.
Available(sync) ==
    IF fileValid THEN file
    ELSE IF cache = sync THEN cache ELSE {}

\* (a mutant: no special case for a note without a guid)
UpToDateUnpushedAsked ==
    FoldKeys /\ synced /\ base # None /\ syncHash = base /\ (fileValid \/ cache = base)

\* isNoteContentUpToDate.  BaseContentUSN is set whenever BaseContentHash is
\* set by sync, but it is read here as "BaseContentUsn".
UpToDate ==
    guid => /\ FoldKeys
            /\ synced
            /\ base # None
            /\ syncHash = base
            /\ fileValid \/ cache = base

\* noteHasUnpushedContentChanges
HasUnpushedContent ==
    /\ toPush
    /\ Available(syncHash) \notin {{}, base}

\* resolveConflict, when it is ok: one side if it already has the other's text inside its
\* own, otherwise both joined by a line about the conflict (edit m).
\* (a mutant: the server's text forgotten)
ResolutionsOld(new, old, m) == {old \cup {m}}
Resolutions(new, old, m) ==
    {new \cup old \cup {m}}
        \cup {c \in {new, old} : new \cup old = c}

NewEdit == edits + 1
CanEdit == edits < MaxEdits

\* The constructor and the destructor of the note_content_edit_lock IniFile.
\* (a mutant: no waiting for the lock)
TakeLockAnyway(t) == lock' = t
TakeLock(t)  == lock = "none" /\ lock' = t
\* (a mutant: the lock is not given back)
KeepLock     == UNCHANGED lock
ReleaseLock  == lock' = "none"

\* The edit that stands for a line about a conflict; at the bound it is an old
\* one, so that a merge is never stuck for lack of a number.
ConflictLine == IF CanEdit THEN NewEdit ELSE MaxEdits

-----------------------------------------------------------------------------
(* The editor.                                                             *)

\* createNote, by the first save of a new page, or by createNoteWithUrl.  It
\* enters the note in the list of notes last, and nobody sees it before that.
CreateNote ==
    /\ ui.pc = "closed" /\ origin = "none" /\ srv = {} /\ CanEdit
    /\ origin' = "here"
    /\ fileValid' = TRUE /\ file' = {NewEdit}
    /\ ui' = [Closed EXCEPT !.pc = "flag", !.text = {NewEdit}, !.dirty = TRUE]
    /\ edits' = NewEdit
    /\ UNCHANGED <<guid, pinned, base, syncHash, synced, cache, lists, server,
                   lock, syncThread, fetch>>

\* GetNoteDataThread: noteData reads gist.ini ...
OpenGist ==
    /\ ui.pc = "closed" /\ origin # "none"
    /\ ui' = [Closed EXCEPT !.pc = "open", !.base = base, !.sync = syncHash]
    /\ UNCHANGED <<gist, store, lists, server, lock, syncThread, fetch, edits>>

\* ... then content.ini, or the disk cache.  Without a content the thread
\* calls fetchNote; when that finds the note up to date after all, it returns
\* no data and the page cannot be edited.
OpenContent ==
    /\ ui.pc = "open"
    /\ LET text == Available(ui.sync) IN
       \/ /\ text # {}
          /\ \E plain \in BOOLEAN :
                ui' = [ui EXCEPT !.pc = "editing", !.plain = plain, !.text = text,
                                 !.sync = None]
          /\ UNCHANGED fetch
       \/ /\ text = {} /\ ~UpToDate
          /\ ui' = [Closed EXCEPT !.pc = "fetching"]
          /\ fetch' = [fetch EXCEPT !["ui"].pc = "ask"]
       \/ /\ text = {} /\ UpToDate
          /\ ui' = Closed
          /\ UNCHANGED fetch
    /\ UNCHANGED <<gist, store, lists, server, lock, syncThread, edits>>

\* updateNoteTitleAndContent, first half: the gist.  The page passes the base
\* hash it was opened with, and saves again a text that was saved before.
SavePlain ==
    /\ ui.pc = "editing" /\ ui.plain /\ TakeLock("ui")
    /\ \/ /\ CanEdit
          /\ edits' = NewEdit
          /\ ui' = [ui EXCEPT !.pc = "saveContent", !.text = @ \cup {NewEdit},
                              !.dirty = TRUE, !.conflict = base \notin {None, ui.base}]
       \/ /\ ui.dirty
          /\ ui' = [ui EXCEPT !.pc = "saveContent",
                              !.conflict = base \notin {None, ui.base}]
          /\ UNCHANGED edits
    /\ base' = ui.base
    /\ UNCHANGED <<origin, guid, pinned, syncHash, synced, store, lists, server,
                   syncThread, fetch>>

\* updateNoteTitleAndContent, second half: content.ini.
SavePlainContent ==
    /\ ui.pc = "saveContent"
    /\ fileValid' = TRUE /\ file' = ui.text
    /\ ui' = [ui EXCEPT !.pc = "saveConflict"]
    /\ UNCHANGED <<gist, cache, lists, server, lock, syncThread, fetch, edits>>

\* appendTextToNote (and appendAttachmentToNote), first half: content.ini gets
\* the page's text with the addition, and the page keeps that.
AppendText ==
    /\ ui.pc = "editing" /\ ~ui.plain /\ TakeLock("ui") /\ CanEdit
    /\ edits' = NewEdit
    /\ fileValid' = TRUE /\ file' = ui.text \cup {NewEdit}
    /\ ui' = [ui EXCEPT !.pc = "saveBase", !.text = @ \cup {NewEdit}]
    /\ UNCHANGED <<gist, cache, lists, server, syncThread, fetch>>

\* saveCheckboxStates, first half: the page's text with all its ticks.  The
\* page keeps its text as it was.
SaveCheckboxes ==
    /\ ui.pc = "editing" /\ ~ui.plain /\ TakeLock("ui") /\ CanEdit
    /\ edits' = NewEdit
    /\ fileValid' = TRUE /\ file' = ui.text \cup ui.ticks \cup {NewEdit}
    /\ ui' = [ui EXCEPT !.pc = "saveBase", !.ticks = @ \cup {NewEdit}]
    /\ UNCHANGED <<gist, cache, lists, server, syncThread, fetch>>

\* appendTextToNote, saveCheckboxStates, second half: the gist.
SaveBase ==
    /\ ui.pc = "saveBase"
    /\ base' = ui.base
    /\ ui' = [ui EXCEPT !.pc = "saveConflict",
                        !.conflict = base \notin {None, ui.base}]
    /\ UNCHANGED <<origin, guid, pinned, syncHash, synced, store, lists, server,
                   lock, syncThread, fetch, edits>>

\* The end of each of the three: record a conflict for the next sync.
SaveConflict ==
    /\ ui.pc = "saveConflict"
    /\ deferred' = (deferred \/ ui.conflict)
    /\ ReleaseLock
    /\ ui' = [ui EXCEPT !.pc = "flag", !.conflict = FALSE]
    /\ UNCHANGED <<gist, store, toPush, server, syncThread, fetch, edits>>

\* updateNoteTitle, and every other change that is pushed but is not content.
SaveTitle ==
    /\ ui.pc = "editing"
    /\ ui' = [ui EXCEPT !.pc = "flag"]
    /\ UNCHANGED <<gist, store, lists, server, lock, syncThread, fetch, edits>>

\* setNoteHasUnpushedChanges, after any of them.
\* (a mutant: rich text saves not flagged)
FlagPlainNote ==
    /\ ui.pc = "flag"
    /\ toPush' = (toPush \/ ui.dirty)
    /\ ui' = [ui EXCEPT !.pc = "editing"]
    /\ UNCHANGED <<gist, store, deferred, server, lock, syncThread, fetch, edits>>
FlagNote ==
    /\ ui.pc = "flag"
    /\ toPush' = TRUE
    /\ ui' = [ui EXCEPT !.pc = "editing"]
    /\ UNCHANGED <<gist, store, deferred, server, lock, syncThread, fetch, edits>>

ClosePage ==
    /\ ui.pc = "editing"
    /\ ui' = Closed
    /\ UNCHANGED <<gist, store, lists, server, lock, syncThread, fetch, edits>>

-----------------------------------------------------------------------------
(* fetchNote, on either thread.                                            *)

\* What the caller goes on with: the page edits what was fetched, whatever the
\* store made of it; the sync thread ignores the result.
PageGot(c) ==
    \E plain \in BOOLEAN :
        ui' = [Closed EXCEPT !.pc = "editing", !.plain = plain, !.text = c, !.base = c]
\* (a mutant: no error shown)
PageKeepsWaiting == UNCHANGED ui
\* (a mutant: an empty page shown)
PageHasNoBase == ui' = [pc |-> "editing", plain |-> TRUE, text |-> {}]
PageGotNothing == ui' = Closed

AfterFetch(p, ok) ==
    IF p = "ui"
    THEN /\ IF ok THEN PageGot(fetch[p].got) ELSE PageGotNothing
         /\ UNCHANGED sy
    ELSE /\ sy' = CASE sy = "deferFetch"  -> "deferClear"
                    [] sy = "pullFetch"   -> "checkpoint"
                    [] sy = "prefetching" -> "push"
         /\ UNCHANGED ui

\* edamGetNote, answered ...
FetchAsk(p) ==
    /\ fetch[p].pc = "ask"
    /\ fetch' = [fetch EXCEPT ![p] = [@ EXCEPT !.pc = "apply", !.got = srv]]
    /\ UNCHANGED <<gist, store, lists, server, lock, ui, syncThread, edits>>

\* ... or not: an error, a timeout, or a cancelled request.
FetchFail(p) ==
    /\ fetch[p].pc = "ask"
    /\ fetch' = [fetch EXCEPT ![p] = NoFetch]
    /\ AfterFetch(p, FALSE)
    /\ UNCHANGED <<gist, store, lists, server, lock, due, chunk, snap, edits>>

\* setFetchedNoteContent takes the edit lock and reads the base hash.
FetchApply(p) ==
    /\ fetch[p].pc = "apply" /\ TakeLock(p)
    /\ fetch' = [fetch EXCEPT ![p] = [@ EXCEPT !.base = base,
                              !.pc = IF base = None THEN "write" ELSE "compare"]]
    /\ UNCHANGED <<gist, store, lists, server, ui, syncThread, edits>>

\* It returns early if content.ini holds an edit on top of what was fetched,
\* (a mutant: only an unedited content counts)
LocalIsSame(p) == fetch[p].base = fetch[p].got /\ fileValid /\ file = fetch[p].got
LocalIsNewer(p) == fetch[p].base = fetch[p].got /\ fileValid

\* and merges if both sides have changed: resolveConflict is ok if both contents
\* parse, and if either does not, the fetched content is written all the same.
BothChanged(p) ==
    /\ fetch[p].base # fetch[p].got
    /\ fileValid /\ file \notin {fetch[p].base, fetch[p].got}

FetchCompare(p) ==
    /\ fetch[p].pc = "compare"
    /\ \/ /\ LocalIsNewer(p)
          /\ fetch' = [fetch EXCEPT ![p] = NoFetch]
          /\ ReleaseLock
          /\ AfterFetch(p, TRUE)
          /\ UNCHANGED edits
       \/ /\ BothChanged(p)
          /\ \E c \in Resolutions(fetch[p].got, file, ConflictLine) :
                /\ edits' = IF ConflictLine \in c THEN ConflictLine ELSE edits
                /\ fetch' = [fetch EXCEPT ![p] = [@ EXCEPT !.pc = "write",
                                !.merged = IF c = fetch[p].got THEN {} ELSE c]]
          /\ UNCHANGED <<lock, ui, sy>>
       \/ /\ BothChanged(p)
          /\ fetch' = [fetch EXCEPT ![p] = [@ EXCEPT !.pc = "write", !.ok = FALSE]]
          /\ UNCHANGED <<lock, ui, sy, edits>>
       \/ /\ ~LocalIsNewer(p) /\ ~BothChanged(p)
          /\ fetch' = [fetch EXCEPT ![p].pc = "write"]
          /\ UNCHANGED <<lock, ui, sy, edits>>
    /\ UNCHANGED <<gist, store, lists, server, due, chunk, snap>>

\* The content: the merged one, else to content.ini or to the disk cache.
FetchWrite(p) ==
    /\ fetch[p].pc = "write"
    /\ \/ /\ fetch[p].merged # {}
          /\ fileValid' = TRUE /\ file' = fetch[p].merged
          /\ UNCHANGED cache
       \/ /\ fetch[p].merged = {} /\ OfflineNeeded
          /\ fileValid' = TRUE /\ file' = fetch[p].got
          /\ UNCHANGED cache
       \/ /\ fetch[p].merged = {} /\ ~OfflineNeeded
          /\ fileValid' = FALSE /\ file' = {}
          /\ cache' = fetch[p].got
    /\ fetch' = [fetch EXCEPT ![p].pc = "gist"]
    /\ UNCHANGED <<gist, lists, server, lock, ui, syncThread, edits>>

\* The gist, and the end of the call.
FetchGist(p) ==
    /\ fetch[p].pc = "gist"
    /\ base' = fetch[p].got /\ syncHash' = fetch[p].got
    /\ ReleaseLock
    /\ fetch' = [fetch EXCEPT ![p] = NoFetch]
    /\ AfterFetch(p, TRUE)
    /\ UNCHANGED <<origin, guid, pinned, synced, store, lists, server, due, chunk, snap, edits>>

\* A call of fetchNote by the sync thread, at its next stage when there is
\* nothing to fetch.
\* (a mutant: the stage is not left when nothing is to be fetched)
SyncFetchStuck(stage, next) ==
    /\ sy' = stage
    /\ IF UpToDate THEN UNCHANGED fetch ELSE fetch' = [fetch EXCEPT !["sync"].pc = "ask"]
SyncFetch(stage, next) ==
    \/ /\ ~UpToDate
       /\ sy' = stage
       /\ fetch' = [fetch EXCEPT !["sync"].pc = "ask"]
    \/ /\ UpToDate
       /\ sy' = next
       /\ UNCHANGED fetch

-----------------------------------------------------------------------------
(* EvernoteAccess::synchronize.                                            *)

\* getSyncState says whether there is anything new.
SyncStart ==
    /\ sy = "idle"
    /\ sy' = "deferred"
    /\ due' = ~pulled
    /\ UNCHANGED <<gist, store, lists, server, lock, ui, chunk, snap, fetch, edits>>

\* Resolve the conflicts recorded by the saves ...
SyncDeferred ==
    /\ sy = "deferred"
    /\ IF deferred THEN SyncFetch("deferFetch", "deferClear")
       ELSE sy' = "deferClear" /\ UNCHANGED fetch
    /\ UNCHANGED <<gist, store, lists, server, lock, ui, due, chunk, snap, edits>>

\* ... and empty their list.
SyncDeferClear ==
    /\ sy = "deferClear"
    /\ deferred' = FALSE
    /\ sy' = "pull"
    /\ UNCHANGED <<gist, store, toPush, server, lock, ui, due, chunk, snap, fetch, edits>>

\* getSyncChunk, while there is more to pull.
SyncPull ==
    /\ sy = "pull"
    /\ \/ due /\ sy' = "gist" /\ chunk' = srv
       \/ ~due /\ sy' = "prefetch" /\ UNCHANGED chunk
    /\ UNCHANGED <<gist, store, lists, server, lock, ui, due, snap, fetch, edits>>

\* storeNoteGist / setSyncedNoteGist
SyncGist ==
    /\ sy = "gist"
    /\ origin' = IF guid THEN origin ELSE "server"
    /\ guid' = TRUE /\ synced' = TRUE /\ syncHash' = chunk
    /\ sy' = "decide"
    /\ UNCHANGED <<pinned, base, store, lists, server, lock, ui, due, chunk, snap, fetch, edits>>

\* Fetch the content of a note wanted offline, or changed on both sides.
SyncDecide ==
    /\ sy = "decide"
    /\ IF (OfflineNeeded /\ ~OfflineAvailable) \/ HasUnpushedContent
       THEN SyncFetch("pullFetch", "checkpoint")
       ELSE sy' = "checkpoint" /\ UNCHANGED fetch
    /\ UNCHANGED <<gist, store, lists, server, lock, ui, due, chunk, snap, edits>>

\* Save the USN reached.  A later change is seen in this sync only if other
\* changes made the server split the answer into more chunks.
SyncCheckpoint ==
    /\ sy = "checkpoint"
    /\ pulled' = (srv = chunk)
    /\ due' \in {FALSE, srv # chunk}
    /\ chunk' = {}
    /\ sy' = "pull"
    /\ UNCHANGED <<gist, store, lists, srv, lock, ui, snap, fetch, edits>>

\* Fetch the note if it is one of the ten latest.
SyncPrefetch ==
    /\ sy = "prefetch"
    /\ \/ sy' = "push" /\ UNCHANGED fetch
       \/ origin # "none" /\ SyncFetch("prefetching", "push")
    /\ UNCHANGED <<gist, store, lists, server, lock, ui, due, chunk, snap, edits>>

\* The push loop: noteData reads gist.ini ...
PushGist ==
    /\ sy = "push"
    /\ \/ /\ toPush
          /\ sy' = "readContent"
          /\ snap' = [NoSnap EXCEPT !.guid = guid, !.base = base, !.sync = syncHash]
       \/ ~toPush /\ sy' = "idle" /\ UNCHANGED snap
    /\ due' = FALSE
    /\ UNCHANGED <<gist, store, lists, server, lock, ui, chunk, fetch, edits>>

\* What is in the note's gist was built on what the server was last heard to
\* have: a push makes no conflict there.
\* (a mutant: no comparison before a push)
AlwaysCurrent == TRUE
BuiltOnSynced == snap.sync = snap.base

\* ... then the content.  A note without content, or that would make a conflict,
\* is skipped.
PushContent ==
    /\ sy = "readContent"
    /\ LET content == Available(snap.sync) IN
       \/ /\ content # {} /\ BuiltOnSynced
          /\ sy' = "call"
          /\ snap' = [snap EXCEPT !.content = content]
       \/ /\ content = {} \/ ~BuiltOnSynced
          /\ sy' = "idle"
          /\ snap' = NoSnap
    /\ UNCHANGED <<gist, store, lists, server, lock, ui, due, chunk, fetch, edits>>

IsPushingContent == ~snap.guid \/ snap.base = None \/ snap.content # snap.base

\* edamCreateNote, which makes the server's note; a reply that never comes
\* leaves there a note this device knows nothing of.
PushCreate ==
    /\ sy = "call" /\ ~snap.guid
    /\ sy' = "setGuid"
    /\ \E alone \in BOOLEAN : snap' = [snap EXCEPT !.alone = alone]
    /\ UNCHANGED <<gist, store, lists, server, lock, ui, due, chunk, fetch, edits>>

\* edamUpdateNote: the server takes what it is given.
PushUpdate ==
    /\ sy = "call" /\ snap.guid
    /\ srv' = IF IsPushingContent THEN snap.content ELSE srv
    /\ pulled' = FALSE
    /\ \/ /\ sy' = IF IsPushingContent THEN "pushedGist" ELSE "clearFlag"
          /\ \E alone \in {FALSE, pulled} :
                snap' = [snap EXCEPT !.alone = alone, !.content = srv']
       \/ sy' = "idle" /\ snap' = NoSnap               \* the reply is lost
    /\ UNCHANGED <<gist, store, lists, lock, ui, due, chunk, fetch, edits>>

\* A call that the server refuses, or that never reaches it; and the failure
\* of getSyncChunk.
SyncFails ==
    /\ sy \in {"pull", "call"}
    /\ sy = "pull" => due
    /\ sy' = "idle" /\ due' = FALSE /\ snap' = NoSnap
    /\ UNCHANGED <<gist, store, lists, server, lock, ui, chunk, fetch, edits>>

\* setNoteGuid: from here on the server's note is this one.
PushSetGuid ==
    /\ sy = "setGuid"
    /\ guid' = TRUE
    /\ srv' = snap.content /\ pulled' = FALSE
    /\ sy' = "pushedGist"
    /\ UNCHANGED <<origin, pinned, base, syncHash, synced, store, lists, lock, ui,
                   due, chunk, snap, fetch, edits>>

\* setPushedNote: the gist,
PushedGist ==
    /\ sy = "pushedGist"
    /\ base' = snap.content /\ syncHash' = snap.content
    /\ sy' = "pushedContent"
    /\ UNCHANGED <<origin, guid, pinned, synced, store, lists, server, lock, ui,
                   due, chunk, snap, fetch, edits>>

\* whether content.ini still holds what was pushed,
PushedContent ==
    /\ sy = "pushedContent"
    /\ sy' = IF fileValid /\ file = snap.content /\ ~OfflineNeeded
             THEN "pushedDrop" ELSE "clearFlag"
    /\ UNCHANGED <<gist, store, lists, server, lock, ui, due, chunk, snap, fetch, edits>>

\* if so, drop it there,
PushedDrop ==
    /\ sy = "pushedDrop"
    /\ fileValid' = FALSE /\ file' = {}
    /\ sy' = "pushedCache"
    /\ UNCHANGED <<gist, cache, lists, server, lock, ui, due, chunk, snap, fetch, edits>>

\* and keep it in the disk cache.
PushedCache ==
    /\ sy = "pushedCache"
    /\ cache' = snap.content
    /\ sy' = "clearFlag"
    /\ UNCHANGED <<gist, fileValid, file, lists, server, lock, ui, due, chunk, snap, fetch, edits>>

\* setNoteHasUnpushedChanges(noteId, false)
PushClearFlag ==
    /\ sy = "clearFlag"
    /\ toPush' = FALSE
    /\ sy' = "usn"
    /\ UNCHANGED <<gist, store, deferred, server, lock, ui, due, chunk, snap, fetch, edits>>

\* Count the push as pulled if its USN is the next one.
PushUsn ==
    /\ sy = "usn"
    /\ pulled' = (snap.alone /\ srv = snap.content)
    /\ sy' = "idle" /\ snap' = NoSnap
    /\ UNCHANGED <<gist, store, lists, srv, lock, ui, due, chunk, fetch, edits>>

-----------------------------------------------------------------------------
(* The rest of the world.                                                  *)

\* Another client changes the note on the server.
OtherClient ==
    /\ srv # {} /\ CanEdit
    /\ srv' = srv \cup {NewEdit} /\ pulled' = FALSE
    /\ edits' = NewEdit
    /\ UNCHANGED <<gist, store, lists, lock, ui, syncThread, fetch>>

\* The disk cache makes room for another note.
EvictCache ==
    /\ cache # {}
    /\ cache' = {}
    /\ UNCHANGED <<gist, fileValid, file, lists, server, lock, ui, sy, due, chunk,
                   snap, fetch, edits>>

\* The program is killed and started again.
Crash ==
    /\ ui' = Closed
    /\ sy' = "idle" /\ due' = FALSE /\ chunk' = {} /\ snap' = NoSnap
    /\ lock' = "none"
    /\ fetch' = [p \in Thread |-> NoFetch]
    /\ UNCHANGED <<gist, store, lists, server, edits>>

-----------------------------------------------------------------------------
UiStep ==
    \/ CreateNote \/ OpenGist \/ OpenContent
    \/ SavePlain \/ SavePlainContent \/ AppendText \/ SaveCheckboxes \/ SaveBase \/ SaveConflict
    \/ SaveTitle \/ FlagNote \/ ClosePage

FetchStep(p) ==
    \/ FetchAsk(p) \/ FetchFail(p) \/ FetchApply(p)
    \/ FetchCompare(p) \/ FetchWrite(p) \/ FetchGist(p)

SyncStep ==
    \/ SyncStart \/ SyncDeferred \/ SyncDeferClear \/ SyncPull \/ SyncGist
    \/ SyncDecide \/ SyncCheckpoint \/ SyncPrefetch
    \/ PushGist \/ PushContent \/ PushCreate \/ PushUpdate \/ SyncFails
    \/ PushSetGuid \/ PushedGist \/ PushedContent \/ PushedDrop \/ PushedCache
    \/ PushClearFlag \/ PushUsn

Next ==
    \/ UiStep
    \/ SyncStep
    \/ \E p \in Thread : FetchStep(p)
    \/ OtherClient \/ EvictCache \/ Crash

Spec == Init /\ [][Next]_vars

-----------------------------------------------------------------------------
\* Every variable stays in its type: the settings files hold only contents
\* some actor made, and the threads are at the program points listed above.
TypeOK ==
    /\ origin \in {"none", "here", "server"}
    /\ guid \in BOOLEAN /\ pinned \in BOOLEAN /\ synced \in BOOLEAN
    /\ base \in Content /\ syncHash \in Content
    /\ fileValid \in BOOLEAN /\ file \in Content /\ cache \in Content
    /\ toPush \in BOOLEAN /\ deferred \in BOOLEAN
    /\ srv \in Content /\ pulled \in BOOLEAN
    /\ lock \in Thread \cup {"none"}
    /\ ui \in UiState
    /\ sy \in SyncPc /\ due \in BOOLEAN /\ chunk \in Content /\ snap \in SnapState
    /\ fetch \in [Thread -> FetchState]
    /\ edits \in 0 .. MaxEdits

-----------------------------------------------------------------------------
(* The overlaps after which the store and the server may part (the runs that *)
(* end in a violation show how), and the behaviours without them.          *)

\* From the push loop reading the note to its clearing of the flag, and from
\* the first write of a save to its setting of the flag.
Pushing == sy \in {"readContent", "call", "setGuid", "pushedGist", "pushedContent",
                   "pushedDrop", "pushedCache", "clearFlag"}
Saving  == ui.pc \in {"saveContent", "saveBase", "saveConflict", "flag"}

\* A fetch is storing an answer older than what the store has heard of since.
LateAnswer ==
    \E p \in Thread :
        /\ fetch[p].pc \in {"compare", "write", "gist"}
        /\ ~(base \cup syncHash \subseteq fetch[p].got)

\* Some operation has written one of its files and not yet the other.
MidWrite ==
    \/ Saving
    \/ \E p \in Thread : fetch[p].pc = "gist"
    \/ sy \in {"setGuid", "pushedGist", "pushedContent", "pushedDrop",
               "pushedCache", "clearFlag"}

QuietNext ==
    /\ Next
    /\ ~(Pushing /\ Saving)'
    /\ ~LateAnswer'
    /\ ~(Crash /\ MidWrite)

QuietSpec == Init /\ [][QuietNext]_vars

-----------------------------------------------------------------------------
(* Fairness: the threads go on.  The user need not do anything, nothing has  *)
(* to fail, and nobody has to crash.  The edit lock is a mutex with a queue: *)
(* whoever waits for it gets it if it is released again and again.           *)

FairSpec ==
    /\ Spec
    /\ WF_vars(SyncStep /\ sy # "idle")
    /\ WF_vars(OpenContent) /\ WF_vars(SavePlainContent) /\ WF_vars(SaveBase)
    /\ WF_vars(SaveConflict) /\ WF_vars(FlagNote)
    /\ \A p \in Thread :
          /\ WF_vars(FetchAsk(p) \/ FetchFail(p)) /\ SF_vars(FetchApply(p))
          /\ WF_vars(FetchCompare(p)) /\ WF_vars(FetchWrite(p)) /\ WF_vars(FetchGist(p))

-----------------------------------------------------------------------------
(* Properties of every behaviour.                                          *)

\* noteData and fetchNote assert that a note whose content is not in
\* content.ini has a guid to ask for it by.  More: whatever overlaps or
\* crashes, a note keeps its content in content.ini until the server has it.
OnlyCopyKept ==
    origin # "none" => \/ fileValid /\ file # {}
                       \/ guid /\ srv # {}

\* A fetch that has found what base the note had, and whose merge did not fail,
\* puts nothing over an edit but what contains it: content.ini is overwritten
\* only if it held the base itself, or edits that the fetched or the merged
\* content has too.  A failed merge does lose the edit: UserChangesSaved, in
\* NoteSyncClaims, is refuted.
MergeKeepsEdits ==
    [][\A p \in Thread :
          FetchWrite(p) /\ fetch[p].base # None /\ fileValid /\ fetch[p].ok
              => file = fetch[p].base \/ file \subseteq fetch[p].got \cup file']_vars

\* Whoever is between reading the base hash and writing the files holds the
\* edit lock, so the page and the sync thread are never both there: a save
\* cannot slip between a fetch's comparison and its overwriting of content.ini.
EditLockHeld ==
    /\ ui.pc \in {"saveContent", "saveBase", "saveConflict"} => lock = "ui"
    /\ \A p \in Thread : fetch[p].pc \in {"compare", "write", "gist"} => lock = p

(* Properties of the behaviours without overlaps.                          *)

\* content.ini is built on the version that the gist names as its base, so
\* that comparing hashes detects every conflict.
BuiltOnBase ==
    /\ fileValid
    /\ ui.pc \notin {"saveContent", "saveBase"}
    /\ \A p \in Thread : fetch[p].pc # "gist"
    => base \subseteq file

\* A content that differs from its base is in the list of notes to push: no
\* edit stays on the device forgotten.
UnpushedFlagged ==
    /\ fileValid /\ file # base
    /\ ~Saving
    /\ \A p \in Thread : fetch[p].pc # "gist"
    => toPush

\* No push takes away from the server what this device has pulled from it.
ServerKeepsPulled == [][pulled => srv \subseteq srv']_vars

(* Liveness.                                                               *)

\* A sync ends, whatever fails and whatever the page does meanwhile, and lets
\* the next one start.
SyncEnds == sy # "idle" ~> sy = "idle"

\* A page that is opening, fetching or saving gets to an end.
PageAnswers == ui.pc \notin {"closed", "editing"} ~> ui.pc \in {"closed", "editing"}

\* The edit lock is released.
EditLockReleased == lock # "none" ~> lock = "none"

=============================================================================
