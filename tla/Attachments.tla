---------------------------- MODULE Attachments ----------------------------
(***************************************************************************)
(* The attachments of one note that the server knows: attachments.ini, the *)
(* files under Attachments/, what the note's content shows, and the        *)
(* resources on the server.  The note page ("ui", with the threads it      *)
(* waits for) appends and removes; the synchronisation ("sync") pulls and  *)
(* pushes; both may fetch the note.  A step is one locked access of a      *)
(* settings file, one change of a file, or one call to the server.         *)
(*                                                                         *)
(* As in NoteSync a content is the set of what it incorporates, here the   *)
(* attachments it shows, and is its own MD5 hash.  NoteSync models         *)
(* setFetchedNoteContent and setPushedNote in detail; each is one step     *)
(* here.  Offline models the files fetched for offline notes.              *)
(***************************************************************************)
EXTENDS Naturals, FiniteSets, SequencesExt

CONSTANTS
    Hash,       \* the MD5 hashes of the attachments
    None,
    FoldKeys,   \* the settings files ignore the case of keys
    MaxSize,    \* attachments that fit a note, EDAM_NOTE_SIZE_MAX
    MaxGuid,    \* bound: resources that ever get a guid
    MaxChanges, \* bound: changes made by the page and by other clients
    MaxDepth    \* bound: groups left open on the settings of attachments.ini

ASSUME BoundsAssumption ==
    /\ IsFiniteSet(Hash) /\ None \notin Hash /\ FoldKeys \in BOOLEAN
    /\ {MaxSize, MaxGuid, MaxChanges} \subseteq Nat \ {0} /\ MaxDepth \in Nat

VARIABLES
    lists,      \* attachments.ini, by the groups its keys are nested in
    depth,      \* groups left open on the cached QSettings of the file
    files,      \* files in Attachments/
    pinned,     \* noteNeedsToBeAvailableOffline
    valid,      \* ContentValid of content.ini
    file,       \* Content of content.ini
    cache,      \* the content in the disk cache
    base,       \* BaseContentHash
    synced,     \* SyncContentHash
    flag,       \* in NotesToPush
    deferred,   \* in NoteIdsWithDeferredConflictResolution
    srv,        \* the resources of the note on the server
    srvShows,   \* the content on the server
    guids,      \* guids given so far
    pulled,     \* the saved USN covers the last change on the server
    page,       \* the note page and what it is doing
    sy,         \* where synchronize() is, and what it has heard
    call,       \* each thread's call of fetchNote
    changes,    \* changes made so far
    seen        \* observation only, see the properties

note == <<valid, file, cache, base, synced, flag, deferred>>
server == <<srv, srvShows, guids, pulled>>
vars == <<lists, depth, files, pinned, note, server, page, sy, call, changes, seen>>

Thread == {"ui", "sync"}
Content == SUBSET Hash
NoGuid == 0
Resource == [hash : Hash, guid : 1 .. MaxGuid]
Blank == [hash |-> None, guid |-> NoGuid]
Entry == [hash : Hash, guid : 0 .. MaxGuid] \cup {Blank}
Slot == 1 .. 2 * Cardinality(Hash) + 1
Depth == 0 .. MaxDepth

HashesOf(S) == {e.hash : e \in S}
\* The orders in which a reply may list the resources.
Orders(S) == {f \in [1 .. Cardinality(S) -> S] : IsInjective(f)}

NoList == [size |-> 0, at |-> [i \in Slot |-> Blank], removals |-> {}]
Closed == [pc |-> "closed", body |-> {}, base |-> {}, item |-> None]
Idle == [pc |-> "idle", list |-> <<>>, shows |-> {}, fresh |-> FALSE]
NoCall == [pc |-> "off", list |-> <<>>, shows |-> {}, late |-> FALSE]

Init ==
    \E first \in SUBSET {[hash |-> h, guid |-> 1] : h \in Hash} :
        /\ Cardinality(first) <= 1
        /\ srv = first /\ srvShows = HashesOf(first)
        /\ guids = Cardinality(first) /\ pulled = TRUE
        /\ lists = [d \in Depth |->
              IF d > 0 \/ first = {} THEN NoList
              ELSE [NoList EXCEPT !.size = 1, !.at[1] = CHOOSE r \in first : TRUE]]
        /\ depth = 0 /\ files = {}
        /\ pinned \in BOOLEAN
        /\ valid = FALSE /\ file = {} /\ cache = HashesOf(first)
        /\ base = HashesOf(first) /\ synced = HashesOf(first)
        /\ flag = FALSE /\ deferred = FALSE
        /\ page = Closed /\ sy = Idle /\ call = [p \in Thread |-> NoCall]
        /\ changes = 0
        /\ seen = [sent |-> HashesOf(first), dropped |-> {}, overtaken |-> FALSE,
                   strayed |-> FALSE]

-----------------------------------------------------------------------------
(* attachments.ini.  QSettings keeps the values written at an index until  *)
(* they are written again, and an array written without a size gets that   *)
(* of the last index set.                                                  *)

Ini == lists[depth]
Entries(a) == {a.at[i] : i \in 1 .. a.size}
ListOf(a) == [i \in 1 .. a.size |-> a.at[i]]
Listed == HashesOf(Entries(Ini))

WithList(a, s) ==
    [a EXCEPT !.size = Len(s),
              !.at = [i \in Slot |-> IF i <= Len(s) THEN s[i] ELSE a.at[i]]]

\* addAttachmentData
AddAttachmentData(a, h) ==
    LET new == [hash |-> h, guid |-> NoGuid]
        s   == ListOf(a)
    IN  IF h \in HashesOf(Entries(a))
          THEN WithList(a, [i \in DOMAIN s |-> IF s[i].hash = h THEN new ELSE s[i]])
          ELSE WithList(a, Append(s, new))

\* The entries of a but those of h, in their order
Others(a, h) ==
    LET rest     == {i \in 1 .. a.size : a.at[i].hash # h}
        place(i) == Cardinality({j \in rest : j <= i})
    IN  [k \in 1 .. Cardinality(rest) |-> a.at[CHOOSE i \in rest : place(i) = k]]

\* (a mutant: the empty guid of an unpushed attachment is written down too)
RemoveWithEmptyGuid(a, h) ==
    [WithList(a, Others(a, h))
        EXCEPT !.removals = @ \cup {e.guid : e \in {x \in Entries(a) : x.hash = h}}]

\* removeAttachmentData
RemoveAttachmentData(a, h) ==
    [WithList(a, Others(a, h))
        EXCEPT !.removals = @ \cup {e.guid : e \in {x \in Entries(a) :
                                        x.hash = h /\ x.guid # NoGuid}}]

\* The last of the old entries with this hash, as the QHash keeps it.
OldEntry(a, h) ==
    a.at[CHOOSE i \in 1 .. a.size :
            /\ a.at[i].hash = h
            /\ \A j \in i + 1 .. a.size : a.at[j].hash # h]

\* (a mutant: whatever is new on the server is passed over)
PassedOverAsNew(a, e, isAfterPush) ==
    ~isAfterPush /\ e.hash \notin HashesOf(Entries(a))

\* Removed here, and not pushed yet: the entry of the reply is passed over,
\* the index is not.
PassedOver(a, e, isAfterPush) ==
    ~isAfterPush /\ e.hash \notin HashesOf(Entries(a)) /\ e.guid \in a.removals

Taken(a, list, isAfterPush) ==
    HashesOf({e \in ToSet(list) : ~PassedOver(a, e, isAfterPush)})

\* The old entries that the reply does not have.
Unused(a, list) ==
    {OldEntry(a, h) : h \in HashesOf(Entries(a)) \ HashesOf(ToSet(list))}

\* (a mutant: an attachment is kept only if it was pushed before)
KeptPushed(a, list) ==
    {e \in Unused(a, list) : e.guid # NoGuid /\ e.hash \in files}

\* Not pushed yet, and its file is there.  The path of a blank entry is that
\* of the directory, which is there once something was appended here.
Kept(a, list) ==
    {e \in Unused(a, list) : e.guid = NoGuid /\ e.hash \in files \cup {None}}

\* The array that setAttachmentsDataFromServer writes
ServerList(a, list, kept, isAfterPush) ==
    LET got == [i \in DOMAIN list |->
                   IF PassedOver(a, list[i], isAfterPush) THEN a.at[i] ELSE list[i]]
    IN  [WithList(a, got \o kept) EXCEPT !.removals = IF isAfterPush THEN {} ELSE @]

\* The files it removes: those of pushed attachments, which go to the disk
\* cache, and those of attachments that the server no longer has.
FilesUnneeded(a, list, isAfterPush) ==
    (IF pinned THEN {} ELSE Taken(a, list, isAfterPush))
    \cup {e.hash : e \in {x \in Unused(a, list) : x.guid # NoGuid}}

\* setAttachmentsDataFromServer.  When there is nothing to do it returns
\* without endArray(), and the group stays open on the settings.
SetAttachmentsDataFromServer(list, isAfterPush, overtaken) ==
    IF Ini.size = 0 /\ list = <<>>
      THEN /\ depth < MaxDepth
           /\ depth' = depth + 1
           /\ UNCHANGED <<lists, files, seen>>
      ELSE /\ \E kept \in Orders(Kept(Ini, list)) :
                lists' = [lists EXCEPT ![depth] = ServerList(@, list, kept, isAfterPush)]
           /\ files' = files \ FilesUnneeded(Ini, list, isAfterPush)
           /\ seen' = [seen EXCEPT !.dropped = @ \ Taken(Ini, list, isAfterPush),
                                   !.overtaken = overtaken]
           /\ UNCHANGED depth

-----------------------------------------------------------------------------
(* The content, as noteData finds it.                                      *)

Available == valid \/ cache = synced
Shows == IF valid THEN file ELSE cache
\* isNoteContentUpToDate asks for "BaseContentUsn" where "BaseContentUSN" is
\* written: only where the case of keys is folded does it find it.
UpToDate == FoldKeys /\ synced = base /\ Available
HasUnpushedContent == flag /\ Available /\ Shows # base

\* updateNoteTitleAndContent: the page saves what it shows over the note.
Save(shows, pageBase) ==
    /\ valid' = TRUE /\ file' = shows
    /\ base' = pageBase
    /\ deferred' = (deferred \/ base # pageBase)
    /\ UNCHANGED <<cache, synced, flag>>

\* The end of appendAttachmentToNote, which looks for a change first.
SaveAppended(shows, pageBase) ==
    IF ~valid \/ file # shows THEN Save(shows, pageBase) ELSE UNCHANGED note

\* setFetchedNoteContent.  Contents that both changed are put together.
SetFetchedNoteContent(shows) ==
    IF base = shows /\ valid
      THEN UNCHANGED note
      ELSE LET conflict == base # shows /\ valid /\ file # base /\ file # shows
                           /\ file \cup shows # shows
           IN  /\ valid' = (conflict \/ pinned)
               /\ file' = IF conflict THEN file \cup shows
                          ELSE IF pinned THEN shows ELSE {}
               /\ cache' = IF conflict \/ pinned THEN cache ELSE shows
               /\ base' = shows /\ synced' = shows
               /\ UNCHANGED <<flag, deferred>>

\* setPushedNote
SetPushedNote(shows) ==
    LET drop == valid /\ file = shows /\ ~pinned
    IN  /\ base' = shows /\ synced' = shows
        /\ valid' = (valid /\ ~drop)
        /\ file' = IF drop THEN {} ELSE file
        /\ cache' = IF drop THEN shows ELSE cache
        /\ UNCHANGED <<flag, deferred>>

-----------------------------------------------------------------------------
(* The note page                                                           *)

Change == changes < MaxChanges /\ changes' = changes + 1

\* GetNoteDataThread finds the content here
Open ==
    /\ page = Closed /\ call["ui"] = NoCall
    /\ Available
    /\ page' = [Closed EXCEPT !.pc = "open", !.body = Shows, !.base = base]
    /\ UNCHANGED <<lists, depth, files, pinned, note, server, sy, call, seen, changes>>

Close ==
    /\ page.pc = "open"
    /\ page' = Closed
    /\ UNCHANGED <<lists, depth, files, pinned, note, server, sy, call, seen, changes>>

\* removeAttachmentInstanceFromNote, of the only instance in the note: the
\* entry, then the file, then the content, then the list of notes to push.
RemoveData(h) ==
    /\ page.pc = "open" /\ Change /\ h \in page.body
    /\ lists' = [lists EXCEPT ![depth] = RemoveAttachmentData(@, h)]
    /\ page' = [page EXCEPT !.pc = "removeFile", !.item = h]
    /\ seen' = [seen EXCEPT !.dropped = @ \cup {h}]
    /\ UNCHANGED <<depth, files, pinned, note, server, sy, call>>

RemoveFile ==
    /\ page.pc = "removeFile"
    /\ files' = files \ {page.item}
    /\ page' = [page EXCEPT !.pc = "removeContent"]
    /\ UNCHANGED <<lists, depth, pinned, note, server, sy, call, seen, changes>>

RemoveContent ==
    /\ page.pc = "removeContent"
    /\ LET body == page.body \ {page.item}
       IN  /\ Save(body, page.base)
           /\ page' = [page EXCEPT !.pc = "flag", !.body = body, !.item = None]
    /\ UNCHANGED <<lists, depth, files, pinned, server, sy, call, seen, changes>>

\* noteAttachmentsTotalSize and canNoteAccomodateAttachment, in attachments
TotalSize == Cardinality({i \in 1 .. Ini.size : Ini.at[i] # Blank})
CanNoteAccomodateAttachment == TotalSize < MaxSize

\* AddAttachmentsThread looks at the next file, and resizes an image ...
StartAppend(h) ==
    /\ page.pc = "open" /\ Change
    /\ CanNoteAccomodateAttachment
    /\ page' = [page EXCEPT !.pc = "appendFile", !.item = h]
    /\ UNCHANGED <<lists, depth, files, pinned, note, server, sy, call, seen>>

\* ... and may give up: cancelled, a file that cannot be read.
GiveUp ==
    /\ page.pc = "appendFile"
    /\ page' = [page EXCEPT !.pc = "open", !.item = None]
    /\ UNCHANGED <<lists, depth, files, pinned, note, server, sy, call, seen, changes>>

\* appendAttachmentToNote makes sure of the file, then of the entry, then of
\* the content, all under the note's content edit lock.
AppendFile ==
    /\ page.pc = "appendFile"
    /\ files' = files \cup {page.item}
    /\ page' = [page EXCEPT !.pc = "appendData"]
    /\ UNCHANGED <<lists, depth, pinned, note, server, sy, call, seen, changes>>

AppendData ==
    /\ page.pc = "appendData"
    /\ lists' = [lists EXCEPT ![depth] = AddAttachmentData(@, page.item)]
    /\ page' = [page EXCEPT !.pc = "appendContent"]
    /\ seen' = [seen EXCEPT !.dropped = @ \ {page.item}]
    /\ UNCHANGED <<depth, files, pinned, note, server, sy, call, changes>>

AppendContent ==
    /\ page.pc = "appendContent"
    /\ LET body == page.body \cup {page.item}
       IN  /\ SaveAppended(body, page.base)
           /\ page' = [page EXCEPT !.pc = "flag", !.body = body, !.item = None]
    /\ UNCHANGED <<lists, depth, files, pinned, server, sy, call, seen, changes>>

\* setNoteHasUnpushedChanges
SetUnpushed ==
    /\ page.pc = "flag"
    /\ flag' = TRUE
    /\ page' = [page EXCEPT !.pc = "open"]
    /\ UNCHANGED <<lists, depth, files, pinned, valid, file, cache, base, synced,
                   deferred, server, sy, call, seen, changes>>

EditLocked == page.pc \in {"appendData", "appendContent"}

-----------------------------------------------------------------------------
(* fetchNote, called by the page's thread and by synchronize               *)

\* The page's thread finds no content.
OpenAsk ==
    /\ page = Closed /\ call["ui"] = NoCall
    /\ ~Available
    /\ \E list \in Orders(srv) :
          call' = [call EXCEPT !["ui"] =
                     [pc |-> "store", list |-> list, shows |-> srvShows, late |-> FALSE]]
    /\ UNCHANGED <<lists, depth, files, pinned, note, server, page, sy, seen, changes>>

\* synchronize() fetches what has a deferred conflict, and of a chunk what is
\* to be offline but has no content here, or what was changed here.
ToFetch ==
    \/ sy.pc = "deferred"
    \/ sy.pc = "decide" /\ ((pinned /\ ~(synced = base /\ valid)) \/ HasUnpushedContent)

SyncAsk ==
    /\ call["sync"] = NoCall
    /\ ToFetch /\ ~UpToDate
    /\ \E list \in Orders(srv) :
          call' = [call EXCEPT !["sync"] =
                     [pc |-> "store", list |-> list, shows |-> srvShows, late |-> FALSE]]
    /\ UNCHANGED <<lists, depth, files, pinned, note, server, page, sy, seen, changes>>

\* Whatever sync stores makes what the page has asked for older.
PageLate == [call EXCEPT !["ui"].late = (call["ui"].pc = "store")]

FetchStore(p) ==
    /\ call[p].pc = "store"
    /\ SetAttachmentsDataFromServer(call[p].list, FALSE,
                                    seen.overtaken \/ (p = "ui" /\ call[p].late))
    /\ call' = [(IF p = "sync" THEN PageLate ELSE call) EXCEPT ![p] =
                     [NoCall EXCEPT !.pc = "content", !.shows = call[p].shows]]
    /\ UNCHANGED <<pinned, note, server, page, sy, changes>>

\* What follows the fetch in synchronize()
AfterFetch == IF sy.pc = "deferred" THEN "clearDeferred" ELSE "checkpoint"

FetchContent(p) ==
    /\ call[p].pc = "content"
    /\ ~EditLocked
    /\ SetFetchedNoteContent(call[p].shows)
    /\ call' = [call EXCEPT ![p] = NoCall]
    /\ IF p = "ui"
         THEN /\ page' = [Closed EXCEPT !.pc = "open", !.body = call[p].shows,
                                        !.base = call[p].shows]
              /\ UNCHANGED sy
         ELSE /\ sy' = [sy EXCEPT !.pc = AfterFetch]
              /\ UNCHANGED page
    /\ UNCHANGED <<lists, depth, files, pinned, server, seen, changes>>

\* There is no need to fetch, or getNote fails: its result is ignored.
SyncNoFetch ==
    /\ sy.pc \in {"deferred", "decide"} /\ call["sync"] = NoCall
    /\ sy' = [sy EXCEPT !.pc = AfterFetch]
    /\ UNCHANGED <<lists, depth, files, pinned, note, server, page, call, seen, changes>>

-----------------------------------------------------------------------------
(* synchronize()                                                           *)

Begin ==
    /\ sy = Idle
    /\ sy' = [sy EXCEPT !.pc = IF deferred THEN "deferred" ELSE "pull"]
    /\ UNCHANGED <<lists, depth, files, pinned, note, server, page, call, seen, changes>>

ClearDeferred ==
    /\ sy.pc = "clearDeferred"
    /\ deferred' = FALSE
    /\ sy' = [sy EXCEPT !.pc = "pull"]
    /\ UNCHANGED <<lists, depth, files, pinned, valid, file, cache, base, synced, flag,
                   server, page, call, seen, changes>>

\* The note is in the next chunk, or nothing has changed on the server.
Pull ==
    /\ sy.pc = "pull"
    /\ IF pulled
         THEN sy' = [Idle EXCEPT !.pc = "push"]
         ELSE \E list \in Orders(srv) :
                sy' = [pc |-> "gist", list |-> list, shows |-> srvShows, fresh |-> TRUE]
    /\ UNCHANGED <<lists, depth, files, pinned, note, server, page, call, seen, changes>>

StoreNoteGist ==
    /\ sy.pc = "gist"
    /\ synced' = sy.shows
    /\ sy' = [sy EXCEPT !.pc = "attachments", !.shows = {}]
    /\ UNCHANGED <<lists, depth, files, pinned, valid, file, cache, base, flag, deferred,
                   server, page, call, seen, changes>>

StoreNoteAttachments ==
    /\ sy.pc = "attachments"
    /\ SetAttachmentsDataFromServer(sy.list, FALSE, FALSE)
    /\ call' = PageLate
    /\ sy' = [sy EXCEPT !.pc = "decide", !.list = <<>>]
    /\ UNCHANGED <<pinned, note, server, page, changes>>

Checkpoint ==
    /\ sy.pc = "checkpoint"
    /\ pulled' = sy.fresh
    /\ sy' = [Idle EXCEPT !.pc = "push"]
    /\ UNCHANGED <<lists, depth, files, pinned, note, srv, srvShows, guids, page, call, seen, changes>>

\* What the push loop reads of the note first: the content.
ReadNote ==
    /\ sy.pc = "push"
    /\ sy' = IF flag /\ Available /\ synced = base /\ Shows # base
               THEN [Idle EXCEPT !.pc = "resources", !.shows = Shows]
               ELSE IF flag /\ Available /\ synced = base
                 THEN [Idle EXCEPT !.pc = "clear", !.fresh = pulled]
                 ELSE Idle
    /\ UNCHANGED <<lists, depth, files, pinned, note, server, page, call, seen, changes>>

\* setEdamNoteResources.  A blank entry, or an unpushed one without its file,
\* and the note is not pushed.
CanSend(e) == e # Blank /\ (e.guid = NoGuid => e.hash \in files)

SetEdamNoteResources ==
    /\ sy.pc = "resources"
    /\ sy' = IF \A e \in Entries(Ini) : CanSend(e)
               THEN [sy EXCEPT !.pc = "call", !.list = ListOf(Ini)]
               ELSE Idle
    /\ UNCHANGED <<lists, depth, files, pinned, note, server, page, call, seen, changes>>

\* updateNote: resources without a guid get one, unless the server knows the
\* body; the rest is replaced by what is sent.
NewHashes(s) == {h \in HashesOf(ToSet(s)) : h \notin HashesOf(srv)}

UpdateNote(answered) ==
    /\ sy.pc = "call"
    /\ \A e \in ToSet(sy.list) : e.guid # NoGuid => e \in srv
    /\ guids' = guids + Cardinality(NewHashes(sy.list)) /\ guids' <= MaxGuid
    /\ \E new \in Orders(NewHashes(sy.list)) :
          srv' = {r \in srv : r.hash \in HashesOf(ToSet(sy.list))}
                 \cup {[hash |-> new[i], guid |-> guids + i] : i \in DOMAIN new}
    /\ srvShows' = sy.shows
    /\ pulled' = FALSE
    /\ seen' = [seen EXCEPT !.sent = @ \cup HashesOf(srv')]
    /\ IF answered
         THEN \E list \in Orders(srv') :
                sy' = [sy EXCEPT !.pc = "pushedNote", !.list = list, !.fresh = pulled]
         ELSE sy' = Idle
    /\ UNCHANGED <<lists, depth, files, pinned, note, page, call, changes>>

UpdateNoteFails ==
    /\ sy.pc = "call"
    /\ sy' = Idle
    /\ UNCHANGED <<lists, depth, files, pinned, note, server, page, call, seen, changes>>

StorePushedNote ==
    /\ sy.pc = "pushedNote"
    /\ SetPushedNote(sy.shows)
    /\ sy' = [sy EXCEPT !.pc = "pushedAttachments", !.shows = {}]
    /\ UNCHANGED <<lists, depth, files, pinned, server, page, call, seen, changes>>

StorePushedAttachments ==
    /\ sy.pc = "pushedAttachments"
    /\ SetAttachmentsDataFromServer(sy.list, TRUE, FALSE)
    /\ call' = PageLate
    /\ sy' = [sy EXCEPT !.pc = "clear", !.list = <<>>]
    /\ UNCHANGED <<pinned, note, server, page, changes>>

\* The note leaves NotesToPush; the USN moves on if the push was all there was.
Pushed ==
    /\ sy.pc = "clear"
    /\ flag' = FALSE
    /\ pulled' = sy.fresh
    /\ sy' = Idle
    /\ UNCHANGED <<lists, depth, files, pinned, valid, file, cache, base, synced, deferred,
                   srv, srvShows, guids, page, call, seen, changes>>

-----------------------------------------------------------------------------
(* Another client, the cache of settings, and the end of the process       *)

ServerChanges(resources, shows) ==
    /\ Change
    /\ srv' = resources /\ srvShows' = shows
    /\ pulled' = FALSE
    /\ sy' = [sy EXCEPT !.fresh = FALSE]
    /\ seen' = [seen EXCEPT !.sent = @ \cup HashesOf(resources)]
    /\ UNCHANGED <<lists, depth, files, pinned, note, page, call>>

ServerAdds(h) ==
    /\ h \notin HashesOf(srv) /\ guids < MaxGuid
    /\ guids' = guids + 1
    /\ ServerChanges(srv \cup {[hash |-> h, guid |-> guids + 1]}, srvShows \cup {h})

ServerRemoves(h) ==
    /\ h \in HashesOf(srv)
    /\ ServerChanges({r \in srv : r.hash # h}, srvShows \ {h})
    /\ UNCHANGED guids

\* Another title, say
ServerTouches ==
    /\ pulled \/ sy.fresh
    /\ ServerChanges(srv, srvShows)
    /\ UNCHANGED guids

\* The settings are read from their file again, with no group open: what is
\* in nested groups is not found any more.
Reload ==
    /\ depth' = 0
    /\ seen' = [seen EXCEPT !.strayed = @ \/ depth > 0]

\* The cached QSettings of attachments.ini makes room for others.
Evict ==
    /\ Reload
    /\ depth # 0
    /\ UNCHANGED <<lists, files, pinned, note, server, page, sy, call, changes>>

\* The process ends, at any point; what the settings have is on the disk.
Restart ==
    /\ page' = Closed /\ sy' = Idle /\ call' = [p \in Thread |-> NoCall]
    /\ Reload
    /\ UNCHANGED <<lists, files, pinned, note, server, changes>>

Page ==
    \/ Open \/ Close \/ OpenAsk
    \/ \E h \in Hash : RemoveData(h) \/ StartAppend(h)
    \/ RemoveFile \/ RemoveContent
    \/ GiveUp \/ AppendFile \/ AppendData \/ AppendContent \/ SetUnpushed

Synchronize ==
    \/ Begin \/ SyncAsk \/ SyncNoFetch \/ ClearDeferred
    \/ Pull \/ StoreNoteGist \/ StoreNoteAttachments \/ Checkpoint
    \/ ReadNote \/ SetEdamNoteResources
    \/ \E answered \in BOOLEAN : UpdateNote(answered)
    \/ UpdateNoteFails \/ StorePushedNote \/ StorePushedAttachments \/ Pushed

OtherClient ==
    \/ \E h \in Hash : ServerAdds(h) \/ ServerRemoves(h)
    \/ ServerTouches

Next ==
    \/ Page \/ Synchronize \/ OtherClient
    \/ \E p \in Thread : FetchStore(p) \/ FetchContent(p)
    \/ Evict \/ Restart

Spec == Init /\ [][Next]_vars

-----------------------------------------------------------------------------
(* Properties                                                              *)

Pcs == {"idle", "deferred", "clearDeferred", "pull", "gist", "attachments", "decide",
        "checkpoint", "push", "resources", "call", "pushedNote",
        "pushedAttachments", "clear"}
TypeOK ==
    /\ lists \in [Depth -> [size : {0} \cup Slot, at : [Slot -> Entry],
                           removals : SUBSET (1 .. MaxGuid)]]
    /\ depth \in Depth /\ files \in Content
    /\ <<pinned, valid, flag>> \in BOOLEAN \X BOOLEAN \X BOOLEAN
    /\ <<file, cache>> \in Content \X Content
    /\ <<base, synced, deferred>> \in Content \X Content \X BOOLEAN
    /\ srv \in SUBSET Resource /\ srvShows \in Content
    /\ guids \in 0 .. MaxGuid /\ pulled \in BOOLEAN /\ changes \in 0 .. MaxChanges
    /\ page \in [pc : {"closed", "open", "removeFile", "removeContent", "appendFile", "appendData",
                       "appendContent", "flag"},
                 body : Content, base : Content, item : Hash \cup {None}]
    /\ sy \in [pc : Pcs, list : Seq(Entry), shows : Content, fresh : BOOLEAN]
    /\ call \in [Thread -> [pc : {"off", "store", "content"}, list : Seq(Resource),
                            shows : Content, late : BOOLEAN]]
    /\ seen \in [sent : Content, dropped : Content, overtaken : BOOLEAN, strayed : BOOLEAN]

\* What is appended here is not lost before the server has had it: an
\* attachment that the note shows, and that the server never got, is in
\* attachments.ini with its file, whatever pulls, merges, pushes and restarts
\* come in between (setAttachmentsDataFromServer).  The exceptions: it was
\* removed here (seen.dropped), or nested settings were reloaded
\* (seen.strayed, see AppendedStaysListed).
AppendedKept ==
    Available /\ ~seen.strayed =>
        \A h \in Shows \ (seen.sent \cup seen.dropped) :
            h \in Listed /\ h \in files

\* When the last change of the server is pulled and no sync runs, the list has
\* every resource of the server but those removed here: the next push, which
\* replaces the resources by the list, takes no other off the server.  The
\* exceptions: a page stored an answer that was older than what sync had
\* stored (seen.overtaken), and nested settings.
NothingForgotten ==
    sy = Idle /\ pulled /\ ~seen.overtaken /\ ~seen.strayed =>
        \A r \in srv : r.hash \in Listed \cup seen.dropped

\* What a comment of the code says of an attachment removed here that a pull
\* still lists: it "Shouldn't be added".
RemovedStaysRemoved ==
    sy.pc = "decide" =>
        \A e \in Entries(Ini) : e.guid \notin Ini.removals

\* "appends attachmentData to attachments.ini": what the page appended, and
\* shows, is there.
AppendedStaysListed ==
    page.pc = "open" /\ Available /\ Shows = page.body =>
        \A h \in page.body \ (seen.sent \cup seen.dropped) : h \in Listed

=============================================================================
