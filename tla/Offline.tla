------------------------------- MODULE Offline -------------------------------
(***************************************************************************)
(* Notes available offline: a note that came from the server, which is to  *)
(* be kept here while it is a favourite or while its notebook is an        *)
(* offline notebook.  A change of that status is written to a list of      *)
(* unresolved changes; the interface's timer and the synchronisation work  *)
(* on that list, at the same time, and the user goes on changing things.   *)
(*                                                                         *)
(* Contents are numbered by the edit that made them, the attachment of the *)
(* note by the version of it that the server has.  A step is one locked    *)
(* access of a settings file, one change of a file, or one call to the     *)
(* server; setFetchedNoteContent, setPushedNote and                        *)
(* setAttachmentsDataFromServer, which NoteSync and Attachments model in   *)
(* detail, are one step each.                                              *)
(***************************************************************************)
EXTENDS Naturals

CONSTANTS
    FoldKeys,       \* QSettings takes keys that differ in case for one
    MaxContent,     \* bound: contents that the note ever has
    MaxAttachment,  \* bound: versions of the attachment
    MaxChanges,     \* bound: changes of the note or its status, restarts
    Unmerged        \* contents that take the place of an edit when fetched:
                    \* they do not parse, or have all of the edit in them

ASSUME BoundsAssumption ==
    /\ FoldKeys \in BOOLEAN
    /\ MaxContent \in Nat \ {0} /\ MaxAttachment \in Nat \ {0} /\ MaxChanges \in Nat
    /\ Unmerged \subseteq 1 .. MaxContent

VARIABLES
    status,     \* what decides whether the note must be here
    marked,     \* OfflineStatusChangeUnresolvedNotes has the note
    bookMarked, \* OfflineStatusChangeUnresolvedNotebooks has the notebook
    content,    \* content.ini, gist.ini and the cached content
    att,        \* attachments.ini, the files of the attachment, the cached one
    flag,       \* in NotesToPush
    deferred,   \* in NoteIdsWithDeferredConflictResolution
    page,       \* the base content that the open note page began with
    server,     \* the note on the server
    gui,        \* what the user's last change has still to do, and the timer
    job,        \* each thread's tryResolveOfflineStatusChange
    fetch,      \* fetchNoteAndAttachmentsForOfflineAccess
    sy,         \* where synchronize() is
    changes,    \* changes made so far
    forgot      \* observation only: the note may be missing, see Kept

store == <<status, marked, bookMarked, content, att, flag, deferred>>
vars == <<status, marked, bookMarked, content, att, flag, deferred, page, server, gui, job,
          fetch, sy, changes, forgot>>

Thread == {"gui", "sync"}
None == 0                       \* no content, an empty hash
Contents == 0 .. MaxContent
Atts == 1 .. MaxAttachment

NoJob == [pc |-> "off", base |-> None, ok |-> FALSE, required |-> FALSE, made |-> FALSE]
NoFetch == [pc |-> "off", content |-> None, att |-> 1, files |-> TRUE]
Idle == [pc |-> "idle", content |-> None, att |-> 1, inBook |-> FALSE, fresh |-> FALSE]

Init ==
    \E inBook \in BOOLEAN :
        /\ status = [favourite |-> FALSE, inBook |-> inBook, bookOffline |-> FALSE]
        /\ marked = FALSE /\ bookMarked = FALSE
        /\ content = [valid |-> FALSE, file |-> None, cache |-> None, base |-> None,
                      synced |-> 1]
        /\ att = [listed |-> 1, byHash |-> {}, byGuid |-> {}, cached |-> {}]
        /\ flag = FALSE /\ deferred = FALSE /\ page = None
        /\ server = [content |-> 1, att |-> 1, inBook |-> inBook, last |-> 1, pulled |-> TRUE]
        /\ gui = [pc |-> "idle", timer |-> FALSE]
        /\ job = [p \in Thread |-> NoJob]
        /\ fetch = NoFetch /\ sy = Idle
        /\ changes = 0 /\ forgot = FALSE

-----------------------------------------------------------------------------
(* What the storage manager tells and does                                 *)

\* noteNeedsToBeAvailableOffline, of a note that was not created here
Needed == status.favourite \/ (status.inBook /\ status.bookOffline)

\* The content is built on the latest that is known of.
Latest == content.base # None /\ content.synced = content.base

\* noteContentAvailableOffline
ContentAvailableOffline == Latest /\ content.valid

\* noteAttachmentsAvailableOffline: attachmentsData finds a path for it
HasFile == att.listed \in att.byHash \cup att.byGuid

\* (a mutant: it is not looked whether the content is the latest)
ResolvedByFiles == content.valid /\ HasFile

\* When tryResolveOfflineStatusChange is content with what the cache had
Resolved == ContentAvailableOffline /\ HasFile

\* noteData: content that the page can show and change
Available == content.valid \/ (content.cache # None /\ content.cache = content.synced)
Shows == IF content.valid THEN content.file ELSE content.cache

\* isNoteContentUpToDate reads BaseContentUSN under another case.
UpToDate ==
    /\ FoldKeys /\ Latest
    /\ content.valid \/ content.cache = content.base

\* setFetchedNoteContent.  What both changed is put together, which still
\* counts as the edit, unless resolveConflict fails or keeps nothing of it.
SetFetchedNoteContent(got) ==
    LET edited == content.file \notin {content.base, got}
        conflict == /\ content.base \notin {None, got}
                    /\ content.valid /\ edited /\ got \notin Unmerged
        upToDate == content.base = got /\ content.valid
        pinned == conflict \/ Needed
    IN  content' = IF upToDate THEN content
                   ELSE [valid  |-> pinned,
                         file   |-> IF conflict THEN content.file
                                    ELSE IF Needed THEN got ELSE None,
                         cache  |-> IF pinned THEN content.cache ELSE got,
                         base   |-> got, synced |-> got]

\* setPushedNote
SetPushedNote(pushed) ==
    LET drop == content.valid /\ content.file = pushed /\ ~Needed
    IN  content' = [valid  |-> content.valid /\ ~drop,
                    file   |-> IF drop THEN None ELSE content.file,
                    cache  |-> IF drop THEN pushed ELSE content.cache,
                    base   |-> pushed, synced |-> pushed]

\* setAttachmentsDataFromServer.  The local file goes to the disk cache unless
\* the note is needed; that of an older version goes.
SetAttachmentsDataFromServer(version) ==
    att' = [listed |-> version,
            byHash |-> IF Needed THEN att.byHash \cap {version} ELSE {},
            byGuid |-> IF Needed THEN att.byGuid \cap {version} ELSE {},
            cached |-> IF ~Needed /\ version \in att.byHash \cup att.byGuid
                         THEN att.cached \cup {version} ELSE att.cached]

-----------------------------------------------------------------------------
(* The user                                                                *)

Change == changes < MaxChanges /\ changes' = changes + 1
Free == gui.pc = "idle" /\ job["gui"].pc = "off"

\* Work on the note is under way that decided before this change.
UnderWay ==
    \/ job["sync"].pc # "off" \/ fetch.pc # "off"
    \/ sy.pc \in {"clearNote", "clearBook"}

\* setFavouriteNote, on a note: the change itself ...
SetFavourite ==
    /\ Free /\ Change
    /\ status' = [status EXCEPT !.favourite = ~@]
    /\ gui' = [gui EXCEPT !.pc = "flagNote"]
    /\ forgot' = (forgot \/ UnderWay)
    /\ UNCHANGED <<marked, bookMarked, content, att, flag, deferred, page, server, job, fetch, sy>>

\* ... or setNotebookForNote, into or out of the notebook ...
SetNotebookForNote ==
    /\ Free /\ Change
    /\ status' = [status EXCEPT !.inBook = ~@]
    /\ gui' = [gui EXCEPT !.pc = IF status.bookOffline THEN "flagNote" ELSE "flagOnly"]
    /\ forgot' = (forgot \/ (UnderWay /\ status.bookOffline))
    /\ UNCHANGED <<marked, bookMarked, content, att, flag, deferred, page, server, job, fetch, sy>>

\* ... then it is a note to push ...
SetNoteHasUnpushedChanges ==
    /\ gui.pc \in {"flagNote", "flagOnly"}
    /\ flag' = TRUE
    /\ gui' = [gui EXCEPT !.pc = IF @ = "flagNote" THEN "markNote" ELSE "idle"]
    /\ UNCHANGED <<status, marked, bookMarked, content, att, deferred, page, server, job,
                   fetch, sy, changes, forgot>>

\* ... then one with an unresolved status, and the timer is started again.
MarkNote ==
    /\ gui.pc = "markNote"
    /\ marked' = TRUE
    /\ gui' = [pc |-> "idle", timer |-> TRUE]
    /\ UNCHANGED <<status, bookMarked, content, att, flag, deferred, page, server, job, fetch,
                   sy, changes, forgot>>

\* setOfflineNotebookIds: first the notebook is one with an unresolved status,
\* then the list of offline notebooks changes.
MarkBook ==
    /\ Free /\ Change
    /\ bookMarked' = TRUE
    /\ gui' = [gui EXCEPT !.pc = "book"]
    /\ UNCHANGED <<status, marked, content, att, flag, deferred, page, server, job, fetch, sy,
                   forgot>>

SetOfflineNotebookIds ==
    /\ gui.pc = "book"
    /\ status' = [status EXCEPT !.bookOffline = ~@]
    /\ gui' = [gui EXCEPT !.pc = "idle"]
    /\ forgot' = (forgot \/ ~bookMarked \/ UnderWay)
    /\ UNCHANGED <<marked, bookMarked, content, att, flag, deferred, page, server, job, fetch,
                   sy, changes>>

\* updateNoteTitleAndContent: the page saves a new text, and with it sets the
\* base back to what it was when the page was opened.  It holds the edit lock
\* until the conflict is down.
Edit ==
    /\ Free /\ Change /\ page # None /\ server.last < MaxContent
    /\ content' = [content EXCEPT !.valid = TRUE, !.file = server.last + 1, !.base = page]
    /\ server' = [server EXCEPT !.last = @ + 1]
    /\ gui' = [gui EXCEPT !.pc = IF content.base \in {None, page} THEN "flagOnly" ELSE "defer"]
    /\ UNCHANGED <<status, marked, bookMarked, att, flag, deferred, page, job, fetch, sy, forgot>>

\* The deferred conflicts are read as none, or have been fetched for, and the
\* list is still to be cleared.
Clearing == sy.pc = "clearConflicts" \/ (sy.pc = "fetchConflict" /\ fetch.pc = "done")

\* If the base was another, that is a conflict for the next synchronisation.
DeferConflict ==
    /\ gui.pc = "defer"
    /\ deferred' = TRUE
    /\ gui' = [gui EXCEPT !.pc = "flagOnly"]
    /\ forgot' = (forgot \/ Clearing)
    /\ UNCHANGED <<status, marked, bookMarked, content, att, flag, page, server, job, fetch,
                   sy, changes>>

\* The page shows the note, online: its content is fetched if it is not here,
\* and the web view caches the attachment.
ShowNote ==
    /\ Free
    /\ IF Available
         THEN /\ att' = [att EXCEPT !.cached = @ \cup {att.listed}]
              /\ page' = content.base
              /\ UNCHANGED content
         ELSE /\ SetAttachmentsDataFromServer(server.att)
              /\ SetFetchedNoteContent(server.content)
              /\ page' = server.content
    /\ UNCHANGED <<status, marked, bookMarked, flag, deferred, server, gui, job, fetch, sy, changes,
                   forgot>>

-----------------------------------------------------------------------------
(* tryResolveOfflineStatusChange, on either thread                         *)

Start(p) == job' = [job EXCEPT ![p] = [NoJob EXCEPT !.pc = "needs"]]

\* The timer fires, five seconds after the last change of status.
TimerFires ==
    /\ Free /\ gui.timer
    /\ gui' = [gui EXCEPT !.timer = FALSE]
    /\ IF marked THEN Start("gui") ELSE UNCHANGED job
    /\ UNCHANGED <<store, page, server, fetch, sy, changes, forgot>>

JobNeeds(p) ==
    /\ job[p].pc = "needs"
    /\ job' = [job EXCEPT ![p] = [@ EXCEPT !.pc = IF Needed THEN "content" ELSE "base",
                                         !.required = Needed]]
    /\ UNCHANGED <<store, page, server, gui, fetch, sy, changes, forgot>>

\* tryMakeNoteContentAvailableOfflineWithCachedData: whatever the cache has
JobContent(p) ==
    /\ job[p].pc = "content"
    /\ content' = IF ~content.valid /\ content.cache # None
                    THEN [content EXCEPT !.valid = TRUE, !.file = content.cache] ELSE content
    /\ job' = [job EXCEPT ![p] = [@ EXCEPT !.pc = "files",
                                         !.ok = content.valid \/ content.cache # None]]
    /\ UNCHANGED <<status, marked, bookMarked, att, flag, deferred, page, server, gui, fetch,
                   sy, changes, forgot>>

\* tryMakeNoteAttachmentsAvailableOfflineWithCachedData: it looks for the file
\* under the guid only.
JobFiles(p) ==
    /\ job[p].pc = "files"
    /\ LET there == att.listed \in att.byGuid \cup att.cached
       IN  /\ att' = IF there THEN [att EXCEPT !.byGuid = @ \cup {att.listed}] ELSE att
           /\ job' = [job EXCEPT ![p] = [@ EXCEPT !.pc = IF there /\ job[p].ok THEN "check" ELSE "done",
                                                !.ok = FALSE]]
    /\ UNCHANGED <<status, marked, bookMarked, content, flag, deferred, page, server, gui,
                   fetch, sy, changes, forgot>>

JobCheck(p) ==
    /\ job[p].pc = "check"
    /\ job' = [job EXCEPT ![p].pc = IF Resolved THEN "clear" ELSE "done"]
    /\ UNCHANGED <<store, page, server, gui, fetch, sy, changes, forgot>>

\* makeNoteContentUnavailableOfflineIfUnedited reads the base content's hash ...
JobBase(p) ==
    /\ job[p].pc = "base"
    /\ job' = [job EXCEPT ![p] = [@ EXCEPT !.pc = "drop", !.base = content.base]]
    /\ UNCHANGED <<store, page, server, gui, fetch, sy, changes, forgot>>

\* (a mutant: it does not look whether the user has edited the note)
UneditedOrNot(base) == base # None /\ content.valid

Unedited(base) == base # None /\ content.valid /\ content.file = base

\* (a mutant: only ContentValid is reset)
MovedToCacheNotCleared == [content EXCEPT !.valid = FALSE, !.cache = content.file]

MovedToCache == [content EXCEPT !.valid = FALSE, !.file = None, !.cache = content.file]

\* ... and moves the content to the cache if it is that.
JobDrop(p) ==
    /\ job[p].pc = "drop"
    /\ content' = IF Unedited(job[p].base) THEN MovedToCache ELSE content
    /\ job' = [job EXCEPT ![p] = [@ EXCEPT !.pc = "dropFiles", !.base = None]]
    /\ UNCHANGED <<status, marked, bookMarked, att, flag, deferred, page, server, gui, fetch,
                   sy, changes, forgot>>

\* makeNoteAttachmentsUnavailableOffline, again under the guid only
JobDropFiles(p) ==
    /\ job[p].pc = "dropFiles"
    /\ att' = [att EXCEPT !.byGuid = @ \ {att.listed},
                          !.cached = @ \cup (att.byGuid \cap {att.listed})]
    /\ job' = [job EXCEPT ![p].pc = "clear"]
    /\ UNCHANGED <<status, marked, bookMarked, content, flag, deferred, page, server, gui,
                   fetch, sy, changes, forgot>>

\* It is no longer unresolved.
JobClear(p) ==
    /\ job[p].pc = "clear"
    /\ marked' = FALSE
    /\ job' = [job EXCEPT ![p] = [@ EXCEPT !.pc = "done", !.made = job[p].required]]
    /\ UNCHANGED <<status, bookMarked, content, att, flag, deferred, page, server, gui, fetch,
                   sy, changes, forgot>>

JobDone ==
    /\ job["gui"].pc = "done"
    /\ job' = [job EXCEPT !["gui"] = NoJob]
    /\ UNCHANGED <<store, page, server, gui, fetch, sy, changes, forgot>>

Job(p) ==
    \/ JobNeeds(p) \/ JobContent(p) \/ JobFiles(p) \/ JobCheck(p)
    \/ JobBase(p) \/ JobDrop(p) \/ JobDropFiles(p) \/ JobClear(p)

-----------------------------------------------------------------------------
(* fetchNoteAndAttachmentsForOfflineAccess, in the synchronisation         *)

StartFetch == fetch' = [NoFetch EXCEPT !.pc = "needs"]

FetchNeeds ==
    /\ fetch.pc = "needs"
    /\ fetch' = [fetch EXCEPT !.pc = IF ~Needed THEN "done"
                                    ELSE IF ContentAvailableOffline THEN "files" ELSE "note"]
    /\ UNCHANGED <<store, page, server, gui, job, sy, changes, forgot>>

AfterNote == IF fetch.files THEN "files" ELSE "done"

\* fetchNote does nothing for content that is up to date, be it in the cache.
FetchUpToDate ==
    /\ fetch.pc = "note" /\ UpToDate
    /\ fetch' = [fetch EXCEPT !.pc = AfterNote]
    /\ forgot' = (forgot \/ (Needed /\ ~content.valid))
    /\ UNCHANGED <<store, page, server, gui, job, sy, changes>>

FetchNote ==
    /\ fetch.pc = "note" /\ ~UpToDate
    /\ fetch' = [fetch EXCEPT !.pc = "storeAttachments", !.content = server.content,
                              !.att = server.att]
    /\ UNCHANGED <<store, page, server, gui, job, sy, changes, forgot>>

FetchStoreAttachments ==
    /\ fetch.pc = "storeAttachments"
    /\ SetAttachmentsDataFromServer(fetch.att)
    /\ fetch' = [fetch EXCEPT !.pc = "storeContent"]
    /\ UNCHANGED <<status, marked, bookMarked, content, flag, deferred, page, server, gui, job,
                   sy, changes, forgot>>

FetchStoreContent ==
    /\ fetch.pc = "storeContent" /\ gui.pc # "defer"
    /\ SetFetchedNoteContent(fetch.content)
    /\ fetch' = [NoFetch EXCEPT !.pc = AfterNote]
    /\ UNCHANGED <<status, marked, bookMarked, att, flag, deferred, page, server, gui, job, sy,
                   changes, forgot>>

\* fetchOfflineNoteAttachment, of an attachment without a file
FetchFiles ==
    /\ fetch.pc = "files"
    /\ IF HasFile
         THEN fetch' = [fetch EXCEPT !.pc = "done"]
         ELSE /\ att.listed = server.att
              /\ fetch' = [fetch EXCEPT !.pc = "keep", !.att = att.listed]
    /\ UNCHANGED <<store, page, server, gui, job, sy, changes, forgot>>

\* setOfflineNoteAttachmentContent: under the hash
FetchKeep ==
    /\ fetch.pc = "keep"
    /\ att' = IF Needed THEN [att EXCEPT !.byHash = @ \cup {fetch.att}] ELSE att
    /\ fetch' = [NoFetch EXCEPT !.pc = "done"]
    /\ UNCHANGED <<status, marked, bookMarked, content, flag, deferred, page, server, gui, job,
                   sy, changes, forgot>>

\* getNote fails, or the download does, or what it brings is an error page,
\* whose size is not the attachment's.
FetchFails ==
    /\ \/ fetch.pc = "note" /\ ~UpToDate
       \/ fetch.pc = "files" /\ ~HasFile
    /\ fetch' = [fetch EXCEPT !.pc = IF @ = "note" THEN AfterNote ELSE "done"]
    /\ forgot' = TRUE
    /\ UNCHANGED <<store, page, server, gui, job, sy, changes>>

Fetch ==
    \/ FetchNeeds \/ FetchUpToDate \/ FetchNote \/ FetchStoreAttachments
    \/ FetchStoreContent \/ FetchFiles \/ FetchKeep \/ FetchFails

-----------------------------------------------------------------------------
(* synchronize()                                                           *)

\* syncStarted() stops the timer.
Begin ==
    /\ sy = Idle /\ Free
    /\ sy' = [sy EXCEPT !.pc = "state"]
    /\ gui' = [gui EXCEPT !.timer = FALSE]
    /\ UNCHANGED <<store, page, server, job, fetch, changes, forgot>>

\* getSyncState is answered; then tryResolveOfflineStatusChanges.
SyncState ==
    /\ sy.pc = "state"
    /\ IF marked
         THEN Start("sync") /\ sy' = [sy EXCEPT !.pc = "resolveNote"]
         ELSE UNCHANGED job /\ sy' = [sy EXCEPT !.pc = "conflicts"]
    /\ UNCHANGED <<store, page, server, gui, fetch, changes, forgot>>

ResolvedNote ==
    /\ sy.pc = "resolveNote" /\ job["sync"].pc = "done"
    /\ job' = [job EXCEPT !["sync"] = NoJob]
    /\ IF marked
         THEN StartFetch /\ sy' = [sy EXCEPT !.pc = "fetchNote"]
         ELSE UNCHANGED fetch /\ sy' = [sy EXCEPT !.pc = "conflicts"]
    /\ UNCHANGED <<store, page, server, gui, changes, forgot>>

\* Whatever came of a fetch, the synchronisation goes on.
FetchDone ==
    /\ fetch.pc = "done"
    /\ fetch' = NoFetch
    /\ sy' = [sy EXCEPT !.pc = CASE @ = "fetchNote" -> "clearNote"
                                 [] @ = "fetchConflict" -> "clearConflicts"
                                 [] @ = "fetchBook" -> "clearBook"
                                 [] @ = "fetchChunk" -> "checkpoint"]
    /\ UNCHANGED <<store, page, server, gui, job, changes, forgot>>

ClearNote ==
    /\ sy.pc = "clearNote"
    /\ marked' = FALSE
    /\ sy' = [sy EXCEPT !.pc = "conflicts"]
    /\ UNCHANGED <<status, bookMarked, content, att, flag, deferred, page, server, gui, job,
                   fetch, changes, forgot>>

\* The deferred conflicts: a fetch, which puts the contents together ...
Conflicts ==
    /\ sy.pc = "conflicts"
    /\ IF deferred
         THEN /\ fetch' = [NoFetch EXCEPT !.pc = "note", !.files = FALSE]
              /\ sy' = [sy EXCEPT !.pc = "fetchConflict"]
         ELSE UNCHANGED fetch /\ sy' = [sy EXCEPT !.pc = "clearConflicts"]
    /\ UNCHANGED <<store, page, server, gui, job, changes, forgot>>

\* ... and whatever came of it, the list is cleared, with what is new on it.
ClearConflicts ==
    /\ sy.pc = "clearConflicts"
    /\ deferred' = FALSE
    /\ sy' = [sy EXCEPT !.pc = "books"]
    /\ UNCHANGED <<status, marked, bookMarked, content, att, flag, page, server, gui, job,
                   fetch, changes, forgot>>

\* The notebooks with an unresolved status, and the notes that are in them
Books ==
    /\ sy.pc = "books"
    /\ IF bookMarked /\ status.inBook
         THEN Start("sync") /\ sy' = [sy EXCEPT !.pc = "resolveBook"]
         ELSE /\ UNCHANGED job
              /\ sy' = [sy EXCEPT !.pc = IF bookMarked THEN "clearBook" ELSE "pull"]
    /\ UNCHANGED <<store, page, server, gui, fetch, changes, forgot>>

ResolvedBook ==
    /\ sy.pc = "resolveBook" /\ job["sync"].pc = "done"
    /\ job' = [job EXCEPT !["sync"] = NoJob]
    /\ IF job["sync"].required /\ ~job["sync"].made
         THEN StartFetch /\ sy' = [sy EXCEPT !.pc = "fetchBook"]
         ELSE UNCHANGED fetch /\ sy' = [sy EXCEPT !.pc = "clearBook"]
    /\ UNCHANGED <<store, page, server, gui, changes, forgot>>

ClearBook ==
    /\ sy.pc = "clearBook"
    /\ bookMarked' = FALSE
    /\ sy' = [sy EXCEPT !.pc = "pull"]
    /\ UNCHANGED <<status, marked, content, att, flag, deferred, page, server, gui, job, fetch,
                   changes, forgot>>

\* The note is in the next chunk, or nothing has changed on the server.
Pull ==
    /\ sy.pc = "pull"
    /\ sy' = IF server.pulled THEN [Idle EXCEPT !.pc = "push"]
             ELSE [pc |-> "gist", content |-> server.content, att |-> server.att,
                   inBook |-> server.inBook, fresh |-> TRUE]
    /\ UNCHANGED <<store, page, server, gui, job, fetch, changes, forgot>>

StoreNoteGist ==
    /\ sy.pc = "gist"
    /\ content' = [content EXCEPT !.synced = sy.content]
    /\ sy' = [sy EXCEPT !.pc = "attachments"]
    /\ UNCHANGED <<status, marked, bookMarked, att, flag, deferred, page, server, gui, job,
                   fetch, changes, forgot>>

StoreNoteAttachments ==
    /\ sy.pc = "attachments"
    /\ SetAttachmentsDataFromServer(sy.att)
    /\ sy' = [sy EXCEPT !.pc = "notebook"]
    /\ UNCHANGED <<status, marked, bookMarked, content, flag, deferred, page, server, gui, job,
                   fetch, changes, forgot>>

\* Another client's choice of notebook does not undo one made here.
StoreNotebook ==
    /\ sy.pc = "notebook"
    /\ status' = IF flag THEN status ELSE [status EXCEPT !.inBook = sy.inBook]
    /\ sy' = [Idle EXCEPT !.pc = "decide", !.fresh = sy.fresh]
    /\ UNCHANGED <<marked, bookMarked, content, att, flag, deferred, page, server, gui, job,
                   fetch, changes, forgot>>

MustFetch == Needed /\ ~ContentAvailableOffline

\* A note that must be here is fetched with its attachments, one that was
\* changed here is merged with what the server has.
Decide ==
    /\ sy.pc = "decide"
    /\ IF MustFetch
         THEN StartFetch /\ sy' = [sy EXCEPT !.pc = "fetchChunk"]
         ELSE IF flag /\ Available /\ Shows # content.base
           THEN /\ fetch' = [NoFetch EXCEPT !.pc = "note", !.files = FALSE]
                /\ sy' = [sy EXCEPT !.pc = "fetchChunk"]
           ELSE UNCHANGED fetch /\ sy' = [sy EXCEPT !.pc = "checkpoint"]
    /\ forgot' = (forgot \/ (Needed /\ ~MustFetch /\ ~HasFile))
    /\ UNCHANGED <<store, page, server, gui, job, changes>>

Checkpoint ==
    /\ sy.pc = "checkpoint"
    /\ server' = [server EXCEPT !.pulled = sy.fresh]
    /\ sy' = [Idle EXCEPT !.pc = "push"]
    /\ UNCHANGED <<store, page, gui, job, fetch, changes, forgot>>

\* What is pushed: the content only if it was changed here
ReadNote ==
    /\ sy.pc = "push"
    /\ sy' = IF flag /\ Available /\ content.synced = content.base
               THEN [pc |-> "call", att |-> att.listed, inBook |-> status.inBook, fresh |-> FALSE,
                     content |-> IF Shows = content.base THEN None ELSE Shows]
               ELSE Idle
    /\ UNCHANGED <<store, page, server, gui, job, fetch, changes, forgot>>

UpdateNote(answered) ==
    /\ sy.pc = "call" /\ sy.att = server.att
    /\ server' = [server EXCEPT !.content = IF sy.content = None THEN @ ELSE sy.content,
                                !.inBook = sy.inBook, !.pulled = FALSE]
    /\ sy' = IF ~answered THEN Idle
             ELSE IF sy.content = None THEN [Idle EXCEPT !.pc = "clearFlag", !.fresh = server.pulled]
             ELSE [sy EXCEPT !.pc = "pushed", !.fresh = server.pulled]
    /\ UNCHANGED <<store, page, gui, job, fetch, changes, forgot>>

StorePushedNote ==
    /\ sy.pc = "pushed"
    /\ SetPushedNote(sy.content)
    /\ sy' = [sy EXCEPT !.pc = "pushedAttachments"]
    /\ UNCHANGED <<status, marked, bookMarked, att, flag, deferred, page, server, gui, job,
                   fetch, changes, forgot>>

StorePushedAttachments ==
    /\ sy.pc = "pushedAttachments"
    /\ SetAttachmentsDataFromServer(sy.att)
    /\ sy' = [Idle EXCEPT !.pc = "clearFlag", !.fresh = sy.fresh]
    /\ UNCHANGED <<status, marked, bookMarked, content, flag, deferred, page, server, gui, job,
                   fetch, changes, forgot>>

ClearFlag ==
    /\ sy.pc = "clearFlag"
    /\ flag' = FALSE
    /\ server' = [server EXCEPT !.pulled = sy.fresh]
    /\ sy' = Idle
    /\ UNCHANGED <<status, marked, bookMarked, content, att, deferred, page, gui, job, fetch,
                   changes, forgot>>

\* A call that is not answered ends the synchronisation.
SyncFails ==
    /\ sy.pc \in {"state", "pull", "call"}
    /\ sy' = Idle
    /\ UNCHANGED <<store, page, server, gui, job, fetch, changes, forgot>>

Synchronize ==
    \/ ResolvedNote \/ FetchDone \/ ClearNote \/ Conflicts \/ ClearConflicts
    \/ Books \/ ResolvedBook \/ ClearBook
    \/ Pull \/ StoreNoteGist \/ StoreNoteAttachments \/ StoreNotebook \/ Decide \/ Checkpoint
    \/ ReadNote \/ StorePushedNote \/ StorePushedAttachments \/ ClearFlag
    \/ \E answered \in BOOLEAN : UpdateNote(answered)
    \/ SyncFails

-----------------------------------------------------------------------------
(* Other clients, the disk cache, and the end of the process               *)

ServerChanges(inBook, next, version) ==
    /\ Change
    /\ server' = [content |-> next, att |-> version, inBook |-> inBook, pulled |-> FALSE,
                  last |-> IF next = server.content THEN server.last ELSE next]
    /\ sy' = [sy EXCEPT !.fresh = FALSE]
    /\ UNCHANGED <<store, page, gui, job, fetch, forgot>>

ServerEdits ==
    /\ server.last < MaxContent
    /\ \E version \in {server.att, server.att + 1} \cap Atts :
          ServerChanges(server.inBook, server.last + 1, version)

ServerMoves == ServerChanges(~server.inBook, server.content, server.att)

EvictContent ==
    /\ content.cache # None
    /\ content' = [content EXCEPT !.cache = None]
    /\ UNCHANGED <<status, marked, bookMarked, att, flag, deferred, page, server, gui, job,
                   fetch, sy, changes, forgot>>

EvictAttachment ==
    /\ att.cached # {}
    /\ att' = [att EXCEPT !.cached = {}]
    /\ UNCHANGED <<status, marked, bookMarked, content, flag, deferred, page, server, gui, job,
                   fetch, sy, changes, forgot>>

\* The process ends, at any point.  The next one looks at what is unresolved
\* when it starts.
Restart ==
    /\ Change
    /\ gui' = [pc |-> "idle", timer |-> FALSE]
    /\ job' = [job EXCEPT !["sync"] = NoJob,
                          !["gui"] = IF marked THEN [NoJob EXCEPT !.pc = "needs"] ELSE NoJob]
    /\ fetch' = NoFetch /\ sy' = Idle /\ page' = None
    /\ forgot' = (forgot \/ gui.pc \in {"flagNote", "markNote", "defer"})
    /\ UNCHANGED <<store, server>>

User == SetFavourite \/ SetNotebookForNote \/ MarkBook \/ Edit \/ ShowNote

GuiThread ==
    \/ DeferConflict \/ SetNoteHasUnpushedChanges \/ MarkNote \/ SetOfflineNotebookIds
    \/ TimerFires \/ Job("gui") \/ JobDone

SyncThread == Begin \/ SyncState \/ Synchronize \/ Job("sync") \/ Fetch

Elsewhere == ServerEdits \/ ServerMoves \/ EvictContent \/ EvictAttachment \/ Restart

Next == User \/ GuiThread \/ SyncThread \/ Elsewhere

Spec == Init /\ [][Next]_vars

-----------------------------------------------------------------------------
(* Properties                                                              *)

JobPcs == {"off", "needs", "content", "files", "check", "base", "drop", "dropFiles", "clear", "done"}
FetchPcs == {"off", "needs", "note", "storeAttachments", "storeContent", "files", "keep", "done"}
SyncPcs ==
    {"idle", "state", "resolveNote", "fetchNote", "clearNote", "conflicts", "fetchConflict",
     "clearConflicts", "books", "resolveBook",
     "fetchBook", "clearBook", "pull", "gist", "attachments", "notebook", "decide",
     "fetchChunk", "checkpoint", "push", "call", "pushed", "pushedAttachments", "clearFlag"}

TypeOK ==
    /\ status \in [favourite : BOOLEAN, inBook : BOOLEAN, bookOffline : BOOLEAN]
    /\ {marked, bookMarked, flag, deferred} \subseteq BOOLEAN /\ page \in Contents
    /\ content \in [valid : BOOLEAN, file : Contents, cache : Contents, base : Contents,
                    synced : Contents]
    /\ content.valid <=> content.file # None
    /\ att \in [listed : Atts, byHash : SUBSET Atts, byGuid : SUBSET Atts, cached : SUBSET Atts]
    /\ server \in [content : Contents, att : Atts, inBook : BOOLEAN, last : Contents,
                   pulled : BOOLEAN]
    /\ gui \in [pc : {"idle", "flagNote", "flagOnly", "markNote", "book", "defer"}, timer : BOOLEAN]
    /\ job \in [Thread -> [pc : JobPcs, base : Contents, ok : BOOLEAN, required : BOOLEAN,
                           made : BOOLEAN]]
    /\ fetch \in [pc : FetchPcs, content : Contents, att : Atts, files : BOOLEAN]
    /\ sy \in [pc : SyncPcs, content : Contents, att : Atts, inBook : BOOLEAN, fresh : BOOLEAN]
    /\ changes \in 0 .. MaxChanges /\ forgot \in BOOLEAN

\* When the last change of the server is pulled, a note that must be available
\* offline, and that nothing has still to be done for, is here: content.ini has
\* its content, where the disk cache cannot lose it, and the file of its
\* attachment is here too.  Nothing to be done: neither list has it, and no
\* thread is at work on it.  The content is built on the latest of the server,
\* or is an edit of an older one, whose conflict is down for the next
\* synchronisation.
\* The exceptions are the ways in which the code forgets: a fetch failed and
\* the status was resolved, or the list of conflicts cleared, all the same; the
\* status changed while a thread was at work on an older one; a save came
\* between the resolution of the conflicts and the clearing of their list; a
\* restart came before the change was put down; or nothing was fetched,
\* because the content was in the cache (fetchNote) or the page had just
\* fetched it, without the attachment (the pull).
Kept ==
    /\ Needed /\ ~forgot
    /\ ~marked /\ ~(status.inBook /\ bookMarked)
    /\ gui.pc = "idle" /\ job["gui"].pc = "off" /\ sy = Idle
    /\ server.pulled
    => content.valid /\ HasFile /\ (deferred \/ Latest)

\* What the user has edited leaves content.ini only for a newer edit, or when
\* the server has it: making a note unavailable offline loses no edit, however
\* the two threads' work on it, a push and a merge overlap.  The exception is a
\* fetched content that takes the place of the edit (Unmerged).
EditsStay ==
    [][content.valid /\ content.file \notin {content.base, server.content} =>
          \/ content'.valid /\ content'.file >= content.file
          \/ sy.pc = "pushed" /\ sy.content = content.file
          \/ fetch.pc = "storeContent" /\ fetch.content \in Unmerged \cup {content.file}]_vars

\* What the page for offline notebooks tells the user: its notes "can be
\* accessed even without an internet connection", "downloaded and kept
\* up-to-date when syncing to Evernote".
KeptUpToDate ==
    /\ status.inBook /\ status.bookOffline
    /\ ~marked /\ ~bookMarked /\ gui = [pc |-> "idle", timer |-> FALSE]
    /\ job["gui"].pc = "off" /\ sy = Idle /\ server.pulled
    => Available

=============================================================================
