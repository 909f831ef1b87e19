--------------------------- MODULE OfflineProofs ---------------------------
(***************************************************************************)
(* Proofs about Offline: the types, that no edit is lost by what makes a   *)
(* note available offline or not (EditsStay), and that a note which must   *)
(* be here, and which nothing has still to be done for, is here (Kept).    *)
(*                                                                         *)
(* Kept says something only of the states where everything has come to     *)
(* rest.  The invariant that proves it (OfflineInv) says for every program *)
(* point of the two threads what has been secured by then: what a job has  *)
(* found, what a fetch has brought, and how far what synchronize() was     *)
(* sent agrees with the server.                                            *)
(***************************************************************************)
EXTENDS Offline, TLAPS

USE DEF None

-----------------------------------------------------------------------------
(* Types, and the program points that exclude each other.                   *)

\* The types of the variables, by name.
StatusType  == [favourite : BOOLEAN, inBook : BOOLEAN, bookOffline : BOOLEAN]
ContentType == [valid : BOOLEAN, file : Contents, cache : Contents, base : Contents,
                synced : Contents]
AttType     == [listed : Atts, byHash : SUBSET Atts, byGuid : SUBSET Atts, cached : SUBSET Atts]
ServerType  == [content : Contents, att : Atts, inBook : BOOLEAN, last : Contents,
                pulled : BOOLEAN]
GuiType     == [pc : {"idle", "flagNote", "flagOnly", "markNote", "book", "defer"},
                timer : BOOLEAN]
JobType     == [pc : JobPcs, base : Contents, ok : BOOLEAN, required : BOOLEAN, made : BOOLEAN]
FetchType   == [pc : FetchPcs, content : Contents, att : Atts, files : BOOLEAN]
SyncType    == [pc : SyncPcs, content : Contents, att : Atts, inBook : BOOLEAN, fresh : BOOLEAN]

\* TypeOK, with the sets of flags taken apart.
Types ==
    /\ status \in StatusType
    /\ marked \in BOOLEAN /\ bookMarked \in BOOLEAN /\ flag \in BOOLEAN
    /\ deferred \in BOOLEAN /\ page \in Contents
    /\ content \in ContentType
    /\ content.valid <=> content.file # None
    /\ att \in AttType /\ server \in ServerType /\ gui \in GuiType
    /\ job \in [Thread -> JobType]
    /\ fetch \in FetchType /\ sy \in SyncType
    /\ changes \in 0 .. MaxChanges /\ forgot \in BOOLEAN

\* That is what TypeOK says.
LEMMA TypesAre == TypeOK <=> Types
  BY DEF TypeOK, Types, StatusType, ContentType, AttType, ServerType, GuiType, JobType,
         FetchType, SyncType

\* No content and the first one are numbers of contents, the first version
\* one of the attachment.
LEMMA Constants ==
    /\ 0 \in Contents /\ 1 \in Contents /\ 1 \in Atts
    /\ Contents \subseteq Nat /\ Atts \subseteq Nat
  BY BoundsAssumption DEF Contents, Atts

\* The values the threads start from are of their types.
LEMMA StartTypes ==
    NoJob \in JobType /\ NoFetch \in FetchType /\ Idle \in SyncType
  BY Constants DEF NoJob, NoFetch, Idle, JobType, FetchType, SyncType, JobPcs, FetchPcs, SyncPcs

\* Where synchronize() waits for a fetch, and where it is between the answer
\* to a pull or a push and the note of it in the settings.
Busy == {"fetchNote", "fetchConflict", "fetchBook", "fetchChunk"}
PullStages == {"gist", "attachments", "notebook", "decide", "fetchChunk", "checkpoint"}
PushStages == {"pushed", "pushedAttachments", "clearFlag"}

\* Which program points go together: a fetch and a job of the synchronisation
\* run at its stages for them, the user waits for what the last change
\* started, and the last change of the server is pulled only when
\* synchronize() is past it.
Stages ==
    /\ fetch.pc # "off" => sy.pc \in Busy
    /\ ~fetch.files => /\ sy.pc \in {"fetchConflict", "fetchChunk"}
                       /\ fetch.pc \in {"note", "storeAttachments", "storeContent", "done"}
    /\ sy.pc = "fetchConflict" => ~fetch.files \/ fetch.pc = "done"
    /\ job["sync"].pc # "off" => sy.pc \in {"resolveNote", "resolveBook"}
    /\ gui.pc # "idle" => job["gui"].pc = "off"
    /\ sy.pc # "idle" /\ (gui.timer \/ job["gui"].pc # "off" \/ gui.pc = "markNote") => flag
    /\ sy.pc \in PullStages \cup PushStages => ~server.pulled
    /\ sy.fresh => sy.pc \in PullStages \cup PushStages
    /\ sy.pc = "idle" => sy = Idle

\* A note on the server has a content, and so has what is fetched or pushed.
NotNone ==
    /\ server.content # None
    /\ fetch.pc \in {"storeAttachments", "storeContent"} => fetch.content # None
    /\ sy.pc \in {"gist", "pushed", "pushedAttachments"} => sy.content # None

\* No content anywhere is newer than the last edit.
Numbers ==
    /\ server.content <= server.last /\ fetch.content <= server.last /\ sy.content <= server.last
    /\ content.file <= server.last /\ content.cache <= server.last /\ content.base <= server.last
    /\ page <= server.last
    /\ \A p \in Thread : job[p].base <= server.last

\* What every other part rests on.
BasicInv == Types /\ Stages /\ NotNone

\* What the step to the deferred conflicts does, field by field.
LEMMA ConflictsDoes ==
    ASSUME Types, Conflicts
    PROVE  /\ sy.pc = "conflicts" /\ sy'.fresh = sy.fresh /\ sy'.content = sy.content
           /\ UNCHANGED <<store, page, server, gui, job, changes, forgot>>
           /\ \/ /\ deferred /\ sy'.pc = "fetchConflict"
                 /\ fetch'.pc = "note" /\ ~fetch'.files /\ fetch'.content = None
              \/ ~deferred /\ sy'.pc = "clearConflicts" /\ fetch' = fetch
  BY DEF Conflicts, Types, SyncType, NoFetch

\* Every step keeps the program points together.
LEMMA StagesStep ==
    ASSUME BasicInv, [Next]_vars
    PROVE  Stages'
  <1> USE DEF BasicInv, Stages, Types, store, Thread, Busy, PullStages, PushStages,
            StatusType, ServerType, GuiType, JobType, FetchType, SyncType
  <1>1. CASE SetFavourite
    BY <1>1 DEF SetFavourite, Change, Free
  <1>2. CASE SetNotebookForNote
    BY <1>2 DEF SetNotebookForNote, Change, Free
  <1>3. CASE MarkBook
    BY <1>3 DEF MarkBook, Change, Free
  <1>4. CASE Edit
    BY <1>4 DEF Edit, Change, Free, Available
  <1>5. CASE ShowNote
    BY <1>5 DEF ShowNote, Free, SetFetchedNoteContent, SetAttachmentsDataFromServer, Available
  <1>6. CASE SetNoteHasUnpushedChanges
    BY <1>6 DEF SetNoteHasUnpushedChanges
  <1>7. CASE MarkNote
    BY <1>7 DEF MarkNote
  <1>8. CASE SetOfflineNotebookIds
    BY <1>8 DEF SetOfflineNotebookIds
  <1>9. CASE TimerFires
    BY <1>9 DEF TimerFires, Start, Free, NoJob
  <1>10. CASE JobDone
    BY <1>10 DEF JobDone, NoJob
  <1>11. ASSUME NEW p \in Thread, JobNeeds(p) PROVE Stages'
    BY <1>11 DEF JobNeeds
  <1>12. ASSUME NEW p \in Thread, JobContent(p) PROVE Stages'
    BY <1>12 DEF JobContent
  <1>13. ASSUME NEW p \in Thread, JobFiles(p) PROVE Stages'
    BY <1>13 DEF JobFiles
  <1>14. ASSUME NEW p \in Thread, JobCheck(p) PROVE Stages'
    BY <1>14 DEF JobCheck
  <1>15. ASSUME NEW p \in Thread, JobBase(p) PROVE Stages'
    BY <1>15 DEF JobBase
  <1>16. ASSUME NEW p \in Thread, JobDrop(p) PROVE Stages'
    BY <1>16 DEF JobDrop, Unedited, MovedToCache
  <1>17. ASSUME NEW p \in Thread, JobDropFiles(p) PROVE Stages'
    BY <1>17 DEF JobDropFiles
  <1>18. ASSUME NEW p \in Thread, JobClear(p) PROVE Stages'
    BY <1>18 DEF JobClear
  <1>19. CASE Begin
    <2>1. /\ sy' = [sy EXCEPT !.pc = "state"] /\ gui' = [gui EXCEPT !.timer = FALSE]
          /\ sy = Idle /\ gui.pc = "idle" /\ job["gui"].pc = "off"
          /\ UNCHANGED <<store, server, job, fetch, changes, forgot>>
      BY <1>19 DEF Begin, Free
    <2>2. sy'.pc = "state" /\ ~sy'.fresh
      BY <2>1 DEF Idle
    <2>3. gui'.pc = "idle" /\ ~gui'.timer
      BY <2>1
    <2>4. fetch.pc = "off" /\ job["sync"].pc = "off" /\ fetch.files
      BY <2>1 DEF Idle
    <2> QED BY <2>1, <2>2, <2>3, <2>4
  <1>20. CASE SyncState
    BY <1>20 DEF SyncState, Start, NoJob
  <1>21. CASE ResolvedNote
    BY <1>21 DEF ResolvedNote, StartFetch, NoJob, NoFetch
  <1>22. CASE FetchDone
    BY <1>22 DEF FetchDone, NoFetch
  <1>23. CASE ClearNote
    BY <1>23 DEF ClearNote
  <1>24. CASE Books
    BY <1>24 DEF Books, Start, NoJob
  <1>25. CASE ResolvedBook
    BY <1>25 DEF ResolvedBook, StartFetch, NoJob, NoFetch
  <1>26. CASE ClearBook
    BY <1>26 DEF ClearBook
  <1>27. CASE Pull
    BY <1>27 DEF Pull, Idle
  <1>28. CASE StoreNoteGist
    BY <1>28 DEF StoreNoteGist
  <1>29. CASE StoreNoteAttachments
    BY <1>29 DEF StoreNoteAttachments, SetAttachmentsDataFromServer
  <1>30. CASE StoreNotebook
    BY <1>30 DEF StoreNotebook, Idle
  <1>31. CASE Decide
    BY <1>31, ZenonT(60) DEF Decide, StartFetch, NoFetch, MustFetch, Available, Shows
  <1>32. CASE Checkpoint
    BY <1>32 DEF Checkpoint, Idle
  <1>33. CASE ReadNote
    BY <1>33 DEF ReadNote, Idle, Available, Shows
  <1>34. CASE StorePushedNote
    BY <1>34 DEF StorePushedNote, SetPushedNote
  <1>35. CASE StorePushedAttachments
    BY <1>35 DEF StorePushedAttachments, Idle, SetAttachmentsDataFromServer
  <1>36. CASE ClearFlag
    BY <1>36 DEF ClearFlag, Idle
  <1>37. ASSUME NEW answered \in BOOLEAN, UpdateNote(answered) PROVE Stages'
    BY <1>37 DEF UpdateNote, Idle
  <1>38. CASE SyncFails
    BY <1>38 DEF SyncFails, Idle
  <1>39. CASE FetchNeeds
    BY <1>39 DEF FetchNeeds
  <1>40. CASE FetchUpToDate
    BY <1>40 DEF FetchUpToDate, AfterNote, UpToDate, Latest
  <1>41. CASE FetchNote
    BY <1>41 DEF FetchNote
  <1>42. CASE FetchStoreAttachments
    BY <1>42 DEF FetchStoreAttachments, SetAttachmentsDataFromServer
  <1>43. CASE FetchStoreContent
    BY <1>43 DEF FetchStoreContent, NoFetch, AfterNote, SetFetchedNoteContent
  <1>44. CASE FetchFiles
    BY <1>44 DEF FetchFiles
  <1>45. CASE FetchKeep
    BY <1>45 DEF FetchKeep, NoFetch
  <1>46. CASE FetchFails
    BY <1>46 DEF FetchFails, AfterNote, UpToDate, Latest
  <1>47. CASE ServerEdits
    BY <1>47 DEF ServerEdits, ServerChanges, Change
  <1>48. CASE ServerMoves
    BY <1>48 DEF ServerMoves, ServerChanges, Change
  <1>49. CASE EvictContent
    BY <1>49 DEF EvictContent
  <1>50. CASE EvictAttachment
    BY <1>50 DEF EvictAttachment
  <1>51. CASE Restart
    BY <1>51 DEF Restart, Change, NoJob, NoFetch, Idle
  <1>52. CASE UNCHANGED vars
    BY <1>52 DEF vars
  <1>53. CASE DeferConflict
    BY <1>53 DEF DeferConflict
  <1>54. CASE Conflicts
    BY <1>54, ConflictsDoes
  <1>55. CASE ClearConflicts
    BY <1>55 DEF ClearConflicts
  <1> QED
    BY <1>1, <1>2, <1>3, <1>4, <1>5, <1>6, <1>7, <1>8, <1>9, <1>10, <1>11, <1>12, <1>13,
    <1>14, <1>15, <1>16, <1>17, <1>18, <1>19, <1>20, <1>21, <1>22, <1>23, <1>24, <1>25, <1>26,
    <1>27, <1>28, <1>29, <1>30, <1>31, <1>32, <1>33, <1>34, <1>35, <1>36, <1>37, <1>38, <1>39,
    <1>40, <1>41, <1>42, <1>43, <1>44, <1>45, <1>46, <1>47, <1>48, <1>49, <1>50, <1>51, <1>52,
    <1>53, <1>54, <1>55
       DEF Next, User, GuiThread, SyncThread, Elsewhere, Synchronize, Job, Fetch, Thread

\* Every step keeps them from being empty.
LEMMA NotNoneStep ==
    ASSUME BasicInv, [Next]_vars
    PROVE  NotNone'
  <1> USE DEF BasicInv, Stages, NotNone, Types, store, Thread, Busy, ContentType, ServerType,
            JobType, FetchType, SyncType
  <1>1. CASE SetFavourite
    BY <1>1 DEF SetFavourite, Change, Free
  <1>2. CASE SetNotebookForNote
    BY <1>2 DEF SetNotebookForNote, Change, Free
  <1>3. CASE MarkBook
    BY <1>3 DEF MarkBook, Change, Free
  <1>4. CASE Edit
    BY <1>4 DEF Edit, Change, Free, Available
  <1>5. CASE ShowNote
    BY <1>5 DEF ShowNote, Free, SetFetchedNoteContent, SetAttachmentsDataFromServer, Available
  <1>6. CASE SetNoteHasUnpushedChanges
    BY <1>6 DEF SetNoteHasUnpushedChanges
  <1>7. CASE MarkNote
    BY <1>7 DEF MarkNote
  <1>8. CASE SetOfflineNotebookIds
    BY <1>8 DEF SetOfflineNotebookIds
  <1>9. CASE TimerFires
    BY <1>9 DEF TimerFires, Start, Free, NoJob
  <1>10. CASE JobDone
    BY <1>10 DEF JobDone, NoJob
  <1>11. ASSUME NEW p \in Thread, JobNeeds(p) PROVE NotNone'
    BY <1>11 DEF JobNeeds
  <1>12. ASSUME NEW p \in Thread, JobContent(p) PROVE NotNone'
    BY <1>12 DEF JobContent
  <1>13. ASSUME NEW p \in Thread, JobFiles(p) PROVE NotNone'
    BY <1>13 DEF JobFiles
  <1>14. ASSUME NEW p \in Thread, JobCheck(p) PROVE NotNone'
    BY <1>14 DEF JobCheck
  <1>15. ASSUME NEW p \in Thread, JobBase(p) PROVE NotNone'
    BY <1>15 DEF JobBase
  <1>16. ASSUME NEW p \in Thread, JobDrop(p) PROVE NotNone'
    BY <1>16 DEF JobDrop, Unedited, MovedToCache
  <1>17. ASSUME NEW p \in Thread, JobDropFiles(p) PROVE NotNone'
    BY <1>17 DEF JobDropFiles
  <1>18. ASSUME NEW p \in Thread, JobClear(p) PROVE NotNone'
    BY <1>18 DEF JobClear
  <1>19. CASE Begin
    BY <1>19 DEF Begin, Free
  <1>20. CASE SyncState
    BY <1>20 DEF SyncState, Start, NoJob
  <1>21. CASE ResolvedNote
    BY <1>21 DEF ResolvedNote, StartFetch, NoJob, NoFetch
  <1>22. CASE FetchDone
    BY <1>22 DEF FetchDone, NoFetch
  <1>23. CASE ClearNote
    BY <1>23 DEF ClearNote
  <1>24. CASE Books
    BY <1>24 DEF Books, Start, NoJob
  <1>25. CASE ResolvedBook
    BY <1>25 DEF ResolvedBook, StartFetch, NoJob, NoFetch
  <1>26. CASE ClearBook
    BY <1>26 DEF ClearBook
  <1>27. CASE Pull
    BY <1>27 DEF Pull, Idle
  <1>28. CASE StoreNoteGist
    BY <1>28 DEF StoreNoteGist
  <1>29. CASE StoreNoteAttachments
    BY <1>29 DEF StoreNoteAttachments, SetAttachmentsDataFromServer
  <1>30. CASE StoreNotebook
    BY <1>30 DEF StoreNotebook, Idle
  <1>31. CASE Decide
    BY <1>31, ZenonT(60) DEF Decide, StartFetch, NoFetch, MustFetch, Available, Shows
  <1>32. CASE Checkpoint
    BY <1>32 DEF Checkpoint, Idle
  <1>33. CASE ReadNote
    BY <1>33 DEF ReadNote, Idle, Available, Shows
  <1>34. CASE StorePushedNote
    BY <1>34 DEF StorePushedNote, SetPushedNote
  <1>35. CASE StorePushedAttachments
    BY <1>35 DEF StorePushedAttachments, Idle, SetAttachmentsDataFromServer
  <1>36. CASE ClearFlag
    BY <1>36 DEF ClearFlag, Idle
  <1>37. ASSUME NEW answered \in BOOLEAN, UpdateNote(answered) PROVE NotNone'
    BY <1>37 DEF UpdateNote, Idle
  <1>38. CASE SyncFails
    BY <1>38 DEF SyncFails, Idle
  <1>39. CASE FetchNeeds
    BY <1>39 DEF FetchNeeds
  <1>40. CASE FetchUpToDate
    BY <1>40 DEF FetchUpToDate, AfterNote, UpToDate, Latest
  <1>41. CASE FetchNote
    BY <1>41 DEF FetchNote
  <1>42. CASE FetchStoreAttachments
    BY <1>42 DEF FetchStoreAttachments, SetAttachmentsDataFromServer
  <1>43. CASE FetchStoreContent
    BY <1>43 DEF FetchStoreContent, NoFetch, AfterNote, SetFetchedNoteContent
  <1>44. CASE FetchFiles
    BY <1>44 DEF FetchFiles
  <1>45. CASE FetchKeep
    BY <1>45 DEF FetchKeep, NoFetch
  <1>46. CASE FetchFails
    BY <1>46 DEF FetchFails, AfterNote, UpToDate, Latest
  <1>47. CASE ServerEdits
    <2>1. PICK version \in {server.att, server.att + 1} \cap Atts :
              ServerChanges(server.inBook, server.last + 1, version)
      BY <1>47 DEF ServerEdits
    <2>2. server'.content = server.last + 1 /\ UNCHANGED fetch
      BY <2>1 DEF ServerChanges
    <2>3. server.last \in Nat
      BY Constants
    <2>4. server'.content # None
      BY <2>2, <2>3
    <2>5. sy' = [sy EXCEPT !.fresh = FALSE]
      BY <2>1 DEF ServerChanges
    <2> QED BY <2>2, <2>4, <2>5
  <1>48. CASE ServerMoves
    BY <1>48 DEF ServerMoves, ServerChanges, Change
  <1>49. CASE EvictContent
    BY <1>49 DEF EvictContent
  <1>50. CASE EvictAttachment
    BY <1>50 DEF EvictAttachment
  <1>51. CASE Restart
    BY <1>51 DEF Restart, Change, NoJob, NoFetch, Idle
  <1>52. CASE UNCHANGED vars
    BY <1>52 DEF vars
  <1>53. CASE DeferConflict
    BY <1>53 DEF DeferConflict
  <1>54. CASE Conflicts
    BY <1>54 DEF Conflicts, NoFetch
  <1>55. CASE ClearConflicts
    BY <1>55 DEF ClearConflicts
  <1> QED
    BY <1>1, <1>2, <1>3, <1>4, <1>5, <1>6, <1>7, <1>8, <1>9, <1>10, <1>11, <1>12, <1>13,
    <1>14, <1>15, <1>16, <1>17, <1>18, <1>19, <1>20, <1>21, <1>22, <1>23, <1>24, <1>25, <1>26,
    <1>27, <1>28, <1>29, <1>30, <1>31, <1>32, <1>33, <1>34, <1>35, <1>36, <1>37, <1>38, <1>39,
    <1>40, <1>41, <1>42, <1>43, <1>44, <1>45, <1>46, <1>47, <1>48, <1>49, <1>50, <1>51, <1>52,
    <1>53, <1>54, <1>55
       DEF Next, User, GuiThread, SyncThread, Elsewhere, Synchronize, Job, Fetch, Thread

\* Every step keeps the types.
LEMMA TypesStep ==
    ASSUME BasicInv, [Next]_vars
    PROVE  Types'
  <1> USE DEF BasicInv, Types, store
  <1>1. CASE SetFavourite
    <2>1. status' \in StatusType
      BY <1>1 DEF SetFavourite, StatusType
    <2>2. gui' \in GuiType
      BY <1>1 DEF SetFavourite, GuiType
    <2>3. forgot' \in BOOLEAN
      BY <1>1 DEF SetFavourite
    <2>4. changes' \in 0 .. MaxChanges
      BY <1>1, BoundsAssumption DEF SetFavourite, Change
    <2> QED BY <1>1, <2>1, <2>2, <2>3, <2>4 DEF SetFavourite
  <1>2. CASE SetNotebookForNote
    <2>1. status' \in StatusType
      BY <1>2 DEF SetNotebookForNote, StatusType
    <2>2. gui' \in GuiType
      BY <1>2 DEF SetNotebookForNote, GuiType
    <2>3. forgot' \in BOOLEAN
      BY <1>2 DEF SetNotebookForNote
    <2>4. changes' \in 0 .. MaxChanges
      BY <1>2, BoundsAssumption DEF SetNotebookForNote, Change
    <2> QED BY <1>2, <2>1, <2>2, <2>3, <2>4 DEF SetNotebookForNote
  <1>3. CASE MarkBook
    <2>1. gui' \in GuiType
      BY <1>3 DEF MarkBook, GuiType
    <2>2. changes' \in 0 .. MaxChanges
      BY <1>3, BoundsAssumption DEF MarkBook, Change
    <2>3. bookMarked' \in BOOLEAN
      BY <1>3 DEF MarkBook
    <2> QED BY <1>3, <2>1, <2>2, <2>3 DEF MarkBook
  <1>4. CASE Edit
    <2>1. content' \in ContentType /\ (content'.valid <=> content'.file # None)
      <3>1. server.last + 1 \in Contents /\ server.last + 1 # None
        BY <1>4, BoundsAssumption DEF Edit, ServerType, Contents
      <3> QED BY <1>4, <3>1 DEF Edit, ContentType
    <2>2. server' \in ServerType
      BY <1>4, Constants, BoundsAssumption DEF Edit, ServerType, Contents
    <2>3. gui' \in GuiType
      BY <1>4 DEF Edit, GuiType
    <2>4. changes' \in 0 .. MaxChanges
      BY <1>4, BoundsAssumption DEF Edit, Change
    <2> QED BY <1>4, <2>1, <2>2, <2>3, <2>4 DEF Edit
  <1>5. CASE ShowNote
    <2>0. page' \in Contents
      BY <1>5 DEF ShowNote, ContentType, ServerType
    <2>1. att' \in AttType
      BY <1>5, Constants DEF ShowNote, AttType, SetAttachmentsDataFromServer, ServerType
    <2>2. content' \in ContentType /\ (content'.valid <=> content'.file # None)
      <3>1. CASE UNCHANGED content
        BY <3>1
      <3>2. CASE SetFetchedNoteContent(server.content)
        BY <3>2, Constants DEF SetFetchedNoteContent, ContentType, ServerType, NotNone
      <3> QED BY <1>5, <3>1, <3>2 DEF ShowNote
    <2> QED BY <1>5, <2>0, <2>1, <2>2 DEF ShowNote
  <1>6. CASE SetNoteHasUnpushedChanges
    <2>1. gui' \in GuiType
      BY <1>6 DEF SetNoteHasUnpushedChanges, GuiType
    <2> QED BY <1>6, <2>1 DEF SetNoteHasUnpushedChanges
  <1>7. CASE MarkNote
    <2>1. gui' \in GuiType
      BY <1>7 DEF MarkNote, GuiType
    <2> QED BY <1>7, <2>1 DEF MarkNote
  <1>8. CASE SetOfflineNotebookIds
    <2>1. status' \in StatusType
      BY <1>8 DEF SetOfflineNotebookIds, StatusType
    <2>2. gui' \in GuiType
      BY <1>8 DEF SetOfflineNotebookIds, GuiType
    <2>3. forgot' \in BOOLEAN
      BY <1>8 DEF SetOfflineNotebookIds
    <2> QED BY <1>8, <2>1, <2>2, <2>3 DEF SetOfflineNotebookIds
  <1>9. CASE TimerFires
    <2>1. gui' \in GuiType
      BY <1>9 DEF TimerFires, GuiType, Free
    <2>2. job' \in [Thread -> JobType]
      BY <1>9, StartTypes DEF TimerFires, JobType, JobPcs, Start
    <2> QED BY <1>9, <2>1, <2>2 DEF TimerFires
  <1>10. CASE JobDone
    <2>1. job' \in [Thread -> JobType]
      BY <1>10, StartTypes DEF JobDone, JobType, JobPcs
    <2> QED BY <1>10, <2>1 DEF JobDone
  <1>11. ASSUME NEW p \in Thread, JobNeeds(p) PROVE Types'
    <2>1. job' \in [Thread -> JobType]
      <3> DEFINE next == IF Needed THEN "content" ELSE "base"
      <3>1. job' = [job EXCEPT ![p].pc = next, ![p].required = Needed]
        BY <1>11 DEF JobNeeds
      <3>2. next \in JobPcs /\ Needed \in BOOLEAN
        BY DEF JobPcs, Needed
      <3> HIDE DEF next
      <3> QED BY <3>1, <3>2 DEF JobType
    <2> QED BY <1>11, <2>1 DEF JobNeeds
  <1>12. ASSUME NEW p \in Thread, JobContent(p) PROVE Types'
    <2>1. content' \in ContentType /\ (content'.valid <=> content'.file # None)
      BY <1>12, Constants DEF JobContent, ContentType
    <2>2. job' \in [Thread -> JobType]
      <3> DEFINE there == content.valid \/ content.cache # None
      <3>1. job' = [job EXCEPT ![p].pc = "files", ![p].ok = there]
        BY <1>12 DEF JobContent
      <3>2. there \in BOOLEAN
        OBVIOUS
      <3> HIDE DEF there
      <3> QED BY <3>1, <3>2, ZenonT(60) DEF JobType, JobPcs
    <2> QED BY <1>12, <2>1, <2>2 DEF JobContent
  <1>13. ASSUME NEW p \in Thread, JobFiles(p) PROVE Types'
    <2>1. att' \in AttType
      BY <1>13, Constants DEF JobFiles, AttType
    <2>2. job' \in [Thread -> JobType]
      <3> DEFINE there == att.listed \in att.byGuid \cup att.cached
                 next == IF there /\ job[p].ok THEN "check" ELSE "done"
      <3>1. job' = [job EXCEPT ![p].pc = next, ![p].ok = FALSE]
        BY <1>13 DEF JobFiles
      <3>2. next \in JobPcs
        BY DEF JobPcs
      <3> HIDE DEF next
      <3> QED BY <3>1, <3>2 DEF JobType
    <2> QED BY <1>13, <2>1, <2>2 DEF JobFiles
  <1>14. ASSUME NEW p \in Thread, JobCheck(p) PROVE Types'
    <2>1. job' \in [Thread -> JobType]
      BY <1>14, StartTypes DEF JobCheck, JobType, JobPcs
    <2> QED BY <1>14, <2>1 DEF JobCheck
  <1>15. ASSUME NEW p \in Thread, JobBase(p) PROVE Types'
    <2>1. job' \in [Thread -> JobType]
      BY <1>15, StartTypes DEF JobBase, JobType, JobPcs, ContentType
    <2> QED BY <1>15, <2>1 DEF JobBase
  <1>16. ASSUME NEW p \in Thread, JobDrop(p) PROVE Types'
    <2>1. content' \in ContentType /\ (content'.valid <=> content'.file # None)
      BY <1>16, Constants DEF JobDrop, ContentType, MovedToCache
    <2>2. job' \in [Thread -> JobType]
      BY <1>16, Constants DEF JobDrop, JobType, JobPcs
    <2> QED BY <1>16, <2>1, <2>2 DEF JobDrop
  <1>17. ASSUME NEW p \in Thread, JobDropFiles(p) PROVE Types'
    <2>1. att' \in AttType
      BY <1>17, Constants DEF JobDropFiles, AttType
    <2>2. job' \in [Thread -> JobType]
      BY <1>17, StartTypes DEF JobDropFiles, JobType, JobPcs
    <2> QED BY <1>17, <2>1, <2>2 DEF JobDropFiles
  <1>18. ASSUME NEW p \in Thread, JobClear(p) PROVE Types'
    <2>1. job' \in [Thread -> JobType]
      BY <1>18, StartTypes DEF JobClear, JobType, JobPcs
    <2> QED BY <1>18, <2>1 DEF JobClear
  <1>19. CASE Begin
    <2>1. sy' \in SyncType
      BY <1>19, StartTypes, Constants DEF Begin, SyncType, SyncPcs
    <2>2. gui' \in GuiType
      BY <1>19 DEF Begin, GuiType, Free
    <2> QED BY <1>19, <2>1, <2>2 DEF Begin
  <1>20. CASE SyncState
    <2>1. job' \in [Thread -> JobType]
      BY <1>20, StartTypes DEF SyncState, JobType, JobPcs, Start
    <2>2. sy' \in SyncType
      BY <1>20, StartTypes, Constants DEF SyncState, SyncType, SyncPcs
    <2> QED BY <1>20, <2>1, <2>2 DEF SyncState
  <1>21. CASE ResolvedNote
    <2>1. job' \in [Thread -> JobType]
      BY <1>21, StartTypes DEF ResolvedNote, JobType, JobPcs
    <2>2. fetch' \in FetchType
      BY <1>21, StartTypes DEF ResolvedNote, FetchType, FetchPcs, StartFetch
    <2>3. sy' \in SyncType
      BY <1>21, StartTypes, Constants DEF ResolvedNote, SyncType, SyncPcs
    <2> QED BY <1>21, <2>1, <2>2, <2>3 DEF ResolvedNote
  <1>22. CASE FetchDone
    <2>1. fetch' \in FetchType
      BY <1>22, StartTypes DEF FetchDone, FetchType, FetchPcs
    <2>2. sy' \in SyncType
      BY <1>22, StartTypes, Constants DEF FetchDone, SyncType, SyncPcs, Stages, Busy
    <2> QED BY <1>22, <2>1, <2>2 DEF FetchDone
  <1>23. CASE ClearNote
    <2>1. sy' \in SyncType
      BY <1>23, StartTypes, Constants DEF ClearNote, SyncType, SyncPcs
    <2> QED BY <1>23, <2>1 DEF ClearNote
  <1>24. CASE Books
    <2>1. job' \in [Thread -> JobType]
      BY <1>24, StartTypes DEF Books, JobType, JobPcs, Start
    <2>2. sy' \in SyncType
      BY <1>24, StartTypes, Constants DEF Books, SyncType, SyncPcs
    <2> QED BY <1>24, <2>1, <2>2 DEF Books
  <1>25. CASE ResolvedBook
    <2>1. job' \in [Thread -> JobType]
      BY <1>25, StartTypes DEF ResolvedBook, JobType, JobPcs
    <2>2. fetch' \in FetchType
      BY <1>25, StartTypes DEF ResolvedBook, FetchType, FetchPcs, StartFetch
    <2>3. sy' \in SyncType
      BY <1>25, StartTypes, Constants DEF ResolvedBook, SyncType, SyncPcs
    <2> QED BY <1>25, <2>1, <2>2, <2>3 DEF ResolvedBook
  <1>26. CASE ClearBook
    <2>1. sy' \in SyncType
      BY <1>26, StartTypes, Constants DEF ClearBook, SyncType, SyncPcs
    <2> QED BY <1>26, <2>1 DEF ClearBook
  <1>27. CASE Pull
    <2>1. sy' \in SyncType
      BY <1>27, StartTypes, Constants DEF Pull, SyncType, SyncPcs, ServerType
    <2> QED BY <1>27, <2>1 DEF Pull
  <1>28. CASE StoreNoteGist
    <2>1. content' \in ContentType /\ (content'.valid <=> content'.file # None)
      BY <1>28, Constants DEF StoreNoteGist, ContentType, SyncType
    <2>2. sy' \in SyncType
      BY <1>28, StartTypes, Constants DEF StoreNoteGist, SyncType, SyncPcs
    <2> QED BY <1>28, <2>1, <2>2 DEF StoreNoteGist
  <1>29. CASE StoreNoteAttachments
    <2>1. att' \in AttType
      BY <1>29, Constants DEF StoreNoteAttachments, AttType, SetAttachmentsDataFromServer, SyncType
    <2>2. sy' \in SyncType
      BY <1>29, StartTypes, Constants DEF StoreNoteAttachments, SyncType, SyncPcs
    <2> QED BY <1>29, <2>1, <2>2 DEF StoreNoteAttachments
  <1>30. CASE StoreNotebook
    <2>1. status' \in StatusType
      BY <1>30 DEF StoreNotebook, StatusType, SyncType
    <2>2. sy' \in SyncType
      BY <1>30, StartTypes, Constants DEF StoreNotebook, SyncType, SyncPcs
    <2> QED BY <1>30, <2>1, <2>2 DEF StoreNotebook
  <1>31. CASE Decide
    <2>1. fetch' \in FetchType
      BY <1>31, StartTypes DEF Decide, FetchType, FetchPcs, StartFetch
    <2>2. sy' \in SyncType
      BY <1>31, StartTypes, Constants DEF Decide, SyncType, SyncPcs
    <2>3. forgot' \in BOOLEAN
      BY <1>31 DEF Decide
    <2> QED BY <1>31, <2>1, <2>2, <2>3 DEF Decide
  <1>32. CASE Checkpoint
    <2>1. server' \in ServerType
      BY <1>32, Constants, BoundsAssumption DEF Checkpoint, ServerType, SyncType
    <2>2. sy' \in SyncType
      BY <1>32, StartTypes, Constants DEF Checkpoint, SyncType, SyncPcs
    <2> QED BY <1>32, <2>1, <2>2 DEF Checkpoint
  <1>33. CASE ReadNote
    <2>1. sy' \in SyncType
      BY <1>33, StartTypes, Constants DEF ReadNote, SyncType, SyncPcs, Shows, ContentType,
      AttType, StatusType
    <2> QED BY <1>33, <2>1 DEF ReadNote
  <1>34. CASE StorePushedNote
    <2>1. content' \in ContentType /\ (content'.valid <=> content'.file # None)
      BY <1>34, Constants DEF StorePushedNote, ContentType, SetPushedNote, SyncType
    <2>2. sy' \in SyncType
      BY <1>34, StartTypes, Constants DEF StorePushedNote, SyncType, SyncPcs
    <2> QED BY <1>34, <2>1, <2>2 DEF StorePushedNote
  <1>35. CASE StorePushedAttachments
    <2>1. att' \in AttType
      BY <1>35, Constants DEF StorePushedAttachments, AttType, SetAttachmentsDataFromServer,
      SyncType
    <2>2. sy' \in SyncType
      BY <1>35, StartTypes, Constants DEF StorePushedAttachments, SyncType, SyncPcs
    <2> QED BY <1>35, <2>1, <2>2 DEF StorePushedAttachments
  <1>36. CASE ClearFlag
    <2>1. server' \in ServerType
      BY <1>36, Constants, BoundsAssumption DEF ClearFlag, ServerType, SyncType
    <2>2. sy' \in SyncType
      BY <1>36, StartTypes, Constants DEF ClearFlag, SyncType, SyncPcs
    <2> QED BY <1>36, <2>1, <2>2 DEF ClearFlag
  <1>37. ASSUME NEW answered \in BOOLEAN, UpdateNote(answered) PROVE Types'
    <2>1. server' \in ServerType
      BY <1>37, Constants, BoundsAssumption DEF UpdateNote, ServerType, SyncType
    <2>2. sy' \in SyncType
      BY <1>37, StartTypes, Constants DEF UpdateNote, SyncType, SyncPcs, ServerType
    <2> QED BY <1>37, <2>1, <2>2 DEF UpdateNote
  <1>38. CASE SyncFails
    <2>1. sy' \in SyncType
      BY <1>38, StartTypes, Constants DEF SyncFails, SyncType, SyncPcs
    <2> QED BY <1>38, <2>1 DEF SyncFails
  <1>39. CASE FetchNeeds
    <2>1. fetch' \in FetchType
      BY <1>39, StartTypes DEF FetchNeeds, FetchType, FetchPcs
    <2> QED BY <1>39, <2>1 DEF FetchNeeds
  <1>40. CASE FetchUpToDate
    <2>1. fetch' \in FetchType
      BY <1>40, StartTypes DEF FetchUpToDate, FetchType, FetchPcs, AfterNote
    <2>2. forgot' \in BOOLEAN
      BY <1>40 DEF FetchUpToDate
    <2> QED BY <1>40, <2>1, <2>2 DEF FetchUpToDate
  <1>41. CASE FetchNote
    <2>1. fetch' \in FetchType
      BY <1>41, StartTypes DEF FetchNote, FetchType, FetchPcs, ServerType
    <2> QED BY <1>41, <2>1 DEF FetchNote
  <1>42. CASE FetchStoreAttachments
    <2>1. att' \in AttType
      BY <1>42, Constants DEF FetchStoreAttachments, AttType, SetAttachmentsDataFromServer,
      FetchType
    <2>2. fetch' \in FetchType
      BY <1>42, StartTypes DEF FetchStoreAttachments, FetchType, FetchPcs
    <2> QED BY <1>42, <2>1, <2>2 DEF FetchStoreAttachments
  <1>43. CASE FetchStoreContent
    <2>1. content' \in ContentType /\ (content'.valid <=> content'.file # None)
      BY <1>43, Constants DEF FetchStoreContent, ContentType, SetFetchedNoteContent,
      FetchType, NotNone
    <2>2. fetch' \in FetchType
      BY <1>43, StartTypes DEF FetchStoreContent, FetchType, FetchPcs, AfterNote
    <2> QED BY <1>43, <2>1, <2>2 DEF FetchStoreContent
  <1>44. CASE FetchFiles
    <2>1. fetch' \in FetchType
      BY <1>44, StartTypes, ZenonT(60) DEF FetchFiles, FetchType, FetchPcs, AttType
    <2> QED BY <1>44, <2>1 DEF FetchFiles
  <1>45. CASE FetchKeep
    <2>1. att' \in AttType
      BY <1>45, Constants DEF FetchKeep, AttType, FetchType
    <2>2. fetch' \in FetchType
      BY <1>45, StartTypes DEF FetchKeep, FetchType, FetchPcs
    <2> QED BY <1>45, <2>1, <2>2 DEF FetchKeep
  <1>46. CASE FetchFails
    <2>1. fetch' \in FetchType
      BY <1>46, StartTypes DEF FetchFails, FetchType, FetchPcs, AfterNote
    <2>2. forgot' \in BOOLEAN
      BY <1>46 DEF FetchFails
    <2> QED BY <1>46, <2>1, <2>2 DEF FetchFails
  <1>47. CASE ServerEdits
    <2>1. server' \in ServerType
      BY <1>47, Constants, BoundsAssumption DEF ServerEdits, ServerType, ServerChanges,
      Contents, Atts
    <2>2. sy' \in SyncType
      BY <1>47, StartTypes, Constants DEF ServerEdits, SyncType, SyncPcs, ServerChanges
    <2>3. changes' \in 0 .. MaxChanges
      BY <1>47, BoundsAssumption DEF ServerEdits, ServerChanges, Change
    <2> QED BY <1>47, <2>1, <2>2, <2>3 DEF ServerEdits, ServerChanges
  <1>48. CASE ServerMoves
    <2>1. server' \in ServerType
      BY <1>48, Constants, BoundsAssumption DEF ServerMoves, ServerType, ServerChanges, Contents
    <2>2. sy' \in SyncType
      BY <1>48, StartTypes, Constants DEF ServerMoves, SyncType, SyncPcs, ServerChanges
    <2>3. changes' \in 0 .. MaxChanges
      BY <1>48, BoundsAssumption DEF ServerMoves, ServerChanges, Change
    <2> QED BY <1>48, <2>1, <2>2, <2>3 DEF ServerMoves, ServerChanges
  <1>49. CASE EvictContent
    <2>1. content' \in ContentType /\ (content'.valid <=> content'.file # None)
      BY <1>49, Constants DEF EvictContent, ContentType
    <2> QED BY <1>49, <2>1 DEF EvictContent
  <1>50. CASE EvictAttachment
    <2>1. att' \in AttType
      BY <1>50, Constants DEF EvictAttachment, AttType
    <2> QED BY <1>50, <2>1 DEF EvictAttachment
  <1>51. CASE Restart
    <2>1. gui' \in GuiType
      BY <1>51 DEF Restart, GuiType
    <2>2. job' \in [Thread -> JobType]
      BY <1>51, StartTypes DEF Restart, JobType, JobPcs
    <2>3. fetch' \in FetchType
      BY <1>51, StartTypes DEF Restart, FetchType, FetchPcs
    <2>4. sy' \in SyncType
      BY <1>51, StartTypes, Constants DEF Restart, SyncType, SyncPcs
    <2>5. changes' \in 0 .. MaxChanges
      BY <1>51, BoundsAssumption DEF Restart, Change
    <2>6. forgot' \in BOOLEAN /\ page' \in Contents
      BY <1>51, Constants DEF Restart
    <2> QED BY <1>51, <2>1, <2>2, <2>3, <2>4, <2>5, <2>6 DEF Restart
  <1>52. CASE UNCHANGED vars
    BY <1>52 DEF vars
  <1>53. CASE DeferConflict
    <2>1. gui' \in GuiType
      BY <1>53 DEF DeferConflict, GuiType
    <2>2. deferred' \in BOOLEAN /\ forgot' \in BOOLEAN
      BY <1>53 DEF DeferConflict, Clearing
    <2> QED BY <1>53, <2>1, <2>2 DEF DeferConflict
  <1>54. CASE Conflicts
    <2>1. fetch' \in FetchType
      BY <1>54, StartTypes DEF Conflicts, FetchType, FetchPcs
    <2>2. sy' \in SyncType
      BY <1>54, StartTypes, Constants DEF Conflicts, SyncType, SyncPcs
    <2> QED BY <1>54, <2>1, <2>2 DEF Conflicts
  <1>55. CASE ClearConflicts
    <2>1. sy' \in SyncType
      BY <1>55, StartTypes, Constants DEF ClearConflicts, SyncType, SyncPcs
    <2>2. deferred' \in BOOLEAN
      BY <1>55 DEF ClearConflicts
    <2> QED BY <1>55, <2>1, <2>2 DEF ClearConflicts
  <1> HIDE DEF BasicInv, Types, store
  <1> QED
    BY <1>1, <1>2, <1>3, <1>4, <1>5, <1>6, <1>7, <1>8, <1>9, <1>10, <1>11, <1>12, <1>13,
    <1>14, <1>15, <1>16, <1>17, <1>18, <1>19, <1>20, <1>21, <1>22, <1>23, <1>24, <1>25, <1>26,
    <1>27, <1>28, <1>29, <1>30, <1>31, <1>32, <1>33, <1>34, <1>35, <1>36, <1>37, <1>38, <1>39,
    <1>40, <1>41, <1>42, <1>43, <1>44, <1>45, <1>46, <1>47, <1>48, <1>49, <1>50, <1>51, <1>52,
    <1>53, <1>54, <1>55
       DEF Next, User, GuiThread, SyncThread, Elsewhere, Synchronize, Job, Fetch, Thread

-----------------------------------------------------------------------------
(* Edits: what is in content.ini is the base, what was fetched, or an edit.  *)

\* What is only in the cache is the base: the disk cache never holds the one
\* copy of an edit, and a note without a base has no content at all.
CacheInv ==
    /\ ~content.valid => content.cache \in {None, content.base}
    /\ content.base = None => ~content.valid /\ content.cache = None

\* A job that has read the base before the user made an edit, or before a
\* fetch moved the base on, does not take what is in content.ini now for the
\* base.
DropBase ==
    \A p \in Thread :
        job[p].pc = "drop" /\ content.valid /\ content.file = job[p].base
            => content.file = content.base

\* A content is pushed because it was edited, and until setPushedNote the
\* edit stays in content.ini, whatever the two threads do with the base.
PushEdit ==
    sy.pc \in {"call", "pushed"} /\ sy.content # None
        => content.valid /\ content.file # content.base

\* Together, they keep an edit from being taken for something the server has.
EditInv == Numbers /\ CacheInv /\ DropBase /\ PushEdit

\* Contents are numbers.
LEMMA NumbersCompare ==
    ASSUME Types
    PROVE  /\ server.content \in Nat /\ server.last \in Nat /\ fetch.content \in Nat
           /\ sy.content \in Nat
           /\ content.file \in Nat /\ content.cache \in Nat /\ content.base \in Nat
           /\ content.synced \in Nat /\ page \in Nat
           /\ \A p \in Thread : job[p].base \in Nat
  BY Constants DEF Types, ServerType, FetchType, SyncType, ContentType, JobType

\* Every step keeps the last edit the newest content.
LEMMA NumbersStep ==
    ASSUME BasicInv, EditInv, [Next]_vars
    PROVE  Numbers'
  <1> USE DEF BasicInv, EditInv, Numbers, Types, store, Thread, StatusType, ContentType,
            ServerType, JobType, FetchType, SyncType
  <1> USE NumbersCompare
  <1>1. CASE SetFavourite
    BY <1>1 DEF SetFavourite, Change, Free
  <1>2. CASE SetNotebookForNote
    BY <1>2 DEF SetNotebookForNote, Change, Free
  <1>3. CASE MarkBook
    BY <1>3 DEF MarkBook, Change, Free
  <1>4. CASE Edit
    BY <1>4 DEF Edit, Change, Free, Available
  <1>5. CASE ShowNote
    BY <1>5 DEF ShowNote, Free, SetFetchedNoteContent, SetAttachmentsDataFromServer, Available
  <1>6. CASE SetNoteHasUnpushedChanges
    BY <1>6 DEF SetNoteHasUnpushedChanges
  <1>7. CASE MarkNote
    BY <1>7 DEF MarkNote
  <1>8. CASE SetOfflineNotebookIds
    BY <1>8 DEF SetOfflineNotebookIds
  <1>9. CASE TimerFires
    BY <1>9 DEF TimerFires, Start, Free, NoJob
  <1>10. CASE JobDone
    BY <1>10 DEF JobDone, NoJob
  <1>11. ASSUME NEW p \in Thread, JobNeeds(p) PROVE Numbers'
    BY <1>11 DEF JobNeeds
  <1>12. ASSUME NEW p \in Thread, JobContent(p) PROVE Numbers'
    BY <1>12 DEF JobContent
  <1>13. ASSUME NEW p \in Thread, JobFiles(p) PROVE Numbers'
    BY <1>13 DEF JobFiles
  <1>14. ASSUME NEW p \in Thread, JobCheck(p) PROVE Numbers'
    BY <1>14 DEF JobCheck
  <1>15. ASSUME NEW p \in Thread, JobBase(p) PROVE Numbers'
    BY <1>15 DEF JobBase
  <1>16. ASSUME NEW p \in Thread, JobDrop(p) PROVE Numbers'
    BY <1>16 DEF JobDrop, Unedited, MovedToCache
  <1>17. ASSUME NEW p \in Thread, JobDropFiles(p) PROVE Numbers'
    BY <1>17 DEF JobDropFiles
  <1>18. ASSUME NEW p \in Thread, JobClear(p) PROVE Numbers'
    BY <1>18 DEF JobClear
  <1>19. CASE Begin
    BY <1>19 DEF Begin, Free
  <1>20. CASE SyncState
    BY <1>20 DEF SyncState, Start, NoJob
  <1>21. CASE ResolvedNote
    BY <1>21 DEF ResolvedNote, StartFetch, NoJob, NoFetch
  <1>22. CASE FetchDone
    BY <1>22 DEF FetchDone, NoFetch
  <1>23. CASE ClearNote
    BY <1>23 DEF ClearNote
  <1>24. CASE Books
    BY <1>24 DEF Books, Start, NoJob
  <1>25. CASE ResolvedBook
    BY <1>25 DEF ResolvedBook, StartFetch, NoJob, NoFetch
  <1>26. CASE ClearBook
    BY <1>26 DEF ClearBook
  <1>27. CASE Pull
    BY <1>27 DEF Pull, Idle
  <1>28. CASE StoreNoteGist
    BY <1>28 DEF StoreNoteGist
  <1>29. CASE StoreNoteAttachments
    BY <1>29 DEF StoreNoteAttachments, SetAttachmentsDataFromServer
  <1>30. CASE StoreNotebook
    BY <1>30 DEF StoreNotebook, Idle
  <1>31. CASE Decide
    <2>1. fetch'.content \in {fetch.content, None}
      BY <1>31 DEF Decide, StartFetch, NoFetch
    <2>2. UNCHANGED <<content, page, server, job>> /\ sy'.content = sy.content
      BY <1>31 DEF Decide
    <2> QED BY <2>1, <2>2
  <1>32. CASE Checkpoint
    BY <1>32 DEF Checkpoint, Idle
  <1>33. CASE ReadNote
    BY <1>33 DEF ReadNote, Idle, Available, Shows
  <1>34. CASE StorePushedNote
    BY <1>34 DEF StorePushedNote, SetPushedNote
  <1>35. CASE StorePushedAttachments
    BY <1>35 DEF StorePushedAttachments, Idle, SetAttachmentsDataFromServer
  <1>36. CASE ClearFlag
    BY <1>36 DEF ClearFlag, Idle
  <1>37. ASSUME NEW answered \in BOOLEAN, UpdateNote(answered) PROVE Numbers'
    BY <1>37 DEF UpdateNote, Idle
  <1>38. CASE SyncFails
    BY <1>38 DEF SyncFails, Idle
  <1>39. CASE FetchNeeds
    BY <1>39 DEF FetchNeeds
  <1>40. CASE FetchUpToDate
    BY <1>40 DEF FetchUpToDate, AfterNote, UpToDate, Latest
  <1>41. CASE FetchNote
    BY <1>41 DEF FetchNote
  <1>42. CASE FetchStoreAttachments
    BY <1>42 DEF FetchStoreAttachments, SetAttachmentsDataFromServer
  <1>43. CASE FetchStoreContent
    BY <1>43 DEF FetchStoreContent, NoFetch, AfterNote, SetFetchedNoteContent
  <1>44. CASE FetchFiles
    BY <1>44 DEF FetchFiles
  <1>45. CASE FetchKeep
    BY <1>45 DEF FetchKeep, NoFetch
  <1>46. CASE FetchFails
    BY <1>46 DEF FetchFails, AfterNote, UpToDate, Latest
  <1>47. CASE ServerEdits
    BY <1>47 DEF ServerEdits, ServerChanges, Change
  <1>48. CASE ServerMoves
    BY <1>48 DEF ServerMoves, ServerChanges, Change
  <1>49. CASE EvictContent
    BY <1>49 DEF EvictContent
  <1>50. CASE EvictAttachment
    BY <1>50 DEF EvictAttachment
  <1>51. CASE Restart
    BY <1>51 DEF Restart, Change, NoJob, NoFetch, Idle
  <1>52. CASE UNCHANGED vars
    BY <1>52 DEF vars
  <1>53. CASE DeferConflict
    BY <1>53 DEF DeferConflict
  <1>54. CASE Conflicts
    BY <1>54, ConflictsDoes
  <1>55. CASE ClearConflicts
    BY <1>55 DEF ClearConflicts
  <1> QED
    BY <1>1, <1>2, <1>3, <1>4, <1>5, <1>6, <1>7, <1>8, <1>9, <1>10, <1>11, <1>12, <1>13,
    <1>14, <1>15, <1>16, <1>17, <1>18, <1>19, <1>20, <1>21, <1>22, <1>23, <1>24, <1>25, <1>26,
    <1>27, <1>28, <1>29, <1>30, <1>31, <1>32, <1>33, <1>34, <1>35, <1>36, <1>37, <1>38, <1>39,
    <1>40, <1>41, <1>42, <1>43, <1>44, <1>45, <1>46, <1>47, <1>48, <1>49, <1>50, <1>51, <1>52,
    <1>53, <1>54, <1>55
       DEF Next, User, GuiThread, SyncThread, Elsewhere, Synchronize, Job, Fetch, Thread

\* Every step keeps edits out of the cache.
LEMMA CacheStep ==
    ASSUME BasicInv, EditInv, [Next]_vars
    PROVE  CacheInv'
  <1> USE DEF BasicInv, EditInv, CacheInv, PushEdit, DropBase, NotNone, Types, store, Thread,
            StatusType, ContentType, ServerType, JobType, FetchType, SyncType
  <1>1. CASE SetFavourite
    BY <1>1 DEF SetFavourite, Change, Free
  <1>2. CASE SetNotebookForNote
    BY <1>2 DEF SetNotebookForNote, Change, Free
  <1>3. CASE MarkBook
    BY <1>3 DEF MarkBook, Change, Free
  <1>4. CASE Edit
    BY <1>4 DEF Edit, Change, Free, Available
  <1>5. CASE ShowNote
    <2>1. UNCHANGED content \/ (~Available /\ SetFetchedNoteContent(server.content))
      BY <1>5 DEF ShowNote
    <2>2. CASE ~Available /\ SetFetchedNoteContent(server.content)
      BY <2>2 DEF Available, SetFetchedNoteContent
    <2> QED BY <2>1, <2>2
  <1>6. CASE SetNoteHasUnpushedChanges
    BY <1>6 DEF SetNoteHasUnpushedChanges
  <1>7. CASE MarkNote
    BY <1>7 DEF MarkNote
  <1>8. CASE SetOfflineNotebookIds
    BY <1>8 DEF SetOfflineNotebookIds
  <1>9. CASE TimerFires
    BY <1>9 DEF TimerFires, Start, Free, NoJob
  <1>10. CASE JobDone
    BY <1>10 DEF JobDone, NoJob
  <1>11. ASSUME NEW p \in Thread, JobNeeds(p) PROVE CacheInv'
    BY <1>11 DEF JobNeeds
  <1>12. ASSUME NEW p \in Thread, JobContent(p) PROVE CacheInv'
    BY <1>12 DEF JobContent
  <1>13. ASSUME NEW p \in Thread, JobFiles(p) PROVE CacheInv'
    BY <1>13 DEF JobFiles
  <1>14. ASSUME NEW p \in Thread, JobCheck(p) PROVE CacheInv'
    BY <1>14 DEF JobCheck
  <1>15. ASSUME NEW p \in Thread, JobBase(p) PROVE CacheInv'
    BY <1>15 DEF JobBase
  <1>16. ASSUME NEW p \in Thread, JobDrop(p) PROVE CacheInv'
    BY <1>16 DEF JobDrop, Unedited, MovedToCache
  <1>17. ASSUME NEW p \in Thread, JobDropFiles(p) PROVE CacheInv'
    BY <1>17 DEF JobDropFiles
  <1>18. ASSUME NEW p \in Thread, JobClear(p) PROVE CacheInv'
    BY <1>18 DEF JobClear
  <1>19. CASE Begin
    BY <1>19 DEF Begin, Free
  <1>20. CASE SyncState
    BY <1>20 DEF SyncState, Start, NoJob
  <1>21. CASE ResolvedNote
    BY <1>21 DEF ResolvedNote, StartFetch, NoJob, NoFetch
  <1>22. CASE FetchDone
    BY <1>22 DEF FetchDone, NoFetch
  <1>23. CASE ClearNote
    BY <1>23 DEF ClearNote
  <1>24. CASE Books
    BY <1>24 DEF Books, Start, NoJob
  <1>25. CASE ResolvedBook
    BY <1>25 DEF ResolvedBook, StartFetch, NoJob, NoFetch
  <1>26. CASE ClearBook
    BY <1>26 DEF ClearBook
  <1>27. CASE Pull
    BY <1>27 DEF Pull, Idle
  <1>28. CASE StoreNoteGist
    BY <1>28 DEF StoreNoteGist
  <1>29. CASE StoreNoteAttachments
    BY <1>29 DEF StoreNoteAttachments, SetAttachmentsDataFromServer
  <1>30. CASE StoreNotebook
    BY <1>30 DEF StoreNotebook, Idle
  <1>31. CASE Decide
    BY <1>31, ZenonT(60) DEF Decide, StartFetch, NoFetch, MustFetch, Available, Shows
  <1>32. CASE Checkpoint
    BY <1>32 DEF Checkpoint, Idle
  <1>33. CASE ReadNote
    BY <1>33 DEF ReadNote, Idle, Available, Shows
  <1>34. CASE StorePushedNote
    BY <1>34 DEF StorePushedNote, SetPushedNote
  <1>35. CASE StorePushedAttachments
    BY <1>35 DEF StorePushedAttachments, Idle, SetAttachmentsDataFromServer
  <1>36. CASE ClearFlag
    BY <1>36 DEF ClearFlag, Idle
  <1>37. ASSUME NEW answered \in BOOLEAN, UpdateNote(answered) PROVE CacheInv'
    BY <1>37 DEF UpdateNote, Idle
  <1>38. CASE SyncFails
    BY <1>38 DEF SyncFails, Idle
  <1>39. CASE FetchNeeds
    BY <1>39 DEF FetchNeeds
  <1>40. CASE FetchUpToDate
    BY <1>40 DEF FetchUpToDate, AfterNote, UpToDate, Latest
  <1>41. CASE FetchNote
    BY <1>41 DEF FetchNote
  <1>42. CASE FetchStoreAttachments
    BY <1>42 DEF FetchStoreAttachments, SetAttachmentsDataFromServer
  <1>43. CASE FetchStoreContent
    BY <1>43 DEF FetchStoreContent, NoFetch, AfterNote, SetFetchedNoteContent
  <1>44. CASE FetchFiles
    BY <1>44 DEF FetchFiles
  <1>45. CASE FetchKeep
    BY <1>45 DEF FetchKeep, NoFetch
  <1>46. CASE FetchFails
    BY <1>46 DEF FetchFails, AfterNote, UpToDate, Latest
  <1>47. CASE ServerEdits
    BY <1>47 DEF ServerEdits, ServerChanges, Change
  <1>48. CASE ServerMoves
    BY <1>48 DEF ServerMoves, ServerChanges, Change
  <1>49. CASE EvictContent
    BY <1>49 DEF EvictContent
  <1>50. CASE EvictAttachment
    BY <1>50 DEF EvictAttachment
  <1>51. CASE Restart
    BY <1>51 DEF Restart, Change, NoJob, NoFetch, Idle
  <1>52. CASE UNCHANGED vars
    BY <1>52 DEF vars
  <1>53. CASE DeferConflict
    BY <1>53 DEF DeferConflict
  <1>54. CASE Conflicts
    BY <1>54 DEF Conflicts, NoFetch
  <1>55. CASE ClearConflicts
    BY <1>55 DEF ClearConflicts
  <1> QED
    BY <1>1, <1>2, <1>3, <1>4, <1>5, <1>6, <1>7, <1>8, <1>9, <1>10, <1>11, <1>12, <1>13,
    <1>14, <1>15, <1>16, <1>17, <1>18, <1>19, <1>20, <1>21, <1>22, <1>23, <1>24, <1>25, <1>26,
    <1>27, <1>28, <1>29, <1>30, <1>31, <1>32, <1>33, <1>34, <1>35, <1>36, <1>37, <1>38, <1>39,
    <1>40, <1>41, <1>42, <1>43, <1>44, <1>45, <1>46, <1>47, <1>48, <1>49, <1>50, <1>51, <1>52,
    <1>53, <1>54, <1>55
       DEF Next, User, GuiThread, SyncThread, Elsewhere, Synchronize, Job, Fetch, Thread

\* No step lets a job drop an edit.
LEMMA DropStep ==
    ASSUME BasicInv, EditInv, [Next]_vars
    PROVE  DropBase'
  <1> USE DEF BasicInv, EditInv, CacheInv, PushEdit, DropBase, Types, store, Thread,
            StatusType, ContentType, ServerType, JobType, FetchType, SyncType
  <1>1. CASE SetFavourite
    BY <1>1 DEF SetFavourite, Change, Free
  <1>2. CASE SetNotebookForNote
    BY <1>2 DEF SetNotebookForNote, Change, Free
  <1>3. CASE MarkBook
    BY <1>3 DEF MarkBook, Change, Free
  <1>4. CASE Edit
    <2>1. content'.valid /\ content'.file = server.last + 1
      BY <1>4 DEF Edit
    <2>2. \A p \in Thread : content'.file # job[p].base
      BY <2>1, NumbersCompare DEF Numbers
    <2> QED BY <1>4, <2>1, <2>2 DEF Edit
  <1>5. CASE ShowNote
    BY <1>5 DEF ShowNote, Free, SetFetchedNoteContent, SetAttachmentsDataFromServer, Available
  <1>6. CASE SetNoteHasUnpushedChanges
    BY <1>6 DEF SetNoteHasUnpushedChanges
  <1>7. CASE MarkNote
    BY <1>7 DEF MarkNote
  <1>8. CASE SetOfflineNotebookIds
    BY <1>8 DEF SetOfflineNotebookIds
  <1>9. CASE TimerFires
    BY <1>9 DEF TimerFires, Start, Free, NoJob
  <1>10. CASE JobDone
    BY <1>10 DEF JobDone, NoJob
  <1>11. ASSUME NEW p \in Thread, JobNeeds(p) PROVE DropBase'
    BY <1>11 DEF JobNeeds
  <1>12. ASSUME NEW p \in Thread, JobContent(p) PROVE DropBase'
    BY <1>12 DEF JobContent
  <1>13. ASSUME NEW p \in Thread, JobFiles(p) PROVE DropBase'
    BY <1>13 DEF JobFiles
  <1>14. ASSUME NEW p \in Thread, JobCheck(p) PROVE DropBase'
    BY <1>14 DEF JobCheck
  <1>15. ASSUME NEW p \in Thread, JobBase(p) PROVE DropBase'
    BY <1>15 DEF JobBase
  <1>16. ASSUME NEW p \in Thread, JobDrop(p) PROVE DropBase'
    BY <1>16 DEF JobDrop, Unedited, MovedToCache
  <1>17. ASSUME NEW p \in Thread, JobDropFiles(p) PROVE DropBase'
    BY <1>17 DEF JobDropFiles
  <1>18. ASSUME NEW p \in Thread, JobClear(p) PROVE DropBase'
    BY <1>18 DEF JobClear
  <1>19. CASE Begin
    BY <1>19 DEF Begin, Free
  <1>20. CASE SyncState
    BY <1>20 DEF SyncState, Start, NoJob
  <1>21. CASE ResolvedNote
    BY <1>21 DEF ResolvedNote, StartFetch, NoJob, NoFetch
  <1>22. CASE FetchDone
    BY <1>22 DEF FetchDone, NoFetch
  <1>23. CASE ClearNote
    BY <1>23 DEF ClearNote
  <1>24. CASE Books
    BY <1>24 DEF Books, Start, NoJob
  <1>25. CASE ResolvedBook
    BY <1>25 DEF ResolvedBook, StartFetch, NoJob, NoFetch
  <1>26. CASE ClearBook
    BY <1>26 DEF ClearBook
  <1>27. CASE Pull
    BY <1>27 DEF Pull, Idle
  <1>28. CASE StoreNoteGist
    BY <1>28 DEF StoreNoteGist
  <1>29. CASE StoreNoteAttachments
    BY <1>29 DEF StoreNoteAttachments, SetAttachmentsDataFromServer
  <1>30. CASE StoreNotebook
    BY <1>30 DEF StoreNotebook, Idle
  <1>31. CASE Decide
    BY <1>31, ZenonT(60) DEF Decide, StartFetch, NoFetch, MustFetch, Available, Shows
  <1>32. CASE Checkpoint
    BY <1>32 DEF Checkpoint, Idle
  <1>33. CASE ReadNote
    BY <1>33 DEF ReadNote, Idle, Available, Shows
  <1>34. CASE StorePushedNote
    <2>1. content.valid /\ content.file # content.base
      BY <1>34 DEF StorePushedNote, NotNone
    <2>2. \A p \in Thread : job[p].pc = "drop" => content.file # job[p].base
      BY <2>1
    <2>3. content'.valid => content'.file = content.file
      BY <1>34 DEF StorePushedNote, SetPushedNote
    <2> QED BY <1>34, <2>2, <2>3 DEF StorePushedNote
  <1>35. CASE StorePushedAttachments
    BY <1>35 DEF StorePushedAttachments, Idle, SetAttachmentsDataFromServer
  <1>36. CASE ClearFlag
    BY <1>36 DEF ClearFlag, Idle
  <1>37. ASSUME NEW answered \in BOOLEAN, UpdateNote(answered) PROVE DropBase'
    BY <1>37 DEF UpdateNote, Idle
  <1>38. CASE SyncFails
    BY <1>38 DEF SyncFails, Idle
  <1>39. CASE FetchNeeds
    BY <1>39 DEF FetchNeeds
  <1>40. CASE FetchUpToDate
    BY <1>40 DEF FetchUpToDate, AfterNote, UpToDate, Latest
  <1>41. CASE FetchNote
    BY <1>41 DEF FetchNote
  <1>42. CASE FetchStoreAttachments
    BY <1>42 DEF FetchStoreAttachments, SetAttachmentsDataFromServer
  <1>43. CASE FetchStoreContent
    BY <1>43 DEF FetchStoreContent, NoFetch, AfterNote, SetFetchedNoteContent
  <1>44. CASE FetchFiles
    BY <1>44 DEF FetchFiles
  <1>45. CASE FetchKeep
    BY <1>45 DEF FetchKeep, NoFetch
  <1>46. CASE FetchFails
    BY <1>46 DEF FetchFails, AfterNote, UpToDate, Latest
  <1>47. CASE ServerEdits
    BY <1>47 DEF ServerEdits, ServerChanges, Change
  <1>48. CASE ServerMoves
    BY <1>48 DEF ServerMoves, ServerChanges, Change
  <1>49. CASE EvictContent
    BY <1>49 DEF EvictContent
  <1>50. CASE EvictAttachment
    BY <1>50 DEF EvictAttachment
  <1>51. CASE Restart
    BY <1>51 DEF Restart, Change, NoJob, NoFetch, Idle
  <1>52. CASE UNCHANGED vars
    BY <1>52 DEF vars
  <1>53. CASE DeferConflict
    BY <1>53 DEF DeferConflict
  <1>54. CASE Conflicts
    BY <1>54 DEF Conflicts, NoFetch
  <1>55. CASE ClearConflicts
    BY <1>55 DEF ClearConflicts
  <1> QED
    BY <1>1, <1>2, <1>3, <1>4, <1>5, <1>6, <1>7, <1>8, <1>9, <1>10, <1>11, <1>12, <1>13,
    <1>14, <1>15, <1>16, <1>17, <1>18, <1>19, <1>20, <1>21, <1>22, <1>23, <1>24, <1>25, <1>26,
    <1>27, <1>28, <1>29, <1>30, <1>31, <1>32, <1>33, <1>34, <1>35, <1>36, <1>37, <1>38, <1>39,
    <1>40, <1>41, <1>42, <1>43, <1>44, <1>45, <1>46, <1>47, <1>48, <1>49, <1>50, <1>51, <1>52,
    <1>53, <1>54, <1>55
       DEF Next, User, GuiThread, SyncThread, Elsewhere, Synchronize, Job, Fetch, Thread

\* Every step keeps what is pushed in content.ini.
LEMMA PushStep ==
    ASSUME BasicInv, EditInv, [Next]_vars
    PROVE  PushEdit'
  <1> USE DEF BasicInv, EditInv, Stages, Busy, CacheInv, PushEdit, DropBase, Types, store,
            Thread, StatusType, ContentType, ServerType, JobType, FetchType, SyncType
  <1>1. CASE SetFavourite
    BY <1>1 DEF SetFavourite, Change, Free
  <1>2. CASE SetNotebookForNote
    BY <1>2 DEF SetNotebookForNote, Change, Free
  <1>3. CASE MarkBook
    BY <1>3 DEF MarkBook, Change, Free
  <1>4. CASE Edit
    <2>1. content'.valid /\ content'.file = server.last + 1 /\ content'.base = page
      BY <1>4 DEF Edit
    <2>2. content'.file # page
      BY <2>1, NumbersCompare DEF Numbers
    <2> QED BY <1>4, <2>1, <2>2 DEF Edit
  <1>5. CASE ShowNote
    BY <1>5 DEF ShowNote, Free, SetFetchedNoteContent, SetAttachmentsDataFromServer, Available
  <1>6. CASE SetNoteHasUnpushedChanges
    BY <1>6 DEF SetNoteHasUnpushedChanges
  <1>7. CASE MarkNote
    BY <1>7 DEF MarkNote
  <1>8. CASE SetOfflineNotebookIds
    BY <1>8 DEF SetOfflineNotebookIds
  <1>9. CASE TimerFires
    BY <1>9 DEF TimerFires, Start, Free, NoJob
  <1>10. CASE JobDone
    BY <1>10 DEF JobDone, NoJob
  <1>11. ASSUME NEW p \in Thread, JobNeeds(p) PROVE PushEdit'
    BY <1>11 DEF JobNeeds
  <1>12. ASSUME NEW p \in Thread, JobContent(p) PROVE PushEdit'
    BY <1>12 DEF JobContent
  <1>13. ASSUME NEW p \in Thread, JobFiles(p) PROVE PushEdit'
    BY <1>13 DEF JobFiles
  <1>14. ASSUME NEW p \in Thread, JobCheck(p) PROVE PushEdit'
    BY <1>14 DEF JobCheck
  <1>15. ASSUME NEW p \in Thread, JobBase(p) PROVE PushEdit'
    BY <1>15 DEF JobBase
  <1>16. ASSUME NEW p \in Thread, JobDrop(p) PROVE PushEdit'
    BY <1>16 DEF JobDrop, Unedited, MovedToCache
  <1>17. ASSUME NEW p \in Thread, JobDropFiles(p) PROVE PushEdit'
    BY <1>17 DEF JobDropFiles
  <1>18. ASSUME NEW p \in Thread, JobClear(p) PROVE PushEdit'
    BY <1>18 DEF JobClear
  <1>19. CASE Begin
    BY <1>19 DEF Begin, Free
  <1>20. CASE SyncState
    BY <1>20 DEF SyncState, Start, NoJob
  <1>21. CASE ResolvedNote
    BY <1>21 DEF ResolvedNote, StartFetch, NoJob, NoFetch
  <1>22. CASE FetchDone
    BY <1>22 DEF FetchDone, NoFetch
  <1>23. CASE ClearNote
    BY <1>23 DEF ClearNote
  <1>24. CASE Books
    BY <1>24 DEF Books, Start, NoJob
  <1>25. CASE ResolvedBook
    BY <1>25 DEF ResolvedBook, StartFetch, NoJob, NoFetch
  <1>26. CASE ClearBook
    BY <1>26 DEF ClearBook
  <1>27. CASE Pull
    BY <1>27 DEF Pull, Idle
  <1>28. CASE StoreNoteGist
    BY <1>28 DEF StoreNoteGist
  <1>29. CASE StoreNoteAttachments
    BY <1>29 DEF StoreNoteAttachments, SetAttachmentsDataFromServer
  <1>30. CASE StoreNotebook
    BY <1>30 DEF StoreNotebook, Idle
  <1>31. CASE Decide
    BY <1>31, ZenonT(60) DEF Decide, StartFetch, NoFetch, MustFetch, Available, Shows
  <1>32. CASE Checkpoint
    BY <1>32 DEF Checkpoint, Idle
  <1>33. CASE ReadNote
    BY <1>33 DEF ReadNote, Idle, Available, Shows
  <1>34. CASE StorePushedNote
    BY <1>34 DEF StorePushedNote, SetPushedNote
  <1>35. CASE StorePushedAttachments
    BY <1>35 DEF StorePushedAttachments, Idle, SetAttachmentsDataFromServer
  <1>36. CASE ClearFlag
    BY <1>36 DEF ClearFlag, Idle
  <1>37. ASSUME NEW answered \in BOOLEAN, UpdateNote(answered) PROVE PushEdit'
    BY <1>37 DEF UpdateNote, Idle
  <1>38. CASE SyncFails
    BY <1>38 DEF SyncFails, Idle
  <1>39. CASE FetchNeeds
    BY <1>39 DEF FetchNeeds
  <1>40. CASE FetchUpToDate
    BY <1>40 DEF FetchUpToDate, AfterNote, UpToDate, Latest
  <1>41. CASE FetchNote
    BY <1>41 DEF FetchNote
  <1>42. CASE FetchStoreAttachments
    BY <1>42 DEF FetchStoreAttachments, SetAttachmentsDataFromServer
  <1>43. CASE FetchStoreContent
    BY <1>43 DEF FetchStoreContent, NoFetch, AfterNote, SetFetchedNoteContent
  <1>44. CASE FetchFiles
    BY <1>44 DEF FetchFiles
  <1>45. CASE FetchKeep
    BY <1>45 DEF FetchKeep, NoFetch
  <1>46. CASE FetchFails
    BY <1>46 DEF FetchFails, AfterNote, UpToDate, Latest
  <1>47. CASE ServerEdits
    BY <1>47 DEF ServerEdits, ServerChanges, Change
  <1>48. CASE ServerMoves
    BY <1>48 DEF ServerMoves, ServerChanges, Change
  <1>49. CASE EvictContent
    BY <1>49 DEF EvictContent
  <1>50. CASE EvictAttachment
    BY <1>50 DEF EvictAttachment
  <1>51. CASE Restart
    BY <1>51 DEF Restart, Change, NoJob, NoFetch, Idle
  <1>52. CASE UNCHANGED vars
    BY <1>52 DEF vars
  <1>53. CASE DeferConflict
    BY <1>53 DEF DeferConflict
  <1>54. CASE Conflicts
    BY <1>54 DEF Conflicts, NoFetch
  <1>55. CASE ClearConflicts
    BY <1>55 DEF ClearConflicts
  <1> QED
    BY <1>1, <1>2, <1>3, <1>4, <1>5, <1>6, <1>7, <1>8, <1>9, <1>10, <1>11, <1>12, <1>13,
    <1>14, <1>15, <1>16, <1>17, <1>18, <1>19, <1>20, <1>21, <1>22, <1>23, <1>24, <1>25, <1>26,
    <1>27, <1>28, <1>29, <1>30, <1>31, <1>32, <1>33, <1>34, <1>35, <1>36, <1>37, <1>38, <1>39,
    <1>40, <1>41, <1>42, <1>43, <1>44, <1>45, <1>46, <1>47, <1>48, <1>49, <1>50, <1>51, <1>52,
    <1>53, <1>54, <1>55
       DEF Next, User, GuiThread, SyncThread, Elsewhere, Synchronize, Job, Fetch, Thread

\* Both hold when the program starts.
LEMMA BasicInit ==
    ASSUME Init
    PROVE  BasicInv /\ EditInv
  <1>1. PICK inBook \in BOOLEAN :
            /\ status = [favourite |-> FALSE, inBook |-> inBook, bookOffline |-> FALSE]
            /\ server = [content |-> 1, att |-> 1, inBook |-> inBook, last |-> 1,
                         pulled |-> TRUE]
    BY DEF Init
  <1>2. status \in StatusType /\ server \in ServerType
    BY <1>1, Constants DEF StatusType, ServerType
  <1>3. job \in [Thread -> JobType] /\ fetch \in FetchType /\ sy \in SyncType
    BY StartTypes DEF Init
  <1>4. content \in ContentType /\ att \in AttType /\ gui \in GuiType
    BY Constants DEF Init, ContentType, AttType, GuiType
  <1>5. changes \in 0 .. MaxChanges
    BY BoundsAssumption DEF Init
  <1>6. Types
    <2>1. content.valid <=> content.file # None
      BY DEF Init
    <2>2. /\ marked \in BOOLEAN /\ bookMarked \in BOOLEAN /\ flag \in BOOLEAN
          /\ deferred \in BOOLEAN /\ forgot \in BOOLEAN /\ page \in Contents
      BY Constants DEF Init
    <2> QED BY <1>2, <1>3, <1>4, <1>5, <2>1, <2>2 DEF Types
  <1>7. /\ fetch.pc = "off" /\ fetch.files /\ fetch.content = None
        /\ sy = Idle /\ sy.pc = "idle" /\ ~sy.fresh /\ sy.content = None
        /\ gui.pc = "idle" /\ server.content = 1 /\ server.last = 1 /\ page = None
        /\ ~content.valid /\ content.file = None /\ content.cache = None /\ content.base = None
        /\ \A p \in Thread : job[p].pc = "off" /\ job[p].base = None
    BY <1>1 DEF Init, NoFetch, Idle, NoJob
  <1>8. Stages
    BY <1>7 DEF Stages, Thread, PullStages, PushStages
  <1>9. NotNone /\ EditInv
    BY <1>7 DEF NotNone, EditInv, Numbers, CacheInv, DropBase, PushEdit
  <1> QED BY <1>6, <1>8, <1>9 DEF BasicInv

\* Every step keeps the basic part.
LEMMA BasicStep ==
    ASSUME BasicInv, [Next]_vars
    PROVE  BasicInv'
  BY StagesStep, NotNoneStep, TypesStep DEF BasicInv

\* Every step keeps the edits.
LEMMA EditStep ==
    ASSUME BasicInv, EditInv, [Next]_vars
    PROVE  EditInv'
  BY NumbersStep, CacheStep, DropStep, PushStep DEF EditInv

\* Every reachable state of Offline satisfies TypeOK: the statuses and lists
\* that setFavouriteNote, setOfflineNotebookIds and the resolving threads
\* write, the program points of both threads, and ContentValid set exactly
\* when there is a content file.
THEOREM TypeCorrect == Spec => []TypeOK
  <1>1. Init => BasicInv
    BY BasicInit
  <1>2. BasicInv /\ [Next]_vars => BasicInv'
    BY BasicStep
  <1>3. BasicInv => TypeOK
    BY TypesAre DEF BasicInv
  <1> QED BY <1>1, <1>2, <1>3, PTL DEF Spec

\* Every step of every behaviour of Offline satisfies EditsStay: an edit
\* leaves content.ini only for a newer one or when the server has it. In
\* particular makeNoteContentUnavailableOfflineIfUnedited, which compares
\* with a base it read earlier, moves no edit to the cache.
THEOREM EditsStayCorrect == Spec => EditsStay
  <1> DEFINE Inv == BasicInv /\ EditInv
             Stays == content.valid /\ content.file \notin {content.base, server.content} =>
                        \/ content'.valid /\ content'.file >= content.file
                        \/ sy.pc = "pushed" /\ sy.content = content.file
                        \/ /\ fetch.pc = "storeContent"
                           /\ fetch.content \in Unmerged \cup {content.file}
  <1>1. Init => Inv
    BY BasicInit
  <1>2. Inv /\ [Next]_vars => Inv'
    BY BasicStep, EditStep
  <1>3. Inv /\ Next => Stays
    <2> SUFFICES ASSUME Inv, Next, content.valid,
                        content.file \notin {content.base, server.content}
                 PROVE  \/ content'.valid /\ content'.file >= content.file
                        \/ sy.pc = "pushed" /\ sy.content = content.file
                        \/ /\ fetch.pc = "storeContent"
                           /\ fetch.content \in Unmerged \cup {content.file}
      OBVIOUS
    <2>0. content.file \in Nat /\ server.last \in Nat /\ content.file <= server.last
      BY NumbersCompare DEF BasicInv, EditInv, Numbers
    <2>1. CASE UNCHANGED content
      BY <2>0, <2>1
    <2>2. CASE Edit
      <3>1. content'.valid /\ content'.file = server.last + 1
        BY <2>2 DEF Edit, BasicInv, Types, ContentType
      <3> QED BY <2>0, <3>1
    <2>3. CASE ShowNote
      BY <2>0, <2>3 DEF ShowNote, Available
    <2>4. ASSUME NEW p \in Thread, JobContent(p) PROVE UNCHANGED content
      BY <2>4 DEF JobContent
    <2>5. ASSUME NEW p \in Thread, JobDrop(p) PROVE UNCHANGED content
      BY <2>5 DEF JobDrop, Unedited, EditInv, DropBase
    <2>6. CASE FetchStoreContent
      <3>1. content.base # None /\ (content.valid <=> content.file # None)
        BY DEF EditInv, CacheInv, BasicInv, Types
      <3>2. CASE content.base = fetch.content
        <4>1. UNCHANGED content
          BY <2>6, <3>2 DEF FetchStoreContent, SetFetchedNoteContent
        <4> QED BY <2>0, <4>1
      <3>3. CASE /\ content.base # fetch.content
                 /\ fetch.content \notin Unmerged \cup {content.file}
        <4>1. content'.valid /\ content'.file = content.file
          BY <2>6, <3>1, <3>3 DEF FetchStoreContent, SetFetchedNoteContent
        <4> QED BY <2>0, <4>1
      <3>4. CASE fetch.content \in Unmerged \cup {content.file}
        BY <2>6, <3>4 DEF FetchStoreContent
      <3> QED BY <3>2, <3>3, <3>4
    <2>7. CASE StorePushedNote
      <3>1. CASE content.file = sy.content
        BY <2>7, <3>1 DEF StorePushedNote
      <3>2. CASE content.file # sy.content
        <4>1. content'.valid /\ content'.file = content.file
          BY <2>7, <3>2 DEF StorePushedNote, SetPushedNote
        <4> QED BY <2>0, <4>1
      <3> QED BY <3>1, <3>2
    <2>8. CASE StoreNoteGist
      <3>1. content'.valid /\ content'.file = content.file
        BY <2>8 DEF StoreNoteGist, BasicInv, Types, ContentType
      <3> QED BY <2>0, <3>1
    <2>9. CASE EvictContent
      <3>1. content'.valid /\ content'.file = content.file
        BY <2>9 DEF EvictContent, BasicInv, Types, ContentType
      <3> QED BY <2>0, <3>1
    <2>10. \/ UNCHANGED content \/ Edit \/ ShowNote
           \/ \E p \in Thread : JobContent(p) \/ JobDrop(p)
           \/ FetchStoreContent \/ StorePushedNote \/ StoreNoteGist \/ EvictContent
      BY DEF Next, User, GuiThread, SyncThread, Elsewhere, Synchronize, Job, Fetch, Thread, store,
             SetFavourite, SetNotebookForNote, MarkBook, SetNoteHasUnpushedChanges,
             MarkNote, SetOfflineNotebookIds, TimerFires, JobDone, JobNeeds, JobFiles, JobCheck,
             JobBase, JobDropFiles, JobClear, Begin, SyncState, ResolvedNote, FetchDone,
             ClearNote, Books, ResolvedBook, ClearBook, Pull, StoreNoteAttachments,
             StoreNotebook, Decide, Checkpoint, ReadNote, StorePushedAttachments, ClearFlag,
             UpdateNote, SyncFails, FetchNeeds, FetchUpToDate, FetchNote,
             FetchStoreAttachments, FetchFiles, FetchKeep, FetchFails, ServerEdits,
             ServerMoves, ServerChanges, EvictAttachment, Restart, DeferConflict, Conflicts,
             ClearConflicts
    <2> QED BY <2>1, <2>2, <2>3, <2>4, <2>5, <2>6, <2>7, <2>8, <2>9, <2>10
  <1>4. Inv /\ [Next]_vars => [Stays]_vars
    BY <1>3
  <1> QED BY <1>1, <1>2, <1>4, PTL DEF Spec, EditsStay

-----------------------------------------------------------------------------
(* What a job knows of the status, and what is up to date with the server.  *)

\* A job decided by the status that the note still has, or forgot says
\* otherwise.
SameStatus == \A p \in Thread :
    job[p].pc \notin {"off", "needs"} /\ ~forgot => (job[p].required <=> Needed)

\* The two ways through tryResolveOfflineStatusChange.
Paths == \A p \in Thread :
    /\ job[p].pc \in {"content", "files", "check"} => job[p].required
    /\ job[p].pc \in {"base", "drop", "dropFiles"} => ~job[p].required
    /\ job[p].made => job[p].required /\ job[p].pc = "done"

\* What a job knows of the status.
StatusInv == SameStatus /\ Paths

\* The store is up to date with the server, or will be when synchronize() has
\* stored what it was sent.
Current == server.pulled \/ sy.fresh

\* Then attachments.ini lists what the server has, or what was sent does.
Listed ==
    /\ server.pulled => att.listed = server.att
    /\ sy.fresh /\ sy.pc \in {"gist", "attachments", "pushed", "pushedAttachments"}
           => sy.att = server.att
    /\ sy.fresh /\ sy.pc \notin {"gist", "attachments"} => att.listed = server.att
    /\ Current /\ fetch.pc = "storeAttachments" => fetch.att = server.att

\* The same of the content that the note is known to have on the server.
Synced ==
    /\ server.pulled => content.synced = server.content
    /\ sy.fresh /\ sy.pc \in {"gist", "pushed"} => sy.content = server.content
    /\ sy.fresh /\ sy.pc \notin {"gist", "pushed"} => content.synced = server.content
    /\ Current /\ fetch.pc \in {"storeAttachments", "storeContent"}
           => fetch.content = server.content

\* What is up to date with the server.
SyncedInv == Listed /\ Synced

\* Every step keeps the jobs true to the status: the user who changes it
\* while one is at work is what forgot stands for.
LEMMA SameStatusStep ==
    ASSUME BasicInv, EditInv, StatusInv, SyncedInv, [Next]_vars
    PROVE  SameStatus'
  <1> USE DEF BasicInv, StatusInv, SameStatus, Paths, Needed, Types, Stages, Busy, PullStages,
            store, Thread, StatusType, JobType, FetchType, SyncType
  <1>1. CASE SetFavourite
    BY <1>1 DEF SetFavourite, Change, Free, UnderWay
  <1>2. CASE SetNotebookForNote
    BY <1>2 DEF SetNotebookForNote, Change, Free, UnderWay
  <1>3. CASE MarkBook
    BY <1>3 DEF MarkBook, Change, Free
  <1>4. CASE Edit
    BY <1>4 DEF Edit, Change, Free, Available
  <1>5. CASE ShowNote
    BY <1>5 DEF ShowNote, Free, SetFetchedNoteContent, SetAttachmentsDataFromServer, Available
  <1>6. CASE SetNoteHasUnpushedChanges
    BY <1>6 DEF SetNoteHasUnpushedChanges
  <1>7. CASE MarkNote
    BY <1>7 DEF MarkNote
  <1>8. CASE SetOfflineNotebookIds
    BY <1>8 DEF SetOfflineNotebookIds, UnderWay
  <1>9. CASE TimerFires
    BY <1>9 DEF TimerFires, Start, Free, NoJob
  <1>10. CASE JobDone
    BY <1>10 DEF JobDone, NoJob
  <1>11. ASSUME NEW p \in Thread, JobNeeds(p) PROVE SameStatus'
    BY <1>11 DEF JobNeeds
  <1>12. ASSUME NEW p \in Thread, JobContent(p) PROVE SameStatus'
    BY <1>12 DEF JobContent
  <1>13. ASSUME NEW p \in Thread, JobFiles(p) PROVE SameStatus'
    BY <1>13 DEF JobFiles
  <1>14. ASSUME NEW p \in Thread, JobCheck(p) PROVE SameStatus'
    BY <1>14 DEF JobCheck
  <1>15. ASSUME NEW p \in Thread, JobBase(p) PROVE SameStatus'
    BY <1>15 DEF JobBase
  <1>16. ASSUME NEW p \in Thread, JobDrop(p) PROVE SameStatus'
    BY <1>16 DEF JobDrop, Unedited, MovedToCache
  <1>17. ASSUME NEW p \in Thread, JobDropFiles(p) PROVE SameStatus'
    BY <1>17 DEF JobDropFiles
  <1>18. ASSUME NEW p \in Thread, JobClear(p) PROVE SameStatus'
    BY <1>18 DEF JobClear
  <1>19. CASE Begin
    BY <1>19 DEF Begin, Free
  <1>20. CASE SyncState
    BY <1>20 DEF SyncState, Start, NoJob
  <1>21. CASE ResolvedNote
    BY <1>21 DEF ResolvedNote, StartFetch, NoJob, NoFetch
  <1>22. CASE FetchDone
    BY <1>22 DEF FetchDone, NoFetch
  <1>23. CASE ClearNote
    BY <1>23 DEF ClearNote
  <1>24. CASE Books
    BY <1>24 DEF Books, Start, NoJob
  <1>25. CASE ResolvedBook
    BY <1>25 DEF ResolvedBook, StartFetch, NoJob, NoFetch
  <1>26. CASE ClearBook
    BY <1>26 DEF ClearBook
  <1>27. CASE Pull
    BY <1>27 DEF Pull, Idle
  <1>28. CASE StoreNoteGist
    BY <1>28 DEF StoreNoteGist
  <1>29. CASE StoreNoteAttachments
    BY <1>29 DEF StoreNoteAttachments, SetAttachmentsDataFromServer
  <1>30. CASE StoreNotebook
    BY <1>30 DEF StoreNotebook, Idle
  <1>31. CASE Decide
    BY <1>31, ZenonT(60) DEF Decide, StartFetch, NoFetch, MustFetch, Available, Shows
  <1>32. CASE Checkpoint
    BY <1>32 DEF Checkpoint, Idle
  <1>33. CASE ReadNote
    BY <1>33 DEF ReadNote, Idle, Available, Shows
  <1>34. CASE StorePushedNote
    BY <1>34 DEF StorePushedNote, SetPushedNote
  <1>35. CASE StorePushedAttachments
    BY <1>35 DEF StorePushedAttachments, Idle, SetAttachmentsDataFromServer
  <1>36. CASE ClearFlag
    BY <1>36 DEF ClearFlag, Idle
  <1>37. ASSUME NEW answered \in BOOLEAN, UpdateNote(answered) PROVE SameStatus'
    BY <1>37 DEF UpdateNote, Idle
  <1>38. CASE SyncFails
    BY <1>38 DEF SyncFails, Idle
  <1>39. CASE FetchNeeds
    BY <1>39 DEF FetchNeeds
  <1>40. CASE FetchUpToDate
    BY <1>40 DEF FetchUpToDate, AfterNote, UpToDate, Latest
  <1>41. CASE FetchNote
    BY <1>41 DEF FetchNote
  <1>42. CASE FetchStoreAttachments
    BY <1>42 DEF FetchStoreAttachments, SetAttachmentsDataFromServer
  <1>43. CASE FetchStoreContent
    BY <1>43 DEF FetchStoreContent, NoFetch, AfterNote, SetFetchedNoteContent
  <1>44. CASE FetchFiles
    BY <1>44 DEF FetchFiles
  <1>45. CASE FetchKeep
    BY <1>45 DEF FetchKeep, NoFetch
  <1>46. CASE FetchFails
    BY <1>46 DEF FetchFails, AfterNote, UpToDate, Latest
  <1>47. CASE ServerEdits
    BY <1>47 DEF ServerEdits, ServerChanges, Change
  <1>48. CASE ServerMoves
    BY <1>48 DEF ServerMoves, ServerChanges, Change
  <1>49. CASE EvictContent
    BY <1>49 DEF EvictContent
  <1>50. CASE EvictAttachment
    BY <1>50 DEF EvictAttachment
  <1>51. CASE Restart
    BY <1>51 DEF Restart, Change, NoJob, NoFetch, Idle
  <1>52. CASE UNCHANGED vars
    BY <1>52 DEF vars
  <1>53. CASE DeferConflict
    BY <1>53 DEF DeferConflict
  <1>54. CASE Conflicts
    BY <1>54 DEF Conflicts, NoFetch
  <1>55. CASE ClearConflicts
    BY <1>55 DEF ClearConflicts
  <1> QED
    BY <1>1, <1>2, <1>3, <1>4, <1>5, <1>6, <1>7, <1>8, <1>9, <1>10, <1>11, <1>12, <1>13,
    <1>14, <1>15, <1>16, <1>17, <1>18, <1>19, <1>20, <1>21, <1>22, <1>23, <1>24, <1>25, <1>26,
    <1>27, <1>28, <1>29, <1>30, <1>31, <1>32, <1>33, <1>34, <1>35, <1>36, <1>37, <1>38, <1>39,
    <1>40, <1>41, <1>42, <1>43, <1>44, <1>45, <1>46, <1>47, <1>48, <1>49, <1>50, <1>51, <1>52,
    <1>53, <1>54, <1>55
       DEF Next, User, GuiThread, SyncThread, Elsewhere, Synchronize, Job, Fetch, Thread

\* Every step keeps a job on its way.
LEMMA PathsStep ==
    ASSUME BasicInv, EditInv, StatusInv, SyncedInv, [Next]_vars
    PROVE  Paths'
  <1> USE DEF BasicInv, StatusInv, Paths, Types, store, Thread, JobType
  <1>1. CASE SetFavourite
    BY <1>1 DEF SetFavourite, Change, Free
  <1>2. CASE SetNotebookForNote
    BY <1>2 DEF SetNotebookForNote, Change, Free
  <1>3. CASE MarkBook
    BY <1>3 DEF MarkBook, Change, Free
  <1>4. CASE Edit
    BY <1>4 DEF Edit, Change, Free, Available
  <1>5. CASE ShowNote
    BY <1>5 DEF ShowNote, Free, SetFetchedNoteContent, SetAttachmentsDataFromServer, Available
  <1>6. CASE SetNoteHasUnpushedChanges
    BY <1>6 DEF SetNoteHasUnpushedChanges
  <1>7. CASE MarkNote
    BY <1>7 DEF MarkNote
  <1>8. CASE SetOfflineNotebookIds
    BY <1>8 DEF SetOfflineNotebookIds
  <1>9. CASE TimerFires
    BY <1>9 DEF TimerFires, Start, Free, NoJob
  <1>10. CASE JobDone
    BY <1>10 DEF JobDone, NoJob
  <1>11. ASSUME NEW p \in Thread, JobNeeds(p) PROVE Paths'
    BY <1>11 DEF JobNeeds
  <1>12. ASSUME NEW p \in Thread, JobContent(p) PROVE Paths'
    BY <1>12 DEF JobContent
  <1>13. ASSUME NEW p \in Thread, JobFiles(p) PROVE Paths'
    BY <1>13 DEF JobFiles
  <1>14. ASSUME NEW p \in Thread, JobCheck(p) PROVE Paths'
    BY <1>14 DEF JobCheck
  <1>15. ASSUME NEW p \in Thread, JobBase(p) PROVE Paths'
    BY <1>15 DEF JobBase
  <1>16. ASSUME NEW p \in Thread, JobDrop(p) PROVE Paths'
    BY <1>16 DEF JobDrop, Unedited, MovedToCache
  <1>17. ASSUME NEW p \in Thread, JobDropFiles(p) PROVE Paths'
    BY <1>17 DEF JobDropFiles
  <1>18. ASSUME NEW p \in Thread, JobClear(p) PROVE Paths'
    BY <1>18 DEF JobClear
  <1>19. CASE Begin
    BY <1>19 DEF Begin, Free
  <1>20. CASE SyncState
    BY <1>20 DEF SyncState, Start, NoJob
  <1>21. CASE ResolvedNote
    BY <1>21 DEF ResolvedNote, StartFetch, NoJob, NoFetch
  <1>22. CASE FetchDone
    BY <1>22 DEF FetchDone, NoFetch
  <1>23. CASE ClearNote
    BY <1>23 DEF ClearNote
  <1>24. CASE Books
    BY <1>24 DEF Books, Start, NoJob
  <1>25. CASE ResolvedBook
    BY <1>25 DEF ResolvedBook, StartFetch, NoJob, NoFetch
  <1>26. CASE ClearBook
    BY <1>26 DEF ClearBook
  <1>27. CASE Pull
    BY <1>27 DEF Pull, Idle
  <1>28. CASE StoreNoteGist
    BY <1>28 DEF StoreNoteGist
  <1>29. CASE StoreNoteAttachments
    BY <1>29 DEF StoreNoteAttachments, SetAttachmentsDataFromServer
  <1>30. CASE StoreNotebook
    BY <1>30 DEF StoreNotebook, Idle
  <1>31. CASE Decide
    BY <1>31, ZenonT(60) DEF Decide, StartFetch, NoFetch, MustFetch, Available, Shows
  <1>32. CASE Checkpoint
    BY <1>32 DEF Checkpoint, Idle
  <1>33. CASE ReadNote
    BY <1>33 DEF ReadNote, Idle, Available, Shows
  <1>34. CASE StorePushedNote
    BY <1>34 DEF StorePushedNote, SetPushedNote
  <1>35. CASE StorePushedAttachments
    BY <1>35 DEF StorePushedAttachments, Idle, SetAttachmentsDataFromServer
  <1>36. CASE ClearFlag
    BY <1>36 DEF ClearFlag, Idle
  <1>37. ASSUME NEW answered \in BOOLEAN, UpdateNote(answered) PROVE Paths'
    BY <1>37 DEF UpdateNote, Idle
  <1>38. CASE SyncFails
    BY <1>38 DEF SyncFails, Idle
  <1>39. CASE FetchNeeds
    BY <1>39 DEF FetchNeeds
  <1>40. CASE FetchUpToDate
    BY <1>40 DEF FetchUpToDate, AfterNote, UpToDate, Latest
  <1>41. CASE FetchNote
    BY <1>41 DEF FetchNote
  <1>42. CASE FetchStoreAttachments
    BY <1>42 DEF FetchStoreAttachments, SetAttachmentsDataFromServer
  <1>43. CASE FetchStoreContent
    BY <1>43 DEF FetchStoreContent, NoFetch, AfterNote, SetFetchedNoteContent
  <1>44. CASE FetchFiles
    BY <1>44 DEF FetchFiles
  <1>45. CASE FetchKeep
    BY <1>45 DEF FetchKeep, NoFetch
  <1>46. CASE FetchFails
    BY <1>46 DEF FetchFails, AfterNote, UpToDate, Latest
  <1>47. CASE ServerEdits
    BY <1>47 DEF ServerEdits, ServerChanges, Change
  <1>48. CASE ServerMoves
    BY <1>48 DEF ServerMoves, ServerChanges, Change
  <1>49. CASE EvictContent
    BY <1>49 DEF EvictContent
  <1>50. CASE EvictAttachment
    BY <1>50 DEF EvictAttachment
  <1>51. CASE Restart
    BY <1>51 DEF Restart, Change, NoJob, NoFetch, Idle
  <1>52. CASE UNCHANGED vars
    BY <1>52 DEF vars
  <1>53. CASE DeferConflict
    BY <1>53 DEF DeferConflict
  <1>54. CASE Conflicts
    BY <1>54 DEF Conflicts, NoFetch
  <1>55. CASE ClearConflicts
    BY <1>55 DEF ClearConflicts
  <1> QED
    BY <1>1, <1>2, <1>3, <1>4, <1>5, <1>6, <1>7, <1>8, <1>9, <1>10, <1>11, <1>12, <1>13,
    <1>14, <1>15, <1>16, <1>17, <1>18, <1>19, <1>20, <1>21, <1>22, <1>23, <1>24, <1>25, <1>26,
    <1>27, <1>28, <1>29, <1>30, <1>31, <1>32, <1>33, <1>34, <1>35, <1>36, <1>37, <1>38, <1>39,
    <1>40, <1>41, <1>42, <1>43, <1>44, <1>45, <1>46, <1>47, <1>48, <1>49, <1>50, <1>51, <1>52,
    <1>53, <1>54, <1>55
       DEF Next, User, GuiThread, SyncThread, Elsewhere, Synchronize, Job, Fetch, Thread

\* Every step keeps the list of attachments true to the last pull or push.
LEMMA ListedStep ==
    ASSUME BasicInv, EditInv, StatusInv, SyncedInv, [Next]_vars
    PROVE  Listed'
  <1> USE DEF BasicInv, SyncedInv, Listed, Current, Stages, Types, store, Busy, PullStages,
            PushStages, AttType, ServerType, FetchType, SyncType
  <1>1. CASE SetFavourite
    BY <1>1 DEF SetFavourite, Change, Free
  <1>2. CASE SetNotebookForNote
    BY <1>2 DEF SetNotebookForNote, Change, Free
  <1>3. CASE MarkBook
    BY <1>3 DEF MarkBook, Change, Free
  <1>4. CASE Edit
    BY <1>4 DEF Edit, Change, Free, Available
  <1>5. CASE ShowNote
    BY <1>5 DEF ShowNote, Free, SetFetchedNoteContent, SetAttachmentsDataFromServer, Available
  <1>6. CASE SetNoteHasUnpushedChanges
    BY <1>6 DEF SetNoteHasUnpushedChanges
  <1>7. CASE MarkNote
    BY <1>7 DEF MarkNote
  <1>8. CASE SetOfflineNotebookIds
    BY <1>8 DEF SetOfflineNotebookIds
  <1>9. CASE TimerFires
    BY <1>9 DEF TimerFires, Start, Free, NoJob
  <1>10. CASE JobDone
    BY <1>10 DEF JobDone, NoJob
  <1>11. ASSUME NEW p \in Thread, JobNeeds(p) PROVE Listed'
    BY <1>11 DEF JobNeeds
  <1>12. ASSUME NEW p \in Thread, JobContent(p) PROVE Listed'
    BY <1>12 DEF JobContent
  <1>13. ASSUME NEW p \in Thread, JobFiles(p) PROVE Listed'
    BY <1>13 DEF JobFiles
  <1>14. ASSUME NEW p \in Thread, JobCheck(p) PROVE Listed'
    BY <1>14 DEF JobCheck
  <1>15. ASSUME NEW p \in Thread, JobBase(p) PROVE Listed'
    BY <1>15 DEF JobBase
  <1>16. ASSUME NEW p \in Thread, JobDrop(p) PROVE Listed'
    BY <1>16 DEF JobDrop, Unedited, MovedToCache
  <1>17. ASSUME NEW p \in Thread, JobDropFiles(p) PROVE Listed'
    BY <1>17 DEF JobDropFiles
  <1>18. ASSUME NEW p \in Thread, JobClear(p) PROVE Listed'
    BY <1>18 DEF JobClear
  <1>19. CASE Begin
    <2>1. sy = Idle /\ sy' = [sy EXCEPT !.pc = "state"] /\ UNCHANGED <<store, server, fetch>>
      BY <1>19 DEF Begin
    <2>2. sy'.pc = "state" /\ ~sy'.fresh /\ ~sy.fresh /\ fetch.pc = "off"
      BY <2>1 DEF Idle
    <2> QED BY <2>1, <2>2
  <1>20. CASE SyncState
    BY <1>20 DEF SyncState, Start, NoJob
  <1>21. CASE ResolvedNote
    BY <1>21 DEF ResolvedNote, StartFetch, NoJob, NoFetch
  <1>22. CASE FetchDone
    BY <1>22 DEF FetchDone, NoFetch
  <1>23. CASE ClearNote
    BY <1>23 DEF ClearNote
  <1>24. CASE Books
    BY <1>24 DEF Books, Start, NoJob
  <1>25. CASE ResolvedBook
    BY <1>25 DEF ResolvedBook, StartFetch, NoJob, NoFetch
  <1>26. CASE ClearBook
    BY <1>26 DEF ClearBook
  <1>27. CASE Pull
    BY <1>27 DEF Pull, Idle
  <1>28. CASE StoreNoteGist
    BY <1>28 DEF StoreNoteGist
  <1>29. CASE StoreNoteAttachments
    BY <1>29 DEF StoreNoteAttachments, SetAttachmentsDataFromServer
  <1>30. CASE StoreNotebook
    BY <1>30 DEF StoreNotebook, Idle
  <1>31. CASE Decide
    BY <1>31, ZenonT(60) DEF Decide, StartFetch, NoFetch, MustFetch, Available, Shows
  <1>32. CASE Checkpoint
    BY <1>32 DEF Checkpoint, Idle
  <1>33. CASE ReadNote
    BY <1>33 DEF ReadNote, Idle, Available, Shows
  <1>34. CASE StorePushedNote
    BY <1>34 DEF StorePushedNote, SetPushedNote
  <1>35. CASE StorePushedAttachments
    BY <1>35 DEF StorePushedAttachments, Idle, SetAttachmentsDataFromServer
  <1>36. CASE ClearFlag
    BY <1>36 DEF ClearFlag, Idle
  <1>37. ASSUME NEW answered \in BOOLEAN, UpdateNote(answered) PROVE Listed'
    BY <1>37 DEF UpdateNote, Idle
  <1>38. CASE SyncFails
    BY <1>38 DEF SyncFails, Idle
  <1>39. CASE FetchNeeds
    BY <1>39 DEF FetchNeeds
  <1>40. CASE FetchUpToDate
    BY <1>40 DEF FetchUpToDate, AfterNote, UpToDate, Latest
  <1>41. CASE FetchNote
    BY <1>41 DEF FetchNote
  <1>42. CASE FetchStoreAttachments
    BY <1>42 DEF FetchStoreAttachments, SetAttachmentsDataFromServer
  <1>43. CASE FetchStoreContent
    BY <1>43 DEF FetchStoreContent, NoFetch, AfterNote, SetFetchedNoteContent
  <1>44. CASE FetchFiles
    BY <1>44 DEF FetchFiles
  <1>45. CASE FetchKeep
    BY <1>45 DEF FetchKeep, NoFetch
  <1>46. CASE FetchFails
    BY <1>46 DEF FetchFails, AfterNote, UpToDate, Latest
  <1>47. CASE ServerEdits
    BY <1>47 DEF ServerEdits, ServerChanges, Change
  <1>48. CASE ServerMoves
    BY <1>48 DEF ServerMoves, ServerChanges, Change
  <1>49. CASE EvictContent
    BY <1>49 DEF EvictContent
  <1>50. CASE EvictAttachment
    BY <1>50 DEF EvictAttachment
  <1>51. CASE Restart
    BY <1>51 DEF Restart, Change, NoJob, NoFetch, Idle
  <1>52. CASE UNCHANGED vars
    BY <1>52 DEF vars
  <1>53. CASE DeferConflict
    BY <1>53 DEF DeferConflict
  <1>54. CASE Conflicts
    BY <1>54 DEF Conflicts, NoFetch
  <1>55. CASE ClearConflicts
    BY <1>55 DEF ClearConflicts
  <1> QED
    BY <1>1, <1>2, <1>3, <1>4, <1>5, <1>6, <1>7, <1>8, <1>9, <1>10, <1>11, <1>12, <1>13,
    <1>14, <1>15, <1>16, <1>17, <1>18, <1>19, <1>20, <1>21, <1>22, <1>23, <1>24, <1>25, <1>26,
    <1>27, <1>28, <1>29, <1>30, <1>31, <1>32, <1>33, <1>34, <1>35, <1>36, <1>37, <1>38, <1>39,
    <1>40, <1>41, <1>42, <1>43, <1>44, <1>45, <1>46, <1>47, <1>48, <1>49, <1>50, <1>51, <1>52,
    <1>53, <1>54, <1>55
       DEF Next, User, GuiThread, SyncThread, Elsewhere, Synchronize, Job, Fetch, Thread

\* Every step keeps the content known to be on the server true to it.
LEMMA SyncedStep ==
    ASSUME BasicInv, EditInv, StatusInv, SyncedInv, [Next]_vars
    PROVE  Synced'
  <1> USE DEF BasicInv, SyncedInv, EditInv, PushEdit, Synced, Current, Stages, Types, store,
            Busy, PullStages, PushStages, ContentType, ServerType, FetchType, SyncType
  <1>1. CASE SetFavourite
    BY <1>1 DEF SetFavourite, Change, Free
  <1>2. CASE SetNotebookForNote
    BY <1>2 DEF SetNotebookForNote, Change, Free
  <1>3. CASE MarkBook
    BY <1>3 DEF MarkBook, Change, Free
  <1>4. CASE Edit
    BY <1>4 DEF Edit, Change, Free, Available
  <1>5. CASE ShowNote
    BY <1>5 DEF ShowNote, Free, SetFetchedNoteContent, SetAttachmentsDataFromServer, Available
  <1>6. CASE SetNoteHasUnpushedChanges
    BY <1>6 DEF SetNoteHasUnpushedChanges
  <1>7. CASE MarkNote
    BY <1>7 DEF MarkNote
  <1>8. CASE SetOfflineNotebookIds
    BY <1>8 DEF SetOfflineNotebookIds
  <1>9. CASE TimerFires
    BY <1>9 DEF TimerFires, Start, Free, NoJob
  <1>10. CASE JobDone
    BY <1>10 DEF JobDone, NoJob
  <1>11. ASSUME NEW p \in Thread, JobNeeds(p) PROVE Synced'
    BY <1>11 DEF JobNeeds
  <1>12. ASSUME NEW p \in Thread, JobContent(p) PROVE Synced'
    BY <1>12 DEF JobContent
  <1>13. ASSUME NEW p \in Thread, JobFiles(p) PROVE Synced'
    BY <1>13 DEF JobFiles
  <1>14. ASSUME NEW p \in Thread, JobCheck(p) PROVE Synced'
    BY <1>14 DEF JobCheck
  <1>15. ASSUME NEW p \in Thread, JobBase(p) PROVE Synced'
    BY <1>15 DEF JobBase
  <1>16. ASSUME NEW p \in Thread, JobDrop(p) PROVE Synced'
    BY <1>16 DEF JobDrop, Unedited, MovedToCache
  <1>17. ASSUME NEW p \in Thread, JobDropFiles(p) PROVE Synced'
    BY <1>17 DEF JobDropFiles
  <1>18. ASSUME NEW p \in Thread, JobClear(p) PROVE Synced'
    BY <1>18 DEF JobClear
  <1>19. CASE Begin
    <2>1. sy = Idle /\ sy' = [sy EXCEPT !.pc = "state"] /\ UNCHANGED <<store, server, fetch>>
      BY <1>19 DEF Begin
    <2>2. sy'.pc = "state" /\ ~sy'.fresh /\ ~sy.fresh /\ fetch.pc = "off"
      BY <2>1 DEF Idle
    <2> QED BY <2>1, <2>2
  <1>20. CASE SyncState
    BY <1>20 DEF SyncState, Start, NoJob
  <1>21. CASE ResolvedNote
    BY <1>21 DEF ResolvedNote, StartFetch, NoJob, NoFetch
  <1>22. CASE FetchDone
    BY <1>22 DEF FetchDone, NoFetch
  <1>23. CASE ClearNote
    BY <1>23 DEF ClearNote
  <1>24. CASE Books
    BY <1>24 DEF Books, Start, NoJob
  <1>25. CASE ResolvedBook
    BY <1>25 DEF ResolvedBook, StartFetch, NoJob, NoFetch
  <1>26. CASE ClearBook
    BY <1>26 DEF ClearBook
  <1>27. CASE Pull
    BY <1>27 DEF Pull, Idle
  <1>28. CASE StoreNoteGist
    BY <1>28 DEF StoreNoteGist
  <1>29. CASE StoreNoteAttachments
    BY <1>29 DEF StoreNoteAttachments, SetAttachmentsDataFromServer
  <1>30. CASE StoreNotebook
    BY <1>30 DEF StoreNotebook, Idle
  <1>31. CASE Decide
    BY <1>31, ZenonT(60) DEF Decide, StartFetch, NoFetch, MustFetch, Available, Shows
  <1>32. CASE Checkpoint
    BY <1>32 DEF Checkpoint, Idle
  <1>33. CASE ReadNote
    BY <1>33 DEF ReadNote, Idle, Available, Shows
  <1>34. CASE StorePushedNote
    BY <1>34 DEF StorePushedNote, SetPushedNote
  <1>35. CASE StorePushedAttachments
    BY <1>35 DEF StorePushedAttachments, Idle, SetAttachmentsDataFromServer
  <1>36. CASE ClearFlag
    BY <1>36 DEF ClearFlag, Idle
  <1>37. ASSUME NEW answered \in BOOLEAN, UpdateNote(answered) PROVE Synced'
    BY <1>37 DEF UpdateNote, Idle
  <1>38. CASE SyncFails
    BY <1>38 DEF SyncFails, Idle
  <1>39. CASE FetchNeeds
    BY <1>39 DEF FetchNeeds
  <1>40. CASE FetchUpToDate
    BY <1>40 DEF FetchUpToDate, AfterNote, UpToDate, Latest
  <1>41. CASE FetchNote
    BY <1>41 DEF FetchNote
  <1>42. CASE FetchStoreAttachments
    BY <1>42 DEF FetchStoreAttachments, SetAttachmentsDataFromServer
  <1>43. CASE FetchStoreContent
    BY <1>43 DEF FetchStoreContent, NoFetch, AfterNote, SetFetchedNoteContent
  <1>44. CASE FetchFiles
    BY <1>44, ZenonT(60) DEF FetchFiles
  <1>45. CASE FetchKeep
    BY <1>45 DEF FetchKeep, NoFetch
  <1>46. CASE FetchFails
    BY <1>46 DEF FetchFails, AfterNote, UpToDate, Latest
  <1>47. CASE ServerEdits
    BY <1>47 DEF ServerEdits, ServerChanges, Change
  <1>48. CASE ServerMoves
    BY <1>48 DEF ServerMoves, ServerChanges, Change
  <1>49. CASE EvictContent
    BY <1>49 DEF EvictContent
  <1>50. CASE EvictAttachment
    BY <1>50 DEF EvictAttachment
  <1>51. CASE Restart
    BY <1>51 DEF Restart, Change, NoJob, NoFetch, Idle
  <1>52. CASE UNCHANGED vars
    BY <1>52 DEF vars
  <1>53. CASE DeferConflict
    BY <1>53 DEF DeferConflict
  <1>54. CASE Conflicts
    BY <1>54 DEF Conflicts, NoFetch
  <1>55. CASE ClearConflicts
    BY <1>55 DEF ClearConflicts
  <1> QED
    BY <1>1, <1>2, <1>3, <1>4, <1>5, <1>6, <1>7, <1>8, <1>9, <1>10, <1>11, <1>12, <1>13,
    <1>14, <1>15, <1>16, <1>17, <1>18, <1>19, <1>20, <1>21, <1>22, <1>23, <1>24, <1>25, <1>26,
    <1>27, <1>28, <1>29, <1>30, <1>31, <1>32, <1>33, <1>34, <1>35, <1>36, <1>37, <1>38, <1>39,
    <1>40, <1>41, <1>42, <1>43, <1>44, <1>45, <1>46, <1>47, <1>48, <1>49, <1>50, <1>51, <1>52,
    <1>53, <1>54, <1>55
       DEF Next, User, GuiThread, SyncThread, Elsewhere, Synchronize, Job, Fetch, Thread

-----------------------------------------------------------------------------
(* The note is here.                                                        *)

\* Its content is in content.ini: the latest, or an edit of an older one, whose
\* conflict the page is about to put down, or has put down for a resolution
\* that is still to come.
Secured ==
    content.valid /\ (Latest \/ gui.pc = "defer" \/ (deferred /\ ~Clearing))

\* The note is here: its content and its attachment.
Good == Secured /\ HasFile

\* It has to be, and the code did not forget.
Owed == Needed /\ ~forgot

\* synchronize() is past the point where it decides what to fetch for a
\* pulled note.
Settled == server.pulled \/ (sy.fresh /\ sy.pc \in {"checkpoint"} \cup PushStages)

\* Neither list has the note, and the user has made no change that will put
\* it there; a notebook leaves its list at the end of clearBook.
NotPending ==
    /\ ~marked /\ gui.pc \notin {"flagNote", "markNote"}
    /\ status.favourite \/ ~bookMarked \/ ~status.inBook \/ sy.pc = "clearBook"

\* A job has made it available, and will take it from the list or just has.
Resolving == \E p \in Thread : job[p].required /\ (job[p].pc = "clear" \/ job[p].made)

\* What a fetch has made of the note so far; that of a deferred conflict asks
\* for no attachment.
Fetched ==
    Owed /\ Current =>
      /\ fetch.pc \in {"files", "keep"} => Secured
      /\ fetch.pc = "keep" => fetch.att = att.listed
      /\ sy.pc # "fetchConflict" /\ fetch.pc = "done" => Good
      /\ sy.pc # "fetchConflict" /\ ~fetch.files => Good

\* A note that must be here, that nothing has still to be done for, is here.
\* That the status is resolved counts from the moment it is certain, not only
\* when the list is written.
Here == Owed /\ Settled /\ (NotPending \/ Resolving \/ sy.pc = "clearNote") => Good

\* What a needed note has.
HereInv == Fetched /\ Here

\* The list of attachments from the server keeps the file of the attachment
\* that it had, if it is the same version.
LEMMA FilesKept ==
    ASSUME NEW v, SetAttachmentsDataFromServer(v), Needed, v = att.listed
    PROVE  att'.listed = att.listed /\ (HasFile => HasFile')
  BY DEF SetAttachmentsDataFromServer, HasFile

\* The fetch of a note stores the list of its attachments before its content.
LEMMA FetchStoreAttachmentsKeeps ==
    ASSUME BasicInv, SyncedInv, HereInv, FetchStoreAttachments
    PROVE  HereInv'
  <1>1. /\ fetch.pc = "storeAttachments" /\ fetch'.pc = "storeContent" /\ fetch'.files = fetch.files
        /\ SetAttachmentsDataFromServer(fetch.att)
        /\ UNCHANGED <<status, marked, bookMarked, content, deferred, server, gui, job, sy, forgot>>
    BY DEF FetchStoreAttachments, BasicInv, Types, FetchType
  <1>2. Current => att.listed = fetch.att
    BY <1>1 DEF BasicInv, Stages, Busy, SyncedInv, Listed, Current
  <1>3. Needed /\ Current /\ Good => Good'
    <2>1. Secured' <=> Secured
      BY <1>1 DEF Secured, Latest, Clearing
    <2> QED BY <1>1, <1>2, <2>1, FilesKept DEF Good
  <1>4. (Owed' <=> Owed) /\ (Current' <=> Current) /\ (Owed => Needed)
    BY <1>1 DEF Owed, Needed, Current
  <1>5. Fetched'
    BY <1>1, <1>3, <1>4 DEF Fetched, HereInv
  <1>6. /\ (Settled' <=> Settled) /\ (NotPending' <=> NotPending)
        /\ (Resolving' <=> Resolving) /\ sy' = sy
    BY <1>1 DEF Settled, NotPending, Resolving
  <1>7. Settled => Current
    BY DEF Settled, Current
  <1> QED BY <1>3, <1>4, <1>5, <1>6, <1>7 DEF HereInv, Here

\* A fetched content, if it is the latest, makes a needed note available.
LEMMA FetchedContentIsHere ==
    ASSUME Types, NEW got, got # None, SetFetchedNoteContent(got), Needed, content.synced = got
    PROVE  ContentAvailableOffline'
  BY DEF SetFetchedNoteContent, ContentAvailableOffline, Latest

\* The fetch of a note stores its content.
LEMMA FetchStoreContentKeeps ==
    ASSUME BasicInv, SyncedInv, HereInv, FetchStoreContent
    PROVE  HereInv'
  <1>1. /\ fetch.pc = "storeContent" /\ fetch'.files = TRUE
        /\ fetch'.pc = AfterNote
        /\ SetFetchedNoteContent(fetch.content)
        /\ UNCHANGED <<status, marked, bookMarked, att, server, gui, job, sy, forgot>>
    BY DEF FetchStoreContent, NoFetch
  <1>2. Current => content.synced = fetch.content
    BY <1>1 DEF BasicInv, Stages, Busy, SyncedInv, Synced, Current
  <1>3. Needed /\ Current => Secured'
    <2>1. Needed /\ Current => ContentAvailableOffline'
      BY <1>1, <1>2, FetchedContentIsHere DEF BasicInv, NotNone
    <2> QED BY <2>1 DEF ContentAvailableOffline, Secured
  <1>4. (Owed' <=> Owed) /\ (Current' <=> Current) /\ (Owed => Needed) /\ (HasFile' <=> HasFile)
    BY <1>1 DEF Owed, Needed, Current, HasFile
  <1>5. Fetched'
    BY <1>1, <1>3, <1>4 DEF Fetched, HereInv, Good, AfterNote, BasicInv, Stages
  <1>6. /\ (Settled' <=> Settled) /\ (NotPending' <=> NotPending)
        /\ (Resolving' <=> Resolving) /\ sy' = sy
    BY <1>1 DEF Settled, NotPending, Resolving
  <1>7. Settled => Current
    BY DEF Settled, Current
  <1> QED BY <1>3, <1>4, <1>5, <1>6, <1>7 DEF HereInv, Here, Good

\* The fetch of the attachments comes after that of the content.
LEMMA FetchFilesKeeps ==
    ASSUME BasicInv, HereInv, FetchFiles
    PROVE  Fetched'
  <1>1. /\ fetch.pc = "files" /\ fetch'.files = fetch.files
        /\ \/ HasFile /\ fetch'.pc = "done"
           \/ fetch'.pc = "keep" /\ fetch'.att = att.listed
        /\ UNCHANGED <<store, server, gui, sy, forgot>>
    BY DEF FetchFiles, BasicInv, Types, FetchType
  <1>2. /\ (Owed' <=> Owed) /\ (Current' <=> Current) /\ (HasFile' <=> HasFile)
        /\ sy.pc # "fetchConflict" /\ (Secured' <=> Secured) /\ att' = att
    BY <1>1 DEF BasicInv, Stages, Owed, Needed, Current, HasFile, Secured, Latest, Clearing, store
  <1> QED BY <1>1, <1>2 DEF HereInv, Fetched, Good

\* The pull starts a fetch for what is not here, or for a merge of what is.
LEMMA DecideFetched ==
    ASSUME BasicInv, HereInv, Decide
    PROVE  Fetched'
  <1>1. /\ sy.pc = "decide" /\ sy'.fresh = sy.fresh
        /\ UNCHANGED <<store, server, gui>>
        /\ forgot' = (forgot \/ (Needed /\ ~MustFetch /\ ~HasFile))
        /\ \/ fetch' = [NoFetch EXCEPT !.pc = "needs"]
           \/ ~MustFetch /\ fetch' = [NoFetch EXCEPT !.pc = "note", !.files = FALSE]
           \/ fetch' = fetch
    BY DEF Decide, StartFetch, BasicInv, Types, SyncType
  <1>2. fetch.pc = "off" /\ fetch.files
    BY <1>1 DEF BasicInv, Stages, Busy, Types, FetchType
  <1>3. fetch'.pc \in {"needs", "note", "off"} /\ (~fetch'.files => ~MustFetch)
    BY <1>1, <1>2 DEF NoFetch
  <1>4. ~MustFetch /\ Owed' => Good
    BY <1>1 DEF MustFetch, ContentAvailableOffline, Owed, Needed, Good, Secured, store
  <1>5. Good => Good'
    <2>1. sy'.pc \notin {"fetchConflict", "clearConflicts"}
      BY DEF Decide, BasicInv, Types, SyncType
    <2>2. ~Clearing'
      BY <2>1 DEF Clearing
    <2> QED BY <1>1, <2>2 DEF Good, Secured, Latest, HasFile, store
  <1> QED BY <1>3, <1>4, <1>5 DEF Fetched

\* A pushed note that is needed stays in content.ini.
LEMMA StorePushedNoteKeeps ==
    ASSUME BasicInv, HereInv, StorePushedNote
    PROVE  Here'
  <1>1. /\ sy.pc = "pushed" /\ sy'.pc = "pushedAttachments" /\ sy'.fresh = sy.fresh
        /\ SetPushedNote(sy.content)
        /\ UNCHANGED <<status, marked, bookMarked, att, server, gui, job, forgot>>
    BY DEF StorePushedNote, BasicInv, Types, SyncType
  <1>2. sy.content # None
    BY <1>1 DEF BasicInv, NotNone, Stages
  <1>3. Needed /\ Good => Good'
    BY <1>1, <1>2 DEF SetPushedNote, Good, Secured, Latest, HasFile
  <1>4. (Owed' <=> Owed) /\ (Owed => Needed)
    BY <1>1 DEF Owed, Needed
  <1>5. (Settled' <=> Settled) /\ (NotPending' <=> NotPending) /\ (Resolving' <=> Resolving)
    BY <1>1 DEF Settled, NotPending, Resolving, PushStages
  <1> QED BY <1>1, <1>3, <1>4, <1>5 DEF HereInv, Here

\* The attachments that the answer to a push lists are the note's.
LEMMA StorePushedAttachmentsKeeps ==
    ASSUME BasicInv, SyncedInv, HereInv, StorePushedAttachments
    PROVE  Here'
  <1>1. /\ sy.pc = "pushedAttachments" /\ sy'.pc = "clearFlag" /\ sy'.fresh = sy.fresh
        /\ SetAttachmentsDataFromServer(sy.att)
        /\ UNCHANGED <<status, marked, bookMarked, content, deferred, server, gui, job, forgot>>
    BY DEF StorePushedAttachments, Idle
  <1>2. Settled => att.listed = sy.att
    BY <1>1 DEF BasicInv, Stages, PushStages, PullStages, SyncedInv, Listed, Current, Settled
  <1>3. Needed /\ Settled /\ Good => Good'
    <2>1. Secured => Secured'
      BY <1>1 DEF Secured, Latest, Clearing
    <2> QED BY <1>1, <1>2, <2>1, FilesKept DEF Good
  <1>4. (Owed' <=> Owed) /\ (Owed => Needed)
    BY <1>1 DEF Owed, Needed
  <1>5. (Settled' <=> Settled) /\ (NotPending' <=> NotPending) /\ (Resolving' <=> Resolving)
    BY <1>1 DEF Settled, NotPending, Resolving, PushStages
  <1> QED BY <1>1, <1>3, <1>4, <1>5 DEF HereInv, Here

\* A status is resolved with the cached data only if the note is here.
LEMMA JobCheckKeeps ==
    ASSUME BasicInv, StatusInv, HereInv, NEW p \in Thread, JobCheck(p)
    PROVE  Here'
  <1>1. /\ job[p].pc = "check" /\ UNCHANGED <<store, server, gui, fetch, sy, forgot>>
        /\ \A q \in Thread \ {p} : job'[q] = job[q]
        /\ job'[p].pc = "clear" => Good
        /\ job'[p].pc \in {"clear", "done"} /\ job'[p].made = job[p].made
    BY DEF JobCheck, Resolved, ContentAvailableOffline, Good, Secured, BasicInv, Types, JobType
  <1>2. ~job[p].made
    BY <1>1 DEF StatusInv, Paths
  <1>3. Resolving' => Resolving \/ Good
    BY <1>1, <1>2 DEF Resolving
  <1>4. /\ (Owed' <=> Owed) /\ (Settled' <=> Settled)
        /\ (NotPending' <=> NotPending) /\ (Good' <=> Good)
    BY <1>1 DEF Owed, Needed, Settled, NotPending, Good, Secured, Latest, Clearing, HasFile, store
  <1> QED BY <1>1, <1>3, <1>4 DEF HereInv, Here

\* A job drops nothing of a note that must be here.
LEMMA DropsWhenNotOwed ==
    ASSUME StatusInv, NEW p \in Thread, job[p].pc \in {"drop", "dropFiles"}
    PROVE  ~Owed
  BY DEF StatusInv, SameStatus, Paths, Owed

\* Every step of a fetch brings the note closer to being here.
LEMMA FetchedStep ==
    ASSUME BasicInv, EditInv, StatusInv, SyncedInv, HereInv, [Next]_vars
    PROVE  Fetched'
  <1> USE DEF BasicInv, StatusInv, HereInv, Fetched, Good, Owed, Current, Needed,
            ContentAvailableOffline, Latest, Secured, Clearing, HasFile, Types, Stages, Busy,
            PullStages, PushStages, store,
            Thread, StatusType, ContentType, AttType, ServerType, GuiType, JobType, FetchType,
            SyncType
  <1>1. CASE SetFavourite
    BY <1>1 DEF SetFavourite, Change, Free, UnderWay
  <1>2. CASE SetNotebookForNote
    BY <1>2 DEF SetNotebookForNote, Change, Free, UnderWay
  <1>3. CASE MarkBook
    BY <1>3 DEF MarkBook, Change, Free
  <1>4. CASE Edit
    BY <1>4 DEF Edit, Change, Free, Available
  <1>5. CASE ShowNote
    BY <1>5 DEF ShowNote, Free, SetFetchedNoteContent, SetAttachmentsDataFromServer, Available
  <1>6. CASE SetNoteHasUnpushedChanges
    BY <1>6 DEF SetNoteHasUnpushedChanges
  <1>7. CASE MarkNote
    BY <1>7 DEF MarkNote
  <1>8. CASE SetOfflineNotebookIds
    BY <1>8 DEF SetOfflineNotebookIds, UnderWay
  <1>9. CASE TimerFires
    BY <1>9 DEF TimerFires, Start, Free, NoJob
  <1>10. CASE JobDone
    BY <1>10 DEF JobDone, NoJob
  <1>11. ASSUME NEW p \in Thread, JobNeeds(p) PROVE Fetched'
    BY <1>11 DEF JobNeeds
  <1>12. ASSUME NEW p \in Thread, JobContent(p) PROVE Fetched'
    BY <1>12 DEF JobContent
  <1>13. ASSUME NEW p \in Thread, JobFiles(p) PROVE Fetched'
    BY <1>13 DEF JobFiles
  <1>14. ASSUME NEW p \in Thread, JobCheck(p) PROVE Fetched'
    BY <1>14 DEF JobCheck
  <1>15. ASSUME NEW p \in Thread, JobBase(p) PROVE Fetched'
    BY <1>15 DEF JobBase
  <1>16. ASSUME NEW p \in Thread, JobDrop(p) PROVE Fetched'
    <2>1. job[p].pc = "drop" /\ UNCHANGED <<status, forgot>>
      BY <1>16 DEF JobDrop
    <2>2. ~Owed
      BY <2>1, DropsWhenNotOwed
    <2> QED BY <2>1, <2>2
  <1>17. ASSUME NEW p \in Thread, JobDropFiles(p) PROVE Fetched'
    <2>1. job[p].pc = "dropFiles" /\ UNCHANGED <<status, forgot>>
      BY <1>17 DEF JobDropFiles
    <2>2. ~Owed
      BY <2>1, DropsWhenNotOwed
    <2> QED BY <2>1, <2>2
  <1>18. ASSUME NEW p \in Thread, JobClear(p) PROVE Fetched'
    BY <1>18 DEF JobClear
  <1>19. CASE Begin
    <2>1. fetch.pc = "off" /\ fetch'.pc = "off" /\ fetch.files /\ fetch'.files
      BY <1>19 DEF Begin, Idle
    <2> QED BY <2>1
  <1>20. CASE SyncState
    BY <1>20 DEF SyncState, Start, NoJob
  <1>21. CASE ResolvedNote
    BY <1>21 DEF ResolvedNote, StartFetch, NoJob, NoFetch
  <1>22. CASE FetchDone
    BY <1>22 DEF FetchDone, NoFetch
  <1>23. CASE ClearNote
    BY <1>23 DEF ClearNote
  <1>24. CASE Books
    BY <1>24 DEF Books, Start, NoJob
  <1>25. CASE ResolvedBook
    BY <1>25 DEF ResolvedBook, StartFetch, NoJob, NoFetch
  <1>26. CASE ClearBook
    BY <1>26 DEF ClearBook
  <1>27. CASE Pull
    BY <1>27 DEF Pull, Idle
  <1>28. CASE StoreNoteGist
    BY <1>28 DEF StoreNoteGist
  <1>29. CASE StoreNoteAttachments
    BY <1>29 DEF StoreNoteAttachments, SetAttachmentsDataFromServer
  <1>30. CASE StoreNotebook
    BY <1>30 DEF StoreNotebook, Idle
  <1>31. CASE Decide
    <2> HIDE DEF BasicInv, StatusInv, HereInv, Fetched
    <2> QED BY <1>31, DecideFetched DEF HereInv
  <1>32. CASE Checkpoint
    BY <1>32 DEF Checkpoint, Idle
  <1>33. CASE ReadNote
    BY <1>33 DEF ReadNote, Idle, Available, Shows
  <1>34. CASE StorePushedNote
    BY <1>34 DEF StorePushedNote, SetPushedNote
  <1>35. CASE StorePushedAttachments
    BY <1>35 DEF StorePushedAttachments, Idle, SetAttachmentsDataFromServer
  <1>36. CASE ClearFlag
    BY <1>36 DEF ClearFlag, Idle
  <1>37. ASSUME NEW answered \in BOOLEAN, UpdateNote(answered) PROVE Fetched'
    BY <1>37 DEF UpdateNote, Idle
  <1>38. CASE SyncFails
    BY <1>38 DEF SyncFails, Idle
  <1>39. CASE FetchNeeds
    BY <1>39 DEF FetchNeeds
  <1>40. CASE FetchUpToDate
    BY <1>40 DEF FetchUpToDate, AfterNote, UpToDate, Latest
  <1>41. CASE FetchNote
    BY <1>41 DEF FetchNote
  <1>42. CASE FetchStoreAttachments
    <2> HIDE DEF BasicInv, StatusInv, HereInv, Fetched
    <2> QED BY <1>42, FetchStoreAttachmentsKeeps DEF HereInv
  <1>43. CASE FetchStoreContent
    <2> HIDE DEF BasicInv, StatusInv, HereInv, Fetched
    <2> QED BY <1>43, FetchStoreContentKeeps DEF HereInv
  <1>44. CASE FetchFiles
    <2> HIDE DEF BasicInv, StatusInv, HereInv, Fetched
    <2> QED BY <1>44, FetchFilesKeeps DEF HereInv
  <1>45. CASE FetchKeep
    BY <1>45 DEF FetchKeep, NoFetch
  <1>46. CASE FetchFails
    BY <1>46 DEF FetchFails, AfterNote, UpToDate, Latest
  <1>47. CASE ServerEdits
    BY <1>47 DEF ServerEdits, ServerChanges, Change
  <1>48. CASE ServerMoves
    BY <1>48 DEF ServerMoves, ServerChanges, Change
  <1>49. CASE EvictContent
    BY <1>49 DEF EvictContent
  <1>50. CASE EvictAttachment
    BY <1>50 DEF EvictAttachment
  <1>51. CASE Restart
    BY <1>51 DEF Restart, Change, NoJob, NoFetch, Idle
  <1>52. CASE UNCHANGED vars
    BY <1>52 DEF vars
  <1>53. CASE DeferConflict
    BY <1>53 DEF DeferConflict
  <1>54. CASE Conflicts
    <2>1. Types
      OBVIOUS
    <2> HIDE DEF Types
    <2>2. fetch.pc = "off" /\ (Current' <=> Current) /\ (Owed' <=> Owed) /\ (HasFile' <=> HasFile)
      BY <1>54, <2>1, ConflictsDoes
    <2>3. Secured => Secured'
      BY <1>54, <2>1, <2>2, ConflictsDoes
    <2> QED BY <1>54, <2>1, <2>2, <2>3, ConflictsDoes
  <1>55. CASE ClearConflicts
    BY <1>55 DEF ClearConflicts
  <1> HIDE DEF BasicInv, StatusInv, HereInv, Fetched, Good, Owed, Current, Needed, Types, Stages
  <1> QED
    BY <1>1, <1>2, <1>3, <1>4, <1>5, <1>6, <1>7, <1>8, <1>9, <1>10, <1>11, <1>12, <1>13,
    <1>14, <1>15, <1>16, <1>17, <1>18, <1>19, <1>20, <1>21, <1>22, <1>23, <1>24, <1>25, <1>26,
    <1>27, <1>28, <1>29, <1>30, <1>31, <1>32, <1>33, <1>34, <1>35, <1>36, <1>37, <1>38, <1>39,
    <1>40, <1>41, <1>42, <1>43, <1>44, <1>45, <1>46, <1>47, <1>48, <1>49, <1>50, <1>51, <1>52,
    <1>53, <1>54, <1>55
       DEF Next, User, GuiThread, SyncThread, Elsewhere, Synchronize, Job, Fetch, Thread

\* Every step keeps a needed note here: another client's change makes it not
\* settled, a change of its status pending, and a job drops what is not
\* needed.
LEMMA HereStep ==
    ASSUME BasicInv, EditInv, StatusInv, SyncedInv, HereInv, [Next]_vars
    PROVE  Here'
  <1> USE DEF BasicInv, StatusInv, HereInv, Fetched, Good, Owed, Current, Needed,
            ContentAvailableOffline, Latest, Secured, Clearing, HasFile, Types, Stages, Busy,
            PullStages, PushStages, store,
            Thread, StatusType, ContentType, AttType, ServerType, GuiType, JobType, FetchType,
            SyncType,
            Here, Settled, NotPending, Resolving, Paths, SameStatus
  <1>1. CASE SetFavourite
    BY <1>1 DEF SetFavourite, Change, Free, UnderWay
  <1>2. CASE SetNotebookForNote
    BY <1>2 DEF SetNotebookForNote, Change, Free, UnderWay
  <1>3. CASE MarkBook
    BY <1>3 DEF MarkBook, Change, Free
  <1>4. CASE Edit
    BY <1>4 DEF Edit, Change, Free, Available
  <1>5. CASE ShowNote
    BY <1>5 DEF ShowNote, Free, SetFetchedNoteContent, SetAttachmentsDataFromServer, Available
  <1>6. CASE SetNoteHasUnpushedChanges
    BY <1>6 DEF SetNoteHasUnpushedChanges
  <1>7. CASE MarkNote
    BY <1>7 DEF MarkNote
  <1>8. CASE SetOfflineNotebookIds
    BY <1>8 DEF SetOfflineNotebookIds, UnderWay
  <1>9. CASE TimerFires
    BY <1>9 DEF TimerFires, Start, Free, NoJob
  <1>10. CASE JobDone
    BY <1>10 DEF JobDone, NoJob
  <1>11. ASSUME NEW p \in Thread, JobNeeds(p) PROVE Here'
    BY <1>11 DEF JobNeeds
  <1>12. ASSUME NEW p \in Thread, JobContent(p) PROVE Here'
    BY <1>12 DEF JobContent
  <1>13. ASSUME NEW p \in Thread, JobFiles(p) PROVE Here'
    BY <1>13 DEF JobFiles
  <1>14. ASSUME NEW p \in Thread, JobCheck(p) PROVE Here'
    <2> HIDE DEF BasicInv, StatusInv, HereInv, Fetched, Here
    <2> QED BY <1>14, JobCheckKeeps DEF HereInv
  <1>15. ASSUME NEW p \in Thread, JobBase(p) PROVE Here'
    BY <1>15 DEF JobBase
  <1>16. ASSUME NEW p \in Thread, JobDrop(p) PROVE Here'
    <2>1. job[p].pc = "drop" /\ UNCHANGED <<status, forgot>>
      BY <1>16 DEF JobDrop
    <2>2. ~Owed
      BY <2>1, DropsWhenNotOwed
    <2> QED BY <2>1, <2>2
  <1>17. ASSUME NEW p \in Thread, JobDropFiles(p) PROVE Here'
    <2>1. job[p].pc = "dropFiles" /\ UNCHANGED <<status, forgot>>
      BY <1>17 DEF JobDropFiles
    <2>2. ~Owed
      BY <2>1, DropsWhenNotOwed
    <2> QED BY <2>1, <2>2
  <1>18. ASSUME NEW p \in Thread, JobClear(p) PROVE Here'
    BY <1>18 DEF JobClear
  <1>19. CASE Begin
    BY <1>19 DEF Begin, Free
  <1>20. CASE SyncState
    BY <1>20 DEF SyncState, Start, NoJob
  <1>21. CASE ResolvedNote
    BY <1>21 DEF ResolvedNote, StartFetch, NoJob, NoFetch
  <1>22. CASE FetchDone
    BY <1>22 DEF FetchDone, NoFetch
  <1>23. CASE ClearNote
    BY <1>23 DEF ClearNote
  <1>24. CASE Books
    BY <1>24 DEF Books, Start, NoJob
  <1>25. CASE ResolvedBook
    BY <1>25 DEF ResolvedBook, StartFetch, NoJob, NoFetch
  <1>26. CASE ClearBook
    BY <1>26 DEF ClearBook
  <1>27. CASE Pull
    BY <1>27 DEF Pull, Idle
  <1>28. CASE StoreNoteGist
    BY <1>28 DEF StoreNoteGist
  <1>29. CASE StoreNoteAttachments
    BY <1>29 DEF StoreNoteAttachments, SetAttachmentsDataFromServer
  <1>30. CASE StoreNotebook
    BY <1>30 DEF StoreNotebook, Idle
  <1>31. CASE Decide
    BY <1>31, ZenonT(60) DEF Decide, StartFetch, NoFetch, MustFetch, Available, Shows
  <1>32. CASE Checkpoint
    BY <1>32 DEF Checkpoint, Idle
  <1>33. CASE ReadNote
    BY <1>33 DEF ReadNote, Idle, Available, Shows
  <1>34. CASE StorePushedNote
    <2> HIDE DEF BasicInv, StatusInv, HereInv, Fetched, Here
    <2> QED BY <1>34, StorePushedNoteKeeps DEF HereInv
  <1>35. CASE StorePushedAttachments
    <2> HIDE DEF BasicInv, StatusInv, HereInv, Fetched, Here
    <2> QED BY <1>35, StorePushedAttachmentsKeeps DEF HereInv
  <1>36. CASE ClearFlag
    BY <1>36 DEF ClearFlag, Idle
  <1>37. ASSUME NEW answered \in BOOLEAN, UpdateNote(answered) PROVE Here'
    BY <1>37 DEF UpdateNote, Idle
  <1>38. CASE SyncFails
    BY <1>38 DEF SyncFails, Idle
  <1>39. CASE FetchNeeds
    BY <1>39 DEF FetchNeeds
  <1>40. CASE FetchUpToDate
    BY <1>40 DEF FetchUpToDate, AfterNote, UpToDate, Latest
  <1>41. CASE FetchNote
    BY <1>41 DEF FetchNote
  <1>42. CASE FetchStoreAttachments
    <2> HIDE DEF BasicInv, StatusInv, HereInv, Fetched, Here
    <2> QED BY <1>42, FetchStoreAttachmentsKeeps DEF HereInv
  <1>43. CASE FetchStoreContent
    <2> HIDE DEF BasicInv, StatusInv, HereInv, Fetched, Here
    <2> QED BY <1>43, FetchStoreContentKeeps DEF HereInv
  <1>44. CASE FetchFiles
    BY <1>44 DEF FetchFiles
  <1>45. CASE FetchKeep
    BY <1>45 DEF FetchKeep, NoFetch
  <1>46. CASE FetchFails
    BY <1>46 DEF FetchFails, AfterNote, UpToDate, Latest
  <1>47. CASE ServerEdits
    BY <1>47 DEF ServerEdits, ServerChanges, Change
  <1>48. CASE ServerMoves
    BY <1>48 DEF ServerMoves, ServerChanges, Change
  <1>49. CASE EvictContent
    BY <1>49 DEF EvictContent
  <1>50. CASE EvictAttachment
    BY <1>50 DEF EvictAttachment
  <1>51. CASE Restart
    BY <1>51 DEF Restart, Change, NoJob, NoFetch, Idle
  <1>52. CASE UNCHANGED vars
    BY <1>52 DEF vars
  <1>53. CASE DeferConflict
    BY <1>53 DEF DeferConflict
  <1>54. CASE Conflicts
    <2>1. Types
      OBVIOUS
    <2> HIDE DEF Types
    <2>2. fetch.pc = "off" /\ (Current' <=> Current) /\ (Owed' <=> Owed) /\ (HasFile' <=> HasFile)
      BY <1>54, <2>1, ConflictsDoes
    <2>3. Secured => Secured'
      BY <1>54, <2>1, <2>2, ConflictsDoes
    <2> QED BY <1>54, <2>1, <2>2, <2>3, ConflictsDoes
  <1>55. CASE ClearConflicts
    BY <1>55 DEF ClearConflicts
  <1> HIDE DEF BasicInv, StatusInv, HereInv, Fetched, Good, Owed, Current, Needed, Types,
              Stages, Here
  <1> QED
    BY <1>1, <1>2, <1>3, <1>4, <1>5, <1>6, <1>7, <1>8, <1>9, <1>10, <1>11, <1>12, <1>13,
    <1>14, <1>15, <1>16, <1>17, <1>18, <1>19, <1>20, <1>21, <1>22, <1>23, <1>24, <1>25, <1>26,
    <1>27, <1>28, <1>29, <1>30, <1>31, <1>32, <1>33, <1>34, <1>35, <1>36, <1>37, <1>38, <1>39,
    <1>40, <1>41, <1>42, <1>43, <1>44, <1>45, <1>46, <1>47, <1>48, <1>49, <1>50, <1>51, <1>52,
    <1>53, <1>54, <1>55
       DEF Next, User, GuiThread, SyncThread, Elsewhere, Synchronize, Job, Fetch, Thread

-----------------------------------------------------------------------------
(* All of it together.                                                      *)

\* The inductive invariant.
OfflineInv == BasicInv /\ EditInv /\ StatusInv /\ SyncedInv /\ HereInv

\* It holds when the program starts.
LEMMA OfflineInit ==
    ASSUME Init
    PROVE  OfflineInv
  <1>1. PICK inBook \in BOOLEAN :
            /\ status = [favourite |-> FALSE, inBook |-> inBook, bookOffline |-> FALSE]
            /\ server = [content |-> 1, att |-> 1, inBook |-> inBook, last |-> 1,
                         pulled |-> TRUE]
    BY DEF Init
  <1>2. ~Needed /\ server.pulled /\ server.content = 1 /\ server.att = 1
    BY <1>1 DEF Needed
  <1>3. /\ \A p \in Thread : job[p].pc = "off" /\ ~job[p].made
        /\ content.synced = 1 /\ att.listed = 1 /\ ~sy.fresh /\ fetch.pc = "off"
    BY DEF Init, NoJob, Idle, NoFetch
  <1>4. StatusInv
    BY <1>3 DEF StatusInv, SameStatus, Paths
  <1>5. SyncedInv
    BY <1>2, <1>3 DEF SyncedInv, Listed, Synced, Current
  <1>6. HereInv
    BY <1>2 DEF HereInv, Fetched, Here, Owed
  <1> QED BY <1>4, <1>5, <1>6, BasicInit DEF OfflineInv

\* Every step keeps it.
LEMMA OfflineStep ==
    ASSUME OfflineInv, [Next]_vars
    PROVE  OfflineInv'
  BY BasicStep, EditStep, SameStatusStep, PathsStep, ListedStep, SyncedStep, FetchedStep, HereStep
     DEF OfflineInv, StatusInv, SyncedInv, HereInv

\* Every reachable state of Offline satisfies Kept: a note that must be
\* available offline, and that no list and no thread has anything to do for,
\* has in content.ini its latest content, or an edit of an older one whose
\* conflict is down for the next synchronisation, and the file of its
\* attachment, but for the ways in which the code forgets (the variable forgot).
THEOREM KeptCorrect == Spec => []Kept
  <1>1. Init => OfflineInv
    BY OfflineInit
  <1>2. OfflineInv /\ [Next]_vars => OfflineInv'
    BY OfflineStep
  <1>3. OfflineInv => Kept
    BY DEF OfflineInv, HereInv, Here, Kept, Owed, Settled, NotPending, Good, Secured
  <1> QED BY <1>1, <1>2, <1>3, PTL DEF Spec

=============================================================================
