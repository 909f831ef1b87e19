--------------------------- MODULE NoteSyncProofs ---------------------------
(***************************************************************************)
(* Proofs about NoteSync, for any number of edits and either treatment of  *)
(* the keys: types, the edit lock, what a merge keeps, the only copy; and  *)
(* of the quiet behaviours, what a content is built on, what is flagged    *)
(* for the push and what a push leaves on the server.                      *)
(***************************************************************************)
EXTENDS NoteSync, FiniteSetTheorems, TLAPS

USE DEF None

-----------------------------------------------------------------------------
(* Types.                                                                  *)

\* A new edit is one of the bounded number; so is the line about a conflict.
LEMMA NewEdits ==
    ASSUME TypeOK
    PROVE  /\ CanEdit => NewEdit \in Edit /\ NewEdit \in 0 .. MaxEdits
           /\ ConflictLine \in Edit /\ ConflictLine \in 0 .. MaxEdits
  BY MaxEditsAssumption DEF TypeOK, CanEdit, NewEdit, ConflictLine, Edit

\* The values the threads start from are of their types.
LEMMA StartTypes ==
    /\ Closed \in UiState
    /\ NoFetch \in FetchState
    /\ NoSnap \in SnapState
  BY DEF Closed, UiState, UiPc, NoFetch, FetchState, FetchPc, NoSnap, SnapState, Content

\* noteData's content is one of the stored ones.
LEMMA AvailableType ==
    ASSUME TypeOK, NEW s \in Content
    PROVE  Available(s) \in Content
  BY DEF TypeOK, Available, Content

\* A merge is made of edits, and keeps the old side.
LEMMA ResolutionsKeepOld ==
    ASSUME NEW new \in Content, NEW old \in Content, NEW m \in Edit,
           NEW c \in Resolutions(new, old, m)
    PROVE  c \in Content /\ old \subseteq c
  BY DEF Resolutions, Content

\* What the page is given by a fetch.
LEMMA PageGotType ==
    ASSUME NEW c \in Content, PageGot(c)
    PROVE  ui' \in UiState
  <1>1. PICK plain \in BOOLEAN :
            ui' = [Closed EXCEPT !.pc = "editing", !.plain = plain, !.text = c, !.base = c]
    BY DEF PageGot
  <1> QED BY <1>1, StartTypes DEF UiState, UiPc

\* The stages at which the sync thread waits for a fetch of its own.
FetchStage ==
    fetch["sync"].pc # "off" => sy \in {"deferFetch", "pullFetch", "prefetching"}

\* What a thread goes on with after a fetch.
LEMMA AfterFetchType ==
    ASSUME TypeOK, FetchStage, NEW p \in Thread, NEW ok, AfterFetch(p, ok),
           fetch[p].pc # "off"
    PROVE  ui' \in UiState /\ sy' \in SyncPc
  <1>1. CASE p = "ui"
    <2>1. fetch[p].got \in Content
      BY DEF TypeOK, FetchState
    <2>2. sy' = sy
      BY <1>1 DEF AfterFetch
    <2>3. PageGot(fetch[p].got) \/ PageGotNothing
      BY <1>1 DEF AfterFetch
    <2> QED BY <2>1, <2>2, <2>3, PageGotType, StartTypes DEF PageGotNothing, TypeOK
  <1>2. CASE p = "sync"
    BY <1>2 DEF AfterFetch, TypeOK, SyncPc, FetchStage
  <1> QED BY <1>1, <1>2 DEF Thread

\* A fetch that goes on does so at the stage it was called at.
LEMMA FetchStageKept ==
    ASSUME TypeOK, FetchStage, NEW p \in Thread, fetch[p].pc # "off",
           \A q \in Thread \ {p} : fetch'[q] = fetch[q],
           sy' = sy
    PROVE  FetchStage'
  BY DEF TypeOK, FetchStage, Thread

\* Every step keeps the types.
TypeInv == TypeOK /\ FetchStage

LEMMA TypeStep ==
    ASSUME TypeInv, [Next]_vars
    PROVE  TypeInv'
  <1> USE DEF TypeInv, FetchStage, TypeOK, gist, store, lists, server, syncThread
  <1>1. CASE CreateNote
    <2>1. ui' \in UiState /\ file' \in Content
      BY <1>1, NewEdits, StartTypes DEF CreateNote, UiState, UiPc, Content
    <2>2. edits' \in 0 .. MaxEdits
      BY <1>1, NewEdits DEF CreateNote
    <2> QED BY <1>1, <2>1, <2>2 DEF CreateNote
  <1>2. CASE OpenGist
    <2>1. ui' \in UiState
      BY <1>2, StartTypes DEF OpenGist, UiState, UiPc
    <2> QED BY <1>2, <2>1 DEF OpenGist
  <1>3. CASE OpenContent
    <2>1. Available(ui.sync) \in Content
      BY <1>3, AvailableType DEF OpenContent, UiState
    <2>2. ui' \in UiState
      <3>1. CASE \E plain \in BOOLEAN :
                   ui' = [ui EXCEPT !.pc = "editing", !.plain = plain,
                                    !.text = Available(ui.sync), !.sync = None]
        BY <3>1, <2>1 DEF UiState, UiPc, Content
      <3>2. CASE ui' \in {Closed, [Closed EXCEPT !.pc = "fetching"]}
        BY <3>2, StartTypes DEF UiState, UiPc
      <3> QED BY <1>3, <3>1, <3>2 DEF OpenContent
    <2>3. fetch' \in [Thread -> FetchState]
      <3>1. fetch' = fetch \/ fetch' = [fetch EXCEPT !["ui"].pc = "ask"]
        BY <1>3 DEF OpenContent
      <3> QED BY <3>1 DEF FetchState, FetchPc, Thread
    <2>4. FetchStage'
      BY <1>3 DEF OpenContent, Thread
    <2> QED BY <1>3, <2>1, <2>2, <2>3, <2>4 DEF OpenContent
  <1>4. CASE SavePlain
    <2>1. ui' \in UiState
      <3>1. CASE CanEdit /\ ui' = [ui EXCEPT !.pc = "saveContent",
                   !.text = @ \cup {NewEdit}, !.dirty = TRUE,
                   !.conflict = base \notin {None, ui.base}]
        <4>1. ui.text \cup {NewEdit} \in Content
          BY <3>1, NewEdits DEF UiState, Content
        <4> QED BY <3>1, <4>1 DEF UiState, UiPc
      <3>2. CASE ui' = [ui EXCEPT !.pc = "saveContent",
                                  !.conflict = base \notin {None, ui.base}]
        BY <3>2 DEF UiState, UiPc
      <3> QED BY <1>4, <3>1, <3>2 DEF SavePlain
    <2>2. edits' \in 0 .. MaxEdits
      BY <1>4, NewEdits DEF SavePlain
    <2>3. base' \in Content
      BY <1>4 DEF SavePlain, UiState
    <2>4. lock' \in Thread
      BY <1>4 DEF SavePlain, TakeLock, Thread
    <2> QED BY <1>4, <2>1, <2>2, <2>3, <2>4 DEF SavePlain
  <1>5. CASE SavePlainContent
    <2>1. ui' \in UiState /\ file' \in Content
      BY <1>5 DEF SavePlainContent, UiState, UiPc
    <2> QED BY <1>5, <2>1 DEF SavePlainContent
  <1>6. CASE AppendText
    <2>1. ui' \in UiState /\ file' \in Content
      BY <1>6, NewEdits DEF AppendText, UiState, UiPc, Content
    <2>2. edits' \in 0 .. MaxEdits
      BY <1>6, NewEdits DEF AppendText
    <2>3. lock' \in Thread
      BY <1>6 DEF AppendText, TakeLock, Thread
    <2> QED BY <1>6, <2>1, <2>2, <2>3 DEF AppendText
  <1>7. CASE SaveCheckboxes
    <2>1. ui' \in UiState /\ file' \in Content
      BY <1>7, NewEdits DEF SaveCheckboxes, UiState, UiPc, Content
    <2>2. edits' \in 0 .. MaxEdits
      BY <1>7, NewEdits DEF SaveCheckboxes
    <2>3. lock' \in Thread
      BY <1>7 DEF SaveCheckboxes, TakeLock, Thread
    <2> QED BY <1>7, <2>1, <2>2, <2>3 DEF SaveCheckboxes
  <1>8. CASE SaveBase
    <2>1. ui' \in UiState /\ base' \in Content
      BY <1>8 DEF SaveBase, UiState, UiPc
    <2> QED BY <1>8, <2>1 DEF SaveBase
  <1>9. CASE SaveConflict
    <2>1. ui' \in UiState
      BY <1>9 DEF SaveConflict, UiState, UiPc
    <2>2. deferred' \in BOOLEAN
      BY <1>9 DEF SaveConflict, UiState
    <2>3. lock' = "none"
      BY <1>9 DEF SaveConflict, ReleaseLock
    <2> QED BY <1>9, <2>1, <2>2, <2>3 DEF SaveConflict
  <1>10. CASE SaveTitle
    <2>1. ui' \in UiState
      BY <1>10 DEF SaveTitle, UiState, UiPc
    <2> QED BY <1>10, <2>1 DEF SaveTitle
  <1>11. CASE FlagNote
    <2>1. ui' \in UiState
      BY <1>11 DEF FlagNote, UiState, UiPc
    <2> QED BY <1>11, <2>1 DEF FlagNote
  <1>12. CASE ClosePage
    <2>1. ui' \in UiState
      BY <1>12, StartTypes DEF ClosePage
    <2> QED BY <1>12, <2>1 DEF ClosePage
  <1>13. CASE SyncStart
    <2>1. sy' \in SyncPc
      BY <1>13 DEF SyncStart, SyncPc
    <2> QED BY <1>13, <2>1 DEF SyncStart
  <1>14. CASE SyncDeferred
    <2>1. sy' \in SyncPc /\ fetch' \in [Thread -> FetchState]
      BY <1>14 DEF SyncDeferred, SyncPc, SyncFetch, FetchState, FetchPc, Thread
    <2>2. FetchStage'
      BY <1>14 DEF SyncDeferred, SyncFetch, Thread
    <2> QED BY <1>14, <2>1, <2>2 DEF SyncDeferred
  <1>15. CASE SyncDeferClear
    <2>1. sy' \in SyncPc
      BY <1>15 DEF SyncDeferClear, SyncPc
    <2> QED BY <1>15, <2>1 DEF SyncDeferClear
  <1>16. CASE SyncPull
    <2>1. sy' \in SyncPc
      BY <1>16 DEF SyncPull, SyncPc
    <2> QED BY <1>16, <2>1 DEF SyncPull
  <1>17. CASE SyncGist
    <2>1. sy' \in SyncPc
      BY <1>17 DEF SyncGist, SyncPc
    <2> QED BY <1>17, <2>1 DEF SyncGist
  <1>18. CASE SyncDecide
    <2>1. sy' \in SyncPc /\ fetch' \in [Thread -> FetchState]
      BY <1>18 DEF SyncDecide, SyncPc, SyncFetch, FetchState, FetchPc, Thread
    <2>2. FetchStage'
      BY <1>18 DEF SyncDecide, SyncFetch, Thread
    <2> QED BY <1>18, <2>1, <2>2 DEF SyncDecide
  <1>19. CASE SyncCheckpoint
    <2>1. sy' \in SyncPc /\ chunk' \in Content
      BY <1>19 DEF SyncCheckpoint, SyncPc, Content
    <2> QED BY <1>19, <2>1 DEF SyncCheckpoint
  <1>20. CASE SyncPrefetch
    <2>1. sy' \in SyncPc /\ fetch' \in [Thread -> FetchState]
      BY <1>20 DEF SyncPrefetch, SyncPc, SyncFetch, FetchState, FetchPc, Thread
    <2>2. FetchStage'
      BY <1>20 DEF SyncPrefetch, SyncFetch, Thread
    <2> QED BY <1>20, <2>1, <2>2 DEF SyncPrefetch
  <1>21. CASE PushGist
    <2>1. sy' \in SyncPc /\ snap' \in SnapState
      BY <1>21, StartTypes DEF PushGist, SyncPc, SnapState
    <2> QED BY <1>21, <2>1 DEF PushGist
  <1>22. CASE PushContent
    <2>1. Available(snap.sync) \in Content
      BY <1>22, AvailableType DEF PushContent, SnapState
    <2>2. sy' \in SyncPc /\ snap' \in SnapState
      BY <1>22, StartTypes, <2>1 DEF PushContent, SyncPc, SnapState
    <2> QED BY <1>22, <2>1, <2>2 DEF PushContent
  <1>23. CASE PushCreate
    <2>1. sy' \in SyncPc /\ snap' \in SnapState
      BY <1>23 DEF PushCreate, SyncPc, SnapState
    <2> QED BY <1>23, <2>1 DEF PushCreate
  <1>24. CASE PushUpdate
    <2>1. srv' \in Content
      BY <1>24 DEF PushUpdate, SnapState
    <2>2. sy' \in SyncPc /\ snap' \in SnapState
      BY <1>24, StartTypes, <2>1 DEF PushUpdate, SyncPc, SnapState
    <2> QED BY <1>24, <2>1, <2>2 DEF PushUpdate
  <1>25. CASE SyncFails
    <2>1. sy' \in SyncPc /\ snap' \in SnapState
      BY <1>25, StartTypes DEF SyncFails, SyncPc
    <2> QED BY <1>25, <2>1 DEF SyncFails
  <1>26. CASE PushSetGuid
    <2>1. sy' \in SyncPc /\ srv' \in Content
      BY <1>26 DEF PushSetGuid, SyncPc, SnapState
    <2> QED BY <1>26, <2>1 DEF PushSetGuid
  <1>27. CASE PushedGist
    <2>1. sy' \in SyncPc /\ base' \in Content /\ syncHash' \in Content
      BY <1>27 DEF PushedGist, SyncPc, SnapState
    <2> QED BY <1>27, <2>1 DEF PushedGist
  <1>28. CASE PushedContent
    <2>1. sy' \in SyncPc
      BY <1>28 DEF PushedContent, SyncPc
    <2> QED BY <1>28, <2>1 DEF PushedContent
  <1>29. CASE PushedDrop
    <2>1. sy' \in SyncPc /\ file' \in Content
      BY <1>29 DEF PushedDrop, SyncPc, Content
    <2> QED BY <1>29, <2>1 DEF PushedDrop
  <1>30. CASE PushedCache
    <2>1. sy' \in SyncPc /\ cache' \in Content
      BY <1>30 DEF PushedCache, SyncPc, SnapState
    <2> QED BY <1>30, <2>1 DEF PushedCache
  <1>31. CASE PushClearFlag
    <2>1. sy' \in SyncPc
      BY <1>31 DEF PushClearFlag, SyncPc
    <2> QED BY <1>31, <2>1 DEF PushClearFlag
  <1>32. CASE PushUsn
    <2>1. sy' \in SyncPc /\ snap' \in SnapState /\ pulled' \in BOOLEAN
      BY <1>32, StartTypes DEF PushUsn, SyncPc, SnapState
    <2> QED BY <1>32, <2>1 DEF PushUsn
  <1>33. CASE OtherClient
    <2>1. srv' \in Content
      BY <1>33, NewEdits DEF OtherClient, Content
    <2>2. edits' \in 0 .. MaxEdits
      BY <1>33, NewEdits DEF OtherClient
    <2> QED BY <1>33, <2>1, <2>2, ZenonT(60) DEF OtherClient
  <1>34. CASE EvictCache
    <2>1. cache' \in Content
      BY <1>34 DEF EvictCache, Content
    <2> QED BY <1>34, <2>1 DEF EvictCache
  <1>35. CASE Crash
    <2>1. ui' \in UiState /\ snap' \in SnapState /\ sy' \in SyncPc
      BY <1>35, StartTypes DEF Crash, SyncPc
    <2>2. fetch' \in [Thread -> FetchState]
      BY <1>35, StartTypes DEF Crash
    <2>3. FetchStage'
      BY <1>35 DEF Crash, NoFetch, Thread
    <2>4. chunk' \in Content
      BY <1>35 DEF Crash, Content
    <2> QED BY <1>35, <2>1, <2>2, <2>3, <2>4 DEF Crash
  <1>36. ASSUME NEW p \in Thread, FetchAsk(p) PROVE TypeInv'
    <2>1. fetch' \in [Thread -> FetchState]
      BY <1>36 DEF FetchAsk, FetchState, FetchPc
    <2>2. FetchStage'
      BY <1>36, FetchStageKept DEF FetchAsk
    <2> QED BY <1>36, <2>1, <2>2 DEF FetchAsk
  <1>37. ASSUME NEW p \in Thread, FetchFail(p) PROVE TypeInv'
    <2>1. fetch' \in [Thread -> FetchState]
      BY <1>37, StartTypes DEF FetchFail
    <2>2. ui' \in UiState /\ sy' \in SyncPc
      BY <1>37, AfterFetchType DEF FetchFail
    <2>3. FetchStage'
      BY <1>37 DEF FetchFail, NoFetch, AfterFetch, Thread
    <2> QED BY <1>37, <2>1, <2>2, <2>3 DEF FetchFail
  <1>38. ASSUME NEW p \in Thread, FetchApply(p) PROVE TypeInv'
    <2>1. fetch' \in [Thread -> FetchState]
      BY <1>38 DEF FetchApply, FetchState, FetchPc
    <2>2. lock' \in Thread
      BY <1>38 DEF FetchApply, TakeLock
    <2>3. FetchStage'
      BY <1>38, FetchStageKept DEF FetchApply
    <2> QED BY <1>38, <2>1, <2>2, <2>3 DEF FetchApply
  <1>39. ASSUME NEW p \in Thread, FetchCompare(p) PROVE TypeInv'
    <2>1. CASE LocalIsNewer(p) /\ fetch' = [fetch EXCEPT ![p] = NoFetch]
                /\ ReleaseLock /\ AfterFetch(p, TRUE) /\ UNCHANGED edits
      <3>1. fetch' \in [Thread -> FetchState]
        BY <2>1, StartTypes
      <3>2. ui' \in UiState /\ sy' \in SyncPc
        BY <1>39, <2>1, AfterFetchType DEF FetchCompare
      <3>3. FetchStage'
        BY <2>1 DEF NoFetch, AfterFetch, Thread
      <3> QED BY <1>39, <2>1, <3>1, <3>2, <3>3 DEF FetchCompare, ReleaseLock
    <2>2. CASE \E c \in Resolutions(fetch[p].got, file, ConflictLine) :
                /\ edits' = IF ConflictLine \in c THEN ConflictLine ELSE edits
                /\ fetch' = [fetch EXCEPT ![p] = [@ EXCEPT !.pc = "write",
                                    !.merged = IF c = fetch[p].got THEN {} ELSE c]]
                /\ UNCHANGED <<lock, ui, sy>>
      <3>1. PICK c \in Resolutions(fetch[p].got, file, ConflictLine) :
                /\ edits' = IF ConflictLine \in c THEN ConflictLine ELSE edits
                /\ fetch' = [fetch EXCEPT ![p] = [@ EXCEPT !.pc = "write",
                                    !.merged = IF c = fetch[p].got THEN {} ELSE c]]
                /\ UNCHANGED <<lock, ui, sy>>
        BY <2>2
      <3>2. fetch[p].got \in Content
        BY DEF FetchState
      <3>3. c \in Content
        BY <3>2, NewEdits, ResolutionsKeepOld
      <3>4. fetch' \in [Thread -> FetchState]
        <4> DEFINE m == IF c = fetch[p].got THEN {} ELSE c
        <4>1. m \in Content
          BY <3>3 DEF Content
        <4>2. fetch' = [fetch EXCEPT ![p] = [fetch[p] EXCEPT !.pc = "write", !.merged = m]]
          BY <3>1
        <4> HIDE DEF m
        <4>3. [fetch[p] EXCEPT !.pc = "write", !.merged = m] \in FetchState
          BY <4>1 DEF FetchState, FetchPc
        <4> QED BY <4>2, <4>3
      <3>5. edits' \in 0 .. MaxEdits
        BY <3>1, NewEdits
      <3>6. FetchStage'
        BY <1>39, <3>1, FetchStageKept DEF FetchCompare
      <3> QED BY <1>39, <3>1, <3>4, <3>5, <3>6 DEF FetchCompare
    <2>3. CASE fetch' = [fetch EXCEPT ![p].pc = "write"] /\ UNCHANGED <<lock, ui, sy, edits>>
      <3>1. fetch' \in [Thread -> FetchState]
        BY <2>3 DEF FetchState, FetchPc
      <3>2. FetchStage'
        BY <1>39, <2>3, FetchStageKept DEF FetchCompare
      <3> QED BY <1>39, <2>3, <3>1, <3>2 DEF FetchCompare
    <2>4. CASE /\ fetch' = [fetch EXCEPT ![p] = [@ EXCEPT !.pc = "write", !.ok = FALSE]]
               /\ UNCHANGED <<lock, ui, sy, edits>>
      <3>1. fetch' \in [Thread -> FetchState]
        BY <2>4 DEF FetchState, FetchPc
      <3>2. FetchStage'
        BY <1>39, <2>4, FetchStageKept DEF FetchCompare
      <3> QED BY <1>39, <2>4, <3>1, <3>2 DEF FetchCompare
    <2> QED BY <1>39, <2>1, <2>2, <2>3, <2>4 DEF FetchCompare
  <1>40. ASSUME NEW p \in Thread, FetchWrite(p) PROVE TypeInv'
    <2>1. fetch' \in [Thread -> FetchState]
      BY <1>40 DEF FetchWrite, FetchState, FetchPc
    <2>2. file' \in Content /\ cache' \in Content
      BY <1>40 DEF FetchWrite, FetchState, Content
    <2>3. FetchStage'
      BY <1>40, FetchStageKept DEF FetchWrite
    <2> QED BY <1>40, <2>1, <2>2, <2>3 DEF FetchWrite
  <1>41. ASSUME NEW p \in Thread, FetchGist(p) PROVE TypeInv'
    <2>1. fetch' \in [Thread -> FetchState]
      BY <1>41, StartTypes DEF FetchGist
    <2>2. ui' \in UiState /\ sy' \in SyncPc
      BY <1>41, AfterFetchType DEF FetchGist
    <2>3. FetchStage'
      BY <1>41 DEF FetchGist, NoFetch, AfterFetch, Thread
    <2>4. base' \in Content /\ syncHash' \in Content
      BY <1>41 DEF FetchGist, FetchState
    <2>5. lock' = "none"
      BY <1>41 DEF FetchGist, ReleaseLock
    <2> QED BY <1>41, <2>1, <2>2, <2>3, <2>4, <2>5 DEF FetchGist
  <1>42. CASE UNCHANGED vars
    BY <1>42 DEF vars
  <1> QED
    BY
       <1>1, <1>2, <1>3, <1>4, <1>5, <1>6, <1>7, <1>8, <1>9, <1>10, <1>11,
       <1>12, <1>13, <1>14, <1>15, <1>16, <1>17, <1>18, <1>19, <1>20, <1>21,
       <1>22, <1>23, <1>24, <1>25, <1>26, <1>27, <1>28, <1>29, <1>30, <1>31,
       <1>32, <1>33, <1>34, <1>35, <1>36, <1>37, <1>38, <1>39, <1>40, <1>41,
       <1>42
       DEF Next, UiStep, SyncStep, FetchStep

\* The initial states are of their types.
LEMMA TypeInit ==
    ASSUME Init
    PROVE  TypeInv
  <1>1. {} \in Content /\ ({1} \in Content)
    BY MaxEditsAssumption DEF Content, Edit
  <1>2. edits \in 0 .. MaxEdits
    <2>1. CASE srv = {}
      BY <2>1, MaxEditsAssumption, FS_EmptySet DEF Init
    <2>2. CASE srv = {1}
      <3>1. Cardinality({1}) = 1
        BY FS_Singleton
      <3> QED BY <2>2, <3>1, MaxEditsAssumption DEF Init
    <2> QED BY <2>1, <2>2 DEF Init
  <1> QED BY <1>1, <1>2, StartTypes DEF Init, TypeInv, TypeOK, FetchStage, SyncPc, NoFetch, Thread

\* Every state of every behaviour of NoteSync is of its types.
THEOREM TypeCorrect == Spec => []TypeOK
  <1>1. Init => TypeInv
    BY TypeInit
  <1>2. TypeInv /\ [Next]_vars => TypeInv'
    BY TypeStep
  <1>3. TypeInv => TypeOK
    BY DEF TypeInv
  <1> QED BY <1>1, <1>2, <1>3, PTL DEF Spec

-----------------------------------------------------------------------------
(* The edit lock.                                                          *)

\* The page waits while a fetch of its own goes on.
PageWaits == fetch["ui"].pc # "off" => ui.pc = "fetching"

LockInv == EditLockHeld /\ PageWaits

\* Every step keeps the lock with whoever needs it: nobody takes it from a
\* holder, and nobody gives it back before the last of the two files.
LEMMA LockStep ==
    ASSUME TypeInv, LockInv, [Next]_vars
    PROVE  LockInv'
  <1> USE DEF LockInv, EditLockHeld, PageWaits, TypeInv, TypeOK, Thread, UiState, FetchState
  <1>1. CASE CreateNote
    BY <1>1 DEF CreateNote, Closed
  <1>2. CASE OpenGist
    BY <1>2 DEF OpenGist, Closed
  <1>3. CASE OpenContent
    <2>1. ui.pc = "open" /\ lock' = lock
      BY <1>3 DEF OpenContent
    <2>2. \/ ui'.pc \in {"editing", "closed"} /\ fetch' = fetch
          \/ ui'.pc = "fetching" /\ fetch' = [fetch EXCEPT !["ui"].pc = "ask"]
      <3>1. CASE Available(ui.sync) # {}
        <4>1. PICK plain \in BOOLEAN :
                   ui' = [ui EXCEPT !.pc = "editing", !.plain = plain,
                                    !.text = Available(ui.sync), !.sync = None]
          BY <1>3, <3>1 DEF OpenContent
        <4>2. ui'.pc = "editing"
          BY <4>1
        <4>3. fetch' = fetch
          BY <1>3, <3>1 DEF OpenContent
        <4> QED BY <4>2, <4>3
      <3>2. CASE Available(ui.sync) = {} /\ ~UpToDate
        BY <1>3, <3>2 DEF OpenContent, Closed
      <3>3. CASE Available(ui.sync) = {} /\ UpToDate
        <4>1. ui' = Closed /\ fetch' = fetch
          BY <1>3, <3>3 DEF OpenContent
        <4>2. ui'.pc = "closed"
          BY <4>1 DEF Closed
        <4> QED BY <4>1, <4>2
      <3> QED BY <3>1, <3>2, <3>3
    <2> QED BY <2>1, <2>2
  <1>4. CASE SavePlain
    BY <1>4 DEF SavePlain, TakeLock
  <1>5. CASE SavePlainContent
    BY <1>5 DEF SavePlainContent
  <1>6. CASE AppendText
    BY <1>6 DEF AppendText, TakeLock
  <1>7. CASE SaveCheckboxes
    BY <1>7 DEF SaveCheckboxes, TakeLock
  <1>8. CASE SaveBase
    BY <1>8 DEF SaveBase
  <1>9. CASE SaveConflict
    BY <1>9 DEF SaveConflict, ReleaseLock
  <1>10. CASE SaveTitle
    BY <1>10 DEF SaveTitle
  <1>11. CASE FlagNote
    BY <1>11 DEF FlagNote
  <1>12. CASE ClosePage
    BY <1>12 DEF ClosePage, Closed
  <1>13. CASE SyncStart
    BY <1>13 DEF SyncStart
  <1>14. CASE SyncDeferred
    BY <1>14 DEF SyncDeferred, SyncFetch
  <1>15. CASE SyncDeferClear
    BY <1>15 DEF SyncDeferClear
  <1>16. CASE SyncPull
    BY <1>16 DEF SyncPull
  <1>17. CASE SyncGist
    BY <1>17 DEF SyncGist
  <1>18. CASE SyncDecide
    BY <1>18 DEF SyncDecide, SyncFetch
  <1>19. CASE SyncCheckpoint
    BY <1>19 DEF SyncCheckpoint
  <1>20. CASE SyncPrefetch
    BY <1>20 DEF SyncPrefetch, SyncFetch
  <1>21. CASE PushGist
    BY <1>21 DEF PushGist
  <1>22. CASE PushContent
    BY <1>22 DEF PushContent
  <1>23. CASE PushCreate
    BY <1>23 DEF PushCreate
  <1>24. CASE PushUpdate
    BY <1>24 DEF PushUpdate
  <1>25. CASE SyncFails
    BY <1>25 DEF SyncFails
  <1>26. CASE PushSetGuid
    BY <1>26 DEF PushSetGuid
  <1>27. CASE PushedGist
    BY <1>27 DEF PushedGist
  <1>28. CASE PushedContent
    BY <1>28 DEF PushedContent
  <1>29. CASE PushedDrop
    BY <1>29 DEF PushedDrop
  <1>30. CASE PushedCache
    BY <1>30 DEF PushedCache
  <1>31. CASE PushClearFlag
    BY <1>31 DEF PushClearFlag
  <1>32. CASE PushUsn
    BY <1>32 DEF PushUsn
  <1>33. CASE OtherClient
    BY <1>33 DEF OtherClient
  <1>34. CASE EvictCache
    BY <1>34 DEF EvictCache
  <1>35. CASE Crash
    BY <1>35 DEF Crash, Closed, NoFetch
  <1>36. ASSUME NEW p \in Thread, FetchAsk(p) PROVE LockInv'
    BY <1>36 DEF FetchAsk
  <1>37. ASSUME NEW p \in Thread, FetchFail(p) PROVE LockInv'
    BY <1>37 DEF FetchFail, AfterFetch, PageGot, PageGotNothing, Closed, NoFetch
  <1>38. ASSUME NEW p \in Thread, FetchApply(p) PROVE LockInv'
    BY <1>38 DEF FetchApply, TakeLock
  <1>39. ASSUME NEW p \in Thread, FetchCompare(p) PROVE LockInv'
    <2>1. fetch[p].pc = "compare" /\ lock = p
      BY <1>39 DEF FetchCompare
    <2>2. CASE /\ \E c : fetch' = [fetch EXCEPT ![p] = [@ EXCEPT !.pc = "write", !.merged = c]]
               /\ UNCHANGED <<lock, ui, sy>>
      BY <2>1, <2>2
    <2>3. CASE /\ \/ fetch' = [fetch EXCEPT ![p].pc = "write"]
                  \/ fetch' = [fetch EXCEPT ![p] = [@ EXCEPT !.pc = "write", !.ok = FALSE]]
               /\ UNCHANGED <<lock, ui, sy>>
      BY <2>1, <2>3
    <2>4. CASE fetch' = [fetch EXCEPT ![p] = NoFetch] /\ ReleaseLock /\ AfterFetch(p, TRUE)
      <3>1. ui.pc \notin {"saveContent", "saveBase", "saveConflict"}
        BY <2>1
      <3>2. ui' = ui \/ ui'.pc = "editing"
        BY <2>4 DEF AfterFetch, PageGot, Closed
      <3>3. \A q \in Thread : fetch'[q].pc \notin {"compare", "write", "gist"}
        BY <2>1, <2>4 DEF NoFetch
      <3>4. fetch'["ui"].pc # "off" => ui' = ui /\ fetch["ui"].pc # "off"
        BY <2>1, <2>4 DEF AfterFetch, NoFetch
      <3> QED BY <3>1, <3>2, <3>3, <3>4
    <2>5. \/ \E c : fetch' = [fetch EXCEPT ![p] = [@ EXCEPT !.pc = "write", !.merged = c]]
                      /\ UNCHANGED <<lock, ui, sy>>
          \/ fetch' = [fetch EXCEPT ![p].pc = "write"] /\ UNCHANGED <<lock, ui, sy>>
          \/ fetch' = [fetch EXCEPT ![p] = [@ EXCEPT !.pc = "write", !.ok = FALSE]]
                      /\ UNCHANGED <<lock, ui, sy>>
          \/ fetch' = [fetch EXCEPT ![p] = NoFetch] /\ ReleaseLock /\ AfterFetch(p, TRUE)
      BY <1>39, Zenon DEF FetchCompare
    <2> QED BY <2>2, <2>3, <2>4, <2>5
  <1>40. ASSUME NEW p \in Thread, FetchWrite(p) PROVE LockInv'
    BY <1>40 DEF FetchWrite
  <1>41. ASSUME NEW p \in Thread, FetchGist(p) PROVE LockInv'
    BY <1>41 DEF FetchGist, ReleaseLock, AfterFetch, PageGot, PageGotNothing, Closed, NoFetch
  <1>42. CASE UNCHANGED vars
    BY <1>42 DEF vars
  <1> QED
    BY <1>1, <1>2, <1>3, <1>4, <1>5, <1>6, <1>7, <1>8, <1>9, <1>10, <1>11,
       <1>12, <1>13, <1>14, <1>15, <1>16, <1>17, <1>18, <1>19, <1>20, <1>21,
       <1>22, <1>23, <1>24, <1>25, <1>26, <1>27, <1>28, <1>29, <1>30, <1>31,
       <1>32, <1>33, <1>34, <1>35, <1>36, <1>37, <1>38, <1>39, <1>40, <1>41,
       <1>42
       DEF Next, UiStep, SyncStep, FetchStep

\* Every state of every behaviour of NoteSync satisfies EditLockHeld: between
\* the base hash and the last write the edit lock is one's own.
THEOREM EditLockCorrect == Spec => []EditLockHeld
  <1>1. Init => TypeInv /\ LockInv
    <2> SUFFICES ASSUME Init PROVE TypeInv /\ LockInv
      OBVIOUS
    <2>1. \A p \in Thread : fetch[p].pc = "off"
      BY DEF Init, NoFetch
    <2> QED BY <2>1, TypeInit DEF Init, LockInv, EditLockHeld, PageWaits, Closed, Thread
  <1>2. TypeInv /\ LockInv /\ [Next]_vars => (TypeInv /\ LockInv)'
    BY TypeStep, LockStep
  <1>3. LockInv => EditLockHeld
    BY DEF LockInv
  <1> QED BY <1>1, <1>2, <1>3, PTL DEF Spec

-----------------------------------------------------------------------------
(* The only copy.                                                          *)

\* From the server's word that it has the note, to the end of the push.
Pushed == {"pushedGist", "pushedContent", "pushedDrop", "pushedCache", "clearFlag", "usn"}
Pulling == {"gist", "decide", "pullFetch", "checkpoint"}

\* Whoever believes that the server has the note is right.
OnServer ==
    guid \/ ~pulled \/ due \/ snap.guid \/ sy \in Pushed \cup Pulling => srv # {}

\* A note is fetched, or marked as pushed, only by its guid.
HasGuid ==
    snap.guid \/ sy \in Pushed \/ (\E p \in Thread : fetch[p].pc # "off") => guid

\* What is pushed, and what is saved, is never empty.
NotEmpty ==
    /\ sy \in {"call", "setGuid"} \cup (Pushed \ {"clearFlag", "usn"}) => snap.content # {}
    /\ ui.dirty \/ ui.pc = "saveContent" => ui.text # {}

\* Before the server has the note, content.ini does.
InFile == origin # "none" /\ ~guid => fileValid /\ file # {}

CopyInv == OnServer /\ HasGuid /\ NotEmpty /\ InFile

\* What follows a fetch is neither a save of the page nor a push.
LEMMA AfterFetchKeeps ==
    ASSUME TypeOK, FetchStage, NEW p \in Thread, NEW ok, AfterFetch(p, ok),
           fetch[p].pc # "off"
    PROVE  /\ ui' = ui \/ (~ui'.dirty /\ ui'.pc # "saveContent")
           /\ \/ sy' = sy
              \/ sy' \in {"deferClear", "push"}
              \/ sy' = "checkpoint" /\ sy = "pullFetch"
  <1>1. CASE p = "ui"
    <2>1. sy' = sy
      BY <1>1 DEF AfterFetch
    <2>2. PageGot(fetch[p].got) \/ PageGotNothing
      BY <1>1 DEF AfterFetch
    <2>3. CASE PageGot(fetch[p].got)
      BY <2>1, <2>3 DEF PageGot, Closed
    <2>4. CASE PageGotNothing
      BY <2>1, <2>4 DEF PageGotNothing, Closed
    <2> QED BY <2>2, <2>3, <2>4
  <1>2. CASE p = "sync"
    BY <1>2 DEF AfterFetch, FetchStage
  <1> QED BY <1>1, <1>2 DEF Thread

\* Every step keeps them.
LEMMA CopyStep ==
    ASSUME TypeInv, CopyInv, [Next]_vars
    PROVE  CopyInv'
  <1> USE DEF CopyInv, OnServer, HasGuid, NotEmpty, InFile, Pushed, Pulling,
              TypeInv, TypeOK, FetchStage, Thread, UiState, FetchState, SnapState,
              gist, store, lists, server, syncThread
  <1>1. CASE CreateNote
    BY <1>1 DEF CreateNote, Closed
  <1>2. CASE OpenGist
    BY <1>2 DEF OpenGist, Closed
  <1>3. CASE OpenContent
    <2>1. NotEmpty'
      <3>1. CASE Available(ui.sync) # {}
        BY <1>3, <3>1 DEF OpenContent
      <3>2. CASE Available(ui.sync) = {}
        BY <1>3, <3>2 DEF OpenContent, Closed
      <3> QED BY <3>1, <3>2
    <2>2. HasGuid'
      <3>1. CASE Available(ui.sync) = {} /\ ~UpToDate
        BY <1>3, <3>1 DEF OpenContent, UpToDate
      <3>2. CASE Available(ui.sync) # {} \/ UpToDate
        BY <1>3, <3>2 DEF OpenContent
      <3> QED BY <3>1, <3>2
    <2> QED BY <1>3, <2>1, <2>2 DEF OpenContent
  <1>4. CASE SavePlain
    <2>1. ui'.text # {}
      <3>1. CASE CanEdit /\ ui' = [ui EXCEPT !.pc = "saveContent",
                   !.text = @ \cup {NewEdit}, !.dirty = TRUE,
                   !.conflict = base \notin {None, ui.base}]
        BY <3>1
      <3>2. CASE ui.dirty /\ ui' = [ui EXCEPT !.pc = "saveContent",
                                  !.conflict = base \notin {None, ui.base}]
        BY <3>2
      <3> QED BY <1>4, <3>1, <3>2 DEF SavePlain
    <2> QED BY <1>4, <2>1 DEF SavePlain
  <1>5. CASE SavePlainContent
    BY <1>5 DEF SavePlainContent
  <1>6. CASE AppendText
    BY <1>6 DEF AppendText
  <1>7. CASE SaveCheckboxes
    BY <1>7 DEF SaveCheckboxes
  <1>8. CASE SaveBase
    BY <1>8 DEF SaveBase
  <1>9. CASE SaveConflict
    BY <1>9 DEF SaveConflict
  <1>10. CASE SaveTitle
    BY <1>10 DEF SaveTitle
  <1>11. CASE FlagNote
    BY <1>11 DEF FlagNote
  <1>12. CASE ClosePage
    BY <1>12 DEF ClosePage, Closed
  <1>13. CASE SyncStart
    BY <1>13 DEF SyncStart
  <1>14. CASE SyncDeferred
    BY <1>14 DEF SyncDeferred, SyncFetch, UpToDate
  <1>15. CASE SyncDeferClear
    BY <1>15 DEF SyncDeferClear
  <1>16. CASE SyncPull
    BY <1>16 DEF SyncPull
  <1>17. CASE SyncGist
    BY <1>17 DEF SyncGist
  <1>18. CASE SyncDecide
    BY <1>18 DEF SyncDecide, SyncFetch, UpToDate
  <1>19. CASE SyncCheckpoint
    BY <1>19 DEF SyncCheckpoint
  <1>20. CASE SyncPrefetch
    BY <1>20 DEF SyncPrefetch, SyncFetch, UpToDate
  <1>21. CASE PushGist
    BY <1>21 DEF PushGist, NoSnap
  <1>22. CASE PushContent
    BY <1>22 DEF PushContent, NoSnap
  <1>23. CASE PushCreate
    BY <1>23 DEF PushCreate
  <1>24. CASE PushUpdate
    BY <1>24 DEF PushUpdate, NoSnap, IsPushingContent
  <1>25. CASE SyncFails
    BY <1>25 DEF SyncFails, NoSnap
  <1>26. CASE PushSetGuid
    BY <1>26 DEF PushSetGuid
  <1>27. CASE PushedGist
    BY <1>27 DEF PushedGist
  <1>28. CASE PushedContent
    BY <1>28 DEF PushedContent
  <1>29. CASE PushedDrop
    BY <1>29 DEF PushedDrop
  <1>30. CASE PushedCache
    BY <1>30 DEF PushedCache
  <1>31. CASE PushClearFlag
    BY <1>31 DEF PushClearFlag
  <1>32. CASE PushUsn
    BY <1>32 DEF PushUsn, NoSnap
  <1>33. CASE OtherClient
    BY <1>33 DEF OtherClient
  <1>34. CASE EvictCache
    BY <1>34 DEF EvictCache
  <1>35. CASE Crash
    BY <1>35 DEF Crash, Closed, NoFetch, NoSnap
  <1>36. ASSUME NEW p \in Thread, FetchAsk(p) PROVE CopyInv'
    BY <1>36 DEF FetchAsk
  <1>37. ASSUME NEW p \in Thread, FetchFail(p) PROVE CopyInv'
    BY <1>37, AfterFetchKeeps DEF FetchFail, NoFetch
  <1>38. ASSUME NEW p \in Thread, FetchApply(p) PROVE CopyInv'
    BY <1>38 DEF FetchApply
  <1>39. ASSUME NEW p \in Thread, FetchCompare(p) PROVE CopyInv'
    <2>1. CASE AfterFetch(p, TRUE)
      BY <1>39, <2>1, AfterFetchKeeps DEF FetchCompare, NoFetch
    <2>2. CASE UNCHANGED <<ui, sy>>
      BY <1>39, <2>2 DEF FetchCompare, NoFetch
    <2> QED BY <1>39, <2>1, <2>2 DEF FetchCompare
  <1>40. ASSUME NEW p \in Thread, FetchWrite(p) PROVE CopyInv'
    BY <1>40 DEF FetchWrite
  <1>41. ASSUME NEW p \in Thread, FetchGist(p) PROVE CopyInv'
    BY <1>41, AfterFetchKeeps DEF FetchGist, NoFetch
  <1>42. CASE UNCHANGED vars
    BY <1>42 DEF vars
  <1> QED
    BY <1>1, <1>2, <1>3, <1>4, <1>5, <1>6, <1>7, <1>8, <1>9, <1>10, <1>11,
       <1>12, <1>13, <1>14, <1>15, <1>16, <1>17, <1>18, <1>19, <1>20, <1>21,
       <1>22, <1>23, <1>24, <1>25, <1>26, <1>27, <1>28, <1>29, <1>30, <1>31,
       <1>32, <1>33, <1>34, <1>35, <1>36, <1>37, <1>38, <1>39, <1>40, <1>41,
       <1>42
       DEF Next, UiStep, SyncStep, FetchStep

\* Every state of every behaviour of NoteSync satisfies OnlyCopyKept: until the
\* server has the note, its content is in content.ini, whatever overlaps.
THEOREM OnlyCopyCorrect == Spec => []OnlyCopyKept
  <1>1. Init => TypeInv /\ CopyInv
    <2> SUFFICES ASSUME Init PROVE TypeInv /\ CopyInv
      OBVIOUS
    <2>1. \A p \in Thread : fetch[p].pc = "off"
      BY DEF Init, NoFetch
    <2> QED BY <2>1, TypeInit DEF Init, CopyInv, OnServer, HasGuid, NotEmpty, InFile,
                                  Pushed, Pulling, NoSnap, Closed
  <1>2. TypeInv /\ CopyInv /\ [Next]_vars => (TypeInv /\ CopyInv)'
    BY TypeStep, CopyStep
  <1>3. CopyInv => OnlyCopyKept
    BY DEF CopyInv, OnServer, InFile, OnlyCopyKept
  <1> QED BY <1>1, <1>2, <1>3, PTL DEF Spec

-----------------------------------------------------------------------------
(* What a merge keeps.                                                     *)

\* Whoever works on a note has one.
NoteExists ==
    \/ ui.pc # "closed" \/ toPush \/ guid
    \/ sy \notin {"idle", "deferred", "deferFetch", "deferClear", "pull", "gist",
                  "prefetch", "push"}
    => origin # "none"

\* No merged content before the comparison.
NotMerged ==
    \A p \in Thread : fetch[p].pc \notin {"write", "gist"} => fetch[p].merged = {}

\* After it, unless it failed to merge, and until the write, content.ini stays
\* as it was compared.
Compared ==
    \A p \in Thread :
        fetch[p].pc = "write" /\ fetch[p].base # None /\ fileValid /\ fetch[p].ok
        => IF fetch[p].merged = {}
           THEN file = fetch[p].base \/ file \subseteq fetch[p].got
           ELSE file \subseteq fetch[p].got \cup fetch[p].merged

MergeInv == NoteExists /\ NotMerged /\ Compared

\* Every step keeps them: the edit lock keeps the saves away between the
\* comparison and the write.
LEMMA MergeStep ==
    ASSUME TypeInv, LockInv, CopyInv, MergeInv, [Next]_vars
    PROVE  MergeInv'
  <1> USE DEF MergeInv, NoteExists, NotMerged, Compared, CopyInv, HasGuid, Pushed,
              LockInv, EditLockHeld, PageWaits, TypeInv, TypeOK, FetchStage,
              Thread, UiState, FetchState, gist, store, lists, server, syncThread
  <1>1. CASE CreateNote
    BY <1>1 DEF CreateNote, Closed
  <1>2. CASE OpenGist
    BY <1>2 DEF OpenGist, Closed
  <1>3. CASE OpenContent
    <2>1. UNCHANGED <<fileValid, file, origin, guid, toPush, sy>> /\ origin # "none"
      BY <1>3 DEF OpenContent
    <2>2. \/ fetch' = fetch
          \/ fetch' = [fetch EXCEPT !["ui"].pc = "ask"] /\ ui.pc = "open"
      BY <1>3 DEF OpenContent
    <2>3. NotMerged' /\ Compared'
      BY <2>1, <2>2
    <2> QED BY <2>1, <2>3
  <1>4. CASE SavePlain
    BY <1>4 DEF SavePlain, TakeLock
  <1>5. CASE SavePlainContent
    BY <1>5 DEF SavePlainContent
  <1>6. CASE AppendText
    BY <1>6 DEF AppendText, TakeLock
  <1>7. CASE SaveCheckboxes
    BY <1>7 DEF SaveCheckboxes, TakeLock
  <1>8. CASE SaveBase
    BY <1>8 DEF SaveBase
  <1>9. CASE SaveConflict
    BY <1>9 DEF SaveConflict
  <1>10. CASE SaveTitle
    BY <1>10 DEF SaveTitle
  <1>11. CASE FlagNote
    BY <1>11 DEF FlagNote
  <1>12. CASE ClosePage
    BY <1>12 DEF ClosePage, Closed
  <1>13. CASE SyncStart
    BY <1>13 DEF SyncStart
  <1>14. CASE SyncDeferred
    BY <1>14 DEF SyncDeferred, SyncFetch, UpToDate
  <1>15. CASE SyncDeferClear
    BY <1>15 DEF SyncDeferClear
  <1>16. CASE SyncPull
    BY <1>16 DEF SyncPull
  <1>17. CASE SyncGist
    BY <1>17 DEF SyncGist
  <1>18. CASE SyncDecide
    BY <1>18 DEF SyncDecide, SyncFetch, UpToDate
  <1>19. CASE SyncCheckpoint
    BY <1>19 DEF SyncCheckpoint
  <1>20. CASE SyncPrefetch
    BY <1>20 DEF SyncPrefetch, SyncFetch, UpToDate
  <1>21. CASE PushGist
    BY <1>21 DEF PushGist
  <1>22. CASE PushContent
    BY <1>22 DEF PushContent
  <1>23. CASE PushCreate
    BY <1>23 DEF PushCreate
  <1>24. CASE PushUpdate
    BY <1>24 DEF PushUpdate
  <1>25. CASE SyncFails
    BY <1>25 DEF SyncFails
  <1>26. CASE PushSetGuid
    BY <1>26 DEF PushSetGuid
  <1>27. CASE PushedGist
    BY <1>27 DEF PushedGist
  <1>28. CASE PushedContent
    BY <1>28 DEF PushedContent
  <1>29. CASE PushedDrop
    BY <1>29 DEF PushedDrop
  <1>30. CASE PushedCache
    BY <1>30 DEF PushedCache
  <1>31. CASE PushClearFlag
    BY <1>31 DEF PushClearFlag
  <1>32. CASE PushUsn
    BY <1>32 DEF PushUsn
  <1>33. CASE OtherClient
    BY <1>33 DEF OtherClient
  <1>34. CASE EvictCache
    BY <1>34 DEF EvictCache
  <1>35. CASE Crash
    BY <1>35 DEF Crash, Closed, NoFetch
  <1>36. ASSUME NEW p \in Thread, FetchAsk(p) PROVE MergeInv'
    BY <1>36 DEF FetchAsk
  <1>37. ASSUME NEW p \in Thread, FetchFail(p) PROVE MergeInv'
    BY <1>37 DEF FetchFail, AfterFetch, PageGot, PageGotNothing, Closed, NoFetch
  <1>38. ASSUME NEW p \in Thread, FetchApply(p) PROVE MergeInv'
    BY <1>38 DEF FetchApply, TakeLock
  <1>39. ASSUME NEW p \in Thread, FetchCompare(p) PROVE MergeInv'
    <2>1. UNCHANGED <<fileValid, file, origin, guid, toPush>>
      BY <1>39 DEF FetchCompare
    <2>2. NoteExists'
      BY <1>39, <2>1 DEF FetchCompare, AfterFetch
    <2>3. CASE /\ BothChanged(p)
               /\ \E c \in Resolutions(fetch[p].got, file, ConflictLine) :
                     fetch' = [fetch EXCEPT ![p] = [@ EXCEPT !.pc = "write",
                                      !.merged = IF c = fetch[p].got THEN {} ELSE c]]
      <3>1. PICK c \in Resolutions(fetch[p].got, file, ConflictLine) :
                fetch' = [fetch EXCEPT ![p] = [@ EXCEPT !.pc = "write",
                                 !.merged = IF c = fetch[p].got THEN {} ELSE c]]
        BY <2>3
      <3>2. file \subseteq c
        BY NewEdits, ResolutionsKeepOld
      <3> QED BY <2>1, <2>2, <3>1, <3>2
    <2>4. CASE ~LocalIsNewer(p) /\ ~BothChanged(p) /\ fetch' = [fetch EXCEPT ![p].pc = "write"]
      <3>1. fileValid => file \in {fetch[p].base, fetch[p].got}
        BY <2>4 DEF LocalIsNewer, BothChanged
      <3>2. fetch[p].pc = "compare"
        BY <1>39 DEF FetchCompare
      <3> QED BY <2>1, <2>2, <2>4, <3>1, <3>2
    <2>5. CASE fetch' = [fetch EXCEPT ![p] = NoFetch]
      BY <2>1, <2>2, <2>5 DEF NoFetch
    <2>6. CASE fetch' = [fetch EXCEPT ![p] = [@ EXCEPT !.pc = "write", !.ok = FALSE]]
      <3>1. fetch[p].pc = "compare"
        BY <1>39 DEF FetchCompare
      <3> QED BY <2>1, <2>2, <2>6, <3>1
    <2> QED BY <1>39, <2>3, <2>4, <2>5, <2>6 DEF FetchCompare
  <1>40. ASSUME NEW p \in Thread, FetchWrite(p) PROVE MergeInv'
    BY <1>40 DEF FetchWrite
  <1>41. ASSUME NEW p \in Thread, FetchGist(p) PROVE MergeInv'
    BY <1>41 DEF FetchGist, AfterFetch, PageGot, PageGotNothing, Closed, NoFetch
  <1>42. CASE UNCHANGED vars
    BY <1>42 DEF vars
  <1> QED
    BY <1>1, <1>2, <1>3, <1>4, <1>5, <1>6, <1>7, <1>8, <1>9, <1>10, <1>11,
       <1>12, <1>13, <1>14, <1>15, <1>16, <1>17, <1>18, <1>19, <1>20, <1>21,
       <1>22, <1>23, <1>24, <1>25, <1>26, <1>27, <1>28, <1>29, <1>30, <1>31,
       <1>32, <1>33, <1>34, <1>35, <1>36, <1>37, <1>38, <1>39, <1>40, <1>41,
       <1>42
       DEF Next, UiStep, SyncStep, FetchStep

\* All of it together, and where it starts.
NoteInv == TypeInv /\ LockInv /\ CopyInv /\ MergeInv

\* It holds when the program starts.
LEMMA NoteInit ==
    ASSUME Init
    PROVE  NoteInv
  <1>1. \A p \in Thread : fetch[p].pc = "off"
    BY DEF Init, NoFetch
  <1>2. LockInv
    BY <1>1 DEF Init, LockInv, EditLockHeld, PageWaits, Closed, Thread
  <1>3. CopyInv
    BY <1>1 DEF Init, CopyInv, OnServer, HasGuid, NotEmpty, InFile, Pushed, Pulling,
                NoSnap, Closed
  <1>4. \A p \in Thread : fetch[p].merged = {}
    BY DEF Init, NoFetch
  <1>5. MergeInv
    BY <1>1, <1>4 DEF Init, MergeInv, NoteExists, NotMerged, Compared, Closed
  <1> QED BY <1>2, <1>3, <1>5, TypeInit DEF NoteInv

\* Every step of every behaviour of NoteSync satisfies MergeKeepsEdits: a
\* fetch that knows the note's base, and whose merge did not fail, puts nothing
\* over an edit but what has it.
THEOREM MergeCorrect == Spec => MergeKeepsEdits
  <1> DEFINE Inv == TypeInv /\ LockInv /\ CopyInv /\ MergeInv
             Keeps == \A p \in Thread :
                         FetchWrite(p) /\ fetch[p].base # None /\ fileValid /\ fetch[p].ok
                             => file = fetch[p].base \/ file \subseteq fetch[p].got \cup file'
  <1>1. Init => Inv
    BY NoteInit DEF NoteInv
  <1>2. Inv /\ [Next]_vars => Inv'
    BY TypeStep, LockStep, CopyStep, MergeStep
  <1>3. Inv => Keeps
    BY DEF MergeInv, Compared, FetchWrite
  <1>4. Inv /\ [Next]_vars => [Keeps]_vars
    BY <1>3
  <1> QED BY <1>1, <1>2, <1>4, PTL DEF Spec, MergeKeepsEdits

-----------------------------------------------------------------------------
(* The behaviours without overlaps: no save while the note is being pushed, *)
(* no late answer of a fetch, no crash between the writes of two files.     *)
(* There the three files of a note and the server agree, up to the writes   *)
(* that are under way, and that is what the invariant below is about: who   *)
(* may be ahead of whom at each program point.                              *)

\* The note's state has none of the overlaps that QuietNext excludes.
NoOverlap == ~(Pushing /\ Saving) /\ ~LateAnswer

\* content.ini holds nothing that its base has not: it was not edited since
\* the last fetch or push.  Between the two writes of a fetch, the base is
\* still that of the last one.
Clean ==
    fileValid =>
        /\ \A p \in Thread : fetch[p].pc = "gist" => file = fetch[p].got
        /\ (\A p \in Thread : fetch[p].pc # "gist") => file = base

\* No stored and no fetched content is empty.
NothingEmpty ==
    /\ fileValid => file # {}
    /\ \A p \in Thread : fetch[p].pc \notin {"off", "ask"} => fetch[p].got # {}

\* What is not there: nothing of a note that is not on the device, no note on
\* the server of one that was never pushed, no cached copy of an offline one.
NoNote ==
    /\ origin = "none" => base = None /\ cache = {} /\ ~fileValid
    /\ origin # "none" /\ ~guid => srv = {}
    /\ OfflineNeeded => cache = {}

\* The push loop knows whether the note has a guid, until it gives it one.
SnapGuid ==
    /\ sy \in {"readContent", "call", "setGuid"} => snap.guid = guid
    /\ sy = "setGuid" => ~guid

\* setPushedNote drops the content file of no note that is wanted offline.
DropInv == sy \in {"pushedDrop", "pushedCache"} => ~OfflineNeeded

BasicInv == NothingEmpty /\ NoNote /\ SnapGuid /\ DropInv

\* A push of a content, as opposed to one of a title or of notebooks.
RealPush == \/ sy = "call" /\ IsPushingContent
            \/ sy \in {"setGuid", "pushedGist", "pushedContent", "pushedDrop"}

\* What is not flagged for the push loop is not edited.
SaveFlagged == ~toPush /\ ~Saving => Clean

\* The page fetches a note only when it has no content: there is nothing to
\* merge with.
PageFetch == fetch["ui"].pc # "off" => Clean /\ fetch["ui"].merged = {}

\* The edit lock keeps the base that a fetch has read the note's base, and what
\* it merged with an edit.
FetchBase ==
  \A p \in Thread :
    /\ fetch[p].pc \in {"compare", "write"} => fetch[p].base = base
    /\ fetch[p].pc = "write" /\ fetch[p].merged # {} => fileValid /\ file # base

\* Between noteData's two reads the page may fetch the note, but then there
\* was no edit.
ReadPush ==
  sy = "readContent" =>
    /\ fetch["ui"].pc \in {"ask", "apply", "compare", "write"} /\ fileValid
           => base = snap.base
    /\ base = snap.base \/ Clean

\* What is pushed is what content.ini holds, until setPushedNote drops it; the
\* flag is cleared only when nothing is left to push.
PushInv ==
    /\ RealPush => fileValid /\ file = snap.content /\ fetch["ui"].pc \in {"off", "gist"}
    /\ sy = "call" /\ ~IsPushingContent => Clean
    /\ sy \in {"pushedContent", "pushedDrop"} => base = snap.content
    /\ sy \in {"pushedCache", "clearFlag"} => Clean

CleanInv == SaveFlagged /\ PageFetch /\ FetchBase /\ ReadPush /\ PushInv

\* content.ini is built on its base, and on what is about to become it.
FileBuilt ==
    /\ fileValid /\ ui.pc \notin {"saveContent", "saveBase"} => base \subseteq file
    /\ \A p \in Thread :
          /\ fetch[p].pc = "gist" /\ fileValid => fetch[p].got \subseteq file
          /\ fetch[p].pc = "write" /\ fetch[p].merged # {}
                 => fetch[p].got \subseteq fetch[p].merged

\* The page's text is built on the page's base, which is an old base of the
\* note or the one it still has.
PageBuilt ==
    /\ ui.pc \notin {"closed", "fetching"} => ui.base \subseteq base
    /\ ui.pc \notin {"closed", "fetching", "open"} => ui.base \subseteq ui.text
    /\ ui.pc = "saveContent" => base = ui.base
    /\ ui.pc = "saveBase" => fileValid /\ ui.base \subseteq file

\* The cached content, if it is the synced one, is built on the note's base,
\* and on the base that an opening page has read.
CacheBuilt ==
    /\ cache # {} /\ cache = syncHash => base \subseteq cache
    /\ ui.pc = "open" /\ cache # {} /\ cache = ui.sync => ui.base \subseteq cache
    /\ sy \in {"pushedContent", "pushedDrop", "pushedCache"} => base = syncHash
    /\ sy = "pushedCache" /\ ui.pc = "open"
           => ui.base \subseteq snap.content \/ ui.base = ui.sync
    /\ sy = "gist" => cache = {} \/ base \subseteq cache \/ base \subseteq chunk
    /\ sy = "gist" /\ fetch["ui"].pc = "gist"
           => \/ cache = {} \/ fetch["ui"].got \subseteq cache
              \/ fetch["ui"].got \subseteq chunk

\* The server has what the note's base has, and what was ever fetched.
ServerBuilt ==
    /\ base \subseteq srv
    /\ \A p \in Thread : fetch[p].pc \notin {"off", "ask"} => fetch[p].got \subseteq srv
    /\ sy = "pushedGist" => snap.content \subseteq srv

\* What the checkpointed USN covers, the note's SyncContentHash knows of; so
\* a content that is pushed on top of it takes nothing of that away.
PulledInv ==
    /\ due => sy \in {"deferred", "deferFetch", "deferClear", "pull"} \cup Pulling
    /\ due \/ sy \in Pulling \cup Pushed => ~pulled
    /\ sy \in Pulling \ {"gist"} => chunk \subseteq syncHash
    /\ pulled => srv \subseteq syncHash
    /\ sy = "readContent" /\ snap.sync = snap.base => base = syncHash
    /\ sy = "call" /\ IsPushingContent /\ pulled => srv \subseteq snap.content
    /\ sy \in Pushed \ {"pushedGist"} /\ snap.alone => snap.content \subseteq syncHash

BuiltInv == FileBuilt /\ PageBuilt /\ CacheBuilt /\ ServerBuilt /\ PulledInv

\* What a comparison does: the call ends, or goes on to write, a merged content
\* only if both sides have changed.
LEMMA Comparisons ==
    ASSUME TypeOK, NotMerged, NEW p \in Thread, FetchCompare(p)
    PROVE  /\ UNCHANGED <<gist, store, lists, server, due, chunk, snap>>
           /\ fetch[p].pc = "compare"
           /\ \A q \in Thread \ {p} : fetch'[q] = fetch[q]
           /\ \/ LocalIsNewer(p) /\ AfterFetch(p, TRUE) /\ fetch'[p] = NoFetch
              \/ /\ UNCHANGED <<ui, sy, lock>>
                 /\ fetch'[p].pc = "write"
                 /\ fetch'[p].got = fetch[p].got /\ fetch'[p].base = fetch[p].base
                 /\ fetch'[p].merged # {} => /\ BothChanged(p)
                                             /\ fetch[p].got \subseteq fetch'[p].merged
  <1> USE DEF TypeOK, FetchState
  <1>1. CASE /\ BothChanged(p)
             /\ \E c \in Resolutions(fetch[p].got, file, ConflictLine) :
                   fetch' = [fetch EXCEPT ![p] = [@ EXCEPT !.pc = "write",
                                    !.merged = IF c = fetch[p].got THEN {} ELSE c]]
             /\ UNCHANGED <<ui, sy, lock>>
    <2>1. PICK c \in Resolutions(fetch[p].got, file, ConflictLine) :
              fetch' = [fetch EXCEPT ![p] = [@ EXCEPT !.pc = "write",
                               !.merged = IF c = fetch[p].got THEN {} ELSE c]]
      BY <1>1
    <2> DEFINE m == IF c = fetch[p].got THEN {} ELSE c
    <2>2. m # {} => fetch[p].got \subseteq m
      BY DEF Resolutions
    <2>3. fetch' = [fetch EXCEPT ![p] = [fetch[p] EXCEPT !.pc = "write", !.merged = m]]
      BY <2>1
    <2> HIDE DEF m
    <2>4. fetch'[p] = [fetch[p] EXCEPT !.pc = "write", !.merged = m]
      BY <2>3
    <2>5. \A q \in Thread \ {p} : fetch'[q] = fetch[q]
      BY <2>3
    <2>6. /\ fetch'[p].pc = "write" /\ fetch'[p].merged = m
          /\ fetch'[p].got = fetch[p].got /\ fetch'[p].base = fetch[p].base
      BY <2>4
    <2>7. /\ UNCHANGED <<gist, store, lists, server, due, chunk, snap>>
          /\ fetch[p].pc = "compare"
      BY DEF FetchCompare
    <2> QED BY <1>1, <2>2, <2>5, <2>6, <2>7
  <1>2. CASE /\ \/ fetch' = [fetch EXCEPT ![p].pc = "write"]
                \/ fetch' = [fetch EXCEPT ![p] = [@ EXCEPT !.pc = "write", !.ok = FALSE]]
             /\ UNCHANGED <<ui, sy, lock>>
    <2>1. fetch[p].pc = "compare" /\ fetch[p].merged = {}
      BY DEF FetchCompare, NotMerged
    <2>2. CASE fetch' = [fetch EXCEPT ![p].pc = "write"]
      BY <1>2, <2>1, <2>2 DEF FetchCompare
    <2>3. CASE fetch' = [fetch EXCEPT ![p] = [@ EXCEPT !.pc = "write", !.ok = FALSE]]
      <3>1. /\ fetch'[p] = [fetch[p] EXCEPT !.pc = "write", !.ok = FALSE]
            /\ \A q \in Thread \ {p} : fetch'[q] = fetch[q]
        BY <2>3
      <3>2. /\ fetch'[p].pc = "write" /\ fetch'[p].merged = {}
            /\ fetch'[p].got = fetch[p].got /\ fetch'[p].base = fetch[p].base
        BY <2>1, <3>1
      <3>3. UNCHANGED <<gist, store, lists, server, due, chunk, snap>>
        BY DEF FetchCompare
      <3> QED BY <1>2, <2>1, <3>1, <3>2, <3>3
    <2> QED BY <1>2, <2>2, <2>3
  <1>3. CASE /\ LocalIsNewer(p) /\ AfterFetch(p, TRUE)
             /\ fetch' = [fetch EXCEPT ![p] = NoFetch]
    BY <1>3 DEF FetchCompare
  <1> QED BY <1>1, <1>2, <1>3 DEF FetchCompare

\* What a page that is opening goes on with: the stored content, or a fetch.
LEMMA Openings ==
    ASSUME TypeOK, OpenContent
    PROVE  /\ UNCHANGED <<gist, store, lists, server, lock, syncThread, edits>>
           /\ ui.pc = "open"
           /\ fetch'["sync"] = fetch["sync"]
           /\ \/ /\ Available(ui.sync) # {} /\ fetch'["ui"] = fetch["ui"]
                 /\ ui'.pc = "editing" /\ ui'.base = ui.base
                 /\ ui'.text = Available(ui.sync)
              \/ /\ Available(ui.sync) = {} /\ ui'.pc = "fetching"
                 /\ fetch'["ui"] = [fetch["ui"] EXCEPT !.pc = "ask"]
              \/ ui' = Closed /\ fetch' = fetch
  BY DEF OpenContent, TypeOK, FetchState, UiState, Thread, Closed

\* What follows a fetch: the page is closed or edits what was fetched; the
\* sync thread goes on to a stage where it pushes nothing yet.
LEMMA AfterFetches ==
    ASSUME TypeOK, FetchStage, NEW p \in Thread, NEW ok, AfterFetch(p, ok),
           fetch[p].pc # "off"
    PROVE  /\ p = "ui" => /\ sy' = sy
                          /\ \/ ui' = Closed
                             \/ /\ ui'.pc = "editing" /\ ui'.text = fetch[p].got
                                /\ ui'.base = fetch[p].got
           /\ p = "sync" => /\ ui' = ui
                            /\ \/ sy = "deferFetch" /\ sy' = "deferClear"
                               \/ sy = "pullFetch" /\ sy' = "checkpoint"
                               \/ sy = "prefetching" /\ sy' = "push"
  <1>1. CASE p = "ui"
    <2>1. sy' = sy /\ (PageGot(fetch[p].got) \/ PageGotNothing)
      BY <1>1 DEF AfterFetch
    <2>2. CASE PageGot(fetch[p].got)
      BY <1>1, <2>1, <2>2 DEF PageGot, Closed
    <2> QED BY <1>1, <2>1, <2>2 DEF PageGotNothing
  <1>2. CASE p = "sync"
    BY <1>2 DEF AfterFetch, FetchStage
  <1> QED BY <1>1, <1>2 DEF Thread

\* The page is left as it was, closed, or given what was fetched.
LEMMA FetchPages ==
    ASSUME TypeOK, FetchStage, NEW p \in Thread, NEW ok, AfterFetch(p, ok),
           fetch[p].pc # "off"
    PROVE  \/ ui' = ui \/ ui'.pc = "closed"
           \/ /\ ui'.pc = "editing" /\ ui'.text = fetch[p].got
              /\ ui'.base = fetch[p].got
  BY AfterFetches DEF Closed, Thread

\* So it begins no save and no push.
LEMMA FetchEnds ==
    ASSUME TypeOK, FetchStage, PageWaits, NEW p \in Thread, NEW ok, AfterFetch(p, ok),
           fetch[p].pc # "off"
    PROVE  /\ Saving' <=> Saving
           /\ sy' = sy \/ (p = "sync" /\ sy' \in {"deferClear", "push", "checkpoint"})
           /\ p = "sync" => sy \in {"deferFetch", "pullFetch", "prefetching"}
  <1>1. \/ p = "sync" /\ ui' = ui
        \/ p = "ui" /\ (ui' = Closed \/ ui'.pc = "editing")
    BY AfterFetches DEF Thread
  <1>2. Saving' <=> Saving
    BY <1>1 DEF Saving, Closed, PageWaits
  <1> QED BY <1>2, AfterFetches DEF Thread

\* What is clean stays so while the note and the last step of the fetches do.
LEMMA CleanKept ==
    ASSUME UNCHANGED <<fileValid, file, base>>,
           \A q \in Thread : \/ fetch'[q] = fetch[q]
                             \/ fetch[q].pc # "gist" /\ fetch'[q].pc # "gist"
    PROVE  Clean' <=> Clean
  BY DEF Clean

\* The end of a fetch keeps it, too.
LEMMA CleanFetched ==
    ASSUME NEW p \in Thread, fetch[p].pc = "gist", Clean,
           UNCHANGED <<fileValid, file>>, base' = fetch[p].got, fetch'[p].pc = "off",
           \A q \in Thread \ {p} : fetch'[q] = fetch[q] /\ fetch[q].pc # "gist"
    PROVE  Clean'
  BY DEF Clean

\* Every step keeps what is there and what is not: a content is stored empty by
\* nobody, and the device gives a note a guid only once the server has it.
LEMMA BasicStep ==
    ASSUME TypeInv, LockInv, CopyInv, MergeInv, BasicInv, [Next]_vars
    PROVE  BasicInv'
  <1> USE DEF BasicInv, NothingEmpty, NoNote, SnapGuid, DropInv, OfflineNeeded, TypeInv,
              TypeOK, FetchStage, Thread, UiState, FetchState, SnapState, gist, store, lists, server,
              syncThread, CopyInv, HasGuid, NotEmpty, OnServer, Pushed, Pulling, NoteExists, MergeInv
  <1>1. CASE CreateNote
    BY <1>1 DEF CreateNote, Closed
  <1>2. CASE OpenGist
    BY <1>2 DEF OpenGist, Closed
  <1>3. CASE OpenContent
    <2>1. \A p \in Thread : fetch'[p].pc \in {"off", "ask"} \/ fetch'[p] = fetch[p]
      BY <1>3, Openings DEF Closed
    <2> QED BY <1>3, <2>1, Openings
  <1>4. CASE SavePlain
    BY <1>4 DEF SavePlain, TakeLock
  <1>5. CASE SavePlainContent
    BY <1>5 DEF SavePlainContent
  <1>6. CASE AppendText
    BY <1>6 DEF AppendText, TakeLock
  <1>7. CASE SaveCheckboxes
    BY <1>7 DEF SaveCheckboxes, TakeLock
  <1>8. CASE SaveBase
    BY <1>8 DEF SaveBase
  <1>9. CASE SaveConflict
    BY <1>9 DEF SaveConflict
  <1>10. CASE SaveTitle
    BY <1>10 DEF SaveTitle
  <1>11. CASE FlagNote
    BY <1>11 DEF FlagNote
  <1>12. CASE ClosePage
    BY <1>12 DEF ClosePage, Closed
  <1>13. CASE SyncStart
    BY <1>13 DEF SyncStart
  <1>14. CASE SyncDeferred
    BY <1>14 DEF SyncDeferred, SyncFetch, UpToDate
  <1>15. CASE SyncDeferClear
    BY <1>15 DEF SyncDeferClear
  <1>16. CASE SyncPull
    BY <1>16 DEF SyncPull
  <1>17. CASE SyncGist
    BY <1>17 DEF SyncGist
  <1>18. CASE SyncDecide
    BY <1>18 DEF SyncDecide, SyncFetch, UpToDate
  <1>19. CASE SyncCheckpoint
    BY <1>19 DEF SyncCheckpoint
  <1>20. CASE SyncPrefetch
    BY <1>20 DEF SyncPrefetch, SyncFetch, UpToDate
  <1>21. CASE PushGist
    BY <1>21 DEF PushGist, NoSnap
  <1>22. CASE PushContent
    BY <1>22 DEF PushContent, NoSnap
  <1>23. CASE PushCreate
    BY <1>23 DEF PushCreate
  <1>24. CASE PushUpdate
    BY <1>24 DEF PushUpdate, NoSnap, IsPushingContent
  <1>25. CASE SyncFails
    BY <1>25 DEF SyncFails, NoSnap
  <1>26. CASE PushSetGuid
    BY <1>26 DEF PushSetGuid
  <1>27. CASE PushedGist
    BY <1>27 DEF PushedGist
  <1>28. CASE PushedContent
    BY <1>28 DEF PushedContent
  <1>29. CASE PushedDrop
    BY <1>29 DEF PushedDrop
  <1>30. CASE PushedCache
    BY <1>30 DEF PushedCache
  <1>31. CASE PushClearFlag
    BY <1>31 DEF PushClearFlag
  <1>32. CASE PushUsn
    BY <1>32 DEF PushUsn, NoSnap
  <1>33. CASE OtherClient
    BY <1>33 DEF OtherClient
  <1>34. CASE EvictCache
    BY <1>34 DEF EvictCache
  <1>35. CASE Crash
    BY <1>35 DEF Crash, Closed, NoFetch, NoSnap
  <1>36. ASSUME NEW p \in Thread, FetchAsk(p) PROVE BasicInv'
    BY <1>36 DEF FetchAsk
  <1>37. ASSUME NEW p \in Thread, FetchFail(p) PROVE BasicInv'
    BY <1>37 DEF FetchFail, AfterFetch, PageGot, PageGotNothing, Closed, NoFetch
  <1>38. ASSUME NEW p \in Thread, FetchApply(p) PROVE BasicInv'
    BY <1>38 DEF FetchApply, TakeLock
  <1>39. ASSUME NEW p \in Thread, FetchCompare(p) PROVE BasicInv'
    <2>1. sy' = sy \/ sy' \in {"deferClear", "push", "checkpoint"}
      BY <1>39, Comparisons, AfterFetches
    <2>2. \A q \in Thread :
             \/ fetch'[q] = NoFetch
             \/ fetch[q].pc \notin {"off", "ask"} /\ fetch'[q].got = fetch[q].got
             \/ fetch'[q] = fetch[q]
      <3>1. /\ fetch[p].pc = "compare"
            /\ \A q \in Thread \ {p} : fetch'[q] = fetch[q]
            /\ fetch'[p] = NoFetch \/ fetch'[p].got = fetch[p].got
        BY <1>39, Comparisons
      <3>2. fetch[p].pc \notin {"off", "ask"}
        BY <3>1
      <3> TAKE q \in Thread
      <3>3. q # p => fetch'[q] = fetch[q]
        BY <3>1
      <3> QED BY <3>1, <3>2, <3>3
    <2>3. UNCHANGED <<gist, store, lists, server, snap>>
      BY <1>39, Comparisons
    <2> QED BY <2>1, <2>2, <2>3 DEF NoFetch
  <1>40. ASSUME NEW p \in Thread, FetchWrite(p) PROVE BasicInv'
    BY <1>40 DEF FetchWrite
  <1>41. ASSUME NEW p \in Thread, FetchGist(p) PROVE BasicInv'
    BY <1>41 DEF FetchGist, AfterFetch, PageGot, PageGotNothing, Closed, NoFetch
  <1>42. CASE UNCHANGED vars
    BY <1>42 DEF vars
  <1> QED
    BY <1>1, <1>2, <1>3, <1>4, <1>5, <1>6, <1>7, <1>8, <1>9, <1>10, <1>11, <1>12, <1>13,
       <1>14, <1>15, <1>16, <1>17, <1>18, <1>19, <1>20, <1>21, <1>22, <1>23, <1>24, <1>25, <1>26,
       <1>27, <1>28, <1>29, <1>30, <1>31, <1>32, <1>33, <1>34, <1>35, <1>36, <1>37, <1>38, <1>39,
       <1>40, <1>41, <1>42
       DEF Next, UiStep, SyncStep, FetchStep

\* Every step without an overlap keeps the edits flagged and the pushed content
\* the stored one: the flag is cleared after the last comparison only.
LEMMA CleanStep ==
    ASSUME TypeInv, LockInv, CopyInv, MergeInv, BasicInv, CleanInv, [Next]_vars,
           NoOverlap, NoOverlap', Crash => ~MidWrite
    PROVE  CleanInv'
  <1> USE DEF CleanInv, SaveFlagged, PageFetch, FetchBase, ReadPush, PushInv, Clean, RealPush,
              NoOverlap, Pushing, Saving, IsPushingContent, TypeInv, TypeOK, FetchStage, Thread, UiState,
              FetchState, SnapState, gist, store, lists, server, syncThread, LockInv, EditLockHeld,
              PageWaits, BasicInv, NothingEmpty, SnapGuid
  <1>0. NotMerged
    BY DEF MergeInv
  <1>1. CASE CreateNote
    <2>1. \A p \in Thread : fetch[p].pc = "off"
      BY <1>1 DEF CreateNote, CopyInv, HasGuid, MergeInv, NoteExists
    <2> QED BY <1>1, <2>1 DEF CreateNote, Closed
  <1>2. CASE OpenGist
    BY <1>2 DEF OpenGist, Closed
  <1>3. CASE OpenContent
    <2>1. UNCHANGED <<fileValid, file, base, toPush, sy, snap>>
      BY <1>3, Openings
    <2>2. CASE fetch' = fetch /\ ui'.pc \in {"editing", "closed"}
      <3>1. Clean' <=> Clean
        BY <2>1, <2>2
      <3> QED BY <1>3, <2>1, <2>2, <3>1, Openings
    <2>3. CASE /\ Available(ui.sync) = {} /\ ui'.pc = "fetching"
               /\ fetch'["ui"] = [fetch["ui"] EXCEPT !.pc = "ask"]
      <3>1. ~fileValid
        BY <2>3 DEF Available
      <3>2. fetch["ui"].pc = "off" /\ fetch["ui"].merged = {}
        BY <1>3, Openings DEF MergeInv, NotMerged
      <3>3. /\ fetch'["ui"].pc = "ask" /\ fetch'["ui"].merged = {}
            /\ fetch'["sync"] = fetch["sync"]
        BY <1>3, <2>3, <3>2, Openings
      <3> QED BY <1>3, <2>1, <2>3, <3>1, <3>3, Openings
    <2>4. fetch' = fetch \/ fetch'["ui"] = [fetch["ui"] EXCEPT !.pc = "ask"]
      BY <1>3 DEF OpenContent
    <2> QED BY <1>3, <2>2, <2>3, <2>4, Openings DEF Closed
  <1>4. CASE SavePlain
    BY <1>4, ZenonT(60) DEF SavePlain, TakeLock
  <1>5. CASE SavePlainContent
    BY <1>5 DEF SavePlainContent
  <1>6. CASE AppendText
    BY <1>6 DEF AppendText, TakeLock
  <1>7. CASE SaveCheckboxes
    BY <1>7 DEF SaveCheckboxes, TakeLock
  <1>8. CASE SaveBase
    BY <1>8 DEF SaveBase
  <1>9. CASE SaveConflict
    BY <1>9 DEF SaveConflict
  <1>10. CASE SaveTitle
    BY <1>10 DEF SaveTitle
  <1>11. CASE FlagNote
    BY <1>11 DEF FlagNote
  <1>12. CASE ClosePage
    BY <1>12 DEF ClosePage, Closed
  <1>13. CASE SyncStart
    BY <1>13 DEF SyncStart
  <1>14. CASE SyncDeferred
    BY <1>14 DEF SyncDeferred, SyncFetch, UpToDate
  <1>15. CASE SyncDeferClear
    BY <1>15 DEF SyncDeferClear
  <1>16. CASE SyncPull
    BY <1>16 DEF SyncPull
  <1>17. CASE SyncGist
    BY <1>17 DEF SyncGist
  <1>18. CASE SyncDecide
    BY <1>18 DEF SyncDecide, SyncFetch, UpToDate
  <1>19. CASE SyncCheckpoint
    BY <1>19 DEF SyncCheckpoint
  <1>20. CASE SyncPrefetch
    BY <1>20 DEF SyncPrefetch, SyncFetch, UpToDate
  <1>21. CASE PushGist
    BY <1>21 DEF PushGist, NoSnap
  <1>22. CASE PushContent
    <2>1. /\ sy = "readContent"
          /\ UNCHANGED <<fileValid, file, base, toPush, ui, fetch>>
      BY <1>22 DEF PushContent
    <2>2. CASE sy' = "idle"
      BY <2>1, <2>2
    <2>3. CASE /\ Available(snap.sync) # {} /\ snap.sync = snap.base /\ sy' = "call"
               /\ snap' = [snap EXCEPT !.content = Available(snap.sync)]
      <3>1. /\ snap'.content = Available(snap.sync) /\ snap'.base = snap.base
            /\ snap'.guid = snap.guid
        BY <2>3
      <3>2. CASE fileValid
        <4>1. snap'.content = file
          BY <3>1, <3>2 DEF Available
        <4>2. snap.base = None => snap'.content # snap.base
          BY <2>3, <3>1
        <4>3. IsPushingContent' => fetch["ui"].pc \in {"off", "gist"}
          <5>1. ~guid => fetch["ui"].pc = "off"
            BY DEF CopyInv, HasGuid
          <5>2. fetch["ui"].pc \notin {"off", "gist"} => base = snap.base /\ file = base
            BY <2>1, <3>2 DEF FetchPc
          <5> QED BY <2>1, <3>1, <4>1, <4>2, <5>1, <5>2
        <4>4. ~IsPushingContent' => Clean
          BY <2>1, <3>1, <4>1
        <4> QED BY <2>1, <2>3, <3>1, <3>2, <4>1, <4>3, <4>4
      <3>3. CASE ~fileValid
        <4>1. snap'.content = snap.base /\ snap.base # None
          BY <2>3, <3>1, <3>3 DEF Available
        <4>2. snap.guid
          BY <2>1, <3>3 DEF CopyInv, InFile, MergeInv, NoteExists
        <4> QED BY <2>1, <2>3, <3>1, <3>3, <4>1, <4>2
      <3> QED BY <3>2, <3>3
    <2> QED BY <1>22, <2>2, <2>3 DEF PushContent, BuiltOnSynced
  <1>23. CASE PushCreate
    BY <1>23 DEF PushCreate
  <1>24. CASE PushUpdate
    BY <1>24 DEF PushUpdate, NoSnap, IsPushingContent
  <1>25. CASE SyncFails
    BY <1>25 DEF SyncFails, NoSnap
  <1>26. CASE PushSetGuid
    BY <1>26 DEF PushSetGuid
  <1>27. CASE PushedGist
    BY <1>27 DEF PushedGist
  <1>28. CASE PushedContent
    BY <1>28 DEF PushedContent
  <1>29. CASE PushedDrop
    BY <1>29 DEF PushedDrop
  <1>30. CASE PushedCache
    BY <1>30 DEF PushedCache
  <1>31. CASE PushClearFlag
    BY <1>31 DEF PushClearFlag
  <1>32. CASE PushUsn
    BY <1>32 DEF PushUsn, NoSnap
  <1>33. CASE OtherClient
    BY <1>33 DEF OtherClient
  <1>34. CASE EvictCache
    BY <1>34 DEF EvictCache
  <1>35. CASE Crash
    BY <1>35 DEF Crash, Closed, NoFetch, NoSnap, MidWrite
  <1>36. ASSUME NEW p \in Thread, FetchAsk(p) PROVE CleanInv'
    BY <1>36 DEF FetchAsk
  <1>37. ASSUME NEW p \in Thread, FetchFail(p) PROVE CleanInv'
    BY <1>37 DEF FetchFail, AfterFetch, PageGot, PageGotNothing, Closed, NoFetch
  <1>38. ASSUME NEW p \in Thread, FetchApply(p) PROVE CleanInv'
    BY <1>0, <1>38 DEF FetchApply, TakeLock, NotMerged
  <1>39. ASSUME NEW p \in Thread, FetchCompare(p) PROVE CleanInv'
    <2>1. UNCHANGED <<fileValid, file, base, toPush, snap>>
      BY <1>39, <1>0, Comparisons
    <2>2. CASE LocalIsNewer(p) /\ AfterFetch(p, TRUE) /\ fetch'[p] = NoFetch
      <3>1. sy' = sy \/ (p = "sync" /\ sy' \in {"deferClear", "push", "checkpoint"})
        BY <1>39, <2>2, <1>0, Comparisons, AfterFetches
      <3>2. Saving' <=> Saving
        <4>0. fetch[p].pc # "off"
          BY <1>39, <1>0, Comparisons
        <4> QED BY <2>2, <4>0, FetchEnds
      <3>3. Clean => Clean'
        <4>1. fetch'[p].pc = "off" /\ fetch[p].pc = "compare"
          <5>1. fetch'[p].pc = "off"
            BY <2>2 DEF NoFetch
          <5> QED BY <1>39, <5>1, <1>0, Comparisons
        <4>2. \A q \in Thread \ {p} : fetch'[q] = fetch[q]
          BY <1>39, <1>0, Comparisons
        <4>3. \A q \in Thread : \/ fetch'[q] = fetch[q]
                                \/ fetch[q].pc # "gist" /\ fetch'[q].pc # "gist"
          BY <4>1, <4>2
        <4> HIDE DEF Clean
        <4> QED BY <2>1, <4>3, CleanKept
      <3>4. SaveFlagged' /\ PageFetch' /\ FetchBase'
        <4>0. fetch'[p].pc = "off"
          BY <2>2 DEF NoFetch
        <4>1. fetch'[p].pc = "off" /\ \A q \in Thread \ {p} : fetch'[q] = fetch[q]
          BY <1>39, <4>0, <1>0, Comparisons
        <4>2. SaveFlagged'
          <5> HIDE DEF Saving, Clean
          <5> QED BY <2>1, <3>2, <3>3
        <4>3. PageFetch'
          BY <3>3, <4>1
        <4>4. FetchBase'
          BY <2>1, <4>1
        <4> QED BY <4>2, <4>3, <4>4
      <3>5. p = "sync" => sy \notin {"readContent", "call"} \cup Pushed
        BY <1>39, <1>0, Comparisons DEF Pushed
      <3>6. ReadPush' /\ PushInv'
        BY <1>39, <2>1, <2>2, <3>1, <3>3, <3>5, <1>0, Comparisons, ZenonT(60) DEF NoFetch, Pushed
      <3> QED BY <3>4, <3>6
    <2>3. CASE /\ UNCHANGED <<ui, sy, lock>>
               /\ fetch'[p].pc = "write" /\ fetch'[p].base = fetch[p].base
               /\ fetch'[p].merged # {} => BothChanged(p)
      <3>1. fetch'[p].merged # {} => fileValid /\ file # base
        BY <1>39, <2>3, <1>0, Comparisons DEF BothChanged
      <3>2. Clean' <=> Clean
        BY <1>39, <2>1, <2>3, <1>0, Comparisons, CleanKept, ZenonT(60)
      <3>3. Clean /\ p = "ui" => fetch'[p].merged = {}
        BY <1>39, <3>1, <1>0, Comparisons
      <3>4. SaveFlagged' /\ PageFetch' /\ FetchBase'
        <4>1. fetch[p].pc = "compare" /\ \A q \in Thread \ {p} : fetch'[q] = fetch[q]
          BY <1>39, <1>0, Comparisons
        <4>2. SaveFlagged'
          BY <2>1, <2>3, <3>2
        <4>3. PageFetch'
          BY <2>3, <3>2, <3>3, <4>1
        <4>4. FetchBase'
          BY <2>1, <2>3, <3>1, <4>1
        <4> QED BY <4>2, <4>3, <4>4
      <3>5. ReadPush' /\ PushInv'
        BY <1>39, <2>1, <2>3, <3>2, <1>0, Comparisons
      <3> QED BY <3>4, <3>5
    <2> QED BY <1>39, <2>2, <2>3, <1>0, Comparisons, ZenonT(60)
  <1>40. ASSUME NEW p \in Thread, FetchWrite(p) PROVE CleanInv'
    BY <1>40 DEF FetchWrite
  <1>41. ASSUME NEW p \in Thread, FetchGist(p) PROVE CleanInv'
    <2>1. /\ fetch[p].pc = "gist" /\ UNCHANGED <<fileValid, file, toPush, snap>>
          /\ base' = fetch[p].got /\ fetch'[p] = NoFetch
          /\ \A q \in Thread \ {p} : fetch'[q] = fetch[q]
          /\ AfterFetch(p, TRUE)
      BY <1>41 DEF FetchGist
    <2>2. \A q \in Thread \ {p} : fetch[q].pc \notin {"compare", "write", "gist"}
      BY <2>1
    <2>3. sy' = sy \/ (p = "sync" /\ sy' \in {"deferClear", "push", "checkpoint"})
      BY <2>1, AfterFetches, ZenonT(60)
    <2>4. Saving' <=> Saving
      BY <2>1, FetchEnds
    <2>5. Clean => Clean'
      BY <2>1, <2>2 DEF NoFetch
    <2>6. SaveFlagged' /\ PageFetch' /\ FetchBase'
      <3>1. SaveFlagged'
        <4> HIDE DEF Saving, Clean
        <4> QED BY <2>1, <2>4, <2>5
      <3>2. fetch'[p].pc = "off"
        BY <2>1 DEF NoFetch
      <3>3. PageFetch'
        BY <2>1, <2>5, <3>2
      <3>4. FetchBase'
        BY <2>1, <2>2, <3>2
      <3> QED BY <3>1, <3>3, <3>4
    <2>7. p = "sync" => sy \notin {"readContent", "call"} \cup Pushed
      BY <2>1 DEF Pushed
    <2>8. ReadPush'
      BY <2>1, <2>2, <2>3, <2>5, <2>7 DEF NoFetch
    <2>9. PushInv'
      BY <2>1, <2>2, <2>3, <2>5, <2>7 DEF NoFetch, Pushed
    <2> QED BY <2>6, <2>8, <2>9
  <1>42. CASE UNCHANGED vars
    BY <1>42 DEF vars
  <1> QED
    BY <1>1, <1>2, <1>3, <1>4, <1>5, <1>6, <1>7, <1>8, <1>9, <1>10, <1>11, <1>12, <1>13,
       <1>14, <1>15, <1>16, <1>17, <1>18, <1>19, <1>20, <1>21, <1>22, <1>23, <1>24, <1>25, <1>26,
       <1>27, <1>28, <1>29, <1>30, <1>31, <1>32, <1>33, <1>34, <1>35, <1>36, <1>37, <1>38, <1>39,
       <1>40, <1>41, <1>42
       DEF Next, UiStep, SyncStep, FetchStep

\* Every step without an overlap keeps content.ini built on its base: a save
\* brings the base it was opened with, a fetch merges or replaces.
LEMMA FileStep ==
    ASSUME TypeInv, LockInv, CopyInv, MergeInv, BasicInv, CleanInv, BuiltInv, [Next]_vars,
           NoOverlap, NoOverlap', Crash => ~MidWrite
    PROVE  FileBuilt'
  <1> USE DEF FileBuilt, PageBuilt, TypeInv, TypeOK, FetchStage, Thread, UiState, FetchState,
              SnapState, gist, store, lists, server, syncThread, LockInv, EditLockHeld, PageWaits,
              BuiltInv, NoOverlap, LateAnswer, Pushing, Saving
  <1>0. NotMerged
    BY DEF MergeInv
  <1>1. CASE CreateNote
    <2>1. base = None /\ \A p \in Thread : fetch[p].pc = "off"
      BY <1>1 DEF CreateNote, BasicInv, NoNote, CopyInv, HasGuid, MergeInv, NoteExists
    <2> QED BY <1>1, <2>1 DEF CreateNote
  <1>2. CASE OpenGist
    BY <1>2 DEF OpenGist, Closed
  <1>3. CASE OpenContent
    <2>1. /\ UNCHANGED <<gist, store, lists, server, syncThread>>
          /\ fetch'["sync"] = fetch["sync"] /\ ui.pc = "open"
      BY <1>3, Openings
    <2>2. fetch'["ui"] = fetch["ui"] \/ fetch'["ui"].pc = "ask"
      BY <1>3, Openings
    <2>3. ui'.pc \in {"editing", "fetching", "closed"}
      BY <1>3, Openings DEF Closed
    <2> QED BY <2>1, <2>2, <2>3
  <1>4. CASE SavePlain
    BY <1>4 DEF SavePlain, TakeLock
  <1>5. CASE SavePlainContent
    BY <1>5 DEF SavePlainContent
  <1>6. CASE AppendText
    BY <1>6 DEF AppendText, TakeLock
  <1>7. CASE SaveCheckboxes
    BY <1>7 DEF SaveCheckboxes, TakeLock
  <1>8. CASE SaveBase
    BY <1>8 DEF SaveBase
  <1>9. CASE SaveConflict
    BY <1>9 DEF SaveConflict
  <1>10. CASE SaveTitle
    BY <1>10 DEF SaveTitle
  <1>11. CASE FlagNote
    BY <1>11 DEF FlagNote
  <1>12. CASE ClosePage
    BY <1>12 DEF ClosePage, Closed
  <1>13. CASE SyncStart
    BY <1>13 DEF SyncStart
  <1>14. CASE SyncDeferred
    BY <1>14 DEF SyncDeferred, SyncFetch, UpToDate
  <1>15. CASE SyncDeferClear
    BY <1>15 DEF SyncDeferClear
  <1>16. CASE SyncPull
    BY <1>16 DEF SyncPull
  <1>17. CASE SyncGist
    BY <1>17 DEF SyncGist
  <1>18. CASE SyncDecide
    BY <1>18 DEF SyncDecide, SyncFetch, UpToDate
  <1>19. CASE SyncCheckpoint
    BY <1>19 DEF SyncCheckpoint
  <1>20. CASE SyncPrefetch
    BY <1>20 DEF SyncPrefetch, SyncFetch, UpToDate
  <1>21. CASE PushGist
    BY <1>21 DEF PushGist, NoSnap
  <1>22. CASE PushContent
    BY <1>22 DEF PushContent, NoSnap
  <1>23. CASE PushCreate
    BY <1>23 DEF PushCreate
  <1>24. CASE PushUpdate
    BY <1>24 DEF PushUpdate, NoSnap, IsPushingContent
  <1>25. CASE SyncFails
    BY <1>25 DEF SyncFails, NoSnap
  <1>26. CASE PushSetGuid
    BY <1>26 DEF PushSetGuid
  <1>27. CASE PushedGist
    <2>1. file = snap.content
      BY <1>27 DEF PushedGist, CleanInv, PushInv, RealPush
    <2> QED BY <1>27, <2>1 DEF PushedGist
  <1>28. CASE PushedContent
    BY <1>28 DEF PushedContent
  <1>29. CASE PushedDrop
    BY <1>29 DEF PushedDrop
  <1>30. CASE PushedCache
    BY <1>30 DEF PushedCache
  <1>31. CASE PushClearFlag
    BY <1>31 DEF PushClearFlag
  <1>32. CASE PushUsn
    BY <1>32 DEF PushUsn, NoSnap
  <1>33. CASE OtherClient
    BY <1>33 DEF OtherClient
  <1>34. CASE EvictCache
    BY <1>34 DEF EvictCache
  <1>35. CASE Crash
    BY <1>35 DEF Crash, Closed, NoFetch, NoSnap, MidWrite
  <1>36. ASSUME NEW p \in Thread, FetchAsk(p) PROVE FileBuilt'
    BY <1>36 DEF FetchAsk
  <1>37. ASSUME NEW p \in Thread, FetchFail(p) PROVE FileBuilt'
    BY <1>37 DEF FetchFail, AfterFetch, PageGot, PageGotNothing, Closed, NoFetch
  <1>38. ASSUME NEW p \in Thread, FetchApply(p) PROVE FileBuilt'
    BY <1>0, <1>38 DEF FetchApply, TakeLock, NotMerged
  <1>39. ASSUME NEW p \in Thread, FetchCompare(p) PROVE FileBuilt'
    <2>1. /\ UNCHANGED <<gist, store, lists, server, due, chunk, snap>>
          /\ fetch[p].pc = "compare"
          /\ \A q \in Thread \ {p} : fetch'[q] = fetch[q]
      BY <1>39, <1>0, Comparisons
    <2>2. CASE LocalIsNewer(p) /\ AfterFetch(p, TRUE) /\ fetch'[p] = NoFetch
      <3>1. ui' = ui \/ ui.pc = "fetching"
        BY <2>1, <2>2, AfterFetches
      <3> QED BY <2>1, <2>2, <3>1 DEF NoFetch
    <2>3. CASE /\ UNCHANGED <<ui, sy>> /\ fetch'[p].pc = "write"
               /\ fetch'[p].got = fetch[p].got
               /\ fetch'[p].merged # {} => fetch[p].got \subseteq fetch'[p].merged
      BY <2>1, <2>3
    <2> QED BY <1>39, <1>0, <2>2, <2>3, Comparisons, ZenonT(60)
  <1>40. ASSUME NEW p \in Thread, FetchWrite(p) PROVE FileBuilt'
    BY <1>40 DEF FetchWrite
  <1>41. ASSUME NEW p \in Thread, FetchGist(p) PROVE FileBuilt'
    BY <1>41, ZenonT(60) DEF FetchGist, AfterFetch, PageGot, PageGotNothing, Closed, NoFetch
  <1>42. CASE UNCHANGED vars
    BY <1>42 DEF vars
  <1> QED
    BY <1>1, <1>2, <1>3, <1>4, <1>5, <1>6, <1>7, <1>8, <1>9, <1>10, <1>11, <1>12, <1>13,
       <1>14, <1>15, <1>16, <1>17, <1>18, <1>19, <1>20, <1>21, <1>22, <1>23, <1>24, <1>25, <1>26,
       <1>27, <1>28, <1>29, <1>30, <1>31, <1>32, <1>33, <1>34, <1>35, <1>36, <1>37, <1>38, <1>39,
       <1>40, <1>41, <1>42
       DEF Next, UiStep, SyncStep, FetchStep

\* Every step without an overlap keeps the page's text built on a base of the
\* note: fetches and pushes only move that forward.
LEMMA PageStep ==
    ASSUME TypeInv, LockInv, CopyInv, MergeInv, BasicInv, CleanInv, BuiltInv, [Next]_vars,
           NoOverlap, NoOverlap', Crash => ~MidWrite
    PROVE  PageBuilt'
  <1> USE DEF FileBuilt, PageBuilt, CacheBuilt, TypeInv, TypeOK, FetchStage, Thread, UiState,
              FetchState, SnapState, gist, store, lists, server, syncThread, LockInv, EditLockHeld,
              PageWaits, BuiltInv, NoOverlap, LateAnswer, Pushing, Saving
  <1>0. NotMerged
    BY DEF MergeInv
  <1>1. CASE CreateNote
    BY <1>1 DEF CreateNote, Closed
  <1>2. CASE OpenGist
    BY <1>2 DEF OpenGist, Closed
  <1>3. CASE OpenContent
    <2>1. /\ UNCHANGED <<gist, store, lists, server, syncThread>>
          /\ fetch'["sync"] = fetch["sync"] /\ ui.pc = "open"
      BY <1>3, Openings
    <2>2. fetch'["ui"] = fetch["ui"] \/ fetch'["ui"].pc = "ask"
      BY <1>3, Openings
    <2>3. CASE /\ ui'.pc = "editing" /\ ui'.base = ui.base
               /\ ui'.text = Available(ui.sync) /\ ui'.text # {}
      BY <2>1, <2>3 DEF Available
    <2>4. CASE ui'.pc \in {"fetching", "closed"}
      BY <2>1, <2>4
    <2> QED BY <1>3, <2>3, <2>4, Openings DEF Closed
  <1>4. CASE SavePlain
    <2>1. /\ ui'.pc = "saveContent" /\ ui'.base = ui.base /\ ui.text \subseteq ui'.text
      <3>1. CASE CanEdit /\ ui' = [ui EXCEPT !.pc = "saveContent",
                   !.text = @ \cup {NewEdit}, !.dirty = TRUE,
                   !.conflict = base \notin {None, ui.base}]
        BY <3>1
      <3>2. CASE ui.dirty /\ ui' = [ui EXCEPT !.pc = "saveContent",
                                  !.conflict = base \notin {None, ui.base}]
        BY <3>2
      <3> QED BY <1>4, <3>1, <3>2 DEF SavePlain
    <2>2. ui.pc = "editing" /\ base' = ui.base
      BY <1>4 DEF SavePlain
    <2> QED BY <2>1, <2>2
  <1>5. CASE SavePlainContent
    BY <1>5 DEF SavePlainContent
  <1>6. CASE AppendText
    BY <1>6 DEF AppendText, TakeLock
  <1>7. CASE SaveCheckboxes
    BY <1>7 DEF SaveCheckboxes, TakeLock
  <1>8. CASE SaveBase
    BY <1>8 DEF SaveBase
  <1>9. CASE SaveConflict
    BY <1>9 DEF SaveConflict
  <1>10. CASE SaveTitle
    BY <1>10 DEF SaveTitle
  <1>11. CASE FlagNote
    BY <1>11 DEF FlagNote
  <1>12. CASE ClosePage
    BY <1>12 DEF ClosePage, Closed
  <1>13. CASE SyncStart
    BY <1>13 DEF SyncStart
  <1>14. CASE SyncDeferred
    BY <1>14 DEF SyncDeferred, SyncFetch, UpToDate
  <1>15. CASE SyncDeferClear
    BY <1>15 DEF SyncDeferClear
  <1>16. CASE SyncPull
    BY <1>16 DEF SyncPull
  <1>17. CASE SyncGist
    BY <1>17 DEF SyncGist
  <1>18. CASE SyncDecide
    BY <1>18 DEF SyncDecide, SyncFetch, UpToDate
  <1>19. CASE SyncCheckpoint
    BY <1>19 DEF SyncCheckpoint
  <1>20. CASE SyncPrefetch
    BY <1>20 DEF SyncPrefetch, SyncFetch, UpToDate
  <1>21. CASE PushGist
    BY <1>21 DEF PushGist, NoSnap
  <1>22. CASE PushContent
    BY <1>22 DEF PushContent, NoSnap
  <1>23. CASE PushCreate
    BY <1>23 DEF PushCreate
  <1>24. CASE PushUpdate
    BY <1>24 DEF PushUpdate, NoSnap, IsPushingContent
  <1>25. CASE SyncFails
    BY <1>25 DEF SyncFails, NoSnap
  <1>26. CASE PushSetGuid
    BY <1>26 DEF PushSetGuid
  <1>27. CASE PushedGist
    <2>1. file = snap.content /\ fileValid
      BY <1>27 DEF PushedGist, CleanInv, PushInv, RealPush
    <2>2. base \subseteq snap.content
      BY <1>27, <2>1 DEF PushedGist
    <2> QED BY <1>27, <2>1, <2>2 DEF PushedGist
  <1>28. CASE PushedContent
    BY <1>28 DEF PushedContent
  <1>29. CASE PushedDrop
    BY <1>29 DEF PushedDrop
  <1>30. CASE PushedCache
    BY <1>30 DEF PushedCache
  <1>31. CASE PushClearFlag
    BY <1>31 DEF PushClearFlag
  <1>32. CASE PushUsn
    BY <1>32 DEF PushUsn, NoSnap
  <1>33. CASE OtherClient
    BY <1>33 DEF OtherClient
  <1>34. CASE EvictCache
    BY <1>34 DEF EvictCache
  <1>35. CASE Crash
    BY <1>35 DEF Crash, Closed, NoFetch, NoSnap, MidWrite
  <1>36. ASSUME NEW p \in Thread, FetchAsk(p) PROVE PageBuilt'
    BY <1>36 DEF FetchAsk
  <1>37. ASSUME NEW p \in Thread, FetchFail(p) PROVE PageBuilt'
    BY <1>37 DEF FetchFail, AfterFetch, PageGot, PageGotNothing, Closed, NoFetch
  <1>38. ASSUME NEW p \in Thread, FetchApply(p) PROVE PageBuilt'
    BY <1>38 DEF FetchApply, TakeLock
  <1>39. ASSUME NEW p \in Thread, FetchCompare(p) PROVE PageBuilt'
    <2>1. /\ UNCHANGED <<gist, store, lists, server, due, chunk, snap>>
          /\ fetch[p].pc = "compare"
          /\ \A q \in Thread \ {p} : fetch'[q] = fetch[q]
      BY <1>39, <1>0, Comparisons
    <2>2. CASE LocalIsNewer(p) /\ AfterFetch(p, TRUE) /\ fetch'[p] = NoFetch
      <3>1. fetch[p].base = fetch[p].got /\ fetch[p].base = base
        BY <2>1, <2>2 DEF LocalIsNewer, CleanInv, FetchBase
      <3>2. \/ ui' = ui \/ ui'.pc = "closed"
            \/ ui'.pc = "editing" /\ ui'.text = fetch[p].got /\ ui'.base = fetch[p].got
        BY <2>1, <2>2, FetchPages
      <3> QED BY <2>1, <3>1, <3>2
    <2>3. CASE /\ UNCHANGED <<ui, sy>> /\ fetch'[p].pc = "write"
               /\ fetch'[p].got = fetch[p].got
               /\ fetch'[p].merged # {} => fetch[p].got \subseteq fetch'[p].merged
      BY <2>1, <2>3
    <2> QED BY <1>39, <1>0, <2>2, <2>3, Comparisons, ZenonT(60)
  <1>40. ASSUME NEW p \in Thread, FetchWrite(p) PROVE PageBuilt'
    BY <1>40 DEF FetchWrite
  <1>41. ASSUME NEW p \in Thread, FetchGist(p) PROVE PageBuilt'
    <2>1. /\ fetch[p].pc = "gist" /\ UNCHANGED <<fileValid, file, cache, srv>>
          /\ base' = fetch[p].got
          /\ AfterFetch(p, TRUE)
      BY <1>41 DEF FetchGist
    <2>2. \/ ui' = ui \/ ui'.pc = "closed"
          \/ ui'.pc = "editing" /\ ui'.text = fetch[p].got /\ ui'.base = fetch[p].got
      BY <2>1, FetchPages
    <2>3. base \subseteq base' /\ ui.pc \notin {"saveContent", "saveBase"}
      BY <2>1
    <2> QED BY <2>1, <2>2, <2>3
  <1>42. CASE UNCHANGED vars
    BY <1>42 DEF vars
  <1> QED
    BY <1>1, <1>2, <1>3, <1>4, <1>5, <1>6, <1>7, <1>8, <1>9, <1>10, <1>11, <1>12, <1>13,
       <1>14, <1>15, <1>16, <1>17, <1>18, <1>19, <1>20, <1>21, <1>22, <1>23, <1>24, <1>25, <1>26,
       <1>27, <1>28, <1>29, <1>30, <1>31, <1>32, <1>33, <1>34, <1>35, <1>36, <1>37, <1>38, <1>39,
       <1>40, <1>41, <1>42
       DEF Next, UiStep, SyncStep, FetchStep

\* Every step without an overlap keeps the synced copy in the disk cache built
\* on the base: a fetch and a push write the cache before or after the gist, and
\* a pull moves the synced hash away from it.
LEMMA CacheStep ==
    ASSUME TypeInv, LockInv, CopyInv, MergeInv, BasicInv, CleanInv, BuiltInv, [Next]_vars,
           NoOverlap, NoOverlap', Crash => ~MidWrite
    PROVE  CacheBuilt'
  <1> USE DEF PageBuilt, CacheBuilt, ServerBuilt, TypeInv, TypeOK, FetchStage, Thread,
              UiState, FetchState, SnapState, gist, store, lists, server, syncThread, LockInv,
              EditLockHeld, PageWaits, BuiltInv, NoOverlap, LateAnswer, Pushing, Saving
  <1>0. NotMerged
    BY DEF MergeInv
  <1>1. CASE CreateNote
    BY <1>1 DEF CreateNote, Closed
  <1>2. CASE OpenGist
    BY <1>2 DEF OpenGist, Closed
  <1>3. CASE OpenContent
    <2>1. /\ UNCHANGED <<gist, store, lists, server, syncThread>>
          /\ fetch'["sync"] = fetch["sync"] /\ ui.pc = "open"
      BY <1>3, Openings
    <2>2. fetch'["ui"] = fetch["ui"] \/ fetch'["ui"].pc = "ask"
      BY <1>3, Openings
    <2>3. ui'.pc \in {"editing", "fetching", "closed"}
      BY <1>3, Openings DEF Closed
    <2> QED BY <2>1, <2>2, <2>3
  <1>4. CASE SavePlain
    BY <1>4 DEF SavePlain, TakeLock
  <1>5. CASE SavePlainContent
    BY <1>5 DEF SavePlainContent
  <1>6. CASE AppendText
    BY <1>6 DEF AppendText, TakeLock
  <1>7. CASE SaveCheckboxes
    BY <1>7 DEF SaveCheckboxes, TakeLock
  <1>8. CASE SaveBase
    BY <1>8 DEF SaveBase
  <1>9. CASE SaveConflict
    BY <1>9 DEF SaveConflict
  <1>10. CASE SaveTitle
    BY <1>10 DEF SaveTitle
  <1>11. CASE FlagNote
    BY <1>11 DEF FlagNote
  <1>12. CASE ClosePage
    BY <1>12 DEF ClosePage, Closed
  <1>13. CASE SyncStart
    BY <1>13 DEF SyncStart
  <1>14. CASE SyncDeferred
    BY <1>14 DEF SyncDeferred, SyncFetch, UpToDate
  <1>15. CASE SyncDeferClear
    BY <1>15 DEF SyncDeferClear
  <1>16. CASE SyncPull
    BY <1>16 DEF SyncPull
  <1>17. CASE SyncGist
    BY <1>17 DEF SyncGist
  <1>18. CASE SyncDecide
    BY <1>18 DEF SyncDecide, SyncFetch, UpToDate
  <1>19. CASE SyncCheckpoint
    BY <1>19 DEF SyncCheckpoint
  <1>20. CASE SyncPrefetch
    BY <1>20 DEF SyncPrefetch, SyncFetch, UpToDate
  <1>21. CASE PushGist
    BY <1>21 DEF PushGist, NoSnap
  <1>22. CASE PushContent
    BY <1>22 DEF PushContent, NoSnap
  <1>23. CASE PushCreate
    BY <1>23 DEF PushCreate
  <1>24. CASE PushUpdate
    BY <1>24 DEF PushUpdate, NoSnap, IsPushingContent
  <1>25. CASE SyncFails
    BY <1>25 DEF SyncFails, NoSnap
  <1>26. CASE PushSetGuid
    BY <1>26 DEF PushSetGuid
  <1>27. CASE PushedGist
    BY <1>27 DEF PushedGist
  <1>28. CASE PushedContent
    BY <1>28 DEF PushedContent
  <1>29. CASE PushedDrop
    <2>1. base = snap.content
      BY <1>29 DEF PushedDrop, CleanInv, PushInv
    <2> QED BY <1>29, <2>1 DEF PushedDrop
  <1>30. CASE PushedCache
    BY <1>30 DEF PushedCache
  <1>31. CASE PushClearFlag
    BY <1>31 DEF PushClearFlag
  <1>32. CASE PushUsn
    BY <1>32 DEF PushUsn, NoSnap
  <1>33. CASE OtherClient
    BY <1>33 DEF OtherClient
  <1>34. CASE EvictCache
    BY <1>34 DEF EvictCache
  <1>35. CASE Crash
    BY <1>35 DEF Crash, Closed, NoFetch, NoSnap, MidWrite
  <1>36. ASSUME NEW p \in Thread, FetchAsk(p) PROVE CacheBuilt'
    BY <1>36 DEF FetchAsk
  <1>37. ASSUME NEW p \in Thread, FetchFail(p) PROVE CacheBuilt'
    BY <1>37 DEF FetchFail, AfterFetch, PageGot, PageGotNothing, Closed, NoFetch
  <1>38. ASSUME NEW p \in Thread, FetchApply(p) PROVE CacheBuilt'
    BY <1>38 DEF FetchApply, TakeLock
  <1>39. ASSUME NEW p \in Thread, FetchCompare(p) PROVE CacheBuilt'
    <2>1. /\ UNCHANGED <<gist, store, lists, server, due, chunk, snap>>
          /\ fetch[p].pc = "compare"
          /\ \A q \in Thread \ {p} : fetch'[q] = fetch[q]
      BY <1>39, <1>0, Comparisons
    <2>2. CASE LocalIsNewer(p) /\ AfterFetch(p, TRUE) /\ fetch'[p] = NoFetch
      <3>1. sy' = sy \/ sy' \in {"deferClear", "push", "checkpoint"}
        BY <2>1, <2>2, AfterFetches
      <3>2. ui' = ui \/ ui'.pc \in {"closed", "editing"}
        BY <2>1, <2>2, FetchPages
      <3> QED BY <2>1, <2>2, <3>1, <3>2 DEF NoFetch
    <2>3. CASE /\ UNCHANGED <<ui, sy>> /\ fetch'[p].pc = "write"
               /\ fetch'[p].got = fetch[p].got
               /\ fetch'[p].merged # {} => fetch[p].got \subseteq fetch'[p].merged
      BY <2>1, <2>3
    <2> QED BY <1>39, <1>0, <2>2, <2>3, Comparisons, ZenonT(60)
  <1>40. ASSUME NEW p \in Thread, FetchWrite(p) PROVE CacheBuilt'
    <2>1. /\ fetch[p].pc = "write" /\ UNCHANGED <<gist, ui, syncThread>>
          /\ fetch'[p] = [fetch[p] EXCEPT !.pc = "gist"]
          /\ \A q \in Thread \ {p} : fetch'[q] = fetch[q]
      BY <1>40 DEF FetchWrite
    <2>2. fetch'[p].got = fetch[p].got /\ base \subseteq fetch[p].got
      BY <2>1
    <2>3. CASE cache' = fetch[p].got
      BY <2>1, <2>2, <2>3
    <2>4. CASE UNCHANGED cache /\ (fetch[p].merged # {} \/ OfflineNeeded)
      <3>1. p = "ui" => cache = {}
        BY <2>1, <2>4 DEF CleanInv, PageFetch, BasicInv, NoNote
      <3> QED BY <2>1, <2>2, <2>4, <3>1
    <2> QED BY <1>40, <2>3, <2>4 DEF FetchWrite
  <1>41. ASSUME NEW p \in Thread, FetchGist(p) PROVE CacheBuilt'
    BY <1>41, ZenonT(60) DEF FetchGist, AfterFetch, PageGot, PageGotNothing, Closed, NoFetch
  <1>42. CASE UNCHANGED vars
    BY <1>42 DEF vars
  <1> QED
    BY <1>1, <1>2, <1>3, <1>4, <1>5, <1>6, <1>7, <1>8, <1>9, <1>10, <1>11, <1>12, <1>13,
       <1>14, <1>15, <1>16, <1>17, <1>18, <1>19, <1>20, <1>21, <1>22, <1>23, <1>24, <1>25, <1>26,
       <1>27, <1>28, <1>29, <1>30, <1>31, <1>32, <1>33, <1>34, <1>35, <1>36, <1>37, <1>38, <1>39,
       <1>40, <1>41, <1>42
       DEF Next, UiStep, SyncStep, FetchStep

\* Every step without an overlap keeps the server ahead of the base.
LEMMA ServerStep ==
    ASSUME TypeInv, LockInv, CopyInv, MergeInv, BasicInv, CleanInv, BuiltInv, [Next]_vars,
           NoOverlap, NoOverlap', Crash => ~MidWrite
    PROVE  ServerBuilt'
  <1> USE DEF FileBuilt, PageBuilt, ServerBuilt, TypeInv, TypeOK, FetchStage, Thread, UiState,
              FetchState, SnapState, gist, store, lists, server, syncThread, LockInv, EditLockHeld,
              PageWaits, BuiltInv, NoOverlap, LateAnswer, Pushing, Saving
  <1>0. NotMerged
    BY DEF MergeInv
  <1>1. CASE CreateNote
    BY <1>1 DEF CreateNote, Closed
  <1>2. CASE OpenGist
    BY <1>2 DEF OpenGist, Closed
  <1>3. CASE OpenContent
    <2>1. /\ UNCHANGED <<gist, store, lists, server, syncThread>>
          /\ fetch'["sync"] = fetch["sync"] /\ ui.pc = "open"
      BY <1>3, Openings
    <2>2. fetch'["ui"] = fetch["ui"] \/ fetch'["ui"].pc = "ask"
      BY <1>3, Openings
    <2> QED BY <2>1, <2>2
  <1>4. CASE SavePlain
    BY <1>4 DEF SavePlain, TakeLock
  <1>5. CASE SavePlainContent
    BY <1>5 DEF SavePlainContent
  <1>6. CASE AppendText
    BY <1>6 DEF AppendText, TakeLock
  <1>7. CASE SaveCheckboxes
    BY <1>7 DEF SaveCheckboxes, TakeLock
  <1>8. CASE SaveBase
    BY <1>8 DEF SaveBase
  <1>9. CASE SaveConflict
    BY <1>9 DEF SaveConflict
  <1>10. CASE SaveTitle
    BY <1>10 DEF SaveTitle
  <1>11. CASE FlagNote
    BY <1>11 DEF FlagNote
  <1>12. CASE ClosePage
    BY <1>12 DEF ClosePage, Closed
  <1>13. CASE SyncStart
    BY <1>13 DEF SyncStart
  <1>14. CASE SyncDeferred
    BY <1>14 DEF SyncDeferred, SyncFetch, UpToDate
  <1>15. CASE SyncDeferClear
    BY <1>15 DEF SyncDeferClear
  <1>16. CASE SyncPull
    BY <1>16 DEF SyncPull
  <1>17. CASE SyncGist
    BY <1>17 DEF SyncGist
  <1>18. CASE SyncDecide
    BY <1>18 DEF SyncDecide, SyncFetch, UpToDate
  <1>19. CASE SyncCheckpoint
    BY <1>19 DEF SyncCheckpoint
  <1>20. CASE SyncPrefetch
    BY <1>20 DEF SyncPrefetch, SyncFetch, UpToDate
  <1>21. CASE PushGist
    BY <1>21 DEF PushGist, NoSnap
  <1>22. CASE PushContent
    BY <1>22 DEF PushContent, NoSnap
  <1>23. CASE PushCreate
    BY <1>23 DEF PushCreate
  <1>24. CASE PushUpdate
    <2>1. CASE IsPushingContent
      <3>1. fileValid /\ file = snap.content /\ fetch["ui"].pc \in {"off", "gist"}
        BY <1>24, <2>1 DEF PushUpdate, CleanInv, PushInv, RealPush
      <3>2. srv' = snap.content /\ base \subseteq srv'
        BY <1>24, <2>1, <3>1 DEF PushUpdate
      <3>3. \A q \in Thread : fetch[q].pc \notin {"off", "ask"} => fetch[q].got \subseteq srv'
        BY <1>24, <3>1, <3>2 DEF PushUpdate
      <3>4. sy' = "pushedGist" => snap'.content = srv'
        BY <1>24 DEF PushUpdate, NoSnap
      <3> QED BY <1>24, <3>2, <3>3, <3>4 DEF PushUpdate
    <2>2. CASE ~IsPushingContent
      BY <1>24, <2>2 DEF PushUpdate, NoSnap
    <2> QED BY <2>1, <2>2
  <1>25. CASE SyncFails
    BY <1>25 DEF SyncFails, NoSnap
  <1>26. CASE PushSetGuid
    <2>1. fileValid /\ file = snap.content
      BY <1>26 DEF PushSetGuid, CleanInv, PushInv, RealPush
    <2>2. \A q \in Thread : fetch[q].pc = "off"
      BY <1>26 DEF PushSetGuid, BasicInv, SnapGuid, CopyInv, HasGuid
    <2> QED BY <1>26, <2>1, <2>2 DEF PushSetGuid
  <1>27. CASE PushedGist
    BY <1>27 DEF PushedGist
  <1>28. CASE PushedContent
    BY <1>28 DEF PushedContent
  <1>29. CASE PushedDrop
    BY <1>29 DEF PushedDrop
  <1>30. CASE PushedCache
    BY <1>30 DEF PushedCache
  <1>31. CASE PushClearFlag
    BY <1>31 DEF PushClearFlag
  <1>32. CASE PushUsn
    BY <1>32 DEF PushUsn, NoSnap
  <1>33. CASE OtherClient
    BY <1>33 DEF OtherClient
  <1>34. CASE EvictCache
    BY <1>34 DEF EvictCache
  <1>35. CASE Crash
    BY <1>35 DEF Crash, Closed, NoFetch, NoSnap, MidWrite
  <1>36. ASSUME NEW p \in Thread, FetchAsk(p) PROVE ServerBuilt'
    BY <1>36 DEF FetchAsk
  <1>37. ASSUME NEW p \in Thread, FetchFail(p) PROVE ServerBuilt'
    BY <1>37 DEF FetchFail, AfterFetch, PageGot, PageGotNothing, Closed, NoFetch
  <1>38. ASSUME NEW p \in Thread, FetchApply(p) PROVE ServerBuilt'
    BY <1>38 DEF FetchApply, TakeLock
  <1>39. ASSUME NEW p \in Thread, FetchCompare(p) PROVE ServerBuilt'
    <2>1. /\ UNCHANGED <<gist, store, lists, server, due, chunk, snap>>
          /\ fetch[p].pc = "compare"
          /\ \A q \in Thread \ {p} : fetch'[q] = fetch[q]
      BY <1>39, <1>0, Comparisons
    <2>2. CASE LocalIsNewer(p) /\ AfterFetch(p, TRUE) /\ fetch'[p] = NoFetch
      <3>1. sy' = sy \/ sy' \in {"deferClear", "push", "checkpoint"}
        BY <2>1, <2>2, FetchEnds
      <3>2. fetch'[p].pc = "off"
        BY <2>2 DEF NoFetch
      <3> QED BY <2>1, <3>1, <3>2
    <2>3. CASE /\ UNCHANGED <<ui, sy>> /\ fetch'[p].pc = "write"
               /\ fetch'[p].got = fetch[p].got
               /\ fetch'[p].merged # {} => fetch[p].got \subseteq fetch'[p].merged
      BY <2>1, <2>3
    <2> QED BY <1>39, <1>0, <2>2, <2>3, Comparisons, ZenonT(60)
  <1>40. ASSUME NEW p \in Thread, FetchWrite(p) PROVE ServerBuilt'
    BY <1>40 DEF FetchWrite
  <1>41. ASSUME NEW p \in Thread, FetchGist(p) PROVE ServerBuilt'
    BY <1>41 DEF FetchGist, AfterFetch, PageGot, PageGotNothing, Closed, NoFetch
  <1>42. CASE UNCHANGED vars
    BY <1>42 DEF vars
  <1> QED
    BY <1>1, <1>2, <1>3, <1>4, <1>5, <1>6, <1>7, <1>8, <1>9, <1>10, <1>11, <1>12, <1>13,
       <1>14, <1>15, <1>16, <1>17, <1>18, <1>19, <1>20, <1>21, <1>22, <1>23, <1>24, <1>25, <1>26,
       <1>27, <1>28, <1>29, <1>30, <1>31, <1>32, <1>33, <1>34, <1>35, <1>36, <1>37, <1>38, <1>39,
       <1>40, <1>41, <1>42
       DEF Next, UiStep, SyncStep, FetchStep

\* Every step without an overlap keeps what was pulled below the synced hash.
LEMMA PulledStep ==
    ASSUME TypeInv, LockInv, CopyInv, MergeInv, BasicInv, CleanInv, BuiltInv, [Next]_vars,
           NoOverlap, NoOverlap', Crash => ~MidWrite
    PROVE  PulledInv'
  <1> USE DEF FileBuilt, PulledInv, Pulling, Pushed, IsPushingContent, TypeInv, TypeOK,
              FetchStage, Thread, UiState, FetchState, SnapState, gist, store, lists, server, syncThread,
              LockInv, EditLockHeld, PageWaits, BuiltInv, NoOverlap, LateAnswer, Pushing, Saving
  <1>0. NotMerged
    BY DEF MergeInv
  <1>1. CASE CreateNote
    BY <1>1 DEF CreateNote, Closed
  <1>2. CASE OpenGist
    BY <1>2 DEF OpenGist, Closed
  <1>3. CASE OpenContent
    BY <1>3 DEF OpenContent, Closed
  <1>4. CASE SavePlain
    BY <1>4 DEF SavePlain, TakeLock
  <1>5. CASE SavePlainContent
    BY <1>5 DEF SavePlainContent
  <1>6. CASE AppendText
    BY <1>6 DEF AppendText, TakeLock
  <1>7. CASE SaveCheckboxes
    BY <1>7 DEF SaveCheckboxes, TakeLock
  <1>8. CASE SaveBase
    BY <1>8 DEF SaveBase
  <1>9. CASE SaveConflict
    BY <1>9 DEF SaveConflict
  <1>10. CASE SaveTitle
    BY <1>10 DEF SaveTitle
  <1>11. CASE FlagNote
    BY <1>11 DEF FlagNote
  <1>12. CASE ClosePage
    BY <1>12 DEF ClosePage, Closed
  <1>13. CASE SyncStart
    BY <1>13 DEF SyncStart
  <1>14. CASE SyncDeferred
    BY <1>14 DEF SyncDeferred, SyncFetch, UpToDate
  <1>15. CASE SyncDeferClear
    BY <1>15 DEF SyncDeferClear
  <1>16. CASE SyncPull
    BY <1>16 DEF SyncPull
  <1>17. CASE SyncGist
    BY <1>17 DEF SyncGist
  <1>18. CASE SyncDecide
    BY <1>18 DEF SyncDecide, SyncFetch, UpToDate
  <1>19. CASE SyncCheckpoint
    BY <1>19 DEF SyncCheckpoint
  <1>20. CASE SyncPrefetch
    BY <1>20 DEF SyncPrefetch, SyncFetch, UpToDate
  <1>21. CASE PushGist
    <2>1. (snap'.base = base /\ snap'.sync = syncHash) \/ sy' = "idle"
      BY <1>21 DEF PushGist, NoSnap
    <2> QED BY <1>21, <2>1 DEF PushGist
  <1>22. CASE PushContent
    <2>1. sy = "readContent" /\ UNCHANGED <<gist, store, server, ui, fetch>> /\ due' = due
      BY <1>22 DEF PushContent
    <2>2. CASE sy' = "idle"
      BY <2>1, <2>2
    <2>3. CASE /\ Available(snap.sync) # {} /\ snap.sync = snap.base /\ sy' = "call"
               /\ snap' = [snap EXCEPT !.content = Available(snap.sync)]
      <3>1. /\ snap'.content = Available(snap.sync) /\ snap'.base = snap.base
            /\ snap'.guid = snap.guid
        BY <2>3
      <3>2. CASE fileValid
        BY <2>1, <2>3, <3>1, <3>2 DEF Available
      <3>3. CASE ~fileValid
        <4>1. snap'.content = snap.base /\ snap.base # None
          BY <2>3, <3>1, <3>3 DEF Available
        <4>2. snap.guid
          BY <2>1, <3>3 DEF CopyInv, InFile, MergeInv, NoteExists, BasicInv, SnapGuid
        <4> QED BY <2>1, <2>3, <3>1, <3>3, <4>1, <4>2
      <3> QED BY <3>2, <3>3
    <2> QED BY <1>22, <2>2, <2>3 DEF PushContent, BuiltOnSynced
  <1>23. CASE PushCreate
    BY <1>23 DEF PushCreate
  <1>24. CASE PushUpdate
    <2>1. sy = "call" /\ pulled' = FALSE /\ UNCHANGED <<gist, store, ui, fetch, due, chunk>>
      BY <1>24 DEF PushUpdate
    <2>2. CASE sy' = "idle" /\ snap' = NoSnap
      BY <2>1, <2>2
    <2>3. CASE sy' = "pushedGist"
      BY <2>1, <2>3
    <2>4. CASE ~IsPushingContent /\ sy' = "clearFlag"
      <3>0. PICK alone \in {FALSE, pulled} :
                snap' = [snap EXCEPT !.alone = alone, !.content = srv']
        BY <1>24, <2>4 DEF PushUpdate
      <3>1. snap'.content = srv' /\ (snap'.alone => pulled)
        <4>1. CASE alone = FALSE
          BY <3>0, <4>1
        <4>2. CASE alone = pulled
          BY <3>0, <4>2
        <4> QED BY <3>0, <4>1, <4>2
      <3>2. srv' = srv
        BY <1>24, <2>4 DEF PushUpdate
      <3> QED BY <2>1, <2>4, <3>1, <3>2
    <2> QED BY <1>24, <2>2, <2>3, <2>4 DEF PushUpdate
  <1>25. CASE SyncFails
    BY <1>25 DEF SyncFails, NoSnap
  <1>26. CASE PushSetGuid
    BY <1>26 DEF PushSetGuid
  <1>27. CASE PushedGist
    <2>1. ~pulled
      BY <1>27 DEF PushedGist
    <2>2. syncHash' = snap.content /\ sy' = "pushedContent" /\ snap' = snap
      BY <1>27 DEF PushedGist
    <2> QED BY <1>27, <2>1, <2>2 DEF PushedGist
  <1>28. CASE PushedContent
    BY <1>28 DEF PushedContent
  <1>29. CASE PushedDrop
    BY <1>29 DEF PushedDrop
  <1>30. CASE PushedCache
    BY <1>30 DEF PushedCache
  <1>31. CASE PushClearFlag
    BY <1>31 DEF PushClearFlag
  <1>32. CASE PushUsn
    BY <1>32 DEF PushUsn, NoSnap
  <1>33. CASE OtherClient
    BY <1>33 DEF OtherClient
  <1>34. CASE EvictCache
    BY <1>34 DEF EvictCache
  <1>35. CASE Crash
    BY <1>35 DEF Crash, Closed, NoFetch, NoSnap, MidWrite
  <1>36. ASSUME NEW p \in Thread, FetchAsk(p) PROVE PulledInv'
    BY <1>36 DEF FetchAsk
  <1>37. ASSUME NEW p \in Thread, FetchFail(p) PROVE PulledInv'
    BY <1>37 DEF FetchFail, AfterFetch, PageGot, PageGotNothing, Closed, NoFetch
  <1>38. ASSUME NEW p \in Thread, FetchApply(p) PROVE PulledInv'
    BY <1>38 DEF FetchApply, TakeLock
  <1>39. ASSUME NEW p \in Thread, FetchCompare(p) PROVE PulledInv'
    BY <1>39, ZenonT(60) DEF FetchCompare, AfterFetch, PageGot, PageGotNothing, Closed, NoFetch
  <1>40. ASSUME NEW p \in Thread, FetchWrite(p) PROVE PulledInv'
    BY <1>40 DEF FetchWrite
  <1>41. ASSUME NEW p \in Thread, FetchGist(p) PROVE PulledInv'
    BY <1>41, ZenonT(60) DEF FetchGist, AfterFetch, PageGot, PageGotNothing, Closed, NoFetch
  <1>42. CASE UNCHANGED vars
    BY <1>42 DEF vars
  <1> QED
    BY <1>1, <1>2, <1>3, <1>4, <1>5, <1>6, <1>7, <1>8, <1>9, <1>10, <1>11, <1>12, <1>13,
       <1>14, <1>15, <1>16, <1>17, <1>18, <1>19, <1>20, <1>21, <1>22, <1>23, <1>24, <1>25, <1>26,
       <1>27, <1>28, <1>29, <1>30, <1>31, <1>32, <1>33, <1>34, <1>35, <1>36, <1>37, <1>38, <1>39,
       <1>40, <1>41, <1>42
       DEF Next, UiStep, SyncStep, FetchStep

\* What holds whenever no overlap has happened.
QuietInv == NoOverlap /\ BasicInv /\ CleanInv /\ BuiltInv

\* It holds when the program starts, with or without a note on the server.
LEMMA QuietInit ==
    ASSUME Init
    PROVE  QuietInv
  <1>1. \A p \in Thread : fetch[p].pc = "off" /\ fetch[p].merged = {} /\ fetch[p].got = {}
    BY DEF Init, NoFetch
  <1>2. /\ ~fileValid /\ base = None /\ syncHash = None /\ cache = {} /\ ~guid
        /\ origin = "none" /\ sy = "idle" /\ ui.pc = "closed" /\ ~due
        /\ pulled = (srv = {})
    BY DEF Init, Closed
  <1>3. NoOverlap /\ BasicInv
    BY <1>1, <1>2 DEF NoOverlap, Pushing, Saving, LateAnswer, BasicInv, NothingEmpty,
                      NoNote, SnapGuid, DropInv
  <1>4. CleanInv
    <2>1. Clean
      BY <1>2 DEF Clean
    <2>2. SaveFlagged /\ PageFetch /\ FetchBase
      BY <1>1, <2>1 DEF SaveFlagged, PageFetch, FetchBase, Thread
    <2>3. ReadPush /\ PushInv
      BY <1>2 DEF ReadPush, PushInv, RealPush
    <2> QED BY <2>2, <2>3 DEF CleanInv
  <1>5. FileBuilt /\ PageBuilt /\ CacheBuilt /\ ServerBuilt
    BY <1>1, <1>2 DEF FileBuilt, PageBuilt, CacheBuilt, ServerBuilt
  <1>6. PulledInv
    BY <1>2 DEF PulledInv, Pulling, Pushed
  <1> QED BY <1>3, <1>4, <1>5, <1>6 DEF QuietInv, BuiltInv

\* Every step without an overlap keeps the invariant; a step that changes
\* nothing is no overlap either.
LEMMA QuietStep ==
    ASSUME NoteInv, QuietInv, [QuietNext]_vars
    PROVE  NoteInv' /\ QuietInv'
  <1>1. [Next]_vars
    BY DEF QuietNext
  <1>2. NoOverlap'
    <2>1. CASE QuietNext
      BY <2>1 DEF QuietNext, NoOverlap
    <2>2. CASE UNCHANGED vars
      BY <2>2 DEF QuietInv, NoOverlap, Pushing, Saving, LateAnswer, vars, gist, syncThread
    <2> QED BY <2>1, <2>2
  <1>3. Crash => ~MidWrite
    <2>1. CASE QuietNext
      BY <2>1 DEF QuietNext
    <2>2. CASE UNCHANGED vars
      BY <2>2 DEF Crash, MidWrite, Saving, Closed, NoFetch, vars, syncThread
    <2> QED BY <2>1, <2>2
  <1>4. NoteInv'
    BY <1>1, TypeStep, LockStep, CopyStep, MergeStep DEF NoteInv
  <1>5. BasicInv' /\ CleanInv'
    BY <1>1, <1>2, <1>3, BasicStep, CleanStep DEF NoteInv, QuietInv
  <1>6. BuiltInv'
    <2>1. FileBuilt' /\ PageBuilt'
      BY <1>1, <1>2, <1>3, FileStep, PageStep DEF NoteInv, QuietInv
    <2>2. CacheBuilt' /\ ServerBuilt'
      BY <1>1, <1>2, <1>3, CacheStep, ServerStep DEF NoteInv, QuietInv
    <2>3. PulledInv'
      BY <1>1, <1>2, <1>3, PulledStep DEF NoteInv, QuietInv
    <2> QED BY <2>1, <2>2, <2>3 DEF BuiltInv
  <1> QED BY <1>2, <1>4, <1>5, <1>6 DEF QuietInv

\* The behaviours without overlaps satisfy the invariant throughout.
LEMMA QuietCorrect == QuietSpec => [](NoteInv /\ QuietInv)
  <1>1. Init => NoteInv /\ QuietInv
    BY NoteInit, QuietInit
  <1>2. NoteInv /\ QuietInv /\ [QuietNext]_vars => (NoteInv /\ QuietInv)'
    BY QuietStep
  <1> QED BY <1>1, <1>2, PTL DEF QuietSpec

\* In a behaviour without overlaps, content.ini is built on the version that
\* the gist names as its base (BuiltOnBase): comparing the hashes, as
\* setFetchedNoteContent does, detects every conflict.
THEOREM BuiltOnBaseCorrect == QuietSpec => []BuiltOnBase
  <1>1. QuietInv => BuiltOnBase
    BY DEF QuietInv, BuiltInv, FileBuilt, BuiltOnBase
  <1> QED BY <1>1, QuietCorrect, PTL

\* In a behaviour without overlaps, an edited content is in the list of notes
\* to push (UnpushedFlagged): setNoteHasUnpushedChanges(noteId, false) comes
\* only after a push of just that content.
THEOREM UnpushedFlaggedCorrect == QuietSpec => []UnpushedFlagged
  <1>1. QuietInv => UnpushedFlagged
    BY DEF QuietInv, CleanInv, SaveFlagged, Clean, UnpushedFlagged
  <1> QED BY <1>1, QuietCorrect, PTL

\* In a behaviour without overlaps, no push takes away from the server what
\* the device has pulled (ServerKeepsPulled): the comparison of the two hashes
\* before the push is enough.
THEOREM ServerKeepsPulledCorrect == QuietSpec => ServerKeepsPulled
  <1> DEFINE Keeps == pulled => srv \subseteq srv'
  <1>1. NoteInv /\ QuietInv /\ Next => Keeps
    <2> SUFFICES ASSUME NoteInv, QuietInv, Next, pulled, srv' # srv
                 PROVE  srv \subseteq srv'
      OBVIOUS
    <2>1. PushUpdate \/ PushSetGuid \/ OtherClient
      BY DEF Next, UiStep, SyncStep, FetchStep, server, CreateNote, OpenGist, OpenContent,
             SavePlain, SavePlainContent, AppendText, SaveCheckboxes, SaveBase, SaveConflict,
             SaveTitle, FlagNote, ClosePage, SyncStart, SyncDeferred, SyncDeferClear,
             SyncPull, SyncGist, SyncDecide, SyncCheckpoint, SyncPrefetch, PushGist,
             PushContent, PushCreate, SyncFails, PushedGist, PushedContent, PushedDrop,
             PushedCache, PushClearFlag, PushUsn, FetchAsk, FetchFail, FetchApply,
             FetchCompare, FetchWrite, FetchGist, EvictCache, Crash
    <2>2. CASE PushUpdate
      BY <2>2 DEF PushUpdate, QuietInv, BuiltInv, PulledInv
    <2>3. CASE PushSetGuid
      <3>1. origin # "none" /\ ~guid
        BY <2>3 DEF PushSetGuid, QuietInv, BasicInv, SnapGuid, NoteInv, MergeInv, NoteExists
      <3> QED BY <3>1 DEF QuietInv, BasicInv, NoNote
    <2>4. CASE OtherClient
      BY <2>4 DEF OtherClient
    <2> QED BY <2>1, <2>2, <2>3, <2>4
  <1>2. NoteInv /\ QuietInv /\ [QuietNext]_vars => [Keeps]_vars
    BY <1>1 DEF QuietNext
  <1> QED BY <1>2, QuietCorrect, PTL DEF QuietSpec, ServerKeepsPulled

=============================================================================
