---------------------------- MODULE LibraryProofs ----------------------------
(***************************************************************************)
(* Theorems about Library.  The lists and the gists are kept in agreement  *)
(* by operators that make one library of another, and one operation of a   *)
(* sync uses several of them in a row.  So the invariant is a predicate of *)
(* a library and a shelf, Agree(L, S); the first part shows of each        *)
(* operator that it keeps it, the second of each action.                   *)
(***************************************************************************)
EXTENDS Library, TLAPS

Here(S, b)    == S.nb[b] \in {"local", "synced"}
HereTag(S, t) == S.tag[t] \in {"local", "synced"}

\* Listed, OneNotebook, TagsAgree and FavouritesAgree of any library and shelf.
ListsView(L) ==
    \A n \in Notes :
        /\ n \in L.trash <=> L.note[n].trashed
        /\ L.note[n].st = "live" => (n \in L.all <=> ~L.note[n].trashed)

ListsNotebooks(L, S) ==
    \A n \in Notes, b \in Notebooks :
        L.note[n].st = "live" /\ Here(S, b) /\ n \in L.inNb[b] => L.note[n].nb = b

ListsTags(L, S) ==
    \A n \in Notes, t \in Tags :
        L.note[n].st = "live" /\ HereTag(S, t) =>
            /\ n \in L.tagged[t] => t \in L.note[n].tags
            /\ t \in L.note[n].tags /\ ~L.note[n].trashed => n \in L.tagged[t]

ListsFavourites(L) ==
    \A n \in Notes :
        L.note[n].st = "live" =>
            /\ n \in L.favs => L.note[n].fav
            /\ L.note[n].fav /\ ~L.note[n].trashed => n \in L.favs

\* Nothing is in a list before it is given out, or heard of: without this a
\* new note would be in lists its gist does not know, and a new notebook or
\* tag would list notes that are not in it.
NotesFresh(L) ==
    \A n \in Notes :
        L.note[n].st = "unused" =>
            /\ n \notin L.trash /\ n \notin L.favs
            /\ \A b \in Notebooks : n \notin L.inNb[b]
            /\ \A t \in Tags : n \notin L.tagged[t]

ShelfFresh(L, S) ==
    /\ \A b \in Notebooks : S.nb[b] = "unknown" => L.inNb[b] = {}
    /\ \A t \in Tags : S.tag[t] = "unknown" =>
          /\ L.tagged[t] = {}
          /\ \A n \in Notes : t \notin L.note[n].tags

Agree(L, S) ==
    /\ L \in Libraries
    /\ ListsView(L) /\ ListsNotebooks(L, S) /\ ListsTags(L, S) /\ ListsFavourites(L)
    /\ NotesFresh(L) /\ ShelfFresh(L, S)

\* M has the same ids given out as L.
SameIds(L, M) == \A n \in Notes : L.note[n].st = "unused" <=> M.note[n].st = "unused"

-----------------------------------------------------------------------------
(* The operators.                                                          *)

\* setNotebookForNote, for notes that were given out and a notebook heard of.
LEMMA PutAgrees ==
    ASSUME NEW L, NEW S \in Shelves, NEW U \in SUBSET Notes, NEW b \in Notebooks,
           Agree(L, S), S.nb[b] # "unknown",
           \A n \in U : L.note[n].st # "unused"
    PROVE  /\ Agree(PutInNotebook(L, U, b), S)
           /\ SameIds(L, PutInNotebook(L, U, b))
<1> DEFINE M == PutInNotebook(L, U, b)
           moved == {n \in U : L.note[n].nb # b}
<1>1. L \in Libraries
  BY DEF Agree
<1>2. /\ M \in Libraries
      /\ M.all = L.all /\ M.trash = L.trash /\ M.favs = L.favs /\ M.tagged = L.tagged
      /\ \A n \in Notes : M.note[n] = IF n \in moved THEN [L.note[n] EXCEPT !.nb = b]
                                      ELSE L.note[n]
      /\ \A c \in Notebooks : M.inNb[c] = IF c = b THEN L.inNb[c] \cup moved
                                          ELSE L.inNb[c] \ {n \in moved : L.note[n].nb = c}
  <2> DEFINE note == [n \in Notes |-> IF n \in moved THEN [L.note[n] EXCEPT !.nb = b]
                                      ELSE L.note[n]]
             inNb == [c \in Notebooks |-> IF c = b THEN L.inNb[c] \cup moved
                                          ELSE L.inNb[c] \ {n \in moved : L.note[n].nb = c}]
  <2>1. M = [L EXCEPT !.note = note, !.inNb = inNb]
    BY DEF PutInNotebook
  <2>2. \A n \in Notes : L.note[n] \in Gist
    BY <1>1 DEF Libraries
  <2>3. \A n \in Notes : [L.note[n] EXCEPT !.nb = b] \in Gist
    BY <2>2 DEF Gist
  <2>4. note \in [Notes -> Gist]
    BY <2>2, <2>3
  <2>5. inNb \in [Notebooks -> SUBSET Notes]
    BY <1>1 DEF Libraries
  <2>6. /\ M.note = note /\ M.inNb = inNb
        /\ M.all = L.all /\ M.trash = L.trash /\ M.favs = L.favs /\ M.tagged = L.tagged
        /\ M \in Libraries
    <3> HIDE DEF note, inNb, M
    <3> QED BY <1>1, <2>1, <2>4, <2>5 DEF Libraries
  <2> QED
    BY <2>6
<1>3. /\ \A n \in Notes : L.note[n] \in Gist
      /\ \A n : n \in moved <=> n \in U /\ L.note[n].nb # b
  BY <1>1 DEF Libraries
<1> HIDE DEF M, moved
<1>4. \A n \in Notes :
         /\ M.note[n].st = L.note[n].st /\ M.note[n].tags = L.note[n].tags
         /\ M.note[n].fav = L.note[n].fav /\ M.note[n].trashed = L.note[n].trashed
         /\ M.note[n].nb = IF n \in moved THEN b ELSE L.note[n].nb
  <2> TAKE n \in Notes
  <2>1. CASE n \in moved
    <3>1. M.note[n] = [L.note[n] EXCEPT !.nb = b]
      BY <1>2, <2>1
    <3>2. L.note[n] \in Gist
      BY <1>3
    <3> QED BY <3>1, <3>2, <2>1 DEF Gist
  <2>2. CASE n \notin moved
    BY <1>2, <2>2
  <2> QED BY <2>1, <2>2
<1>5. \A n \in Notes, c \in Notebooks :
         n \in M.inNb[c] <=> IF c = b THEN n \in L.inNb[c] \/ n \in moved
                             ELSE n \in L.inNb[c] /\ ~(n \in moved /\ L.note[n].nb = c)
  <2> TAKE n \in Notes, c \in Notebooks
  <2>1. CASE c = b
    <3>1. M.inNb[c] = L.inNb[c] \cup moved
      BY <1>2, <2>1
    <3> QED BY <2>1, <3>1
  <2>2. CASE c # b
    <3>1. M.inNb[c] = L.inNb[c] \ {i \in moved : L.note[i].nb = c}
      BY <1>2, <2>2
    <3> QED BY <2>2, <3>1
  <2> QED BY <2>1, <2>2
<1>6. ListsView(M) /\ ListsFavourites(M) /\ SameIds(L, M)
  BY <1>2, <1>4 DEF Agree, ListsView, ListsFavourites, SameIds
<1>7. ListsTags(M, S)
  BY <1>2, <1>4 DEF Agree, ListsTags
<1>8. ListsNotebooks(M, S)
  BY <1>3, <1>4, <1>5 DEF Agree, ListsNotebooks
<1>9. NotesFresh(M)
  BY <1>2, <1>3, <1>4, <1>5 DEF Agree, NotesFresh
<1>10. ShelfFresh(M, S)
  <2>1. ASSUME NEW c \in Notebooks, S.nb[c] = "unknown"
        PROVE  M.inNb[c] = {}
    BY <2>1, <1>2 DEF Agree, ShelfFresh
  <2> QED BY <2>1, <1>2, <1>4 DEF Agree, ShelfFresh
<1> QED
  BY <1>2, <1>6, <1>7, <1>8, <1>9, <1>10 DEF Agree, M

\* setTagsOnNote, with tags heard of.
LEMMA TagsAgreeAfter ==
    ASSUME NEW L, NEW S \in Shelves, NEW n \in Notes, NEW T \in SUBSET Tags,
           Agree(L, S), L.note[n].st # "unused",
           \A t \in T : S.tag[t] # "unknown"
    PROVE  /\ Agree(SetTags(L, n, T), S)
           /\ SameIds(L, SetTags(L, n, T))
<1> DEFINE M == SetTags(L, n, T)
           note == [L.note EXCEPT ![n].tags = T]
           tagged == [t \in Tags |-> IF t \in T \ L.note[n].tags THEN L.tagged[t] \cup {n}
                                     ELSE IF t \in L.note[n].tags \ T THEN L.tagged[t] \ {n}
                                     ELSE L.tagged[t]]
<1>1. L \in Libraries /\ \A m \in Notes : L.note[m] \in Gist
  BY DEF Agree, Libraries
<1>2. M = [L EXCEPT !.note = note, !.tagged = tagged]
  BY DEF SetTags
<1>3. note \in [Notes -> Gist] /\ tagged \in [Tags -> SUBSET Notes]
  <2>1. [L.note[n] EXCEPT !.tags = T] \in Gist
    BY <1>1 DEF Gist
  <2> QED BY <1>1, <2>1 DEF Libraries
<1>4. \A m \in Notes :
         /\ note[m].st = L.note[m].st /\ note[m].nb = L.note[m].nb
         /\ note[m].fav = L.note[m].fav /\ note[m].trashed = L.note[m].trashed
         /\ note[m].tags = IF m = n THEN T ELSE L.note[m].tags
  <2>1. note[n] = [L.note[n] EXCEPT !.tags = T]
    BY <1>1 DEF Libraries
  <2>2. \A m \in Notes \ {n} : note[m] = L.note[m]
    BY <1>1 DEF Libraries
  <2>3. note[n].tags = T
    BY <1>1, <2>1 DEF Gist
  <2>4. /\ note[n].st = L.note[n].st /\ note[n].nb = L.note[n].nb
        /\ note[n].fav = L.note[n].fav /\ note[n].trashed = L.note[n].trashed
    BY <1>1, <2>1 DEF Gist
  <2> HIDE DEF note
  <2> QED BY <2>2, <2>3, <2>4
<1>5. \A m \in Notes, t \in Tags :
         /\ m # n => (m \in tagged[t] <=> m \in L.tagged[t])
         /\ t \in T /\ t \notin L.note[n].tags => n \in tagged[t]
         /\ t \notin T /\ t \in L.note[n].tags => n \notin tagged[t]
         /\ (t \in T <=> t \in L.note[n].tags) => tagged[t] = L.tagged[t]
  <2> TAKE m \in Notes, t \in Tags
  <2>1. /\ t \in T /\ t \notin L.note[n].tags => tagged[t] = L.tagged[t] \cup {n}
        /\ t \notin T /\ t \in L.note[n].tags => tagged[t] = L.tagged[t] \ {n}
        /\ (t \in T <=> t \in L.note[n].tags) => tagged[t] = L.tagged[t]
    OBVIOUS
  <2> HIDE DEF tagged
  <2> QED BY <2>1
<1>6. \A t \in Tags : t \notin T /\ t \notin L.note[n].tags => tagged[t] = L.tagged[t]
  OBVIOUS
<1> HIDE DEF M, note, tagged
<1>7. /\ M.note = note /\ M.tagged = tagged
      /\ M.all = L.all /\ M.trash = L.trash /\ M.favs = L.favs /\ M.inNb = L.inNb
      /\ M \in Libraries
  BY <1>1, <1>2, <1>3 DEF Libraries
<1>8. ListsView(M) /\ ListsFavourites(M) /\ SameIds(L, M)
  BY <1>4, <1>7 DEF Agree, ListsView, ListsFavourites, SameIds
<1>9. ListsTags(M, S)
  <2> SUFFICES ASSUME NEW m \in Notes, NEW t \in Tags,
                      M.note[m].st = "live", HereTag(S, t)
               PROVE  /\ m \in M.tagged[t] => t \in M.note[m].tags
                      /\ t \in M.note[m].tags /\ ~M.note[m].trashed => m \in M.tagged[t]
    BY DEF ListsTags
  <2>1. /\ m \in L.tagged[t] => t \in L.note[m].tags
        /\ t \in L.note[m].tags /\ ~L.note[m].trashed => m \in L.tagged[t]
    BY <1>4, <1>7 DEF Agree, ListsTags
  <2> QED BY <1>4, <1>5, <1>7, <2>1
<1>10. ListsNotebooks(M, S)
  BY <1>4, <1>7 DEF Agree, ListsNotebooks
<1>11. NotesFresh(M)
  BY <1>4, <1>5, <1>7 DEF Agree, NotesFresh
<1>12. ShelfFresh(M, S)
  BY <1>4, <1>6, <1>7 DEF Agree, ShelfFresh
<1> QED
  BY <1>7, <1>8, <1>9, <1>10, <1>11, <1>12 DEF Agree, M

\* addTagToNote, for notes that were given out and a tag heard of.
LEMMA AddTagAgrees ==
    ASSUME NEW L, NEW S \in Shelves, NEW U \in SUBSET Notes, NEW t \in Tags,
           Agree(L, S), S.tag[t] # "unknown",
           \A n \in U : L.note[n].st # "unused"
    PROVE  /\ Agree(AddTag(L, U, t), S)
           /\ SameIds(L, AddTag(L, U, t))
<1> DEFINE M == AddTag(L, U, t)
           new == {n \in U : t \notin L.note[n].tags}
           note == [n \in Notes |-> IF n \in new THEN [L.note[n] EXCEPT !.tags = @ \cup {t}]
                                    ELSE L.note[n]]
           tagged == [L.tagged EXCEPT ![t] = @ \cup new]
<1>1. L \in Libraries /\ \A m \in Notes : L.note[m] \in Gist
  BY DEF Agree, Libraries
<1>2. M = [L EXCEPT !.note = note, !.tagged = tagged]
  BY DEF AddTag
<1>3. \A n : n \in new <=> n \in U /\ t \notin L.note[n].tags
  OBVIOUS
<1>4. tagged \in [Tags -> SUBSET Notes]
  BY <1>1 DEF Libraries
<1>5. \A m \in Notes, u \in Tags :
         m \in tagged[u] <=> m \in L.tagged[u] \/ (u = t /\ m \in new)
  BY <1>1 DEF Libraries
<1>6. \A u \in Tags : u # t => tagged[u] = L.tagged[u]
  BY <1>1 DEF Libraries
<1> HIDE DEF M, new, tagged
<1>7. \A m \in Notes :
         /\ note[m] \in Gist
         /\ note[m].st = L.note[m].st /\ note[m].nb = L.note[m].nb
         /\ note[m].fav = L.note[m].fav /\ note[m].trashed = L.note[m].trashed
         /\ note[m].tags = IF m \in new THEN L.note[m].tags \cup {t} ELSE L.note[m].tags
  <2> TAKE m \in Notes
  <2>1. CASE m \in new
    <3>1. note[m] = [L.note[m] EXCEPT !.tags = @ \cup {t}]
      BY <2>1
    <3> QED BY <1>1, <2>1, <3>1 DEF Gist
  <2>2. CASE m \notin new
    BY <1>1, <2>2
  <2> QED BY <2>1, <2>2
<1>8. note \in [Notes -> Gist]
  BY <1>7
<1> HIDE DEF note
<1>9. /\ M.note = note /\ M.tagged = tagged
      /\ M.all = L.all /\ M.trash = L.trash /\ M.favs = L.favs /\ M.inNb = L.inNb
      /\ M \in Libraries
  BY <1>1, <1>2, <1>4, <1>8 DEF Libraries
<1>10. ListsView(M) /\ ListsFavourites(M) /\ SameIds(L, M)
  BY <1>7, <1>9 DEF Agree, ListsView, ListsFavourites, SameIds
<1>11. ListsTags(M, S)
  <2> SUFFICES ASSUME NEW m \in Notes, NEW u \in Tags,
                      M.note[m].st = "live", HereTag(S, u)
               PROVE  /\ m \in M.tagged[u] => u \in M.note[m].tags
                      /\ u \in M.note[m].tags /\ ~M.note[m].trashed => m \in M.tagged[u]
    BY DEF ListsTags
  <2>1. /\ m \in L.tagged[u] => u \in L.note[m].tags
        /\ u \in L.note[m].tags /\ ~L.note[m].trashed => m \in L.tagged[u]
    BY <1>7, <1>9 DEF Agree, ListsTags
  <2>2. u \in M.note[m].tags <=> u \in L.note[m].tags \/ (u = t /\ m \in new)
    BY <1>7, <1>9
  <2> QED BY <1>5, <1>7, <1>9, <2>1, <2>2
<1>12. ListsNotebooks(M, S)
  BY <1>7, <1>9 DEF Agree, ListsNotebooks
<1>13. NotesFresh(M)
  <2> SUFFICES ASSUME NEW m \in Notes, M.note[m].st = "unused"
               PROVE  /\ m \notin M.trash /\ m \notin M.favs
                      /\ \A b \in Notebooks : m \notin M.inNb[b]
                      /\ \A u \in Tags : m \notin M.tagged[u]
    BY DEF NotesFresh
  <2>1. L.note[m].st = "unused" /\ m \notin new
    BY <1>3, <1>7, <1>9
  <2>2. \A u \in Tags : m \notin M.tagged[u]
    BY <1>5, <1>9, <2>1 DEF Agree, NotesFresh
  <2> QED BY <1>9, <2>1, <2>2 DEF Agree, NotesFresh
<1>14. ShelfFresh(M, S)
  <2>1. ASSUME NEW u \in Tags, S.tag[u] = "unknown"
        PROVE  M.tagged[u] = {} /\ \A m \in Notes : u \notin M.note[m].tags
    <3>1. u # t /\ L.tagged[u] = {} /\ \A m \in Notes : u \notin L.note[m].tags
      BY <2>1 DEF Agree, ShelfFresh
    <3>2. \A m \in Notes : m \notin new => M.note[m].tags = L.note[m].tags
      BY <1>7, <1>9
    <3>3. \A m \in Notes : m \in new => M.note[m].tags = L.note[m].tags \cup {t}
      BY <1>7, <1>9
    <3> QED BY <1>6, <1>9, <3>1, <3>2, <3>3
  <2> QED BY <1>9, <2>1 DEF Agree, ShelfFresh
<1> QED
  BY <1>9, <1>10, <1>11, <1>12, <1>13, <1>14 DEF Agree, M

\* setFavouriteNote
LEMMA FavouriteAgrees ==
    ASSUME NEW L, NEW S \in Shelves, NEW n \in Notes, NEW f \in BOOLEAN,
           Agree(L, S), L.note[n].st # "unused"
    PROVE  /\ Agree(SetFavourite(L, n, f), S)
           /\ SameIds(L, SetFavourite(L, n, f))
<1> DEFINE M == SetFavourite(L, n, f)
           note == [L.note EXCEPT ![n].fav = f]
           favs == IF L.note[n].fav = f THEN L.favs
                   ELSE IF f THEN L.favs \cup {n} ELSE L.favs \ {n}
<1>1. L \in Libraries /\ \A m \in Notes : L.note[m] \in Gist
  BY DEF Agree, Libraries
<1>2. M = [L EXCEPT !.note = note, !.favs = favs]
  BY DEF SetFavourite
<1>3. note \in [Notes -> Gist]
  <2>1. [L.note[n] EXCEPT !.fav = f] \in Gist
    BY <1>1 DEF Gist
  <2> QED BY <1>1, <2>1 DEF Libraries
<1>4. favs \in SUBSET Notes
  BY <1>1 DEF Libraries
<1>5. \A m \in Notes :
         /\ note[m].st = L.note[m].st /\ note[m].nb = L.note[m].nb
         /\ note[m].tags = L.note[m].tags /\ note[m].trashed = L.note[m].trashed
         /\ m # n => note[m].fav = L.note[m].fav
  BY <1>1 DEF Libraries, Gist
<1>6. note[n].fav = f
  BY <1>1 DEF Libraries, Gist
<1>7. /\ \A m \in Notes \ {n} : m \in favs <=> m \in L.favs
      /\ L.note[n].fav = f => (n \in favs <=> n \in L.favs)
      /\ L.note[n].fav # f => (n \in favs <=> f)
  OBVIOUS
<1> HIDE DEF M, note, favs
<1>8. /\ M.note = note /\ M.favs = favs
      /\ M.all = L.all /\ M.trash = L.trash /\ M.tagged = L.tagged /\ M.inNb = L.inNb
      /\ M \in Libraries
  BY <1>1, <1>2, <1>3, <1>4 DEF Libraries
<1>9. ListsView(M) /\ SameIds(L, M) /\ ListsTags(M, S) /\ ListsNotebooks(M, S)
  BY <1>5, <1>8 DEF Agree, ListsView, SameIds, ListsTags, ListsNotebooks
<1>10. ListsFavourites(M)
  BY <1>5, <1>6, <1>7, <1>8 DEF Agree, ListsFavourites
<1>11. NotesFresh(M) /\ ShelfFresh(M, S)
  BY <1>5, <1>7, <1>8 DEF Agree, NotesFresh, ShelfFresh
<1> QED
  BY <1>8, <1>9, <1>10, <1>11 DEF Agree, M

\* removeNoteReferences: what is taken out of which list.
LEMMA UnlistedFields ==
    ASSUME NEW L \in Libraries, NEW n \in Notes
    PROVE  LET M == Unlisted(L, n) IN
           /\ M \in Libraries
           /\ M.note = L.note /\ M.trash = L.trash
           /\ M.all = L.all \ {n} /\ M.favs = L.favs \ {n}
           /\ \A b \in Notebooks : M.inNb[b] \in {L.inNb[b], L.inNb[b] \ {n}}
           /\ \A t \in Tags : t \in L.note[n].tags => M.tagged[t] = L.tagged[t] \ {n}
           /\ \A t \in Tags : t \notin L.note[n].tags => M.tagged[t] = L.tagged[t]
<1> DEFINE M == Unlisted(L, n)
           inNb == [b \in Notebooks |->
                       IF b = L.note[n].nb /\ NotebookHere(b) /\ ~L.note[n].trashed
                       THEN L.inNb[b] \ {n} ELSE L.inNb[b]]
           tagged == [t \in Tags |-> IF t \in L.note[n].tags
                                     THEN L.tagged[t] \ {n} ELSE L.tagged[t]]
<1>1. M = [L EXCEPT !.inNb = inNb, !.tagged = tagged, !.all = L.all \ {n},
                    !.favs = L.favs \ {n}]
  BY DEF Unlisted
<1>2. inNb \in [Notebooks -> SUBSET Notes] /\ tagged \in [Tags -> SUBSET Notes]
  BY DEF Libraries
<1>3. \A b \in Notebooks : inNb[b] \in {L.inNb[b], L.inNb[b] \ {n}}
  OBVIOUS
<1>4. /\ \A t \in Tags : t \in L.note[n].tags => tagged[t] = L.tagged[t] \ {n}
      /\ \A t \in Tags : t \notin L.note[n].tags => tagged[t] = L.tagged[t]
  OBVIOUS
<1>5. L.all \ {n} \in SUBSET Notes /\ L.favs \ {n} \in SUBSET Notes
  BY DEF Libraries
<1> HIDE DEF M, inNb, tagged
<1>6. /\ M.note = L.note /\ M.trash = L.trash
      /\ M.all = L.all \ {n} /\ M.favs = L.favs \ {n}
      /\ M.inNb = inNb /\ M.tagged = tagged
      /\ M \in Libraries
  BY <1>1, <1>2, <1>5 DEF Libraries
<1> QED
  BY <1>3, <1>4, <1>6 DEF M

\* moveNoteToTrash
LEMMA TrashAgrees ==
    ASSUME NEW L, NEW S \in Shelves, NEW n \in Notes,
           Agree(L, S), L.note[n].st # "unused"
    PROVE  /\ Agree(MoveToTrash(L, n), S)
           /\ SameIds(L, MoveToTrash(L, n))
<1>1. CASE L.note[n].trashed
  BY <1>1 DEF MoveToTrash, SameIds
<1>2. CASE ~L.note[n].trashed
  <2> DEFINE note == [L.note EXCEPT ![n].trashed = TRUE]
             K == [L EXCEPT !.note = note]
             U == Unlisted(K, n)
             M == [U EXCEPT !.trash = U.trash \cup {n}]
  <2>1. L \in Libraries /\ \A m \in Notes : L.note[m] \in Gist
    BY DEF Agree, Libraries
  <2>2. MoveToTrash(L, n) = M
    BY <1>2 DEF MoveToTrash
  <2>3. note \in [Notes -> Gist]
    <3>1. [L.note[n] EXCEPT !.trashed = TRUE] \in Gist
      BY <2>1 DEF Gist
    <3> QED BY <2>1, <3>1 DEF Libraries
  <2>4. \A m \in Notes :
           /\ note[m].st = L.note[m].st /\ note[m].nb = L.note[m].nb
           /\ note[m].tags = L.note[m].tags /\ note[m].fav = L.note[m].fav
           /\ m # n => note[m].trashed = L.note[m].trashed
    BY <2>1 DEF Libraries, Gist
  <2>5. note[n].trashed = TRUE
    BY <2>1 DEF Libraries, Gist
  <2> HIDE DEF note
  <2>6. /\ K \in Libraries /\ K.note = note
        /\ K.all = L.all /\ K.trash = L.trash /\ K.favs = L.favs
        /\ K.inNb = L.inNb /\ K.tagged = L.tagged
    BY <2>1, <2>3 DEF Libraries
  <2> HIDE DEF K
  <2>7. /\ U \in Libraries
        /\ U.note = K.note /\ U.trash = K.trash
        /\ U.all = K.all \ {n} /\ U.favs = K.favs \ {n}
        /\ \A b \in Notebooks : U.inNb[b] \in {K.inNb[b], K.inNb[b] \ {n}}
        /\ \A t \in Tags : t \in K.note[n].tags => U.tagged[t] = K.tagged[t] \ {n}
        /\ \A t \in Tags : t \notin K.note[n].tags => U.tagged[t] = K.tagged[t]
    BY <2>6, UnlistedFields
  <2> HIDE DEF U
  <2>8. /\ M \in Libraries /\ M.note = note /\ M.trash = L.trash \cup {n}
        /\ M.all = L.all \ {n} /\ M.favs = L.favs \ {n}
        /\ M.inNb = U.inNb /\ M.tagged = U.tagged
    BY <2>6, <2>7 DEF Libraries
  <2>9. /\ \A b \in Notebooks : M.inNb[b] \in {L.inNb[b], L.inNb[b] \ {n}}
        /\ \A t \in Tags : t \in L.note[n].tags => M.tagged[t] = L.tagged[t] \ {n}
        /\ \A t \in Tags : t \notin L.note[n].tags => M.tagged[t] = L.tagged[t]
    BY <2>4, <2>6, <2>7, <2>8
  <2> HIDE DEF M
  <2>10. ListsView(M) /\ ListsFavourites(M) /\ SameIds(L, M)
    BY <2>4, <2>5, <2>8 DEF Agree, ListsView, ListsFavourites, SameIds
  <2>11. ListsNotebooks(M, S)
    BY <2>4, <2>8, <2>9 DEF Agree, ListsNotebooks
  <2>12. ListsTags(M, S)
    <3> SUFFICES ASSUME NEW m \in Notes, NEW t \in Tags,
                        M.note[m].st = "live", HereTag(S, t)
                 PROVE  /\ m \in M.tagged[t] => t \in M.note[m].tags
                        /\ t \in M.note[m].tags /\ ~M.note[m].trashed => m \in M.tagged[t]
      BY DEF ListsTags
    <3>1. /\ m \in L.tagged[t] => t \in L.note[m].tags
          /\ t \in L.note[m].tags /\ ~L.note[m].trashed => m \in L.tagged[t]
      BY <2>4, <2>8 DEF Agree, ListsTags
    <3> QED BY <2>4, <2>5, <2>8, <2>9, <3>1
  <2>13. NotesFresh(M)
    BY <2>4, <2>8, <2>9 DEF Agree, NotesFresh
  <2>14. ShelfFresh(M, S)
    BY <2>4, <2>8, <2>9 DEF Agree, ShelfFresh
  <2> QED
    BY <2>2, <2>8, <2>10, <2>11, <2>12, <2>13, <2>14 DEF Agree
<1> QED
  BY <1>1, <1>2

\* restoreNoteFromTrash
LEMMA RestoreAgrees ==
    ASSUME NEW L, NEW n \in Notes, shelf \in Shelves,
           Agree(L, shelf), L.note[n].st # "unused"
    PROVE  /\ Agree(Restore(L, n), shelf)
           /\ SameIds(L, Restore(L, n))
<1>1. CASE ~L.note[n].trashed
  BY <1>1 DEF Restore, SameIds
<1>2. CASE L.note[n].trashed
  <2> DEFINE nb == IF NotebookHere(L.note[n].nb) THEN L.note[n].nb ELSE shelf.default
             tags == {t \in L.note[n].tags : TagHere(t)}
             gist == [L.note[n] EXCEPT !.trashed = FALSE, !.nb = nb, !.tags = tags]
             note == [L.note EXCEPT ![n] = gist]
             tagged == [t \in Tags |-> IF t \in tags THEN L.tagged[t] \cup {n}
                                       ELSE L.tagged[t]]
             favs == IF L.note[n].fav THEN L.favs \cup {n} ELSE L.favs
             M == Restore(L, n)
  <2>1. L \in Libraries /\ \A m \in Notes : L.note[m] \in Gist
    BY DEF Agree, Libraries
  <2>2. gist \in Gist
    <3>1. nb \in Notebooks \cup {None} /\ tags \in SUBSET Tags
      BY <2>1 DEF Gist, Shelves
    <3> HIDE DEF nb, tags
    <3> QED BY <2>1, <3>1 DEF Gist
  <2>3. /\ gist.st = L.note[n].st /\ gist.fav = L.note[n].fav
        /\ gist.trashed = FALSE /\ gist.nb = nb /\ gist.tags = tags
    <3> HIDE DEF nb, tags
    <3> QED BY <2>1 DEF Gist
  <2>4. M = [L EXCEPT !.note = note, !.tagged = tagged, !.all = L.all \cup {n},
                      !.favs = favs, !.trash = L.trash \ {n}]
    BY <1>2 DEF Restore
  <2>5. /\ note \in [Notes -> Gist] /\ note[n] = gist
        /\ \A m \in Notes \ {n} : note[m] = L.note[m]
    <3> HIDE DEF gist
    <3> QED BY <2>1, <2>2 DEF Libraries
  <2>6. /\ tagged \in [Tags -> SUBSET Notes]
        /\ \A t \in tags : t \in Tags /\ TagHere(t) /\ t \in L.note[n].tags
        /\ \A t \in L.note[n].tags : TagHere(t) => t \in tags
        /\ \A t \in Tags : t \in tags => tagged[t] = L.tagged[t] \cup {n}
        /\ \A t \in Tags : t \notin tags => tagged[t] = L.tagged[t]
    BY <2>1 DEF Libraries, Gist
  <2>7. /\ favs \in SUBSET Notes
        /\ \A m \in Notes \ {n} : m \in favs <=> m \in L.favs
        /\ n \in favs <=> L.note[n].fav \/ n \in L.favs
    BY <2>1 DEF Libraries
  <2>8. /\ NotebookHere(L.note[n].nb) => nb = L.note[n].nb
        /\ \A b \in Notebooks : NotebookHere(b) <=> Here(shelf, b)
        /\ \A t \in Tags : TagHere(t) <=> HereTag(shelf, t)
    BY NoneAssumption DEF NotebookHere, TagHere, Here, HereTag
  <2> HIDE DEF M, note, tagged, favs, gist, nb, tags
  <2>9. /\ M.note = note /\ M.tagged = tagged /\ M.favs = favs
        /\ M.all = L.all \cup {n} /\ M.trash = L.trash \ {n} /\ M.inNb = L.inNb
        /\ M \in Libraries
    <3>1. L.all \cup {n} \in SUBSET Notes /\ L.trash \ {n} \in SUBSET Notes
      BY <2>1 DEF Libraries
    <3> QED BY <2>1, <2>4, <2>5, <2>6, <2>7, <3>1 DEF Libraries
  <2>10. ListsView(M) /\ SameIds(L, M)
    BY <2>3, <2>5, <2>9 DEF Agree, ListsView, SameIds
  <2>11. ListsFavourites(M)
    BY <2>3, <2>5, <2>7, <2>9 DEF Agree, ListsFavourites
  <2>12. ListsNotebooks(M, shelf)
    <3> SUFFICES ASSUME NEW m \in Notes, NEW b \in Notebooks,
                        M.note[m].st = "live", Here(shelf, b), m \in M.inNb[b]
                 PROVE  M.note[m].nb = b
      BY DEF ListsNotebooks
    <3>1. L.note[m].nb = b
      BY <2>3, <2>5, <2>9 DEF Agree, ListsNotebooks
    <3> QED BY <2>3, <2>5, <2>8, <2>9, <3>1
  <2>13. ListsTags(M, shelf)
    <3> SUFFICES ASSUME NEW m \in Notes, NEW t \in Tags,
                        M.note[m].st = "live", HereTag(shelf, t)
                 PROVE  /\ m \in M.tagged[t] => t \in M.note[m].tags
                        /\ t \in M.note[m].tags /\ ~M.note[m].trashed => m \in M.tagged[t]
      BY DEF ListsTags
    <3>1. /\ m \in L.tagged[t] => t \in L.note[m].tags
          /\ t \in L.note[m].tags /\ ~L.note[m].trashed => m \in L.tagged[t]
      BY <2>3, <2>5, <2>9 DEF Agree, ListsTags
    <3>2. CASE m = n
      BY <2>3, <2>5, <2>6, <2>8, <2>9, <3>1, <3>2
    <3>3. CASE m # n
      BY <2>5, <2>6, <2>9, <3>1, <3>3
    <3> QED BY <3>2, <3>3
  <2>14. NotesFresh(M)
    <3> SUFFICES ASSUME NEW m \in Notes, M.note[m].st = "unused"
                 PROVE  /\ m \notin M.trash /\ m \notin M.favs
                        /\ \A b \in Notebooks : m \notin M.inNb[b]
                        /\ \A t \in Tags : m \notin M.tagged[t]
      BY DEF NotesFresh
    <3>1. m # n /\ L.note[m].st = "unused"
      BY <2>3, <2>5, <2>9
    <3>2. \A t \in Tags : m \notin M.tagged[t]
      BY <2>6, <2>9, <3>1 DEF Agree, NotesFresh
    <3> QED BY <2>7, <2>9, <3>1, <3>2 DEF Agree, NotesFresh
  <2>15. ShelfFresh(M, shelf)
    <3>1. ASSUME NEW t \in Tags, shelf.tag[t] = "unknown"
          PROVE  M.tagged[t] = {} /\ \A m \in Notes : t \notin M.note[m].tags
      <4>1. /\ L.tagged[t] = {} /\ \A m \in Notes : t \notin L.note[m].tags
            /\ t \notin tags
        BY <2>6, <3>1 DEF Agree, ShelfFresh
      <4> QED BY <2>3, <2>5, <2>6, <2>9, <4>1
    <3> QED BY <2>9, <3>1 DEF Agree, ShelfFresh
  <2> QED
    BY <2>9, <2>10, <2>11, <2>12, <2>13, <2>14, <2>15 DEF Agree, M
<1> QED
  BY <1>1, <1>2

\* The files of a note go, with or without what is in its lists.
LEMMA RemovedAgrees ==
    ASSUME NEW L, NEW S \in Shelves, NEW n \in Notes,
           Agree(L, S), L.note[n].st # "unused",
           NEW K \in {L, Unlisted(L, n)}
    PROVE  /\ Agree(Removed(K, n), S)
           /\ SameIds(L, Removed(K, n))
<1> DEFINE M == Removed(K, n)
           note == [L.note EXCEPT ![n] = Blank("gone")]
<1>1. L \in Libraries
  BY DEF Agree
<1>2. /\ K \in Libraries /\ K.note = L.note /\ K.trash = L.trash
      /\ \A m \in Notes \ {n} : /\ m \in K.all <=> m \in L.all
                                /\ m \in K.favs <=> m \in L.favs
      /\ \A b \in Notebooks : K.inNb[b] \in {L.inNb[b], L.inNb[b] \ {n}}
      /\ \A t \in Tags : K.tagged[t] \in {L.tagged[t], L.tagged[t] \ {n}}
  <2>1. CASE K = L
    BY <1>1, <2>1
  <2>2. CASE K = Unlisted(L, n)
    <3> DEFINE U == Unlisted(L, n)
    <3>1. /\ U \in Libraries
          /\ U.note = L.note /\ U.trash = L.trash
          /\ U.all = L.all \ {n} /\ U.favs = L.favs \ {n}
          /\ \A b \in Notebooks : U.inNb[b] \in {L.inNb[b], L.inNb[b] \ {n}}
          /\ \A t \in Tags : t \in L.note[n].tags => U.tagged[t] = L.tagged[t] \ {n}
          /\ \A t \in Tags : t \notin L.note[n].tags => U.tagged[t] = L.tagged[t]
      BY <1>1, UnlistedFields
    <3> HIDE DEF U
    <3>2. K = U
      BY <2>2 DEF U
    <3> QED BY <3>1, <3>2
  <2> QED BY <2>1, <2>2
<1>3. M = [K EXCEPT !.note = note, !.trash = L.trash \ {n}]
  BY <1>2 DEF Removed
<1>4. Blank("gone") \in Gist /\ Blank("gone").st = "gone" /\ Blank("gone").tags = {}
      /\ Blank("gone").trashed = FALSE
  BY DEF Blank, Gist
<1>5. /\ note \in [Notes -> Gist] /\ note[n] = Blank("gone")
      /\ \A m \in Notes \ {n} : note[m] = L.note[m]
  BY <1>1, <1>4 DEF Libraries
<1>6. L.trash \ {n} \in SUBSET Notes
  BY <1>1 DEF Libraries
<1> HIDE DEF M, note
<1>7. /\ M.note = note /\ M.trash = L.trash \ {n}
      /\ M.all = K.all /\ M.favs = K.favs /\ M.inNb = K.inNb /\ M.tagged = K.tagged
      /\ M \in Libraries
  BY <1>2, <1>3, <1>5, <1>6 DEF Libraries
<1>8. ListsView(M) /\ ListsFavourites(M) /\ SameIds(L, M)
  BY <1>2, <1>4, <1>5, <1>7 DEF Agree, ListsView, ListsFavourites, SameIds
<1>9. ListsNotebooks(M, S)
  BY <1>2, <1>4, <1>5, <1>7 DEF Agree, ListsNotebooks
<1>10. ListsTags(M, S)
  <2> SUFFICES ASSUME NEW m \in Notes, NEW t \in Tags,
                      M.note[m].st = "live", HereTag(S, t)
               PROVE  /\ m \in M.tagged[t] => t \in M.note[m].tags
                      /\ t \in M.note[m].tags /\ ~M.note[m].trashed => m \in M.tagged[t]
    BY DEF ListsTags
  <2>1. m # n /\ M.note[m] = L.note[m]
    BY <1>4, <1>5, <1>7
  <2>2. /\ m \in L.tagged[t] => t \in L.note[m].tags
        /\ t \in L.note[m].tags /\ ~L.note[m].trashed => m \in L.tagged[t]
    BY <2>1 DEF Agree, ListsTags
  <2>3. m \in M.tagged[t] <=> m \in L.tagged[t]
    BY <1>2, <1>7, <2>1
  <2> QED BY <2>1, <2>2, <2>3
<1>11. NotesFresh(M)
  BY <1>2, <1>4, <1>5, <1>7 DEF Agree, NotesFresh
<1>12. ShelfFresh(M, S)
  BY <1>2, <1>4, <1>5, <1>7 DEF Agree, ShelfFresh
<1> QED
  BY <1>7, <1>8, <1>9, <1>10, <1>11, <1>12 DEF Agree, M

\* createStorageObject
LEMMA CreatedAgrees ==
    ASSUME NEW L, NEW S \in Shelves, NEW n \in Notes, NEW g \in Guids \cup {None},
           Agree(L, S), L.note[n].st = "unused"
    PROVE  LET M == Created(L, n, g) IN
           /\ Agree(M, S)
           /\ M.note[n].st = "live"
           /\ \A m \in Notes \ {n} : M.note[m] = L.note[m]
<1> DEFINE M == Created(L, n, g)
           gist == [Blank("live") EXCEPT !.guid = g]
           note == [L.note EXCEPT ![n] = gist]
<1>1. L \in Libraries
  BY DEF Agree
<1>2. M = [L EXCEPT !.note = note, !.all = L.all \cup {n}]
  BY DEF Created
<1>3. gist \in Gist /\ gist.st = "live" /\ gist.tags = {}
      /\ gist.trashed = FALSE /\ gist.fav = FALSE
  BY DEF Blank, Gist
<1> HIDE DEF gist
<1>4. /\ note \in [Notes -> Gist] /\ note[n] = gist
      /\ \A m \in Notes \ {n} : note[m] = L.note[m]
  BY <1>1, <1>3 DEF Libraries
<1>5. L.all \cup {n} \in SUBSET Notes
  BY <1>1 DEF Libraries
<1> HIDE DEF M, note
<1>6. /\ M.note = note /\ M.all = L.all \cup {n} /\ M.trash = L.trash
      /\ M.favs = L.favs /\ M.inNb = L.inNb /\ M.tagged = L.tagged
      /\ M \in Libraries
  BY <1>1, <1>2, <1>4, <1>5 DEF Libraries
<1>7. /\ n \notin L.trash /\ n \notin L.favs
      /\ \A b \in Notebooks : n \notin L.inNb[b]
      /\ \A t \in Tags : n \notin L.tagged[t]
  BY DEF Agree, NotesFresh
<1>8. ListsView(M) /\ ListsFavourites(M)
  BY <1>3, <1>4, <1>6, <1>7 DEF Agree, ListsView, ListsFavourites
<1>9. ListsNotebooks(M, S) /\ ListsTags(M, S)
  BY <1>3, <1>4, <1>6, <1>7 DEF Agree, ListsNotebooks, ListsTags
<1>10. NotesFresh(M) /\ ShelfFresh(M, S)
  BY <1>3, <1>4, <1>6 DEF Agree, NotesFresh, ShelfFresh
<1> QED
  BY <1>3, <1>4, <1>6, <1>8, <1>9, <1>10 DEF Agree, M

\* setNoteGuid
LEMMA GuidAgrees ==
    ASSUME NEW L, NEW S \in Shelves, NEW n \in Notes, NEW g \in Guids,
           Agree(L, S)
    PROVE  /\ Agree([L EXCEPT !.note[n].guid = g], S)
           /\ SameIds(L, [L EXCEPT !.note[n].guid = g])
<1> DEFINE note == [L.note EXCEPT ![n].guid = g]
           M == [L EXCEPT !.note = note]
<1>1. L \in Libraries /\ \A m \in Notes : L.note[m] \in Gist
  BY DEF Agree, Libraries
<1>2. note \in [Notes -> Gist]
  <2>1. [L.note[n] EXCEPT !.guid = g] \in Gist
    BY <1>1 DEF Gist
  <2> QED BY <1>1, <2>1 DEF Libraries
<1>3. \A m \in Notes :
         /\ note[m].st = L.note[m].st /\ note[m].nb = L.note[m].nb
         /\ note[m].tags = L.note[m].tags /\ note[m].fav = L.note[m].fav
         /\ note[m].trashed = L.note[m].trashed
  BY <1>1 DEF Libraries, Gist
<1> HIDE DEF note
<1>4. /\ M.note = note /\ M.all = L.all /\ M.trash = L.trash
      /\ M.favs = L.favs /\ M.inNb = L.inNb /\ M.tagged = L.tagged
      /\ M \in Libraries
  BY <1>1, <1>2 DEF Libraries
<1> HIDE DEF M
<1>5. ListsView(M) /\ ListsFavourites(M) /\ SameIds(L, M)
  BY <1>3, <1>4 DEF Agree, ListsView, ListsFavourites, SameIds
<1>6. ListsNotebooks(M, S) /\ ListsTags(M, S)
  BY <1>3, <1>4 DEF Agree, ListsNotebooks, ListsTags
<1>7. NotesFresh(M) /\ ShelfFresh(M, S)
  BY <1>3, <1>4 DEF Agree, NotesFresh, ShelfFresh
<1> QED
  BY <1>4, <1>5, <1>6, <1>7 DEF Agree, M, note

\* createNotebook for a note: out of the list of its notebook, into that of
\* the new one, in this order.
LEMMA IntoNewNotebookAgrees ==
    ASSUME NEW L, NEW S \in Shelves, NEW n \in Notes, NEW b \in Notebooks,
           Agree(L, S), L.note[n].st # "unused", S.nb[b] # "unknown"
    PROVE  /\ Agree(PutInNew(L, n, b), S)
           /\ SameIds(L, PutInNew(L, n, b))
<1> DEFINE M == PutInNew(L, n, b)
           note == [L.note EXCEPT ![n].nb = b]
           inNb == [c \in Notebooks |->
                       IF c = L.note[n].nb THEN L.inNb[c] \ {n}
                       ELSE IF c = b THEN L.inNb[c] \cup {n} ELSE L.inNb[c]]
<1>1. L \in Libraries /\ \A m \in Notes : L.note[m] \in Gist
  BY DEF Agree, Libraries
<1>2. M = [L EXCEPT !.note = note, !.inNb = inNb]
  BY DEF PutInNew
<1>3. note \in [Notes -> Gist]
  <2>1. [L.note[n] EXCEPT !.nb = b] \in Gist
    BY <1>1 DEF Gist
  <2> QED BY <1>1, <2>1 DEF Libraries
<1>4. \A m \in Notes :
         /\ note[m].st = L.note[m].st /\ note[m].tags = L.note[m].tags
         /\ note[m].fav = L.note[m].fav /\ note[m].trashed = L.note[m].trashed
         /\ m # n => note[m].nb = L.note[m].nb
  BY <1>1 DEF Libraries, Gist
<1>5. note[n].nb = b
  BY <1>1 DEF Libraries, Gist
<1>6. inNb \in [Notebooks -> SUBSET Notes]
  BY <1>1 DEF Libraries
<1>7. \A c \in Notebooks :
         /\ c = L.note[n].nb => inNb[c] = L.inNb[c] \ {n}
         /\ c # L.note[n].nb /\ c = b => inNb[c] = L.inNb[c] \cup {n}
         /\ c # L.note[n].nb /\ c # b => inNb[c] = L.inNb[c]
  OBVIOUS
<1> HIDE DEF M, note, inNb
<1>8. /\ M.note = note /\ M.inNb = inNb /\ M.all = L.all /\ M.trash = L.trash
      /\ M.favs = L.favs /\ M.tagged = L.tagged
      /\ M \in Libraries
  BY <1>1, <1>2, <1>3, <1>6 DEF Libraries
<1>9. ListsView(M) /\ ListsFavourites(M) /\ SameIds(L, M)
  BY <1>4, <1>8 DEF Agree, ListsView, ListsFavourites, SameIds
<1>10. ListsTags(M, S)
  BY <1>4, <1>8 DEF Agree, ListsTags
<1>11. ListsNotebooks(M, S)
  <2> SUFFICES ASSUME NEW m \in Notes, NEW c \in Notebooks,
                      M.note[m].st = "live", Here(S, c), m \in M.inNb[c]
               PROVE  M.note[m].nb = c
    BY DEF ListsNotebooks
  <2>1. m \in L.inNb[c] => L.note[m].nb = c
    BY <1>4, <1>8 DEF Agree, ListsNotebooks
  <2>2. CASE m = n
    BY <1>5, <1>7, <1>8, <2>1, <2>2
  <2>3. CASE m # n
    BY <1>4, <1>7, <1>8, <2>1, <2>3
  <2> QED BY <2>2, <2>3
<1>12. NotesFresh(M)
  BY <1>4, <1>7, <1>8 DEF Agree, NotesFresh
<1>13. ShelfFresh(M, S)
  BY <1>4, <1>7, <1>8 DEF Agree, ShelfFresh
<1> QED
  BY <1>8, <1>9, <1>10, <1>11, <1>12, <1>13 DEF Agree, M

\* createTag for a note.
LEMMA NewTagAgrees ==
    ASSUME NEW L, NEW S \in Shelves, NEW n \in Notes, NEW t \in Tags,
           Agree(L, S), L.note[n].st # "unused", S.tag[t] # "unknown"
    PROVE  /\ Agree(AddNewTag(L, n, t), S)
           /\ SameIds(L, AddNewTag(L, n, t))
<1> DEFINE M == AddNewTag(L, n, t)
           note == [L.note EXCEPT ![n].tags = @ \cup {t}]
           tagged == [L.tagged EXCEPT ![t] = @ \cup {n}]
<1>1. L \in Libraries /\ \A m \in Notes : L.note[m] \in Gist
  BY DEF Agree, Libraries
<1>2. M = [L EXCEPT !.note = note, !.tagged = tagged]
  BY DEF AddNewTag
<1>3. note \in [Notes -> Gist]
  <2>1. [L.note[n] EXCEPT !.tags = @ \cup {t}] \in Gist
    BY <1>1 DEF Gist
  <2> QED BY <1>1, <2>1 DEF Libraries
<1>4. \A m \in Notes :
         /\ note[m].st = L.note[m].st /\ note[m].nb = L.note[m].nb
         /\ note[m].fav = L.note[m].fav /\ note[m].trashed = L.note[m].trashed
         /\ m # n => note[m].tags = L.note[m].tags
  BY <1>1 DEF Libraries, Gist
<1>5. note[n].tags = L.note[n].tags \cup {t}
  BY <1>1 DEF Libraries, Gist
<1>6. /\ tagged \in [Tags -> SUBSET Notes] /\ tagged[t] = L.tagged[t] \cup {n}
      /\ \A u \in Tags \ {t} : tagged[u] = L.tagged[u]
  BY <1>1 DEF Libraries
<1> HIDE DEF M, note, tagged
<1>7. /\ M.note = note /\ M.tagged = tagged /\ M.all = L.all /\ M.trash = L.trash
      /\ M.favs = L.favs /\ M.inNb = L.inNb
      /\ M \in Libraries
  BY <1>1, <1>2, <1>3, <1>6 DEF Libraries
<1>8. ListsView(M) /\ ListsFavourites(M) /\ SameIds(L, M)
  BY <1>4, <1>7 DEF Agree, ListsView, ListsFavourites, SameIds
<1>9. ListsTags(M, S)
  <2> SUFFICES ASSUME NEW m \in Notes, NEW u \in Tags,
                      M.note[m].st = "live", HereTag(S, u)
               PROVE  /\ m \in M.tagged[u] => u \in M.note[m].tags
                      /\ u \in M.note[m].tags /\ ~M.note[m].trashed => m \in M.tagged[u]
    BY DEF ListsTags
  <2>1. /\ m \in L.tagged[u] => u \in L.note[m].tags
        /\ u \in L.note[m].tags /\ ~L.note[m].trashed => m \in L.tagged[u]
    BY <1>4, <1>7 DEF Agree, ListsTags
  <2>2. CASE m = n
    BY <1>4, <1>5, <1>6, <1>7, <2>1, <2>2
  <2>3. CASE m # n
    BY <1>4, <1>6, <1>7, <2>1, <2>3
  <2> QED BY <2>2, <2>3
<1>10. ListsNotebooks(M, S)
  BY <1>4, <1>7 DEF Agree, ListsNotebooks
<1>11. NotesFresh(M)
  BY <1>4, <1>6, <1>7 DEF Agree, NotesFresh
<1>12. ShelfFresh(M, S)
  <2>1. ASSUME NEW u \in Tags, S.tag[u] = "unknown"
        PROVE  M.tagged[u] = {} /\ \A m \in Notes : u \notin M.note[m].tags
    <3>1. u # t /\ L.tagged[u] = {} /\ \A m \in Notes : u \notin L.note[m].tags
      BY <2>1 DEF Agree, ShelfFresh
    <3> QED BY <1>4, <1>5, <1>6, <1>7, <3>1
  <2> QED BY <1>7, <2>1 DEF Agree, ShelfFresh
<1> QED
  BY <1>7, <1>8, <1>9, <1>10, <1>11, <1>12 DEF Agree, M

\* A notebook's directory goes, with its list.
LEMMA EmptiedAgrees ==
    ASSUME NEW L, NEW S \in Shelves, NEW b \in Notebooks, Agree(L, S)
    PROVE  LET M == [L EXCEPT !.inNb[b] = {}] IN Agree(M, S) /\ SameIds(L, M)
<1> DEFINE inNb == [L.inNb EXCEPT ![b] = {}]
           M == [L EXCEPT !.inNb = inNb]
<1>1. L \in Libraries
  BY DEF Agree
<1>2. /\ inNb \in [Notebooks -> SUBSET Notes] /\ inNb[b] = {}
      /\ \A c \in Notebooks \ {b} : inNb[c] = L.inNb[c]
  BY <1>1 DEF Libraries
<1> HIDE DEF inNb
<1>3. /\ M.inNb = inNb /\ M.note = L.note /\ M.tagged = L.tagged /\ M.all = L.all
      /\ M.trash = L.trash /\ M.favs = L.favs
      /\ M \in Libraries
  BY <1>1, <1>2 DEF Libraries
<1> HIDE DEF M
<1>4. ListsView(M) /\ ListsFavourites(M) /\ SameIds(L, M) /\ ListsTags(M, S)
  BY <1>3 DEF Agree, ListsView, ListsFavourites, SameIds, ListsTags
<1>5. ListsNotebooks(M, S) /\ NotesFresh(M) /\ ShelfFresh(M, S)
  BY <1>2, <1>3 DEF Agree, ListsNotebooks, NotesFresh, ShelfFresh
<1> QED
  BY <1>3, <1>4, <1>5 DEF Agree, M, inNb

\* A tag that is gone is taken off the notes of its list.
LEMMA UntaggedAgrees ==
    ASSUME NEW L, NEW S \in Shelves, NEW t \in Tags,
           Agree(L, S), S.tag[t] = "gone"
    PROVE  /\ Agree(Untagged(L, t), S)
           /\ SameIds(L, Untagged(L, t))
<1> DEFINE M == Untagged(L, t)
           note == [n \in Notes |-> IF n \in L.tagged[t]
                                    THEN [L.note[n] EXCEPT !.tags = @ \ {t}]
                                    ELSE L.note[n]]
           tagged == [L.tagged EXCEPT ![t] = {}]
<1>1. L \in Libraries /\ \A m \in Notes : L.note[m] \in Gist
  BY DEF Agree, Libraries
<1>2. M = [L EXCEPT !.note = note, !.tagged = tagged]
  BY DEF Untagged
<1>3. /\ tagged \in [Tags -> SUBSET Notes] /\ tagged[t] = {}
      /\ \A u \in Tags \ {t} : tagged[u] = L.tagged[u]
  BY <1>1 DEF Libraries
<1>4. \A m \in Notes :
         /\ note[m] \in Gist
         /\ note[m].st = L.note[m].st /\ note[m].nb = L.note[m].nb
         /\ note[m].fav = L.note[m].fav /\ note[m].trashed = L.note[m].trashed
         /\ note[m].tags \in {L.note[m].tags, L.note[m].tags \ {t}}
  <2> TAKE m \in Notes
  <2>1. CASE m \in L.tagged[t]
    <3>1. note[m] = [L.note[m] EXCEPT !.tags = @ \ {t}]
      BY <2>1
    <3> QED BY <1>1, <3>1 DEF Gist
  <2>2. CASE m \notin L.tagged[t]
    BY <1>1, <2>2
  <2> QED BY <2>1, <2>2
<1>5. note \in [Notes -> Gist]
  BY <1>4
<1> HIDE DEF M, note, tagged
<1>6. /\ M.note = note /\ M.tagged = tagged /\ M.all = L.all /\ M.trash = L.trash
      /\ M.favs = L.favs /\ M.inNb = L.inNb
      /\ M \in Libraries
  BY <1>1, <1>2, <1>3, <1>5 DEF Libraries
<1>7. ListsView(M) /\ ListsFavourites(M) /\ SameIds(L, M) /\ ListsNotebooks(M, S)
  BY <1>4, <1>6 DEF Agree, ListsView, ListsFavourites, SameIds, ListsNotebooks
<1>8. ListsTags(M, S)
  <2> SUFFICES ASSUME NEW m \in Notes, NEW u \in Tags,
                      M.note[m].st = "live", HereTag(S, u)
               PROVE  /\ m \in M.tagged[u] => u \in M.note[m].tags
                      /\ u \in M.note[m].tags /\ ~M.note[m].trashed => m \in M.tagged[u]
    BY DEF ListsTags
  <2>1. u # t
    BY DEF HereTag
  <2>2. /\ m \in L.tagged[u] => u \in L.note[m].tags
        /\ u \in L.note[m].tags /\ ~L.note[m].trashed => m \in L.tagged[u]
    BY <1>4, <1>6 DEF Agree, ListsTags
  <2> QED BY <1>3, <1>4, <1>6, <2>1, <2>2
<1>9. NotesFresh(M) /\ ShelfFresh(M, S)
  BY <1>3, <1>4, <1>6 DEF Agree, NotesFresh, ShelfFresh
<1> QED
  BY <1>6, <1>7, <1>8, <1>9 DEF Agree, M

\* Notebooks and tags that are heard of or told to the server, and those that
\* are here and go.
LEMMA ShelfAgrees ==
    ASSUME NEW L, NEW S \in Shelves, NEW R \in Shelves, Agree(L, S),
           \A b \in Notebooks : \/ R.nb[b] = S.nb[b]
                                \/ S.nb[b] # "gone" /\ R.nb[b] # "unknown",
           \A t \in Tags : \/ R.tag[t] = S.tag[t]
                           \/ S.tag[t] # "gone" /\ R.tag[t] # "unknown"
    PROVE  Agree(L, R)
<1>1. \A b \in Notebooks : Here(R, b) => Here(S, b) \/ L.inNb[b] = {}
  BY DEF Agree, ShelfFresh, Here, Shelves, Standing
<1>2. \A t \in Tags : HereTag(R, t) =>
         \/ HereTag(S, t)
         \/ L.tagged[t] = {} /\ \A n \in Notes : t \notin L.note[n].tags
  BY DEF Agree, ShelfFresh, HereTag, Shelves, Standing
<1>3. ListsNotebooks(L, R) /\ ListsTags(L, R)
  BY <1>1, <1>2 DEF Agree, ListsNotebooks, ListsTags
<1>4. ShelfFresh(L, R)
  BY DEF Agree, ShelfFresh
<1> QED
  BY <1>3, <1>4 DEF Agree

-----------------------------------------------------------------------------
(* The actions.                                                            *)

\* The ids that are written down anywhere were given out.
GivenOut ==
    /\ \A g \in Guids : byGuid[g] # None => lib.note[byGuid[g]].st # "unused"
    /\ \A b \in Notebooks : \A n \in waiting.nb[b] : lib.note[n].st # "unused"
    /\ \A t \in Tags : \A n \in waiting.tag[t] : lib.note[n].st # "unused"
    /\ sync.pulling # None => lib.note[sync.pulling].st # "unused"
    /\ sync.pushing # None => lib.note[sync.pushing].st # "unused"

\* What is called the default notebook is, or was, one.
DefaultKnown == shelf.default \in Notebooks /\ shelf.nb[shelf.default] # "unknown"

Inv == TypeOK /\ DefaultKnown /\ Agree(lib, shelf) /\ GivenOut

\* Ids are only ever given out.
OnlyGiven == \A n \in Notes : lib'.note[n].st = "unused" => lib.note[n].st = "unused"

\* What every page operation leaves alone.
LEMMA PagesKeep ==
    ASSUME Inv, shelf' \in Shelves, Agree(lib', shelf'), OnlyGiven, DefaultKnown',
           UNCHANGED <<waiting, sync, srv>>,
           byGuid' \in [Guids -> Notes \cup {None}],
           \A g \in Guids : byGuid'[g] \in {None, byGuid[g]},
           unpushed' \in SUBSET Notes,
           page' \in [note : Notes \cup {None}, trashed : BOOLEAN]
    PROVE  Inv'
<1>1. TypeOK'
  BY DEF Inv, TypeOK, Agree
<1>2. GivenOut'
  <2>1. /\ \A g \in Guids : byGuid'[g] # None => lib'.note[byGuid'[g]].st # "unused"
    BY DEF Inv, TypeOK, GivenOut, OnlyGiven
  <2>2. \A b \in Notebooks : \A n \in waiting'.nb[b] : lib'.note[n].st # "unused"
    BY DEF Inv, TypeOK, GivenOut, OnlyGiven
  <2>3. \A t \in Tags : \A n \in waiting'.tag[t] : lib'.note[n].st # "unused"
    BY DEF Inv, TypeOK, GivenOut, OnlyGiven
  <2>4. /\ sync'.pulling # None => lib'.note[sync'.pulling].st # "unused"
        /\ sync'.pushing # None => lib'.note[sync'.pushing].st # "unused"
    BY DEF Inv, TypeOK, GivenOut, OnlyGiven
  <2> QED BY <2>1, <2>2, <2>3, <2>4 DEF GivenOut
<1> QED
  BY <1>1, <1>2 DEF Inv

LEMMA Flagged ==
    ASSUME Inv, NEW n \in Notes, (\E has \in BOOLEAN : Flag(n, has)) \/ FlagIfChanged(n)
    PROVE  unpushed' \in SUBSET Notes
BY DEF Inv, TypeOK, Flag, FlagIfChanged

LEMMA CreateNoteKeeps ==
    ASSUME Inv, NEW n \in Notes, CreateNote(n)
    PROVE  Inv'
<1> DEFINE K == Created(lib, n, None)
<1>1. /\ shelf \in Shelves /\ Agree(lib, shelf) /\ lib.note[n].st = "unused"
      /\ shelf.default \in Notebooks /\ shelf.nb[shelf.default] # "unknown"
  BY DEF Inv, TypeOK, CreateNote, Shelves, DefaultKnown
<1>2. /\ Agree(K, shelf) /\ K.note[n].st = "live"
      /\ \A m \in Notes \ {n} : K.note[m] = lib.note[m]
  BY <1>1, CreatedAgrees
<1> HIDE DEF K
<1>3. {n} \in SUBSET Notes /\ \A m \in {n} : K.note[m].st # "unused"
  BY <1>2
<1>4. lib' = PutInNotebook(K, {n}, shelf.default)
  BY DEF CreateNote, K
<1>5. Agree(lib', shelf) /\ SameIds(K, lib')
  BY <1>1, <1>2, <1>3, <1>4, PutAgrees
<1>6. OnlyGiven
  BY <1>1, <1>2, <1>5 DEF OnlyGiven, SameIds
<1>7. unpushed' \in SUBSET Notes /\ UNCHANGED <<shelf, byGuid, waiting, sync, srv>>
  BY Flagged DEF CreateNote
<1>8. page' \in [note : Notes \cup {None}, trashed : BOOLEAN]
  BY DEF CreateNote
<1>9. DefaultKnown' /\ byGuid \in [Guids -> Notes \cup {None}]
  BY <1>7 DEF Inv, TypeOK, DefaultKnown
<1> QED
  BY <1>1, <1>5, <1>6, <1>7, <1>8, <1>9, PagesKeep

LEMMA OpenAndCloseKeep ==
    ASSUME Inv, NEW n \in Notes, OpenPage(n) \/ ClosePage
    PROVE  Inv'
<1>1. /\ UNCHANGED <<lib, shelf, byGuid, unpushed, waiting, sync, srv>>
      /\ lib.note[n] \in Gist /\ lib \in Libraries
  BY DEF OpenPage, ClosePage, Inv, TypeOK, Libraries
<1>2. page' \in [note : Notes \cup {None}, trashed : BOOLEAN]
  <2>1. NoPage \in [note : Notes \cup {None}, trashed : BOOLEAN]
    BY DEF NoPage
  <2>2. lib.note[n].trashed \in BOOLEAN
    BY <1>1 DEF Gist
  <2>3. OpenPage(n) => page' \in [note : Notes \cup {None}, trashed : BOOLEAN]
    BY <2>2 DEF OpenPage
  <2> QED BY <2>1, <2>3 DEF ClosePage
<1>3. OnlyGiven /\ DefaultKnown'
  BY <1>1 DEF Inv, OnlyGiven, DefaultKnown
<1>4. /\ shelf' \in Shelves /\ Agree(lib', shelf')
      /\ byGuid' \in [Guids -> Notes \cup {None}] /\ unpushed' \in SUBSET Notes
  BY <1>1 DEF Inv, TypeOK
<1> QED
  BY <1>1, <1>2, <1>3, <1>4, PagesKeep

\* The operations that leave the shelf alone.
LEMMA SameShelfKeeps ==
    ASSUME Inv, NEW n \in Notes, Agree(lib', shelf), SameIds(lib, lib'),
           UNCHANGED <<shelf, byGuid, waiting, sync, srv>>,
           page' \in {page, NoPage}, unpushed' \in SUBSET Notes
    PROVE  Inv'
<1>1. /\ shelf' \in Shelves /\ Agree(lib', shelf')
      /\ byGuid' \in [Guids -> Notes \cup {None}]
      /\ page' \in [note : Notes \cup {None}, trashed : BOOLEAN]
  <2>1. NoPage \in [note : Notes \cup {None}, trashed : BOOLEAN]
    BY DEF NoPage
  <2> QED BY <2>1 DEF Inv, TypeOK
<1>2. OnlyGiven /\ DefaultKnown'
  BY DEF Inv, OnlyGiven, SameIds, DefaultKnown
<1> QED
  BY <1>1, <1>2, PagesKeep

LEMMA PickKeeps ==
    ASSUME Inv, NEW n \in Notes,
           \/ \E b \in Notebooks : PickNotebook(n, b)
           \/ \E T \in SUBSET Tags : PickTags(n, T)
           \/ \E f \in BOOLEAN : MarkFavourite(n, f)
    PROVE  Inv'
<1>1. shelf \in Shelves /\ Agree(lib, shelf)
  BY DEF Inv, TypeOK
<1>2. ASSUME NEW b \in Notebooks, PickNotebook(n, b)
      PROVE  Inv'
  <2>1. \A m \in {n} : lib.note[m].st # "unused"
    BY <1>2 DEF PickNotebook, Shows, Live
  <2>2. Agree(lib', shelf) /\ SameIds(lib, lib')
    BY <1>1, <1>2, <2>1, PutAgrees DEF PickNotebook
  <2> QED BY <1>2, <2>2, Flagged, SameShelfKeeps DEF PickNotebook
<1>3. ASSUME NEW T \in SUBSET Tags, PickTags(n, T)
      PROVE  Inv'
  <2>1. lib.note[n].st # "unused"
    BY <1>3 DEF PickTags, Shows, Live
  <2>2. Agree(lib', shelf) /\ SameIds(lib, lib')
    BY <1>1, <1>3, <2>1, TagsAgreeAfter DEF PickTags
  <2> QED BY <1>3, <2>2, Flagged, SameShelfKeeps DEF PickTags
<1>4. ASSUME NEW f \in BOOLEAN, MarkFavourite(n, f)
      PROVE  Inv'
  <2>1. lib.note[n].st # "unused"
    BY <1>4 DEF MarkFavourite, Shows, Live
  <2>2. Agree(lib', shelf) /\ SameIds(lib, lib')
    BY <1>1, <1>4, <2>1, FavouriteAgrees DEF MarkFavourite
  <2> QED BY <1>4, <2>2, Flagged, SameShelfKeeps DEF MarkFavourite
<1> QED
  BY <1>2, <1>3, <1>4

LEMMA TrashKeeps ==
    ASSUME Inv, NEW n \in Notes,
           TrashNote(n) \/ RestoreNote(n) \/ ExpungeFromTrash(n)
    PROVE  Inv'
<1>1. /\ shelf \in Shelves /\ Agree(lib, shelf) /\ lib.note[n].st # "unused"
      /\ unpushed \in SUBSET Notes
  BY DEF Inv, TypeOK, TrashNote, RestoreNote, ExpungeFromTrash, Shows, Live
<1>2. CASE TrashNote(n)
  <2>1. Agree(lib', shelf) /\ SameIds(lib, lib')
    BY <1>1, <1>2, TrashAgrees DEF TrashNote
  <2>2. unpushed' \in SUBSET Notes
    BY <1>1, <1>2 DEF TrashNote, Flag
  <2> QED BY <1>2, <2>1, <2>2, SameShelfKeeps DEF TrashNote
<1>3. CASE RestoreNote(n)
  <2>1. Agree(lib', shelf) /\ SameIds(lib, lib')
    BY <1>1, <1>3, RestoreAgrees DEF RestoreNote
  <2> QED BY <1>3, <2>1, Flagged, SameShelfKeeps DEF RestoreNote
<1>4. CASE ExpungeFromTrash(n)
  <2>1. Agree(lib', shelf) /\ SameIds(lib, lib')
    BY <1>1, <1>4, RemovedAgrees DEF ExpungeFromTrash
  <2>2. /\ byGuid' \in [Guids -> Notes \cup {None}]
        /\ \A g \in Guids : byGuid'[g] \in {None, byGuid[g]}
    BY <1>4 DEF ExpungeFromTrash, RemoveGuidMapping, Inv, TypeOK
  <2>3. page' \in [note : Notes \cup {None}, trashed : BOOLEAN]
    BY <1>4 DEF ExpungeFromTrash, NoPage
  <2>4. unpushed' \in SUBSET Notes /\ UNCHANGED <<shelf, waiting, sync, srv>>
    BY <1>1, <1>4 DEF ExpungeFromTrash, Flag
  <2>5. OnlyGiven /\ DefaultKnown'
    BY <2>1, <2>4 DEF OnlyGiven, SameIds, Inv, DefaultKnown
  <2> QED BY <1>1, <2>1, <2>2, <2>3, <2>4, <2>5, PagesKeep
<1> QED
  BY <1>2, <1>3, <1>4

LEMMA MakeNotebookKeeps ==
    ASSUME Inv, NEW n \in Notes, NEW b \in Notebooks, MakeNotebook(n, b)
    PROVE  Inv'
<1>1. /\ shelf \in Shelves /\ Agree(lib, shelf) /\ lib.note[n].st # "unused"
      /\ unpushed \in SUBSET Notes
  BY DEF Inv, TypeOK, MakeNotebook, Shows, Live
<1> DEFINE nb == [shelf.nb EXCEPT ![b] = IF @ = "unknown" THEN "local" ELSE @]
           default == IF b = FirstNotebook /\ shelf.nb[b] # "gone" THEN b
                      ELSE shelf.default
<1>2. /\ nb \in [Notebooks -> Standing] /\ nb[b] # "unknown"
      /\ shelf.nb[b] # "unknown" => nb[b] = shelf.nb[b]
      /\ shelf.nb[b] # "gone" => nb[b] \in {"local", "synced"}
      /\ \A c \in Notebooks \ {b} : nb[c] = shelf.nb[c]
  BY <1>1 DEF Shelves, Standing
<1>3. default \in Notebooks /\ (default = shelf.default \/ (default = b /\ shelf.nb[b] # "gone"))
  BY <1>1 DEF Shelves
<1>4. shelf' = [shelf EXCEPT !.nb = nb, !.default = default]
  BY DEF MakeNotebook
<1> HIDE DEF nb, default
<1>5. /\ shelf' \in Shelves /\ shelf'.nb = nb /\ shelf'.default = default
      /\ shelf'.tag = shelf.tag
  BY <1>1, <1>2, <1>3, <1>4 DEF Shelves
<1>6. Agree(lib, shelf')
  <2>1. \A c \in Notebooks : \/ shelf'.nb[c] = shelf.nb[c]
                             \/ shelf.nb[c] # "gone" /\ shelf'.nb[c] # "unknown"
    BY <1>1, <1>2, <1>5
  <2>2. \A t \in Tags : \/ shelf'.tag[t] = shelf.tag[t]
                        \/ shelf.tag[t] # "gone" /\ shelf'.tag[t] # "unknown"
    BY <1>5
  <2> QED BY <1>1, <1>5, <2>1, <2>2, ShelfAgrees
<1>7. Agree(lib', shelf') /\ SameIds(lib, lib')
  <2>1. shelf'.nb[b] # "unknown"
    BY <1>2, <1>5
  <2>2. lib' = PutInNew(lib, n, b)
    BY DEF MakeNotebook
  <2> QED BY <1>1, <1>5, <1>6, <2>1, <2>2, IntoNewNotebookAgrees
<1>8. DefaultKnown'
  BY <1>2, <1>3, <1>5, NoneAssumption DEF DefaultKnown, Inv
<1>9. /\ UNCHANGED <<waiting, sync, srv, byGuid, page>>
      /\ unpushed' \in SUBSET Notes
  BY <1>1 DEF MakeNotebook, Flag
<1>10. OnlyGiven /\ byGuid' \in [Guids -> Notes \cup {None}]
       /\ page' \in [note : Notes \cup {None}, trashed : BOOLEAN]
  BY <1>7, <1>9 DEF OnlyGiven, SameIds, Inv, TypeOK
<1> QED
  BY <1>5, <1>7, <1>8, <1>9, <1>10, PagesKeep

LEMMA MakeTagKeeps ==
    ASSUME Inv, NEW n \in Notes, NEW t \in Tags, MakeTag(n, t)
    PROVE  Inv'
<1>1. /\ shelf \in Shelves /\ Agree(lib, shelf) /\ lib.note[n].st # "unused"
      /\ unpushed \in SUBSET Notes
  BY DEF Inv, TypeOK, MakeTag, Shows, Live
<1> DEFINE tag == [shelf.tag EXCEPT ![t] = IF @ = "unknown" THEN "local" ELSE @]
<1>2. /\ tag \in [Tags -> Standing] /\ tag[t] # "unknown"
      /\ shelf.tag[t] # "unknown" => tag[t] = shelf.tag[t]
      /\ \A u \in Tags \ {t} : tag[u] = shelf.tag[u]
  BY <1>1 DEF Shelves, Standing
<1>3. shelf' = [shelf EXCEPT !.tag = tag]
  BY DEF MakeTag
<1> HIDE DEF tag
<1>4. /\ shelf' \in Shelves /\ shelf'.tag = tag /\ shelf'.default = shelf.default
      /\ shelf'.nb = shelf.nb
  BY <1>1, <1>2, <1>3 DEF Shelves
<1>5. Agree(lib, shelf')
  <2>1. \A u \in Tags : \/ shelf'.tag[u] = shelf.tag[u]
                        \/ shelf.tag[u] # "gone" /\ shelf'.tag[u] # "unknown"
    BY <1>1, <1>2, <1>4
  <2> QED BY <1>1, <1>4, <2>1, ShelfAgrees
<1>6. Agree(lib', shelf') /\ SameIds(lib, lib')
  <2>1. shelf'.tag[t] # "unknown"
    BY <1>2, <1>4
  <2>2. lib' = AddNewTag(lib, n, t)
    BY DEF MakeTag
  <2> QED BY <1>1, <1>4, <1>5, <2>1, <2>2, NewTagAgrees
<1>7. DefaultKnown'
  BY <1>4 DEF DefaultKnown, Inv
<1>8. /\ UNCHANGED <<waiting, sync, srv, byGuid, page>>
      /\ unpushed' \in SUBSET Notes
  BY <1>1 DEF MakeTag, Flag
<1>9. OnlyGiven /\ byGuid' \in [Guids -> Notes \cup {None}]
      /\ page' \in [note : Notes \cup {None}, trashed : BOOLEAN]
  BY <1>6, <1>8 DEF OnlyGiven, SameIds, Inv, TypeOK
<1> QED
  BY <1>4, <1>6, <1>7, <1>8, <1>9, PagesKeep

\* What every step keeps that leaves waiting, page and srv alone, and the ids
\* where they are or takes them away.
LEMMA SyncKeeps ==
    ASSUME Inv, shelf' \in Shelves, Agree(lib', shelf'), OnlyGiven, DefaultKnown',
           page' = page,
           waiting' \in [nb : [Notebooks -> SUBSET Notes], tag : [Tags -> SUBSET Notes]],
           \A b \in Notebooks : \A n \in waiting'.nb[b] :
               n \in waiting.nb[b] \/ lib'.note[n].st # "unused",
           \A t \in Tags : \A n \in waiting'.tag[t] :
               n \in waiting.tag[t] \/ lib'.note[n].st # "unused",
           byGuid' \in [Guids -> Notes \cup {None}],
           \A g \in Guids : byGuid'[g] \in {None, byGuid[g]}
                            \/ lib'.note[byGuid'[g]].st # "unused",
           unpushed' \in SUBSET Notes,
           sync' \in [pulling : Notes \cup {None}, left : SUBSET Notes,
                      pushing : Notes \cup {None}],
           \/ sync'.pulling \in {None, sync.pulling}
           \/ lib'.note[sync'.pulling].st # "unused",
           \/ sync'.pushing \in {None, sync.pushing}
           \/ lib'.note[sync'.pushing].st # "unused",
           srv' \in [Guids -> {"free", "given", "expunged"}]
    PROVE  Inv'
<1>1. TypeOK'
  BY DEF Inv, TypeOK, Agree
<1>2. GivenOut'
  <2>1. \A g \in Guids : byGuid'[g] # None => lib'.note[byGuid'[g]].st # "unused"
    BY DEF Inv, TypeOK, GivenOut, OnlyGiven
  <2>2. \A b \in Notebooks : \A n \in waiting'.nb[b] : lib'.note[n].st # "unused"
    BY DEF Inv, TypeOK, GivenOut, OnlyGiven
  <2>3. \A t \in Tags : \A n \in waiting'.tag[t] : lib'.note[n].st # "unused"
    BY DEF Inv, TypeOK, GivenOut, OnlyGiven
  <2>4. sync'.pulling # None => lib'.note[sync'.pulling].st # "unused"
    BY DEF Inv, TypeOK, GivenOut, OnlyGiven
  <2>5. sync'.pushing # None => lib'.note[sync'.pushing].st # "unused"
    BY DEF Inv, TypeOK, GivenOut, OnlyGiven
  <2> QED BY <2>1, <2>2, <2>3, <2>4, <2>5 DEF GivenOut
<1> QED
  BY <1>1, <1>2 DEF Inv

\* The types of the invariant, one variable at a time.
LEMMA Types ==
    ASSUME Inv
    PROVE  /\ lib \in Libraries /\ shelf \in Shelves /\ Agree(lib, shelf)
           /\ waiting \in [nb : [Notebooks -> SUBSET Notes], tag : [Tags -> SUBSET Notes]]
           /\ byGuid \in [Guids -> Notes \cup {None}]
           /\ unpushed \in SUBSET Notes
           /\ sync \in [pulling : Notes \cup {None}, left : SUBSET Notes,
                        pushing : Notes \cup {None}]
           /\ srv \in [Guids -> {"free", "given", "expunged"}]
BY DEF Inv, TypeOK

LEMMA PullNotebookKeeps ==
    ASSUME Inv, NEW b \in Notebooks, NEW isDefault \in BOOLEAN, PullNotebook(b, isDefault)
    PROVE  Inv'
<1> DEFINE nb == [shelf.nb EXCEPT ![b] = "synced"]
           default == IF isDefault THEN b ELSE shelf.default
           left == [waiting.nb EXCEPT ![b] = {}]
<1>1. /\ nb \in [Notebooks -> Standing] /\ nb[b] = "synced"
      /\ \A c \in Notebooks \ {b} : nb[c] = shelf.nb[c]
  BY Types DEF Shelves, Standing
<1>2. default \in Notebooks /\ default \in {b, shelf.default}
  BY Types DEF Shelves
<1>3. left \in [Notebooks -> SUBSET Notes] /\ \A c \in Notebooks : left[c] \subseteq waiting.nb[c]
  BY Types
<1>4. /\ shelf' = [shelf EXCEPT !.nb = nb, !.default = default]
      /\ waiting' = [waiting EXCEPT !.nb = left]
      /\ shelf.nb[b] # "gone"
      /\ lib' = PutInNotebook(lib, waiting.nb[b], b)
      /\ UNCHANGED <<byGuid, unpushed, page, sync, srv>>
  BY DEF PullNotebook, TakenAway
<1> HIDE DEF nb, default, left
<1>5. /\ shelf' \in Shelves /\ shelf'.nb = nb /\ shelf'.default = default
      /\ shelf'.tag = shelf.tag
  BY <1>1, <1>2, <1>4, Types DEF Shelves
<1>6. Agree(lib, shelf')
  <2>1. \A c \in Notebooks : \/ shelf'.nb[c] = shelf.nb[c]
                             \/ shelf.nb[c] # "gone" /\ shelf'.nb[c] # "unknown"
    BY <1>1, <1>4, <1>5
  <2>2. \A t \in Tags : \/ shelf'.tag[t] = shelf.tag[t]
                        \/ shelf.tag[t] # "gone" /\ shelf'.tag[t] # "unknown"
    BY <1>5
  <2> QED BY <1>5, <2>1, <2>2, Types, ShelfAgrees
<1>7. Agree(lib', shelf') /\ SameIds(lib, lib')
  <2>1. shelf'.nb[b] # "unknown"
    BY <1>1, <1>5
  <2>2. /\ waiting.nb[b] \in SUBSET Notes
        /\ \A n \in waiting.nb[b] : lib.note[n].st # "unused"
    BY Types DEF Inv, GivenOut
  <2> QED BY <1>4, <1>5, <1>6, <2>1, <2>2, PutAgrees
<1>8. DefaultKnown'
  BY <1>1, <1>2, <1>5, NoneAssumption DEF DefaultKnown, Inv
<1>9. /\ waiting' \in [nb : [Notebooks -> SUBSET Notes], tag : [Tags -> SUBSET Notes]]
      /\ waiting'.nb = left /\ waiting'.tag = waiting.tag
  BY <1>3, <1>4, Types
<1>10. OnlyGiven
  BY <1>7 DEF OnlyGiven, SameIds
<1> QED
  BY <1>3, <1>4, <1>5, <1>7, <1>8, <1>9, <1>10, Types, SyncKeeps

LEMMA PullTagKeeps ==
    ASSUME Inv, NEW t \in Tags, PullTag(t)
    PROVE  Inv'
<1> DEFINE tag == [shelf.tag EXCEPT ![t] = "synced"]
           left == [waiting.tag EXCEPT ![t] = {}]
<1>1. /\ tag \in [Tags -> Standing] /\ tag[t] = "synced"
      /\ \A u \in Tags \ {t} : tag[u] = shelf.tag[u]
  BY Types DEF Shelves, Standing
<1>2. left \in [Tags -> SUBSET Notes] /\ \A u \in Tags : left[u] \subseteq waiting.tag[u]
  BY Types
<1>3. /\ shelf' = [shelf EXCEPT !.tag = tag]
      /\ waiting' = [waiting EXCEPT !.tag = left]
      /\ shelf.tag[t] # "gone"
      /\ lib' = AddTag(lib, waiting.tag[t], t)
      /\ UNCHANGED <<byGuid, unpushed, page, sync, srv>>
  BY DEF PullTag
<1> HIDE DEF tag, left
<1>4. /\ shelf' \in Shelves /\ shelf'.tag = tag /\ shelf'.default = shelf.default
      /\ shelf'.nb = shelf.nb
  BY <1>1, <1>3, Types DEF Shelves
<1>5. Agree(lib, shelf')
  <2>1. \A u \in Tags : \/ shelf'.tag[u] = shelf.tag[u]
                        \/ shelf.tag[u] # "gone" /\ shelf'.tag[u] # "unknown"
    BY <1>1, <1>3, <1>4
  <2> QED BY <1>4, <2>1, Types, ShelfAgrees
<1>6. Agree(lib', shelf') /\ SameIds(lib, lib')
  <2>1. shelf'.tag[t] # "unknown"
    BY <1>1, <1>4
  <2>2. /\ waiting.tag[t] \in SUBSET Notes
        /\ \A n \in waiting.tag[t] : lib.note[n].st # "unused"
    BY Types DEF Inv, GivenOut
  <2> QED BY <1>3, <1>4, <1>5, <2>1, <2>2, AddTagAgrees
<1>7. DefaultKnown'
  BY <1>4 DEF DefaultKnown, Inv
<1>8. /\ waiting' \in [nb : [Notebooks -> SUBSET Notes], tag : [Tags -> SUBSET Notes]]
      /\ waiting'.tag = left /\ waiting'.nb = waiting.nb
  BY <1>2, <1>3, Types
<1>9. OnlyGiven
  BY <1>6 DEF OnlyGiven, SameIds
<1> QED
  BY <1>2, <1>3, <1>4, <1>6, <1>7, <1>8, <1>9, Types, SyncKeeps

LEMMA PullGistKeeps ==
    ASSUME Inv, NEW g \in Guids, PullGist(g)
    PROVE  Inv'
<1>1. /\ srv' \in [Guids -> {"free", "given", "expunged"}]
      /\ UNCHANGED <<shelf, unpushed, waiting, page>>
  BY Types DEF PullGist
<1>2. DefaultKnown'
  BY <1>1 DEF DefaultKnown, Inv
<1>3. ASSUME NEW n \in Notes, lib.note[n].st = "unused", lib' = Created(lib, n, g),
             byGuid' = [byGuid EXCEPT ![g] = n], sync' = [sync EXCEPT !.pulling = n]
      PROVE  Inv'
  <2>1. /\ Agree(lib', shelf) /\ lib'.note[n].st = "live"
        /\ \A m \in Notes \ {n} : lib'.note[m] = lib.note[m]
    <3> DEFINE K == Created(lib, n, g)
    <3>1. /\ Agree(K, shelf) /\ K.note[n].st = "live"
          /\ \A m \in Notes \ {n} : K.note[m] = lib.note[m]
      BY <1>3, Types, CreatedAgrees
    <3> HIDE DEF K
    <3>2. lib' = K
      BY <1>3 DEF K
    <3> QED BY <3>1, <3>2
  <2>2. OnlyGiven
    BY <2>1 DEF OnlyGiven
  <2>3. /\ byGuid' \in [Guids -> Notes \cup {None}] /\ byGuid'[g] = n
        /\ \A h \in Guids \ {g} : byGuid'[h] = byGuid[h]
    BY <1>3, Types
  <2>4. /\ sync' \in [pulling : Notes \cup {None}, left : SUBSET Notes,
                      pushing : Notes \cup {None}]
        /\ sync'.pulling = n /\ sync'.pushing = sync.pushing
    BY <1>3, Types
  <2> QED BY <1>1, <1>2, <2>1, <2>2, <2>3, <2>4, Types, SyncKeeps
<1>4. ASSUME byGuid[g] # None, lib' = [lib EXCEPT !.note[byGuid[g]].guid = g],
             sync' = [sync EXCEPT !.pulling = byGuid[g]], byGuid' = byGuid
      PROVE  Inv'
  <2>1. byGuid[g] \in Notes /\ lib.note[byGuid[g]].st # "unused"
    BY <1>4, Types DEF Inv, GivenOut
  <2>2. Agree(lib', shelf) /\ SameIds(lib, lib')
    BY <1>4, <2>1, Types, GuidAgrees
  <2>3. OnlyGiven
    BY <2>2 DEF OnlyGiven, SameIds
  <2>4. /\ sync' \in [pulling : Notes \cup {None}, left : SUBSET Notes,
                      pushing : Notes \cup {None}]
        /\ sync'.pulling = byGuid[g] /\ sync'.pushing = sync.pushing
    BY <1>4, <2>1, Types
  <2>5. lib'.note[sync'.pulling].st # "unused"
    BY <2>1, <2>2, <2>4 DEF SameIds
  <2> QED BY <1>1, <1>2, <1>4, <2>2, <2>3, <2>4, <2>5, Types, SyncKeeps
<1> QED
  BY <1>3, <1>4 DEF PullGist

LEMMA PlaceAgrees ==
    ASSUME Inv, NEW n \in Notes, NEW b \in Notebooks, NEW T \in SUBSET Tags,
           NEW active \in BOOLEAN, lib.note[n].st # "unused", Place(n, b, T, active)
    PROVE  Agree(lib', shelf) /\ SameIds(lib, lib')
<1> DEFINE known == {t \in T : shelf.tag[t] = "synced"}
           put == IF shelf.nb[b] = "synced" THEN PutInNotebook(lib, {n}, b) ELSE lib
           put2 == SetTags(put, n, known)
<1>1. Agree(put, shelf) /\ SameIds(lib, put)
  <2>1. CASE shelf.nb[b] = "synced"
    BY <2>1, Types, PutAgrees
  <2>2. CASE shelf.nb[b] # "synced"
    BY <2>2, Types DEF SameIds
  <2> QED BY <2>1, <2>2
<1>2. known \in SUBSET Tags /\ \A t \in known : shelf.tag[t] # "unknown"
  OBVIOUS
<1>3. lib' = IF active THEN Restore(put2, n) ELSE MoveToTrash(put2, n)
  BY DEF Place
<1> HIDE DEF known, put
<1>4. put.note[n].st # "unused"
  BY <1>1 DEF SameIds
<1>5. Agree(put2, shelf) /\ SameIds(put, put2)
  BY <1>1, <1>2, <1>4, Types, TagsAgreeAfter
<1> HIDE DEF put2
<1>6. put2.note[n].st # "unused"
  BY <1>4, <1>5 DEF SameIds
<1>7. CASE active
  <2>1. lib' = Restore(put2, n)
    BY <1>3, <1>7
  <2>2. Agree(lib', shelf) /\ SameIds(put2, lib')
    BY <1>5, <1>6, <2>1, Types, RestoreAgrees
  <2> QED BY <1>1, <1>5, <2>2 DEF SameIds
<1>8. CASE ~active
  <2>1. lib' = MoveToTrash(put2, n)
    BY <1>3, <1>8
  <2>2. Agree(lib', shelf) /\ SameIds(put2, lib')
    BY <1>5, <1>6, <2>1, Types, TrashAgrees
  <2> QED BY <1>1, <1>5, <2>2 DEF SameIds
<1> QED
  BY <1>7, <1>8

LEMMA PullPlaceKeeps ==
    ASSUME Inv, PullPlace
    PROVE  Inv'
<1>1. /\ sync.pulling \in Notes /\ lib.note[sync.pulling].st # "unused"
      /\ UNCHANGED <<shelf, byGuid, unpushed, page, srv>>
  BY Types DEF PullPlace, Inv, GivenOut
<1>2. /\ sync' \in [pulling : Notes \cup {None}, left : SUBSET Notes,
                    pushing : Notes \cup {None}]
      /\ sync'.pulling = None /\ sync'.pushing = sync.pushing
  BY Types DEF PullPlace
<1>3. DefaultKnown'
  BY <1>1 DEF DefaultKnown, Inv
<1>4. ASSUME UNCHANGED <<lib, waiting>>
      PROVE  Inv'
  <2>1. Agree(lib', shelf') /\ OnlyGiven
    BY <1>1, <1>4, Types DEF OnlyGiven
  <2> QED BY <1>1, <1>2, <1>3, <1>4, <2>1, Types, SyncKeeps
<1>5. ASSUME NEW b \in Notebooks, NEW T \in SUBSET Tags, NEW active \in BOOLEAN,
             Place(sync.pulling, b, T, active)
      PROVE  Inv'
  <2> DEFINE n == sync.pulling
             nb == IF shelf.nb[b] = "synced" THEN waiting.nb
                   ELSE [waiting.nb EXCEPT ![b] = @ \cup {n}]
             known == {t \in T : shelf.tag[t] = "synced"}
             tag == [t \in Tags |-> IF t \in T \ known THEN waiting.tag[t] \cup {n}
                                    ELSE waiting.tag[t]]
  <2>1. Agree(lib', shelf') /\ SameIds(lib, lib')
    BY <1>1, <1>5, PlaceAgrees
  <2>2. OnlyGiven /\ lib'.note[n].st # "unused"
    BY <1>1, <2>1 DEF OnlyGiven, SameIds
  <2>3. waiting' = [nb |-> nb, tag |-> tag]
    BY <1>5 DEF Place
  <2>4. /\ nb \in [Notebooks -> SUBSET Notes]
        /\ \A c \in Notebooks : \A m \in nb[c] : m \in waiting.nb[c] \/ m = n
    BY <1>1, Types
  <2>5. /\ tag \in [Tags -> SUBSET Notes]
        /\ \A t \in Tags : \A m \in tag[t] : m \in waiting.tag[t] \/ m = n
    <3>1. \A t \in Tags : tag[t] \in {waiting.tag[t], waiting.tag[t] \cup {n}}
      OBVIOUS
    <3>2. \A t \in Tags : tag[t] \in SUBSET Notes
      BY <1>1, <3>1, Types
    <3>3. tag = [t \in Tags |-> tag[t]]
      OBVIOUS
    <3> HIDE DEF tag
    <3> QED BY <3>1, <3>2, <3>3
  <2> HIDE DEF nb, tag
  <2>6. /\ waiting' \in [nb : [Notebooks -> SUBSET Notes], tag : [Tags -> SUBSET Notes]]
        /\ waiting'.nb = nb /\ waiting'.tag = tag
    BY <2>3, <2>4, <2>5
  <2>7. /\ \A c \in Notebooks : \A m \in waiting'.nb[c] :
               m \in waiting.nb[c] \/ lib'.note[m].st # "unused"
        /\ \A t \in Tags : \A m \in waiting'.tag[t] :
               m \in waiting.tag[t] \/ lib'.note[m].st # "unused"
    BY <2>2, <2>4, <2>5, <2>6
  <2> QED BY <1>1, <1>2, <1>3, <2>1, <2>2, <2>6, <2>7, Types, SyncKeeps
<1> QED
  BY <1>4, <1>5 DEF PullPlace

LEMMA ExpungeNoteKeeps ==
    ASSUME Inv, NEW g \in Guids, ExpungeNote(g)
    PROVE  Inv'
<1> DEFINE n == byGuid[g]
<1>1. n \in Notes /\ lib.note[n].st # "unused"
  BY Types DEF ExpungeNote, Inv, GivenOut
<1>2. /\ lib' = Removed(Unlisted(lib, n), n)
      /\ UNCHANGED <<shelf, waiting, page, sync>>
  BY DEF ExpungeNote
<1>3. /\ byGuid' \in [Guids -> Notes \cup {None}]
      /\ \A h \in Guids : byGuid'[h] \in {None, byGuid[h]}
  BY Types DEF ExpungeNote, RemoveGuidMapping
<1>4. unpushed' \in SUBSET Notes /\ srv' \in [Guids -> {"free", "given", "expunged"}]
  BY Types DEF ExpungeNote, Flag
<1> HIDE DEF n
<1>5. Agree(lib', shelf') /\ SameIds(lib, lib')
  BY <1>1, <1>2, Types, RemovedAgrees
<1>6. OnlyGiven /\ DefaultKnown'
  BY <1>2, <1>5 DEF OnlyGiven, SameIds, DefaultKnown, Inv
<1> QED
  BY <1>2, <1>3, <1>4, <1>5, <1>6, Types, SyncKeeps

\* What expungeNotebook does when it goes on: the notebook is gone, with its list,
\* and if another is the default one its notes are put into that before.
LEMMA NotebookGoes ==
    ASSUME Inv, NEW b \in Notebooks, NEW K,
           \/ K = lib
           \/ K = PutInNotebook(lib, lib.inNb[b], shelf.default),
           shelf.nb[b] = "synced",
           lib' = [K EXCEPT !.inNb[b] = {}],
           shelf' = [shelf EXCEPT !.nb[b] = "gone"],
           UNCHANGED <<byGuid, unpushed, waiting, page, sync, srv>>
    PROVE  Inv'
<1> DEFINE nb == [shelf.nb EXCEPT ![b] = "gone"]
<1>2. /\ nb \in [Notebooks -> Standing] /\ nb[b] = "gone"
      /\ \A c \in Notebooks \ {b} : nb[c] = shelf.nb[c]
  BY Types DEF Shelves, Standing
<1>3. Agree(K, shelf) /\ SameIds(lib, K)
  <2>1. /\ lib.inNb[b] \in SUBSET Notes
        /\ \A n \in lib.inNb[b] : lib.note[n].st # "unused"
    BY Types DEF Libraries, Agree, NotesFresh
  <2>2. shelf.default \in Notebooks /\ shelf.nb[shelf.default] # "unknown"
    BY DEF Inv, DefaultKnown
  <2>3. CASE K = lib
    BY <2>3, Types DEF SameIds
  <2>4. CASE K = PutInNotebook(lib, lib.inNb[b], shelf.default)
    BY <2>1, <2>2, <2>4, Types, PutAgrees
  <2> QED BY <2>3, <2>4
<1>4. Agree(lib', shelf) /\ SameIds(K, lib')
  BY <1>3, Types, EmptiedAgrees
<1>1. shelf' = [shelf EXCEPT !.nb = nb]
  OBVIOUS
<1> HIDE DEF nb
<1>5. /\ shelf' \in Shelves /\ shelf'.nb = nb /\ shelf'.default = shelf.default
      /\ shelf'.tag = shelf.tag
  BY <1>1, <1>2, Types DEF Shelves
<1>6. Agree(lib', shelf')
  <2>1. \A c \in Notebooks : \/ shelf'.nb[c] = shelf.nb[c]
                             \/ shelf.nb[c] # "gone" /\ shelf'.nb[c] # "unknown"
    BY <1>2, <1>5
  <2>2. \A t \in Tags : \/ shelf'.tag[t] = shelf.tag[t]
                        \/ shelf.tag[t] # "gone" /\ shelf'.tag[t] # "unknown"
    BY <1>5
  <2> DEFINE M == lib'
             R == shelf'
  <2>3. /\ Agree(M, shelf) /\ R \in Shelves /\ shelf \in Shelves
        /\ \A c \in Notebooks : \/ R.nb[c] = shelf.nb[c]
                                \/ shelf.nb[c] # "gone" /\ R.nb[c] # "unknown"
        /\ \A t \in Tags : \/ R.tag[t] = shelf.tag[t]
                           \/ shelf.tag[t] # "gone" /\ R.tag[t] # "unknown"
    BY <1>4, <1>5, <2>1, <2>2, Types
  <2> HIDE DEF M, R
  <2>4. Agree(M, R)
    BY <2>3, ShelfAgrees
  <2> QED BY <2>4 DEF M, R
<1>7. OnlyGiven
  BY <1>3, <1>4 DEF OnlyGiven, SameIds
<1>8. DefaultKnown'
  BY <1>2, <1>5 DEF DefaultKnown, Inv
<1> QED
  BY <1>5, <1>6, <1>7, <1>8, Types, SyncKeeps

LEMMA ExpungeNotebookKeeps ==
    ASSUME Inv, NEW b \in Notebooks, ExpungeNotebook(b)
    PROVE  Inv'
<1>1. /\ shelf.nb[b] = "synced"
      /\ UNCHANGED <<byGuid, unpushed, waiting, page, sync, srv>>
  BY DEF ExpungeNotebook
<1>2. CASE /\ lib' = [PutInNotebook(lib, lib.inNb[b], shelf.default) EXCEPT !.inNb[b] = {}]
           /\ shelf' = [shelf EXCEPT !.nb[b] = "gone"]
  BY <1>1, <1>2, NotebookGoes
<1>3. CASE /\ lib' = [lib EXCEPT !.inNb[b] = {}]
           /\ shelf' = [shelf EXCEPT !.nb[b] = "gone"]
  BY <1>1, <1>3, NotebookGoes
<1>4. CASE UNCHANGED lib /\ shelf' = [shelf EXCEPT !.kept = @ \cup {b}]
  <2>1. /\ shelf' \in Shelves /\ shelf'.nb = shelf.nb /\ shelf'.tag = shelf.tag
        /\ shelf'.default = shelf.default
    BY <1>4, Types DEF Shelves
  <2>2. Agree(lib', shelf')
    BY <1>4, <2>1, Types, ShelfAgrees
  <2>3. OnlyGiven /\ DefaultKnown'
    BY <1>4, <2>1 DEF OnlyGiven, DefaultKnown, Inv
  <2> QED BY <1>1, <2>1, <2>2, <2>3, Types, SyncKeeps
<1> QED
  BY <1>2, <1>3, <1>4, Zenon DEF ExpungeNotebook

LEMMA ExpungeTagKeeps ==
    ASSUME Inv, NEW t \in Tags, ExpungeTag(t)
    PROVE  Inv'
<1> DEFINE tag == [shelf.tag EXCEPT ![t] = "gone"]
<1>1. /\ shelf.tag[t] = "synced" /\ lib' = Untagged(lib, t)
      /\ shelf' = [shelf EXCEPT !.tag = tag]
      /\ UNCHANGED <<byGuid, unpushed, waiting, page, sync, srv>>
  BY DEF ExpungeTag
<1>2. /\ tag \in [Tags -> Standing] /\ tag[t] = "gone"
      /\ \A u \in Tags \ {t} : tag[u] = shelf.tag[u]
  BY Types DEF Shelves, Standing
<1> HIDE DEF tag
<1>3. /\ shelf' \in Shelves /\ shelf'.tag = tag /\ shelf'.default = shelf.default
      /\ shelf'.nb = shelf.nb
  BY <1>1, <1>2, Types DEF Shelves
<1>4. Agree(lib, shelf')
  <2>1. \A u \in Tags : \/ shelf'.tag[u] = shelf.tag[u]
                        \/ shelf.tag[u] # "gone" /\ shelf'.tag[u] # "unknown"
    BY <1>1, <1>2, <1>3
  <2> QED BY <1>3, <2>1, Types, ShelfAgrees
<1>5. Agree(lib', shelf') /\ SameIds(lib, lib')
  BY <1>1, <1>2, <1>3, <1>4, UntaggedAgrees
<1>6. OnlyGiven /\ DefaultKnown'
  BY <1>3, <1>5 DEF OnlyGiven, SameIds, DefaultKnown, Inv
<1> QED
  BY <1>1, <1>3, <1>5, <1>6, Types, SyncKeeps

LEMMA PushNoteKeeps ==
    ASSUME Inv, NEW n \in Notes, PushNote(n)
    PROVE  Inv'
<1> DEFINE nb == [b \in Notebooks |-> IF b = lib.note[n].nb /\ shelf.nb[b] = "local"
                                      THEN "synced" ELSE shelf.nb[b]]
           tag == [t \in Tags |-> IF t \in lib.note[n].tags /\ shelf.tag[t] = "local"
                                  THEN "synced" ELSE shelf.tag[t]]
<1>1. /\ shelf' = [shelf EXCEPT !.nb = nb, !.tag = tag]
      /\ UNCHANGED <<lib, byGuid, unpushed, waiting, page, srv>>
  BY DEF PushNote
<1>2. /\ nb \in [Notebooks -> Standing]
      /\ \A b \in Notebooks : \/ nb[b] = shelf.nb[b]
                              \/ shelf.nb[b] = "local" /\ nb[b] = "synced"
  BY Types DEF Shelves, Standing
<1>3. /\ tag \in [Tags -> Standing]
      /\ \A t \in Tags : \/ tag[t] = shelf.tag[t]
                         \/ shelf.tag[t] = "local" /\ tag[t] = "synced"
  BY Types DEF Shelves, Standing
<1> HIDE DEF nb, tag
<1>4. /\ shelf' \in Shelves /\ shelf'.nb = nb /\ shelf'.tag = tag
      /\ shelf'.default = shelf.default
  BY <1>1, <1>2, <1>3, Types DEF Shelves
<1>5. Agree(lib', shelf')
  <2>1. \A b \in Notebooks : \/ shelf'.nb[b] = shelf.nb[b]
                             \/ shelf.nb[b] # "gone" /\ shelf'.nb[b] # "unknown"
    BY <1>2, <1>4
  <2>2. \A t \in Tags : \/ shelf'.tag[t] = shelf.tag[t]
                        \/ shelf.tag[t] # "gone" /\ shelf'.tag[t] # "unknown"
    BY <1>3, <1>4
  <2> QED BY <1>1, <1>4, <2>1, <2>2, Types, ShelfAgrees
<1>6. DefaultKnown'
  <2>1. shelf.default \in Notebooks
    BY Types DEF Shelves
  <2> QED BY <1>2, <1>4, <2>1 DEF DefaultKnown, Inv
<1>7. /\ sync' \in [pulling : Notes \cup {None}, left : SUBSET Notes,
                    pushing : Notes \cup {None}]
      /\ sync'.pulling = sync.pulling
      /\ sync'.pushing = sync.pushing \/ (sync'.pushing = n /\ Live(n))
  BY Types DEF PushNote
<1>8. OnlyGiven /\ (sync'.pushing = sync.pushing \/ lib'.note[sync'.pushing].st # "unused")
  BY <1>1, <1>7 DEF OnlyGiven, Live
<1> QED
  BY <1>1, <1>4, <1>5, <1>6, <1>7, <1>8, Types, SyncKeeps

LEMMA PushedKeeps ==
    ASSUME Inv, NEW g \in Guids, Pushed(g)
    PROVE  Inv'
<1> DEFINE n == sync.pushing
<1>1. n \in Notes /\ lib.note[n].st # "unused"
  BY Types DEF Pushed, Inv, GivenOut
<1>2. /\ UNCHANGED <<shelf, waiting, page>> /\ unpushed' \in SUBSET Notes
      /\ sync' \in [pulling : Notes \cup {None}, left : SUBSET Notes,
                    pushing : Notes \cup {None}]
      /\ sync'.pulling = sync.pulling /\ sync'.pushing = None
  BY Types DEF Pushed, Flag
<1>3. DefaultKnown'
  BY <1>2 DEF DefaultKnown, Inv
<1>4. ASSUME lib' = [lib EXCEPT !.note[n].guid = g], byGuid' = [byGuid EXCEPT ![g] = n],
             srv' = [srv EXCEPT ![g] = "given"]
      PROVE  Inv'
  <2> HIDE DEF n
  <2>1. Agree(lib', shelf') /\ SameIds(lib, lib')
    BY <1>1, <1>2, <1>4, Types, GuidAgrees
  <2>2. /\ byGuid' \in [Guids -> Notes \cup {None}] /\ byGuid'[g] = n
        /\ \A h \in Guids \ {g} : byGuid'[h] = byGuid[h]
        /\ srv' \in [Guids -> {"free", "given", "expunged"}]
    BY <1>1, <1>4, Types
  <2>3. OnlyGiven /\ lib'.note[n].st # "unused"
    BY <1>1, <2>1 DEF OnlyGiven, SameIds
  <2>4. \A h \in Guids : byGuid'[h] \in {None, byGuid[h]}
                         \/ lib'.note[byGuid'[h]].st # "unused"
    BY <2>2, <2>3
  <2> QED BY <1>2, <1>3, <2>1, <2>2, <2>3, <2>4, Types, SyncKeeps
<1>5. ASSUME UNCHANGED <<lib, byGuid, srv>>
      PROVE  Inv'
  <2>1. OnlyGiven /\ Agree(lib', shelf')
    BY <1>2, <1>5, Types DEF OnlyGiven
  <2> QED BY <1>2, <1>3, <1>5, <2>1, Types, SyncKeeps
<1> QED
  BY <1>4, <1>5 DEF Pushed

LEMMA StartAndFailKeep ==
    ASSUME Inv, PushStart \/ SyncFails
    PROVE  Inv'
<1>1. /\ UNCHANGED <<lib, shelf, byGuid, unpushed, waiting, srv>>
      /\ page' \in {page, NoPage}
  BY DEF PushStart, SyncFails
<1>2. /\ sync' \in [pulling : Notes \cup {None}, left : SUBSET Notes,
                    pushing : Notes \cup {None}]
      /\ sync'.pulling \in {None, sync.pulling} /\ sync'.pushing \in {None, sync.pushing}
  BY Types DEF PushStart, SyncFails, Idle
<1>3. NoPage \in [note : Notes \cup {None}, trashed : BOOLEAN]
  BY DEF NoPage
<1>4. TypeOK'
  BY <1>1, <1>2, <1>3 DEF Inv, TypeOK
<1>5. DefaultKnown' /\ Agree(lib', shelf')
  BY <1>1 DEF Inv, DefaultKnown
<1>6. GivenOut'
  BY <1>1, <1>2 DEF Inv, GivenOut
<1> QED
  BY <1>4, <1>5, <1>6 DEF Inv

-----------------------------------------------------------------------------
LEMMA InitHolds ==
    Init => Inv
<1> SUFFICES ASSUME Init PROVE Inv
  OBVIOUS
<1>1. Blank("unused") \in Gist /\ Blank("unused").st = "unused"
      /\ Blank("unused").tags = {} /\ Blank("unused").trashed = FALSE
  BY DEF Blank, Gist
<1>2. /\ lib.note = [n \in Notes |-> Blank("unused")] /\ lib.all = {} /\ lib.trash = {}
      /\ lib.favs = {} /\ lib.inNb = [b \in Notebooks |-> {}]
      /\ lib.tagged = [t \in Tags |-> {}]
      /\ lib \in Libraries
  BY <1>1 DEF Init, Libraries
<1>3. /\ shelf \in Shelves /\ shelf.default = FirstNotebook
      /\ shelf.nb[FirstNotebook] = "synced"
  BY FirstNotebookAssumption DEF Init, Shelves, Standing
<1>4. DefaultKnown
  BY <1>3, FirstNotebookAssumption, NoneAssumption DEF DefaultKnown
<1>5. ListsView(lib) /\ ListsNotebooks(lib, shelf) /\ ListsTags(lib, shelf)
      /\ ListsFavourites(lib) /\ NotesFresh(lib)
  BY <1>1, <1>2 DEF ListsView, ListsNotebooks, ListsTags, ListsFavourites, NotesFresh
<1>6. ShelfFresh(lib, shelf)
  BY <1>1, <1>2 DEF ShelfFresh
<1>7. /\ byGuid = [g \in Guids |-> None] /\ unpushed = {}
      /\ waiting \in [nb : [Notebooks -> SUBSET Notes], tag : [Tags -> SUBSET Notes]]
      /\ \A b \in Notebooks : waiting.nb[b] = {}
      /\ \A t \in Tags : waiting.tag[t] = {}
      /\ page \in [note : Notes \cup {None}, trashed : BOOLEAN]
      /\ sync \in [pulling : Notes \cup {None}, left : SUBSET Notes,
                   pushing : Notes \cup {None}]
      /\ sync.pulling = None /\ sync.pushing = None
      /\ srv = [g \in Guids |-> "free"]
  BY DEF Init, NoPage, Idle
<1>8. TypeOK
  BY <1>2, <1>3, <1>7 DEF TypeOK
<1>9. GivenOut
  BY <1>7 DEF GivenOut
<1> QED
  BY <1>2, <1>4, <1>5, <1>6, <1>8, <1>9 DEF Inv, Agree

LEMMA NextHolds ==
    Inv /\ [Next]_vars => Inv'
<1> SUFFICES ASSUME Inv, [Next]_vars PROVE Inv'
  OBVIOUS
<1>1. ASSUME NEW n \in Notes, PageStep(n) PROVE Inv'
  BY <1>1, CreateNoteKeeps, OpenAndCloseKeep, PickKeeps, MakeNotebookKeeps,
     MakeTagKeeps, TrashKeeps DEF PageStep
<1>2. CASE PullStep
  BY <1>2, ExpungeNotebookKeeps, PullNotebookKeeps, PullTagKeeps, ExpungeTagKeeps,
     PullGistKeeps, ExpungeNoteKeeps, PullPlaceKeeps DEF PullStep
<1>3. CASE PushStep
  BY <1>3, StartAndFailKeep, PushNoteKeeps, PushedKeeps DEF PushStep
<1>4. CASE SyncFails
  BY <1>4, StartAndFailKeep
<1>5. CASE UNCHANGED vars
  BY <1>5 DEF vars, Inv, TypeOK, DefaultKnown, GivenOut
<1> QED
  BY <1>1, <1>2, <1>3, <1>4, <1>5 DEF Next

\* The lists and the gists agree, and the ids written down were given out, in
\* every state.
LEMMA InvHolds ==
    Spec => []Inv
BY InitHolds, NextHolds, PTL DEF Spec

\* Every variable stays within its type: a guid maps to a note that may be
\* given out, a list names such notes, no notebook or tag loses its standing.
THEOREM TypeCorrect ==
    Spec => []TypeOK
<1>1. Inv => TypeOK
  BY DEF Inv
<1> QED
  BY <1>1, InvHolds, PTL

\* Every note that is not removed is in the list of all notes or in the trash,
\* as its gist says, and in one of them only.
THEOREM ListedCorrect ==
    Spec => []Listed
<1>1. Inv => Listed
  BY DEF Inv, Agree, ListsView, Listed, Live
<1> QED
  BY <1>1, InvHolds, PTL

\* A notebook that is here lists only notes whose gist names it.
THEOREM OneNotebookCorrect ==
    Spec => []OneNotebook
<1>1. Inv => OneNotebook
  BY DEF Inv, Agree, ListsNotebooks, OneNotebook, Live, NotebookHere, Here
<1> QED
  BY <1>1, InvHolds, PTL

\* A tag that is here lists the notes that have it, all of them but the trashed.
THEOREM TagsCorrect ==
    Spec => []TagsAgree
<1>1. Inv => TagsAgree
  BY DEF Inv, Agree, ListsTags, TagsAgree, Live, TagHere, HereTag
<1> QED
  BY <1>1, InvHolds, PTL

\* The list of favourites names the favourites, all of them but the trashed.
THEOREM FavouritesCorrect ==
    Spec => []FavouritesAgree
<1>1. Inv => FavouritesAgree
  BY DEF Inv, Agree, ListsFavourites, FavouritesAgree, Live
<1> QED
  BY <1>1, InvHolds, PTL

\* What is on a note and the lists that index it agree.
THEOREM MarksCorrect ==
    Spec => []MarksAgree
<1>1. TagsAgree /\ FavouritesAgree => MarksAgree
  BY DEF MarksAgree
<1> QED
  BY <1>1, TagsCorrect, FavouritesCorrect, PTL

\* What DefaultTakesOver says of a step.
TakesOver ==
    NotebookHere(shelf.default) =>
        \/ \A b \in Notebooks : ~NotebookHere(b)'
        \/ /\ NotebookHere(shelf.default)'
           /\ \A b \in Notebooks, n \in Notes :
                 NotebookHere(b) /\ ~NotebookHere(b)' /\ Live(n) /\ n \in lib.inNb[b]
                     => n \in lib'.inNb[shelf'.default]

\* A step after which every notebook that was here still is.
LEMMA AllStay ==
    ASSUME TypeOK, \A b \in Notebooks : NotebookHere(b) => shelf'.nb[b] \in {"local", "synced"},
           \/ shelf'.default = shelf.default
           \/ shelf'.default \in Notebooks /\ shelf'.nb[shelf'.default] \in {"local", "synced"}
    PROVE  TakesOver
  BY NoneAssumption DEF TypeOK, Shelves, NotebookHere, TakesOver

\* A notebook that goes while another is the default one.
LEMMA IntoDefault ==
    ASSUME Inv, NEW b \in Notebooks, b # shelf.default,
           lib' = [PutInNotebook(lib, lib.inNb[b], shelf.default) EXCEPT !.inNb[b] = {}],
           shelf' = [shelf EXCEPT !.nb[b] = "gone"]
    PROVE  TakesOver
<1> SUFFICES ASSUME NotebookHere(shelf.default)
             PROVE  /\ NotebookHere(shelf.default)'
                    /\ \A c \in Notebooks, n \in Notes :
                          NotebookHere(c) /\ ~NotebookHere(c)' /\ Live(n) /\ n \in lib.inNb[c]
                              => n \in lib'.inNb[shelf'.default]
  BY DEF TakesOver
<1> DEFINE d == shelf.default
<1>1. /\ d \in Notebooks /\ d # b /\ lib \in Libraries /\ shelf \in Shelves
  BY Types DEF Shelves
<1>2. /\ shelf'.default = d /\ \A c \in Notebooks \ {b} : shelf'.nb[c] = shelf.nb[c]
  BY <1>1 DEF Shelves
<1>3. NotebookHere(shelf.default)'
  BY <1>1, <1>2 DEF NotebookHere
<1>4. lib'.inNb[d] = lib.inNb[d] \cup {n \in lib.inNb[b] : lib.note[n].nb # d}
  BY <1>1 DEF PutInNotebook, Libraries
<1> SUFFICES ASSUME NEW c \in Notebooks, NEW n \in Notes,
                    NotebookHere(c), ~NotebookHere(c)', Live(n), n \in lib.inNb[c]
             PROVE  n \in lib'.inNb[d]
  BY <1>2, <1>3
<1>5. c = b
  BY <1>2 DEF NotebookHere
<1>6. lib.note[n].nb = b
  BY <1>1, <1>5, Types DEF Agree, ListsNotebooks, Here, NotebookHere, Live
<1> QED BY <1>1, <1>4, <1>5, <1>6

\* Every operation on the shelf, and no other step, can disturb it.
LEMMA ShelfStep ==
    ASSUME Inv, NEW b \in Notebooks, ExpungeNotebook(b)
    PROVE  TakesOver
<1>1. CASE /\ b # shelf.default
           /\ lib' = [PutInNotebook(lib, lib.inNb[b], shelf.default) EXCEPT !.inNb[b] = {}]
           /\ shelf' = [shelf EXCEPT !.nb[b] = "gone"]
  BY <1>1, IntoDefault
<1>2. CASE shelf' = [shelf EXCEPT !.kept = @ \cup {b}]
  BY <1>2, AllStay DEF Inv, TypeOK, Shelves, NotebookHere
<1>3. CASE /\ b = shelf.default /\ \A c \in Notebooks \ {b} : ~NotebookHere(c)
           /\ shelf' = [shelf EXCEPT !.nb[b] = "gone"]
  <2>1. \A c \in Notebooks : ~NotebookHere(c)'
    BY <1>3, Types DEF Shelves, NotebookHere
  <2> QED BY <2>1 DEF TakesOver
<1> QED
  BY <1>1, <1>2, <1>3, Zenon DEF ExpungeNotebook

\* Every step of every behaviour of Library satisfies DefaultTakesOver: only the
\* last notebook goes without one to take its notes.
THEOREM DefaultCorrect ==
    Spec => DefaultTakesOver
<1>1. ASSUME Inv, [Next]_vars PROVE TakesOver
  <2> USE DEF NotebookHere
  <2>0. TypeOK /\ shelf \in Shelves
    BY <1>1 DEF Inv, TypeOK
  <2>1. CASE UNCHANGED shelf
    BY <2>0, <2>1, AllStay
  <2>2. ASSUME NEW n \in Notes, NEW b \in Notebooks, MakeNotebook(n, b) PROVE TakesOver
    BY <2>0, <2>2, AllStay DEF MakeNotebook, Shelves, Standing
  <2>3. ASSUME NEW n \in Notes, NEW t \in Tags, MakeTag(n, t) PROVE TakesOver
    BY <2>0, <2>3, AllStay DEF MakeTag, Shelves
  <2>4. ASSUME NEW b \in Notebooks, NEW d \in BOOLEAN, PullNotebook(b, d) PROVE TakesOver
    BY <2>0, <2>4, AllStay DEF PullNotebook, Shelves
  <2>5. ASSUME NEW t \in Tags, PullTag(t) \/ ExpungeTag(t) PROVE TakesOver
    BY <2>0, <2>5, AllStay DEF PullTag, ExpungeTag, Shelves
  <2>6. ASSUME NEW n \in Notes, PushNote(n) PROVE TakesOver
    BY <2>0, <2>6, AllStay DEF PushNote, Shelves
  <2>7. ASSUME NEW b \in Notebooks, ExpungeNotebook(b) PROVE TakesOver
    BY <1>1, <2>7, ShelfStep
  <2>8. ASSUME NEW n \in Notes, PageStep(n) PROVE TakesOver
    BY <2>1, <2>2, <2>3, <2>8
       DEF PageStep, CreateNote, OpenPage, ClosePage, PickNotebook, PickTags, MarkFavourite,
           TrashNote, RestoreNote, ExpungeFromTrash
  <2>9. CASE PullStep
    BY <2>1, <2>4, <2>5, <2>7, <2>9 DEF PullStep, PullGist, ExpungeNote, PullPlace
  <2>10. CASE PushStep \/ SyncFails
    BY <2>1, <2>6, <2>10 DEF PushStep, PushStart, Pushed, SyncFails
  <2> QED BY <1>1, <2>1, <2>8, <2>9, <2>10 DEF Next, vars
<1>2. Inv /\ [Next]_vars => [TakesOver]_vars
  BY <1>1
<1>3. DefaultTakesOver <=> [][TakesOver]_vars
  BY PTL DEF DefaultTakesOver, TakesOver
<1> QED
  BY <1>2, <1>3, InvHolds, PTL DEF Spec
=============================================================================
