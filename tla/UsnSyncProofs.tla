---------------------------- MODULE UsnSyncProofs ----------------------------
(***************************************************************************)
(* Theorems about UsnSync: its types, what the stored USN promises, that   *)
(* the protocol implements Mirror, and that no unpushed change is dropped. *)
(* The invariant says of a chunk that is partly taken over, and of a call  *)
(* whose answer is under way, what makes the next checkpoint or the next   *)
(* saved USN true.  The first part is about the operators, the second      *)
(* about each action; the refinement and the last theorem use both.        *)
(***************************************************************************)
EXTENDS UsnSync, TLAPS

\* The steps that change only the server: all but Forget change one object.
LEMMA ChangedTypes ==
    ASSUME srv \in Accounts, NEW g \in Guids, srv.count < MaxUsn
    PROVE  /\ Changed(g) \in Accounts
           /\ Changed(g).count = srv.count + 1 /\ Changed(g).gone = srv.gone
           /\ Changed(g).at = [srv.at EXCEPT ![g] = srv.count + 1]
           /\ Changed(g).name = srv.name
<1> USE BoundsAssumption
<1>1. /\ srv.count + 1 \in Usns /\ srv.at \in [Guids -> Usns]
  BY DEF Accounts, Usns
<1>2. [srv.at EXCEPT ![g] = srv.count + 1] \in [Guids -> Usns]
  BY <1>1
<1>3. Changed(g) = [srv EXCEPT !.count = srv.count + 1, !.at = [srv.at EXCEPT ![g] = srv.count + 1]]
  BY DEF Changed
<1> QED BY <1>1, <1>2, <1>3 DEF Accounts

LEMMA NamedTypes ==
    ASSUME srv \in Accounts, NEW h \in BookGuids, NEW x \in Names, srv.count < MaxUsn
    PROVE  /\ Named(h, x) \in Accounts
           /\ Named(h, x).count = srv.count + 1 /\ Named(h, x).gone = srv.gone
           /\ Named(h, x).at = [srv.at EXCEPT ![h] = srv.count + 1]
           /\ Named(h, x).name = [srv.name EXCEPT ![h] = x]
<1> USE BoundsAssumption
<1> DEFINE c == Changed(h)
<1>1. /\ c \in Accounts /\ c.count = srv.count + 1 /\ c.gone = srv.gone
      /\ c.at = [srv.at EXCEPT ![h] = srv.count + 1] /\ c.name = srv.name
  BY ChangedTypes DEF Guids
<1>2. Named(h, x) = [c EXCEPT !.name = [c.name EXCEPT ![h] = x]]
  BY DEF Named
<1> HIDE DEF c
<1>3. [c.name EXCEPT ![h] = x] \in [BookGuids -> Names \cup {None}]
  BY <1>1 DEF Accounts
<1> QED BY <1>1, <1>2, <1>3 DEF Accounts

\* The operators of the device, with what they leave alone.
SameNotes(d, e) == e.note = d.note /\ e.ntOf = d.ntOf /\ e.notes = d.notes /\ e.usn = d.usn

LEMMA CreateTypes ==
    ASSUME NEW d \in Devices, NEW b \in Books, NEW x \in Names
    PROVE  CreateNotebook(d, b, x) \in Devices /\ SameNotes(d, CreateNotebook(d, b, x))
<1> DEFINE r == [st |-> "here", name |-> x, guid |-> None]
           book == [d.book EXCEPT ![b] = r]
           names == [d.names EXCEPT ![x] = b]
<1>1. r \in LocalBook
  BY DEF LocalBook
<1>2. book \in [Books -> LocalBook] /\ names \in [Names -> Books \cup {None}]
  BY <1>1 DEF Devices
<1>3. CreateNotebook(d, b, x) = IF d.names[x] # None THEN d
                                ELSE [d EXCEPT !.book = book, !.names = names]
  BY DEF CreateNotebook
<1> HIDE DEF book, names
<1> QED BY <1>2, <1>3 DEF Devices, SameNotes

LEMMA SetGuidTypes ==
    ASSUME NEW d \in Devices, NEW b \in Books, NEW h \in BookGuids
    PROVE  SetNotebookGuid(d, b, h) \in Devices /\ SameNotes(d, SetNotebookGuid(d, b, h))
<1> DEFINE r == [d.book[b] EXCEPT !.guid = h]
           book == [d.book EXCEPT ![b] = r]
           nbOf == [d.nbOf EXCEPT ![h] = b]
<1>1. r \in LocalBook
  <2>1. d.book[b] \in LocalBook
    BY DEF Devices
  <2> QED BY <2>1 DEF LocalBook
<1>2. book \in [Books -> LocalBook] /\ nbOf \in [BookGuids -> Books \cup {None}]
  BY <1>1 DEF Devices
<1>3. SetNotebookGuid(d, b, h) = [d EXCEPT !.book = book, !.nbOf = nbOf]
  BY DEF SetNotebookGuid
<1> HIDE DEF book, nbOf
<1> QED BY <1>2, <1>3 DEF Devices, SameNotes

LEMMA NextTypes ==
    ASSUME NEW d \in Devices
    PROVE  /\ \A x \in Names : IdsFor(d, x) \subseteq Books
           /\ \A n \in NextNote(d) : n \in Notes /\ d.note[n].st = "unused"
<1>1. \A x \in Names : d.names[x] \in Books \cup {None}
  BY DEF Devices
<1> QED BY <1>1 DEF IdsFor, NextBook, NextNote, NextIds

LEMMA SyncedNotebookTypes ==
    ASSUME NEW d \in Devices, NEW h \in BookGuids, NEW x \in Names \cup {None},
           NEW e \in SetSyncedNotebookData(d, h, x), x # None
    PROVE  e \in Devices /\ SameNotes(d, e)
<1>0. x \in Names /\ IdsFor(d, x) \subseteq Books
  BY NextTypes
<1>1. CASE d.nbOf[h] # None
  <2> DEFINE b == d.nbOf[h]
             r == [d.book[b] EXCEPT !.name = x]
             book == [d.book EXCEPT ![b] = r]
             c == [d EXCEPT !.book = book]
  <2>1. b \in Books
    BY <1>1 DEF Devices
  <2>2. d.book[b] \in LocalBook
    BY <2>1 DEF Devices
  <2>3. r \in LocalBook
    BY <1>0, <2>2 DEF LocalBook
  <2>4. book \in [Books -> LocalBook]
    BY <2>1, <2>3 DEF Devices
  <2>5. e = SetNotebookGuid(c, b, h)
    BY <1>1 DEF SetSyncedNotebookData
  <2> HIDE DEF book, b
  <2>6. c \in Devices /\ SameNotes(d, c)
    BY <2>4 DEF Devices, SameNotes
  <2> HIDE DEF c
  <2>7. e \in Devices /\ SameNotes(c, e)
    BY <2>1, <2>5, <2>6, SetGuidTypes
  <2> QED BY <2>6, <2>7 DEF SameNotes
<1>2. CASE d.nbOf[h] = None
  <2>1. PICK b \in IdsFor(d, x) : e = SetNotebookGuid(CreateNotebook(d, b, x), b, h)
    BY <1>2 DEF SetSyncedNotebookData
  <2> DEFINE c == CreateNotebook(d, b, x)
  <2>2. b \in Books /\ c \in Devices /\ SameNotes(d, c)
    BY <1>0, CreateTypes
  <2> HIDE DEF c
  <2>3. e \in Devices /\ SameNotes(c, e)
    BY <2>1, <2>2, SetGuidTypes DEF c
  <2> QED BY <2>2, <2>3 DEF SameNotes
<1> QED BY <1>1, <1>2

\* Note n comes under guid m.
Adds(d, e, n, m) ==
    /\ d.note[n].st = "unused"
    /\ e.note = [d.note EXCEPT ![n] = [st |-> "here", guid |-> m, nb |-> None]]
    /\ e.ntOf = [d.ntOf EXCEPT ![m] = n]

LEMMA SyncedNoteTypes ==
    ASSUME NEW d \in Devices, NEW m \in NoteGuids, NEW e \in SetSyncedNoteGist(d, m),
           d.ntOf[m] = None
    PROVE  /\ e \in Devices /\ e.usn = d.usn /\ e.notes = d.notes
           /\ \E n \in Notes : Adds(d, e, n, m)
<1>1. PICK n \in NextNote(d) :
         e = [d EXCEPT !.note[n] = [st |-> "here", guid |-> m, nb |-> None], !.ntOf[m] = n]
  BY DEF SetSyncedNoteGist
<1>2. n \in Notes /\ d.note[n].st = "unused"
  BY NextTypes
<1> DEFINE r == [st |-> "here", guid |-> m, nb |-> None]
           note == [d.note EXCEPT ![n] = r]
           ntOf == [d.ntOf EXCEPT ![m] = n]
<1>3. r \in LocalNote
  BY DEF LocalNote
<1>4. note \in [Notes -> LocalNote] /\ ntOf \in [NoteGuids -> Notes \cup {None}]
  BY <1>2, <1>3 DEF Devices
<1>5. e = [d EXCEPT !.note = note, !.ntOf = ntOf]
  BY <1>1
<1>6. /\ e \in Devices /\ e.usn = d.usn /\ e.notes = d.notes
      /\ e.note = note /\ e.ntOf = ntOf
  <2> HIDE DEF note, ntOf
  <2> QED BY <1>4, <1>5 DEF Devices
<1>7. Adds(d, e, n, m)
  BY <1>2, <1>6 DEF Adds
<1> QED BY <1>2, <1>6, <1>7

LEMMA ExpungeNoteTypes ==
    ASSUME NEW d \in Devices, NEW n \in Notes
    PROVE  LET e == ExpungeNote(d, n) IN
           /\ e \in Devices /\ e.usn = d.usn /\ e.notes = d.notes \ {n}
           /\ e.note = [d.note EXCEPT ![n] = [st |-> "gone", guid |-> None, nb |-> None]]
           /\ e.ntOf = [m \in NoteGuids |-> IF m = d.note[n].guid THEN None ELSE d.ntOf[m]]
<1> DEFINE r == [st |-> "gone", guid |-> None, nb |-> None]
           note == [d.note EXCEPT ![n] = r]
           ntOf == [m \in NoteGuids |-> IF m = d.note[n].guid THEN None ELSE d.ntOf[m]]
           notes == d.notes \ {n}
<1>1. r \in LocalNote
  BY DEF LocalNote
<1>2. /\ note \in [Notes -> LocalNote] /\ ntOf \in [NoteGuids -> Notes \cup {None}]
      /\ notes \in SUBSET Notes
  BY <1>1 DEF Devices
<1>3. ExpungeNote(d, n) = [d EXCEPT !.note = note, !.ntOf = ntOf, !.notes = notes]
  BY DEF ExpungeNote
<1>4. LET e == ExpungeNote(d, n) IN
         /\ e \in Devices /\ e.usn = d.usn /\ e.notes = notes
         /\ e.note = note /\ e.ntOf = ntOf
  <2> HIDE DEF note, ntOf, notes
  <2> QED BY <1>2, <1>3 DEF Devices
<1> QED BY <1>4

LEMMA ExpungeNotebookTypes ==
    ASSUME NEW d \in Devices, NEW b \in Books
    PROVE  LET e == ExpungeNotebook(d, b) IN
           /\ e \in Devices /\ e.usn = d.usn /\ e.notes = d.notes /\ e.ntOf = d.ntOf
           /\ \A n \in Notes : e.note[n].st = d.note[n].st /\ e.note[n].guid = d.note[n].guid
<1> DEFINE r == [st |-> "gone", name |-> None, guid |-> None]
           book == [d.book EXCEPT ![b] = r]
           names == [x \in Names |-> IF FoldKeys /\ x = d.book[b].name THEN None ELSE d.names[x]]
           nbOf == [h \in BookGuids |-> IF h = d.book[b].guid THEN None ELSE d.nbOf[h]]
           note == [n \in Notes |-> [d.note[n] EXCEPT !.nb = IF d.note[n].nb = b THEN None
                                                             ELSE d.note[n].nb]]
<1>1. r \in LocalBook
  BY DEF LocalBook
<1>2. \A n \in Notes : /\ note[n] \in LocalNote
                       /\ note[n].st = d.note[n].st /\ note[n].guid = d.note[n].guid
  <2> TAKE n \in Notes
  <2>1. d.note[n] \in LocalNote
    BY DEF Devices
  <2>2. d.note[n].nb \in Books \cup {None}
    BY <2>1 DEF LocalNote
  <2> DEFINE nb == IF d.note[n].nb = b THEN None ELSE d.note[n].nb
  <2>3. nb \in Books \cup {None}
    BY <2>2
  <2>4. note[n] = [d.note[n] EXCEPT !.nb = nb]
    OBVIOUS
  <2> HIDE DEF nb, note
  <2> QED BY <2>1, <2>3, <2>4 DEF LocalNote
<1>3. /\ book \in [Books -> LocalBook] /\ names \in [Names -> Books \cup {None}]
      /\ nbOf \in [BookGuids -> Books \cup {None}]
  BY <1>1 DEF Devices
<1>4. note \in [Notes -> LocalNote]
  BY <1>2
<1>5. ExpungeNotebook(d, b) = [d EXCEPT !.book = book, !.names = names, !.nbOf = nbOf, !.note = note]
  BY DEF ExpungeNotebook
<1>6. LET e == ExpungeNotebook(d, b) IN
         /\ e \in Devices /\ e.usn = d.usn /\ e.notes = d.notes /\ e.ntOf = d.ntOf
         /\ e.note = note
  <2> HIDE DEF book, names, nbOf, note
  <2> QED BY <1>3, <1>4, <1>5 DEF Devices
<1> QED BY <1>2, <1>6

-----------------------------------------------------------------------------
(* The invariant.                                                          *)

\* A notebook that was ever on the server has a name there, and in a chunk.
KnownNames ==
    \A h \in BookGuids : /\ srv.at[h] > 0 => srv.name[h] # None
                         /\ sync.chunk.at[h] > 0 => sync.chunk.name[h] # None

\* No change is later than the count of changes, none was had before it was made.
Counted ==
    /\ \A g \in Guids : srv.at[g] <= srv.count /\ sync.got[g] <= srv.at[g]
    /\ dev.usn <= srv.count

\* The first half of MirrorUpToUsn.
HasUpToUsn == \A g \in Live : srv.at[g] <= dev.usn => sync.got[g] = srv.at[g]

\* The second half, for whatever was had, and why the next number is a free one.
Under ==
    /\ \A m \in NoteGuids :
          /\ dev.ntOf[m] # None => dev.note[dev.ntOf[m]].guid = m
          /\ sync.got[m] > 0 /\ m \notin srv.gone => dev.ntOf[m] # None
    /\ \A n \in Notes : dev.note[n].st = "unused" => dev.note[n].guid = None

\* What is left of a chunk, and what is had, make up all to the end of the chunk.
InHand ==
    sync.pc = "apply" =>
        /\ dev.usn < sync.chunk.high /\ sync.chunk.high <= srv.count
        /\ sync.chunk.gone \subseteq srv.gone
        /\ \A g \in Guids : sync.chunk.at[g] > 0 =>
               sync.got[g] <= sync.chunk.at[g] /\ sync.chunk.at[g] <= srv.at[g]
        /\ \A g \in Live : srv.at[g] <= sync.chunk.high =>
               sync.chunk.at[g] = srv.at[g] \/ sync.got[g] = srv.at[g]

\* A change that the device has made on the server, until its USN is looked at: no
\* other object has this USN, and when it is looked at the change is one it had.
OnItsWay ==
    LET c == sync.call IN
    c.kind # "none" =>
        /\ sync.pc = "push" /\ c.guid \in Guids
        /\ 0 < c.usn /\ c.usn <= srv.at[c.guid]
        /\ \A g \in Guids : srv.at[g] = c.usn => g = c.guid
        /\ c.kind # "usn" => sync.got[c.guid] <= c.usn
        /\ c.kind = "usn" /\ srv.at[c.guid] = c.usn => sync.got[c.guid] = c.usn
        /\ c.kind \in {"update", "create"} => c.id \in Books /\ c.guid \in BookGuids
        /\ c.kind = "note" => /\ c.id \in Notes /\ c.guid \in NoteGuids
                              /\ dev.note[c.id].st = "here"
                              /\ dev.note[c.id].guid \in {None, c.guid}

Inv ==
    /\ TypeOK /\ KnownNames /\ Counted /\ HasUpToUsn /\ Under /\ InHand /\ OnItsWay

\* What the proofs take from the types.
LEMMA Types ==
    ASSUME TypeOK
    PROVE  /\ srv.count \in Nat /\ srv.at \in [Guids -> Nat] /\ srv.gone \subseteq Guids
           /\ dev.usn \in Nat /\ dev.ntOf \in [NoteGuids -> Notes \cup {None}]
           /\ dev.note \in [Notes -> LocalNote] /\ dev.notes \subseteq Notes
           /\ sync.got \in [Guids -> Nat] /\ sync.chunk \in Chunks
           /\ sync.chunk.high \in Nat /\ sync.chunk.count \in Nat
           /\ sync.chunk.at \in [Guids -> Nat] /\ sync.call \in Calls /\ sync.call.usn \in Nat
           /\ sync.max \in Nat
           /\ NoteGuids \subseteq Guids /\ BookGuids \subseteq Guids
           /\ \A m \in NoteGuids : m \notin BookGuids /\ m # None
<1>1. /\ srv.count \in Usns /\ srv.at \in [Guids -> Usns] /\ srv.gone \subseteq Guids
  BY DEF TypeOK, Accounts
<1>2. /\ dev.usn \in Usns /\ dev.ntOf \in [NoteGuids -> Notes \cup {None}]
      /\ dev.note \in [Notes -> LocalNote] /\ dev.notes \subseteq Notes
  BY DEF TypeOK, Devices
<1>3. /\ sync.got \in [Guids -> Usns] /\ sync.chunk \in Chunks /\ sync.call \in Calls
      /\ sync.max \in Usns
  BY DEF TypeOK, Syncs
<1>4. /\ sync.chunk.high \in Usns /\ sync.chunk.count \in Usns
      /\ sync.chunk.at \in [Guids -> Usns]
  BY <1>3 DEF Chunks
<1>5. sync.call.usn \in Usns
  BY <1>3 DEF Calls
<1>6. Usns \subseteq Nat
  BY BoundsAssumption DEF Usns
<1>7. /\ NoteGuids \subseteq Guids /\ BookGuids \subseteq Guids
      /\ \A m \in NoteGuids : m \notin BookGuids /\ m # None
  BY GuidsAssumption, NoneAssumption DEF Guids
<1> QED BY <1>1, <1>2, <1>3, <1>4, <1>5, <1>6, <1>7

LEMMA OffType ==
    ASSUME NEW got \in [Guids -> Usns]
    PROVE  /\ Off(got) \in Syncs /\ Off(got).pc = "off" /\ Off(got).got = got
           /\ Off(got).chunk.at = [g \in Guids |-> 0] /\ Off(got).call.kind = "none"
<1> USE BoundsAssumption
<1>1. NoChunk \in Chunks /\ NoCall \in Calls
  BY DEF NoChunk, NoCall, Chunks, Calls, Usns
<1> QED BY <1>1 DEF Off, Syncs, Usns, NoChunk, NoCall

\* A change on the server by someone else, while a sync is anywhere.
ServerChanges(g) ==
    /\ srv' \in Accounts /\ srv'.count = srv.count + 1
    /\ srv'.at = [srv.at EXCEPT ![g] = srv.count + 1] /\ srv.gone \subseteq srv'.gone
    /\ \A h \in BookGuids : srv'.at[h] > 0 => srv'.name[h] # None

LEMMA ServerKeeps ==
    ASSUME Inv, NEW g \in Guids, ServerChanges(g), dev' = dev,
           sync'.got = sync.got, sync'.chunk = sync.chunk
    PROVE  KnownNames' /\ Counted' /\ HasUpToUsn' /\ Under'
<1>1. TypeOK
  BY DEF Inv
<1>2. \A k \in Guids : srv'.at[k] = IF k = g THEN srv.count + 1 ELSE srv.at[k]
  BY <1>1, Types DEF ServerChanges
<1>3. KnownNames'
  BY DEF Inv, KnownNames, ServerChanges
<1>4. Counted'
  BY <1>1, <1>2, Types DEF Inv, Counted, ServerChanges
<1>5. HasUpToUsn'
  <2> SUFFICES ASSUME NEW k \in Guids, k \notin srv'.gone, srv'.at[k] > 0, srv'.at[k] <= dev.usn
               PROVE  sync.got[k] = srv'.at[k]
    BY DEF HasUpToUsn, Live, OnServer
  <2>1. dev.usn <= srv.count
    BY DEF Inv, Counted
  <2>2. k # g
    BY <1>1, <1>2, <2>1, Types
  <2>3. k \notin srv.gone
    BY DEF ServerChanges
  <2> QED BY <1>2, <2>2, <2>3 DEF Inv, HasUpToUsn, Live, OnServer
<1>6. Under'
  BY DEF Inv, Under, ServerChanges
<1> QED BY <1>3, <1>4, <1>5, <1>6

LEMMA OthersKeep ==
    ASSUME Inv, NEW g \in Guids, ServerChanges(g), UNCHANGED <<dev, sync>>
    PROVE  Inv'
<1>1. TypeOK
  BY DEF Inv
<1>2. \A k \in Guids : srv'.at[k] = IF k = g THEN srv.count + 1 ELSE srv.at[k]
  BY <1>1, Types DEF ServerChanges
<1>3. TypeOK'
  BY <1>1 DEF TypeOK, ServerChanges
<1>4. KnownNames' /\ Counted' /\ HasUpToUsn' /\ Under'
  BY ServerKeeps
<1>5. InHand'
  <2> SUFFICES ASSUME sync.pc = "apply" PROVE InHand'
    BY DEF InHand
  <2> USE <1>1, Types
  <2>1. /\ dev.usn < sync.chunk.high /\ sync.chunk.high <= srv.count
        /\ sync.chunk.gone \subseteq srv.gone
    BY DEF Inv, InHand
  <2>2. \A k \in Guids : sync.chunk.at[k] > 0 =>
               sync.got[k] <= sync.chunk.at[k] /\ sync.chunk.at[k] <= srv'.at[k]
    BY <1>2 DEF Inv, InHand, Counted
  <2>3. \A k \in Live' : srv'.at[k] <= sync.chunk.high =>
               sync.chunk.at[k] = srv'.at[k] \/ sync.got[k] = srv'.at[k]
    <3> TAKE k \in Live'
    <3> HAVE srv'.at[k] <= sync.chunk.high
    <3>1. k \in Guids /\ k \notin srv'.gone /\ srv'.at[k] > 0
      BY DEF Live, OnServer
    <3>2. k # g
      BY <1>2, <2>1, <3>1
    <3>3. k \in Live /\ srv'.at[k] = srv.at[k]
      BY <1>2, <3>1, <3>2 DEF Live, OnServer, ServerChanges
    <3> QED BY <3>3 DEF Inv, InHand
  <2> QED BY <2>1, <2>2, <2>3 DEF InHand, ServerChanges
<1>6. OnItsWay'
  <2> SUFFICES ASSUME sync.call.kind # "none" PROVE OnItsWay'
    BY DEF OnItsWay
  <2> USE <1>1, Types
  <2>1. sync.call.usn <= srv.count /\ sync.call.guid \in Guids
    BY DEF Inv, OnItsWay, Counted
  <2>2. /\ 0 < sync.call.usn /\ sync.call.usn <= srv'.at[sync.call.guid]
        /\ \A k \in Guids : srv'.at[k] = sync.call.usn => k = sync.call.guid
    BY <1>2, <2>1 DEF Inv, OnItsWay
  <2>3. srv'.at[sync.call.guid] = sync.call.usn => srv.at[sync.call.guid] = sync.call.usn
    BY <1>2, <2>1
  <2> QED BY <2>1, <2>2, <2>3 DEF Inv, OnItsWay
<1> QED BY <1>3, <1>4, <1>5, <1>6 DEF Inv

\* Objects that are named, or only changed, and of which some are expunged.
LEMMA NamedChanges ==
    ASSUME Inv, NEW h \in BookGuids, NEW x \in Names, srv.count < MaxUsn, srv' = Named(h, x)
    PROVE  ServerChanges(h)
<1>1. srv \in Accounts /\ TypeOK
  BY DEF Inv, TypeOK
<1>2. x # None
  BY NoneAssumption
<1>3. srv.name \in [BookGuids -> Names \cup {None}]
  BY <1>1 DEF Accounts
<1>4. /\ srv' \in Accounts /\ srv'.count = srv.count + 1 /\ srv'.gone = srv.gone
      /\ srv'.at = [srv.at EXCEPT ![h] = srv.count + 1]
      /\ srv'.name = [srv.name EXCEPT ![h] = x]
  BY <1>1, NamedTypes
<1>5. \A k \in BookGuids : srv'.at[k] > 0 => srv'.name[k] # None
  <2> TAKE k \in BookGuids
  <2>1. CASE k = h
    BY <1>2, <1>3, <1>4, <2>1
  <2>2. CASE k # h
    BY <1>1, <1>3, <1>4, <2>2, Types DEF Inv, KnownNames
  <2> QED BY <2>1, <2>2
<1> QED BY <1>4, <1>5 DEF ServerChanges

LEMMA NoteChanges ==
    ASSUME Inv, NEW m \in NoteGuids, srv.count < MaxUsn, srv' = Changed(m)
    PROVE  ServerChanges(m)
<1>1. srv \in Accounts /\ TypeOK /\ m \in Guids /\ m \notin BookGuids
  BY Types DEF Inv, TypeOK
<1>2. /\ srv' \in Accounts /\ srv'.count = srv.count + 1 /\ srv'.gone = srv.gone
      /\ srv'.at = [srv.at EXCEPT ![m] = srv.count + 1]
      /\ srv'.name = srv.name
  BY <1>1, ChangedTypes
<1>3. \A k \in BookGuids : srv'.at[k] > 0 => srv'.name[k] # None
  BY <1>1, <1>2, Types DEF Inv, KnownNames
<1> QED BY <1>2, <1>3 DEF ServerChanges

LEMMA ExpungeChanges ==
    ASSUME Inv, NEW g \in Guids, OtherExpunge(g)
    PROVE  ServerChanges(g)
<1>1. srv \in Accounts /\ TypeOK /\ srv.count < MaxUsn /\ srv.at[g] > 0
  BY DEF Inv, TypeOK, OtherExpunge, OnServer
<1> DEFINE c == Changed(g)
<1>2. /\ c \in Accounts /\ c.count = srv.count + 1 /\ c.gone = srv.gone
      /\ c.at = [srv.at EXCEPT ![g] = srv.count + 1]
      /\ c.name = srv.name
  BY <1>1, ChangedTypes
<1>3. srv' = [c EXCEPT !.gone = c.gone \cup {g}]
  BY DEF OtherExpunge
<1> HIDE DEF c
<1>4. /\ srv' \in Accounts /\ srv'.count = srv.count + 1 /\ srv.gone \subseteq srv'.gone
      /\ srv'.at = [srv.at EXCEPT ![g] = srv.count + 1]
      /\ srv'.name = srv.name
  BY <1>2, <1>3 DEF Accounts
<1>5. \A k \in BookGuids : srv'.at[k] > 0 => srv'.name[k] # None
  BY <1>1, <1>4, Types DEF Inv, KnownNames
<1> QED BY <1>4, <1>5 DEF ServerChanges

\* The account does not change, but for what it asks of an older device.
LEMMA ForgetKeeps ==
    ASSUME Inv, Forget
    PROVE  Inv'
<1>1. srv \in Accounts
  BY DEF Inv, TypeOK
<1>2. /\ srv' \in Accounts /\ srv'.count = srv.count /\ srv'.at = srv.at
      /\ srv'.gone = srv.gone /\ srv'.name = srv.name
  BY <1>1 DEF Forget, Accounts
<1>3. dev' = dev /\ sync' = sync
  BY DEF Forget
<1> QED
  BY <1>2, <1>3 DEF Inv, TypeOK, KnownNames, Counted, HasUpToUsn, Under, InHand, OnItsWay,
                    Live, OnServer

LEMMA KeptByOthers ==
    ASSUME Inv, Others
    PROVE  Inv'
<1>1. ASSUME NEW h \in BookGuids, NEW x \in Names, OtherBook(h, x) PROVE Inv'
  <2>1. ServerChanges(h) /\ h \in Guids
    BY <1>1, NamedChanges DEF OtherBook, Guids
  <2> QED BY <1>1, <2>1, OthersKeep DEF OtherBook
<1>2. ASSUME NEW m \in NoteGuids, OtherNote(m) PROVE Inv'
  <2>1. ServerChanges(m) /\ m \in Guids
    BY <1>2, NoteChanges DEF OtherNote, Guids
  <2> QED BY <1>2, <2>1, OthersKeep DEF OtherNote
<1>3. ASSUME NEW g \in Guids, OtherExpunge(g) PROVE Inv'
  <2>1. ServerChanges(g)
    BY <1>3, ExpungeChanges
  <2> QED BY <1>3, <2>1, OthersKeep DEF OtherExpunge
<1> QED BY <1>1, <1>2, <1>3, ForgetKeeps DEF Others

\* What the user does: notes keep their guids, and those that are here stay.
LEMMA DeviceKeeps ==
    ASSUME Inv, UNCHANGED <<srv, sync>>, dev' \in Devices, dev'.usn = dev.usn,
           dev'.ntOf = dev.ntOf,
           \A n \in Notes : /\ dev'.note[n].guid = dev.note[n].guid
                            /\ dev'.note[n].st \in {dev.note[n].st, "here"}
    PROVE  Inv'
<1>1. TypeOK /\ TypeOK'
  BY DEF Inv, TypeOK
<1>2. KnownNames' /\ Counted' /\ HasUpToUsn' /\ InHand'
  BY DEF Inv, KnownNames, Counted, HasUpToUsn, InHand, Live, OnServer
<1>3. Under'
  <2>1. \A m \in NoteGuids : dev.ntOf[m] # None => dev.ntOf[m] \in Notes
    BY <1>1, Types
  <2>2. \A m \in NoteGuids : dev'.ntOf[m] # None => dev'.note[dev'.ntOf[m]].guid = m
    BY <2>1 DEF Inv, Under
  <2> QED BY <2>2 DEF Inv, Under
<1>4. OnItsWay'
  BY DEF Inv, OnItsWay
<1> QED BY <1>1, <1>2, <1>3, <1>4 DEF Inv

LEMMA EditKeeps ==
    ASSUME Inv, NEW n \in Notes, EditNote(n)
    PROVE  Inv'
<1>1. TypeOK /\ dev \in Devices
  BY DEF Inv, TypeOK
<1> DEFINE r == [dev.note[n] EXCEPT !.st = "here"]
           note == [dev.note EXCEPT ![n] = r]
           notes == dev.notes \cup {n}
<1>2. dev.note[n] \in LocalNote
  BY <1>1, Types
<1>3. r \in LocalNote /\ r.st = "here" /\ r.guid = dev.note[n].guid
  BY <1>2 DEF LocalNote
<1>4. /\ note \in [Notes -> LocalNote]
      /\ \A k \in Notes : note[k].guid = dev.note[k].guid /\ note[k].st \in {dev.note[k].st, "here"}
  BY <1>1, <1>3, Types
<1>5. notes \in SUBSET Notes
  BY <1>1, Types
<1>6. dev' = [dev EXCEPT !.note = note, !.notes = notes] /\ UNCHANGED <<srv, sync>>
  BY DEF EditNote
<1>7. dev' \in Devices /\ dev'.usn = dev.usn /\ dev'.ntOf = dev.ntOf /\ dev'.note = note
  <2> HIDE DEF note, notes
  <2> QED BY <1>1, <1>4, <1>5, <1>6 DEF Devices
<1> QED BY <1>4, <1>6, <1>7, DeviceKeeps

LEMMA NewNotebookKeeps ==
    ASSUME Inv, NEW n \in Notes, NEW x \in Names, NewNotebook(n, x)
    PROVE  Inv'
<1>1. TypeOK /\ dev \in Devices
  BY DEF Inv, TypeOK
<1>2. PICK b \in IdsFor(dev, x) :
         dev' = [CreateNotebook(dev, b, x) EXCEPT !.note[n].nb = b, !.notes = @ \cup {n}]
  BY DEF NewNotebook
<1>3. b \in Books
  BY <1>1, <1>2, NextTypes
<1> DEFINE d == CreateNotebook(dev, b, x)
           r == [d.note[n] EXCEPT !.nb = b]
           note == [d.note EXCEPT ![n] = r]
           notes == d.notes \cup {n}
<1>4. d \in Devices /\ SameNotes(dev, d)
  BY <1>1, <1>3, CreateTypes
<1>5. dev' = [d EXCEPT !.note = note, !.notes = notes] /\ UNCHANGED <<srv, sync>>
  BY <1>2 DEF NewNotebook
<1> HIDE DEF d
<1>6. d.note[n] \in LocalNote
  BY <1>4 DEF Devices
<1>7. r \in LocalNote /\ r.st = d.note[n].st /\ r.guid = d.note[n].guid
  BY <1>3, <1>6 DEF LocalNote
<1>8. /\ note \in [Notes -> LocalNote]
      /\ \A k \in Notes : note[k].guid = d.note[k].guid /\ note[k].st = d.note[k].st
  BY <1>4, <1>7 DEF Devices
<1>9. notes \in SUBSET Notes
  BY <1>4 DEF Devices
<1>10. dev' \in Devices /\ dev'.usn = d.usn /\ dev'.ntOf = d.ntOf /\ dev'.note = note
  <2> HIDE DEF note, notes
  <2> QED BY <1>4, <1>5, <1>8, <1>9 DEF Devices
<1> QED BY <1>4, <1>5, <1>8, <1>10, DeviceKeeps DEF SameNotes

LEMMA RenameKeeps ==
    ASSUME Inv, NEW b \in Books, NEW x \in Names, RenameNotebook(b, x)
    PROVE  Inv'
<1>1. TypeOK /\ dev \in Devices
  BY DEF Inv, TypeOK
<1> DEFINE r == [dev.book[b] EXCEPT !.name = x]
           book == [dev.book EXCEPT ![b] = r]
           books == dev.books \cup {b}
           names == [y \in Names |-> IF y = x THEN b
                                     ELSE IF y = dev.book[b].name THEN None ELSE dev.names[y]]
<1>2. dev.book[b] \in LocalBook
  BY <1>1 DEF Devices
<1>3. r \in LocalBook
  BY <1>2 DEF LocalBook
<1>4. /\ book \in [Books -> LocalBook] /\ books \in SUBSET Books
      /\ names \in [Names -> Books \cup {None}]
  BY <1>1, <1>3 DEF Devices
<1>5. /\ dev' = [dev EXCEPT !.book = book, !.books = books, !.names = names]
      /\ UNCHANGED <<srv, sync>>
  BY DEF RenameNotebook
<1>6. dev' \in Devices /\ dev'.usn = dev.usn /\ dev'.ntOf = dev.ntOf /\ dev'.note = dev.note
  <2> HIDE DEF book, books, names
  <2> QED BY <1>1, <1>4, <1>5 DEF Devices
<1> QED BY <1>5, <1>6, DeviceKeeps

\* Steps of synchronize() that change nothing but where it is.
LEMMA SyncMoves ==
    ASSUME Inv, UNCHANGED <<srv, dev>>, sync' \in Syncs, sync'.got = sync.got,
           sync'.pc # "apply",
           \/ sync'.chunk = sync.chunk
           \/ sync'.chunk.at = [g \in Guids |-> 0],
           \/ sync'.call.kind = "none"
           \/ sync'.call = sync.call /\ sync'.pc = "push"
    PROVE  Inv'
<1>1. TypeOK /\ TypeOK'
  BY DEF Inv, TypeOK
<1>2. KnownNames'
  BY <1>1, Types DEF Inv, KnownNames
<1>3. Counted' /\ HasUpToUsn' /\ InHand' /\ Under'
  BY DEF Inv, Counted, HasUpToUsn, InHand, Under, Live, OnServer
<1>4. OnItsWay'
  BY DEF Inv, OnItsWay
<1> QED BY <1>1, <1>2, <1>3, <1>4 DEF Inv

LEMMA StartKeeps ==
    ASSUME Inv, SyncStart
    PROVE  Inv'
<1>1. sync \in Syncs /\ srv.count \in Usns /\ dev.full \in BOOLEAN
  BY DEF Inv, TypeOK, Accounts, Devices
<1>2. sync.call.kind = "none"
  BY DEF Inv, OnItsWay, SyncStart
<1> DEFINE full == ~dev.full \/ dev.usn = 0
<1>3. /\ sync' \in Syncs /\ sync'.got = sync.got /\ sync'.pc = "pull"
      /\ sync'.chunk = sync.chunk /\ sync'.call = sync.call
  <2>1. sync' = [sync EXCEPT !.pc = "pull", !.max = srv.count, !.full = full]
    BY DEF SyncStart
  <2>2. full \in BOOLEAN
    BY <1>1
  <2> HIDE DEF full
  <2> QED BY <1>1, <2>1, <2>2 DEF Syncs
<1> QED BY <1>2, <1>3, SyncMoves DEF SyncStart

LEMMA PushStartKeeps ==
    ASSUME Inv, PushStart
    PROVE  Inv'
<1>1. sync \in Syncs /\ dev.books \subseteq Books /\ dev.notes \subseteq Notes /\ 0 \in Usns
  BY BoundsAssumption DEF Inv, TypeOK, Devices, Usns
<1>2. sync.call.kind = "none"
  BY DEF Inv, OnItsWay, PushStart
<1>3. /\ sync' \in Syncs /\ sync'.got = sync.got /\ sync'.pc = "push"
      /\ sync'.chunk = sync.chunk /\ sync'.call = sync.call
  BY <1>1 DEF PushStart, Syncs
<1> QED BY <1>2, <1>3, SyncMoves DEF PushStart

LEMMA EndKeeps ==
    ASSUME Inv, SyncDone \/ SyncFails
    PROVE  Inv'
<1>1. sync.got \in [Guids -> Usns] /\ UNCHANGED <<srv, dev>> /\ sync' = Off(sync.got)
  BY DEF Inv, TypeOK, Syncs, SyncDone, SyncFails
<1> QED BY <1>1, OffType, SyncMoves

LEMMA PassOverKeeps ==
    ASSUME Inv, NEW n \in Notes, PassOver(n)
    PROVE  Inv'
<1>1. sync \in Syncs
  BY DEF Inv, TypeOK
<1> DEFINE notes == sync.notes \ {n}
<1>2. sync' = [sync EXCEPT !.notes = notes] /\ sync.pc = "push" /\ notes \in SUBSET Notes
  BY <1>1 DEF PassOver, Pushing, Syncs
<1>3. /\ sync' \in Syncs /\ sync'.got = sync.got /\ sync'.pc = "push"
      /\ sync'.chunk = sync.chunk /\ sync'.call = sync.call
  <2> HIDE DEF notes
  <2> QED BY <1>1, <1>2 DEF Syncs
<1> QED BY <1>3, SyncMoves DEF PassOver

LEMMA ChunkKeeps ==
    ASSUME Inv, GetSyncChunk
    PROVE  Inv'
<1>1. TypeOK /\ sync \in Syncs /\ srv \in Accounts
  BY DEF Inv, TypeOK
<1>2. PICK high \in (dev.usn + 1)..srv.count :
         sync' = [sync EXCEPT !.pc = "apply", !.chunk = ChunkTo(high)]
  BY DEF GetSyncChunk
<1>3. UNCHANGED <<srv, dev>> /\ sync.pc = "pull"
  BY DEF GetSyncChunk
<1> DEFINE in == {g \in Later(dev.usn, sync.full) : srv.at[g] <= high}
           at == [g \in Guids |-> IF g \in in THEN srv.at[g] ELSE 0]
           gone == in \cap srv.gone
           name == [h \in BookGuids |-> IF h \in in THEN srv.name[h] ELSE None]
           c == ChunkTo(high)
<1>4. /\ high \in Usns /\ dev.usn < high /\ high <= srv.count /\ srv.count \in Usns
      /\ srv.at \in [Guids -> Usns] /\ 0 \in Usns
      /\ srv.name \in [BookGuids -> Names \cup {None}]
  <2>1. srv.count \in Usns /\ srv.at \in [Guids -> Usns] /\ srv.name \in [BookGuids -> Names \cup {None}]
    BY <1>1 DEF Accounts
  <2> QED BY <1>1, <2>1, Types, BoundsAssumption DEF Usns
<1>5. /\ at \in [Guids -> Usns] /\ gone \subseteq Guids /\ gone \subseteq srv.gone
      /\ name \in [BookGuids -> Names \cup {None}]
  BY <1>4 DEF Later
<1>6. c = [high |-> high, count |-> srv.count, at |-> at, gone |-> gone, name |-> name]
  BY DEF ChunkTo
<1>7. /\ \A g \in Guids : at[g] > 0 => at[g] = srv.at[g]
      /\ \A g \in Live : dev.usn < srv.at[g] /\ srv.at[g] <= high => at[g] = srv.at[g]
      /\ \A h \in BookGuids : at[h] > 0 => name[h] # None
  <2>1. \A g \in Live : g \in Guids /\ g \notin srv.gone
    BY DEF Live, OnServer
  <2>2. \A h \in BookGuids : h \in Guids /\ (srv.at[h] > 0 => srv.name[h] # None)
    BY DEF Inv, KnownNames, Guids
  <2> QED BY <1>4, <2>1, <2>2 DEF Later
<1>8. /\ sync' \in Syncs /\ sync'.got = sync.got /\ sync'.call = sync.call /\ sync'.pc = "apply"
      /\ sync'.chunk.high = high /\ sync'.chunk.count = srv.count /\ sync'.chunk.at = at
      /\ sync'.chunk.gone = gone /\ sync'.chunk.name = name
  <2>1. c \in Chunks
    <3> HIDE DEF at, gone, name, c
    <3> QED BY <1>4, <1>5, <1>6 DEF Chunks
  <2> HIDE DEF at, gone, name, c
  <2>2. sync' = [sync EXCEPT !.pc = "apply", !.chunk = c]
    BY <1>2 DEF c
  <2> QED BY <1>1, <1>6, <2>1, <2>2 DEF Syncs
<1> HIDE DEF at, gone, name, c, in
<1>9. TypeOK'
  BY <1>1, <1>3, <1>8 DEF TypeOK
<1>10. KnownNames'
  BY <1>3, <1>7, <1>8 DEF Inv, KnownNames
<1>11. Counted' /\ HasUpToUsn' /\ Under'
  BY <1>3, <1>8 DEF Inv, Counted, HasUpToUsn, Under, Live, OnServer
<1>12. OnItsWay'
  BY <1>3, <1>8 DEF Inv, OnItsWay
<1>13. InHand'
  <2>1. \A g \in Guids : at[g] > 0 => sync.got[g] <= at[g] /\ at[g] <= srv.at[g]
    BY <1>1, <1>7, Types DEF Inv, Counted
  <2>2. \A g \in Live : srv.at[g] <= high => at[g] = srv.at[g] \/ sync.got[g] = srv.at[g]
    <3> TAKE g \in Live
    <3> HAVE srv.at[g] <= high
    <3>1. g \in Guids
      BY DEF Live
    <3>2. CASE srv.at[g] <= dev.usn
      BY <3>2 DEF Inv, HasUpToUsn
    <3>3. CASE dev.usn < srv.at[g]
      BY <1>7, <3>3
    <3> QED BY <1>1, <3>1, <3>2, <3>3, Types
  <2>3. Live' = Live
    BY <1>3 DEF Live, OnServer
  <2> QED BY <1>3, <1>4, <1>5, <1>8, <2>1, <2>2, <2>3 DEF InHand
<1> QED BY <1>9, <1>10, <1>11, <1>12, <1>13 DEF Inv

\* An object of the chunk is taken over, whatever becomes of the device's notes, as
\* long as they agree with the guids and this one is known unless it is expunged.
LEMMA AppliedKeeps ==
    ASSUME Inv, sync.pc = "apply", NEW g \in InChunk, srv' = srv, sync' = Applied(g),
           dev' \in Devices, dev'.usn = dev.usn,
           \A m \in NoteGuids :
              /\ dev'.ntOf[m] # None => dev'.note[dev'.ntOf[m]].guid = m
              /\ m \notin srv.gone =>
                    /\ dev.ntOf[m] # None => dev'.ntOf[m] # None
                    /\ m = g => dev'.ntOf[m] # None,
           \A n \in Notes : dev'.note[n].st = "unused" => dev'.note[n].guid = None
    PROVE  Inv'
<1>1. TypeOK /\ sync \in Syncs
  BY DEF Inv, TypeOK
<1> USE <1>1, Types
<1>2. g \in Guids /\ sync.chunk.at[g] > 0
  BY DEF InChunk
<1> DEFINE at == [sync.chunk.at EXCEPT ![g] = 0]
           chunk == [sync.chunk EXCEPT !.at = at]
           got == [sync.got EXCEPT ![g] = sync.chunk.at[g]]
<1>3. /\ sync.chunk.at \in [Guids -> Usns] /\ sync.got \in [Guids -> Usns] /\ 0 \in Usns
  <2>1. sync.chunk.at \in [Guids -> Usns] /\ sync.got \in [Guids -> Usns]
    BY DEF Chunks, Syncs
  <2> QED BY <2>1, BoundsAssumption DEF Usns
<1>4. at \in [Guids -> Usns] /\ got \in [Guids -> Usns]
  BY <1>2, <1>3
<1>5. /\ \A k \in Guids : at[k] = IF k = g THEN 0 ELSE sync.chunk.at[k]
      /\ \A k \in Guids : got[k] = IF k = g THEN sync.chunk.at[k] ELSE sync.got[k]
  BY <1>3
<1>6. sync' = [sync EXCEPT !.chunk = chunk, !.got = got]
  BY DEF Applied
<1> HIDE DEF at, got
<1>7. /\ chunk \in Chunks /\ chunk.at = at /\ chunk.high = sync.chunk.high
      /\ chunk.gone = sync.chunk.gone /\ chunk.name = sync.chunk.name
      /\ chunk.count = sync.chunk.count
  BY <1>4 DEF Chunks
<1> HIDE DEF chunk
<1>8. /\ sync' \in Syncs /\ sync'.got = got /\ sync'.chunk = chunk /\ sync'.pc = "apply"
      /\ sync'.call = sync.call
  BY <1>4, <1>6, <1>7 DEF Syncs
<1>9. TypeOK'
  BY <1>8 DEF TypeOK
<1>10. KnownNames'
  BY <1>5, <1>7, <1>8 DEF Inv, KnownNames
<1>11. /\ sync.got[g] <= sync.chunk.at[g] /\ sync.chunk.at[g] <= srv.at[g]
       /\ srv.at[g] <= srv.count
  BY <1>2 DEF Inv, InHand, Counted
<1>12. Counted'
  BY <1>2, <1>5, <1>8, <1>11 DEF Inv, Counted
<1>13. HasUpToUsn'
  <2> SUFFICES ASSUME NEW k \in Live, srv.at[k] <= dev.usn
               PROVE  got[k] = srv.at[k]
    BY <1>8 DEF HasUpToUsn, Live, OnServer
  <2>1. k \in Guids /\ sync.got[k] = srv.at[k]
    BY DEF Inv, HasUpToUsn, Live
  <2> QED BY <1>3, <1>5, <1>11, <2>1
<1>14. Under'
  BY <1>5, <1>8 DEF Inv, Under
<1>15. InHand'
  <2>1. \A k \in Guids : at[k] > 0 => got[k] <= at[k] /\ at[k] <= srv.at[k]
    BY <1>5 DEF Inv, InHand
  <2>2. \A k \in Live : srv.at[k] <= sync.chunk.high => at[k] = srv.at[k] \/ got[k] = srv.at[k]
    <3> TAKE k \in Live
    <3> HAVE srv.at[k] <= sync.chunk.high
    <3>1. k \in Guids
      BY DEF Live
    <3>2. sync.chunk.at[k] = srv.at[k] \/ sync.got[k] = srv.at[k]
      BY DEF Inv, InHand
    <3> QED BY <1>5, <1>11, <3>1, <3>2
  <2>3. Live' = Live
    BY DEF Live, OnServer
  <2> QED BY <1>7, <1>8, <2>1, <2>2, <2>3 DEF Inv, InHand
<1>16. OnItsWay'
  BY <1>8 DEF Inv, OnItsWay
<1> QED BY <1>9, <1>10, <1>12, <1>13, <1>14, <1>15, <1>16 DEF Inv

LEMMA NotebookKeeps ==
    ASSUME Inv, NEW h \in BookGuids, ApplyNotebook(h)
    PROVE  Inv'
<1>1. /\ TypeOK /\ dev \in Devices /\ h \in InChunk /\ sync.pc = "apply"
      /\ srv' = srv /\ sync' = Applied(h)
  BY DEF Inv, TypeOK, ApplyNotebook
<1> DEFINE x == sync.chunk.name[h]
<1>2. x \in Names \cup {None} /\ x # None
  BY <1>1, Types DEF Chunks, Inv, KnownNames, InChunk
<1>3. dev' \in SetSyncedNotebookData(dev, h, x)
  BY DEF ApplyNotebook
<1> HIDE DEF x
<1>4. dev' \in Devices /\ SameNotes(dev, dev')
  BY <1>1, <1>2, <1>3, SyncedNotebookTypes
<1>5. h \notin NoteGuids
  BY <1>1, Types
<1> QED BY <1>1, <1>4, <1>5, AppliedKeeps DEF Inv, Under, SameNotes

LEMMA NoteKeeps ==
    ASSUME Inv, NEW m \in NoteGuids, ApplyNote(m)
    PROVE  Inv'
<1>1. /\ TypeOK /\ dev \in Devices /\ m \in InChunk /\ sync.pc = "apply"
      /\ srv' = srv /\ sync' = Applied(m) /\ dev' \in SetSyncedNoteGist(dev, m)
  BY DEF Inv, TypeOK, ApplyNote
<1> USE <1>1, Types
<1>2. CASE dev.ntOf[m] # None
  <2>1. dev' = dev
    BY <1>2 DEF SetSyncedNoteGist
  <2> QED BY <1>2, <2>1, AppliedKeeps DEF Inv, Under
<1>3. CASE dev.ntOf[m] = None
  <2>1. dev' \in Devices /\ dev'.usn = dev.usn
    BY <1>3, SyncedNoteTypes
  <2>2. PICK n \in Notes : Adds(dev, dev', n, m)
    BY <1>3, SyncedNoteTypes
  <2>3. n # None
    BY NoneAssumption
  <2>4. /\ dev'.ntOf[m] = n /\ dev'.note[n].guid = m /\ dev'.note[n].st = "here"
        /\ \A k \in NoteGuids \ {m} : dev'.ntOf[k] = dev.ntOf[k]
        /\ \A l \in Notes \ {n} : dev'.note[l] = dev.note[l]
    BY <2>2 DEF Adds
  <2>5. \A k \in NoteGuids : dev.ntOf[k] # n
    <3>1. dev.note[n].guid = None
      BY <2>2 DEF Adds, Inv, Under
    <3> QED BY <2>3, <3>1 DEF Inv, Under
  <2>6. \A k \in NoteGuids : dev'.ntOf[k] # None => dev'.note[dev'.ntOf[k]].guid = k
    <3> TAKE k \in NoteGuids
    <3> HAVE dev'.ntOf[k] # None
    <3>1. CASE k = m
      BY <2>4, <3>1
    <3>2. CASE k # m
      <4>1. dev'.ntOf[k] = dev.ntOf[k] /\ dev.ntOf[k] \in Notes \ {n}
        BY <2>4, <2>5, <3>2
      <4> QED BY <2>4, <4>1 DEF Inv, Under
    <3> QED BY <3>1, <3>2
  <2>7. \A l \in Notes : dev'.note[l].st = "unused" => dev'.note[l].guid = None
    BY <2>4 DEF Inv, Under
  <2>8. \A k \in NoteGuids : /\ dev.ntOf[k] # None => dev'.ntOf[k] # None
                             /\ k = m => dev'.ntOf[k] # None
    BY <2>3, <2>4
  <2> QED BY <2>1, <2>6, <2>7, <2>8, AppliedKeeps
<1> QED BY <1>2, <1>3

LEMMA ExpungedKeeps ==
    ASSUME Inv, NEW g \in Guids, ApplyExpunged(g)
    PROVE  Inv'
<1>1. /\ TypeOK /\ dev \in Devices /\ g \in InChunk /\ sync.pc = "apply"
      /\ srv' = srv /\ sync' = Applied(g)
  BY DEF Inv, TypeOK, ApplyExpunged
<1> USE <1>1, Types
<1>2. g \in srv.gone
  BY DEF ApplyExpunged, Inv, InHand
<1>3. CASE g \in NoteGuids /\ dev.ntOf[g] # None /\ dev' = ExpungeNote(dev, dev.ntOf[g])
  <2> DEFINE n == dev.ntOf[g]
  <2>1. n \in Notes /\ dev.note[n].guid = g
    BY <1>3 DEF Inv, Under
  <2>2. /\ dev' \in Devices /\ dev'.usn = dev.usn
        /\ dev'.note = [dev.note EXCEPT ![n] = [st |-> "gone", guid |-> None, nb |-> None]]
        /\ dev'.ntOf = [m \in NoteGuids |-> IF m = dev.note[n].guid THEN None ELSE dev.ntOf[m]]
    BY <1>3, <2>1, ExpungeNoteTypes
  <2> HIDE DEF n
  <2>3. /\ \A m \in NoteGuids : dev'.ntOf[m] = IF m = g THEN None ELSE dev.ntOf[m]
        /\ \A l \in Notes \ {n} : dev'.note[l] = dev.note[l]
        /\ dev'.note[n].st = "gone"
    BY <2>1, <2>2
  <2>4. \A m \in NoteGuids : dev'.ntOf[m] # None => dev'.note[dev'.ntOf[m]].guid = m
    <3> TAKE m \in NoteGuids
    <3> HAVE dev'.ntOf[m] # None
    <3>1. m # g /\ dev'.ntOf[m] = dev.ntOf[m] /\ dev.ntOf[m] # None /\ dev.ntOf[m] \in Notes
      BY <2>3
    <3>2. dev.note[dev.ntOf[m]].guid = m
      BY <3>1 DEF Inv, Under
    <3>3. dev.ntOf[m] # n
      BY <2>1, <3>1, <3>2
    <3> QED BY <2>3, <3>1, <3>2, <3>3
  <2>5. \A l \in Notes : dev'.note[l].st = "unused" => dev'.note[l].guid = None
    BY <2>3 DEF Inv, Under
  <2> QED BY <1>2, <2>2, <2>3, <2>4, <2>5, AppliedKeeps
<1>4. CASE g \in BookGuids /\ dev.nbOf[g] # None /\ dev' = ExpungeNotebook(dev, dev.nbOf[g])
  <2>1. dev.nbOf[g] \in Books
    BY <1>4 DEF Devices
  <2>2. /\ dev' \in Devices /\ dev'.usn = dev.usn /\ dev'.ntOf = dev.ntOf
        /\ \A n \in Notes : dev'.note[n].st = dev.note[n].st /\ dev'.note[n].guid = dev.note[n].guid
    BY <1>4, <2>1, ExpungeNotebookTypes
  <2>3. \A m \in NoteGuids : dev'.ntOf[m] # None => dev'.note[dev'.ntOf[m]].guid = m
    BY <2>2 DEF Inv, Under
  <2> QED BY <1>2, <2>2, <2>3, AppliedKeeps DEF Inv, Under
<1>5. CASE UNCHANGED dev
  BY <1>2, <1>5, AppliedKeeps DEF Inv, Under
<1> QED BY <1>3, <1>4, <1>5 DEF ApplyExpunged

LEMMA CheckpointKeeps ==
    ASSUME Inv, Checkpoint
    PROVE  Inv'
<1>1. TypeOK /\ sync \in Syncs /\ dev \in Devices /\ sync.pc = "apply"
  BY DEF Inv, TypeOK, Checkpoint
<1> USE <1>1, Types
<1>2. sync.chunk.high \in Usns /\ sync.chunk.count \in Usns
  BY DEF Chunks
<1>3. NoChunk \in Chunks /\ NoChunk.at = [g \in Guids |-> 0]
  BY BoundsAssumption DEF NoChunk, Chunks, Usns
<1>4. /\ dev' \in Devices /\ dev'.usn = sync.chunk.high
      /\ dev'.note = dev.note /\ dev'.ntOf = dev.ntOf
  BY <1>2 DEF Checkpoint, Devices
<1>5. /\ sync' \in Syncs /\ sync'.pc = "pull" /\ sync'.chunk = NoChunk
      /\ sync'.got = sync.got /\ sync'.call = sync.call
  BY <1>2, <1>3 DEF Checkpoint, Syncs
<1>6. srv' = srv
  BY DEF Checkpoint
<1>7. \A g \in Live : srv.at[g] <= sync.chunk.high => sync.got[g] = srv.at[g]
  <2> TAKE g \in Live
  <2>1. g \in Guids /\ srv.at[g] > 0
    BY DEF Live, OnServer
  <2>2. ~(sync.chunk.at[g] > 0)
    BY <2>1 DEF Checkpoint, InChunk
  <2> QED BY <2>1, <2>2 DEF Inv, InHand
<1>8. TypeOK' /\ KnownNames' /\ Under'
  BY <1>3, <1>4, <1>5, <1>6 DEF Inv, TypeOK, KnownNames, Under
<1>9. Counted' /\ HasUpToUsn'
  BY <1>4, <1>5, <1>6, <1>7 DEF Inv, InHand, Counted, HasUpToUsn, Live, OnServer
<1>10. InHand' /\ OnItsWay'
  BY <1>5 DEF Inv, InHand, OnItsWay
<1> QED BY <1>8, <1>9, <1>10 DEF Inv

\* The device changes object g on the server, by a call that is now on its way.
LEMMA CallKeeps ==
    ASSUME Inv, Pushing, NEW g \in Guids, ServerChanges(g), dev' = dev,
           NEW kind \in {"update", "create", "note"}, NEW id \in Books \cup Notes,
           srv.count < MaxUsn, sync' \in Syncs, sync'.pc = "push", sync'.got = sync.got,
           sync'.chunk = sync.chunk, sync'.call = Call(kind, id, g),
           kind \in {"update", "create"} => id \in Books /\ g \in BookGuids,
           kind = "note" => /\ id \in Notes /\ g \in NoteGuids /\ dev.note[id].st = "here"
                            /\ dev.note[id].guid \in {None, g}
    PROVE  Inv'
<1>1. TypeOK
  BY DEF Inv
<1> USE <1>1, Types
<1>2. TypeOK'
  BY DEF TypeOK, ServerChanges
<1>3. KnownNames' /\ Counted' /\ HasUpToUsn' /\ Under'
  BY ServerKeeps
<1>4. InHand'
  BY DEF InHand
<1>5. \A k \in Guids : srv'.at[k] = IF k = g THEN srv.count + 1 ELSE srv.at[k]
  BY DEF ServerChanges
<1>6. /\ sync'.call.kind = kind /\ sync'.call.id = id /\ sync'.call.guid = g
      /\ sync'.call.usn = srv.count + 1
  BY DEF Call
<1>7. /\ \A k \in Guids : srv'.at[k] = srv.count + 1 => k = g
      /\ sync.got[g] <= srv.count + 1 /\ 0 < srv.count + 1
      /\ srv.count + 1 <= srv'.at[g]
  BY <1>5 DEF Inv, Counted
<1>8. OnItsWay'
  BY <1>6, <1>7 DEF OnItsWay
<1> QED BY <1>2, <1>3, <1>4, <1>8 DEF Inv

\* The calls are well formed.
LEMMA CallTypes ==
    ASSUME Inv, NEW kind \in {"update", "create", "note"}, NEW id \in Books \cup Notes,
           NEW g \in Guids, srv.count < MaxUsn
    PROVE  Call(kind, id, g) \in Calls
<1>1. srv.count + 1 \in Usns
  BY BoundsAssumption DEF Inv, TypeOK, Accounts, Usns
<1> QED BY <1>1 DEF Call, Calls

LEMMA PushNotebookKeeps ==
    ASSUME Inv, NEW b \in Books, PushNotebook(b)
    PROVE  Inv'
<1>1. TypeOK /\ sync \in Syncs /\ dev \in Devices /\ dev' = dev /\ Pushing
  BY DEF Inv, TypeOK, PushNotebook
<1> DEFINE books == sync.books \ {b}
           nb == dev.book[b]
<1>2. books \in SUBSET Books /\ nb \in LocalBook
  BY <1>1 DEF Syncs, Devices
<1>3. CASE UNCHANGED srv /\ sync' = [sync EXCEPT !.books = books]
  <2>1. /\ sync' \in Syncs /\ sync'.got = sync.got /\ sync'.pc = "push"
        /\ sync'.chunk = sync.chunk /\ sync'.call = sync.call
    <3> HIDE DEF books
    <3> QED BY <1>1, <1>2, <1>3 DEF Syncs, Pushing
  <2> QED BY <1>1, <1>3, <2>1, SyncMoves
<1>4. CASE /\ nb.name # None /\ nb.guid # None /\ srv.count < MaxUsn
           /\ srv' = Named(nb.guid, nb.name)
           /\ sync' = [sync EXCEPT !.books = books, !.call = Call("update", b, nb.guid)]
  <2>1. nb.guid \in BookGuids /\ nb.name \in Names
    BY <1>2, <1>4 DEF LocalBook
  <2>2. nb.guid \in Guids
    BY <2>1 DEF Guids
  <2> HIDE DEF nb
  <2>3. Call("update", b, nb.guid) \in Calls
    BY <1>4, <2>2, CallTypes
  <2>4. /\ sync' \in Syncs /\ sync'.got = sync.got /\ sync'.pc = "push"
        /\ sync'.chunk = sync.chunk /\ sync'.call = Call("update", b, nb.guid)
    <3> DEFINE c == Call("update", b, nb.guid)
    <3> HIDE DEF books, c
    <3>1. sync' = [sync EXCEPT !.books = books, !.call = c] /\ c \in Calls
      BY <1>4, <2>3 DEF c
    <3> QED BY <1>1, <1>2, <3>1 DEF Syncs, Pushing, c
  <2>5. ServerChanges(nb.guid)
    BY <1>4, <2>1, NamedChanges
  <2> QED BY <1>1, <1>4, <2>1, <2>2, <2>4, <2>5, CallKeeps
<1> QED BY <1>3, <1>4 DEF PushNotebook

LEMMA PushNewNotebookKeeps ==
    ASSUME Inv, NEW n \in Notes, PushNewNotebook(n)
    PROVE  Inv'
<1>1. TypeOK /\ sync \in Syncs /\ dev \in Devices /\ dev' = dev /\ Pushing /\ srv.count < MaxUsn
  BY DEF Inv, TypeOK, PushNewNotebook
<1> DEFINE b == dev.note[n].nb
           x == dev.book[b].name
<1>2. PICK h \in BookGuids : /\ srv' = Named(h, x)
                             /\ sync' = [sync EXCEPT !.call = Call("create", b, h)]
  BY DEF PushNewNotebook
<1>3. b # None /\ x # None
  BY DEF PushNewNotebook, NeedsNotebook
<1>4. b \in Books
  <2>1. dev.note[n] \in LocalNote
    BY <1>1, Types
  <2> QED BY <1>3, <2>1 DEF LocalNote
<1>5. x \in Names
  <2>1. dev.book[b] \in LocalBook
    BY <1>1, <1>4 DEF Devices
  <2> QED BY <1>3, <2>1 DEF LocalBook
<1> HIDE DEF b, x
<1>6. h \in Guids
  BY DEF Guids
<1> DEFINE c == Call("create", b, h)
<1>7. c \in Calls
  BY <1>1, <1>4, <1>6, CallTypes
<1>8. /\ sync' \in Syncs /\ sync'.got = sync.got /\ sync'.pc = "push"
      /\ sync'.chunk = sync.chunk /\ sync'.call = c
  <2> HIDE DEF c
  <2> QED BY <1>1, <1>2, <1>7 DEF Syncs, Pushing, c
<1>9. ServerChanges(h)
  BY <1>1, <1>2, <1>5, NamedChanges
<1> QED BY <1>1, <1>4, <1>6, <1>8, <1>9, CallKeeps

LEMMA PushNoteKeeps ==
    ASSUME Inv, NEW n \in Notes, PushNote(n)
    PROVE  Inv'
<1>1. /\ TypeOK /\ sync \in Syncs /\ dev' = dev /\ Pushing /\ srv.count < MaxUsn
      /\ dev.note[n].st = "here"
  BY DEF Inv, TypeOK, PushNote
<1> DEFINE notes == sync.notes \ {n}
<1>2. PICK m \in NoteGuids :
         /\ IF dev.note[n].guid = None THEN srv.at[m] = 0
            ELSE m = dev.note[n].guid /\ OnServer(m)
         /\ srv' = Changed(m)
         /\ sync' = [sync EXCEPT !.notes = notes, !.call = Call("note", n, m)]
  BY DEF PushNote
<1>3. m \in Guids /\ dev.note[n].guid \in {None, m}
  BY <1>2 DEF Guids
<1> DEFINE c == Call("note", n, m)
<1>4. c \in Calls /\ notes \in SUBSET Notes
  BY <1>1, <1>3, CallTypes DEF Syncs
<1>5. /\ sync' \in Syncs /\ sync'.got = sync.got /\ sync'.pc = "push"
      /\ sync'.chunk = sync.chunk /\ sync'.call = c
  <2> HIDE DEF c, notes
  <2> QED BY <1>1, <1>2, <1>4 DEF Syncs, Pushing, c
<1>6. ServerChanges(m)
  BY <1>1, <1>2, NoteChanges
<1> QED BY <1>1, <1>3, <1>5, <1>6, CallKeeps

\* The answer has come: the device has the change.
LEMMA HadKeeps ==
    ASSUME Inv, sync.call.kind \in {"update", "create", "note"}, srv' = srv,
           sync' = [sync EXCEPT !.call.kind = "usn", !.got[sync.call.guid] = sync.call.usn],
           dev' \in Devices, dev'.usn = dev.usn,
           \A m \in NoteGuids :
              /\ dev'.ntOf[m] # None => dev'.note[dev'.ntOf[m]].guid = m
              /\ dev.ntOf[m] # None => dev'.ntOf[m] # None
              /\ m = sync.call.guid => dev'.ntOf[m] # None,
           \A n \in Notes : dev'.note[n].st = "unused" => dev'.note[n].guid = None
    PROVE  Inv'
<1>1. TypeOK /\ sync \in Syncs
  BY DEF Inv, TypeOK
<1> USE <1>1, Types
<1> DEFINE g == sync.call.guid
           c == [sync.call EXCEPT !.kind = "usn"]
           got == [sync.got EXCEPT ![g] = sync.call.usn]
<1>2. /\ g \in Guids /\ 0 < sync.call.usn /\ sync.call.usn <= srv.at[g]
      /\ sync.got[g] <= sync.call.usn /\ sync.pc = "push"
      /\ \A k \in Guids : srv.at[k] = sync.call.usn => k = g
  BY DEF Inv, OnItsWay
<1>3. c \in Calls /\ c.kind = "usn" /\ c.guid = g /\ c.usn = sync.call.usn
  BY DEF Calls
<1>4. /\ got \in [Guids -> Usns]
      /\ \A k \in Guids : got[k] = IF k = g THEN sync.call.usn ELSE sync.got[k]
  <2>1. sync.got \in [Guids -> Usns] /\ sync.call.usn \in Usns
    BY DEF Syncs, Calls
  <2> QED BY <1>2, <2>1
<1>5. sync' = [sync EXCEPT !.call = c, !.got = got]
  OBVIOUS
<1> HIDE DEF c, got
<1>6. /\ sync' \in Syncs /\ sync'.got = got /\ sync'.call = c /\ sync'.pc = sync.pc
      /\ sync'.chunk = sync.chunk
  BY <1>3, <1>4, <1>5 DEF Syncs
<1> HIDE DEF g
<1>7. TypeOK' /\ KnownNames'
  BY <1>6 DEF Inv, TypeOK, KnownNames
<1>8. Counted'
  BY <1>2, <1>4, <1>6 DEF Inv, Counted
<1>9. HasUpToUsn'
  <2> SUFFICES ASSUME NEW k \in Live, srv.at[k] <= dev.usn
               PROVE  got[k] = srv.at[k]
    BY <1>6 DEF HasUpToUsn, Live, OnServer
  <2>1. k \in Guids /\ sync.got[k] = srv.at[k]
    BY DEF Inv, HasUpToUsn, Live
  <2> QED BY <1>2, <1>4, <2>1
<1>10. Under'
  BY <1>4, <1>6 DEF Inv, Under, g
<1>11. InHand'
  BY <1>2, <1>6 DEF InHand
<1>12. OnItsWay'
  BY <1>2, <1>3, <1>4, <1>6 DEF OnItsWay
<1> QED BY <1>7, <1>8, <1>9, <1>10, <1>11, <1>12 DEF Inv

LEMMA AnsweredKeeps ==
    ASSUME Inv, Answered
    PROVE  Inv'
<1> DEFINE id == sync.call.id
           g == sync.call.guid
<1>1. /\ TypeOK /\ dev \in Devices /\ sync.call.kind \in {"update", "create", "note"}
      /\ srv' = srv
      /\ sync' = [sync EXCEPT !.call.kind = "usn", !.got[sync.call.guid] = sync.call.usn]
  BY DEF Inv, TypeOK, Answered
<1> USE <1>1, Types
<1>2. CASE sync.call.kind = "update" /\ dev' = [dev EXCEPT !.books = @ \ {id}]
  <2> DEFINE books == dev.books \ {id}
  <2>1. books \in SUBSET Books /\ dev' = [dev EXCEPT !.books = books] /\ g \notin NoteGuids
    BY <1>2 DEF Devices, Inv, OnItsWay
  <2>2. /\ dev' \in Devices /\ dev'.usn = dev.usn /\ dev'.note = dev.note
        /\ dev'.ntOf = dev.ntOf
    <3> HIDE DEF books
    <3> QED BY <2>1 DEF Devices
  <2> QED BY <2>1, <2>2, HadKeeps DEF Inv, Under
<1>3. CASE sync.call.kind = "create" /\ dev' = SetNotebookGuid(dev, id, g)
  <2>1. id \in Books /\ g \in BookGuids /\ g \notin NoteGuids
    BY <1>3 DEF Inv, OnItsWay
  <2>2. dev' \in Devices /\ SameNotes(dev, dev')
    BY <1>3, <2>1, SetGuidTypes
  <2> QED BY <2>1, <2>2, HadKeeps DEF Inv, Under, SameNotes
<1>4. CASE /\ sync.call.kind = "note"
           /\ dev' = [dev EXCEPT !.note[id].guid = g, !.ntOf[g] = id, !.notes = @ \ {id}]
  <2>1. /\ id \in Notes /\ g \in NoteGuids /\ dev.note[id].st = "here"
        /\ dev.note[id].guid \in {None, g}
    BY <1>4 DEF Inv, OnItsWay
  <2> HIDE DEF id, g
  <2> DEFINE r == [dev.note[id] EXCEPT !.guid = g]
             note == [dev.note EXCEPT ![id] = r]
             ntOf == [dev.ntOf EXCEPT ![g] = id]
             notes == dev.notes \ {id}
  <2>2. dev.note[id] \in LocalNote
    BY <2>1
  <2>3. r \in LocalNote /\ r.st = "here" /\ r.guid = g
    BY <2>1, <2>2 DEF LocalNote
  <2>4. /\ note \in [Notes -> LocalNote] /\ note[id].st = "here" /\ note[id].guid = g
        /\ \A n \in Notes \ {id} : note[n] = dev.note[n]
    BY <2>1, <2>3
  <2>5. /\ ntOf \in [NoteGuids -> Notes \cup {None}] /\ ntOf[g] = id
        /\ \A m \in NoteGuids \ {g} : ntOf[m] = dev.ntOf[m]
    BY <2>1
  <2>6. notes \in SUBSET Notes
    OBVIOUS
  <2>7. dev' = [dev EXCEPT !.note = note, !.ntOf = ntOf, !.notes = notes]
    BY <1>4 DEF id, g
  <2>8. /\ dev' \in Devices /\ dev'.usn = dev.usn /\ dev'.note = note /\ dev'.ntOf = ntOf
    <3> HIDE DEF note, ntOf, notes
    <3> QED BY <2>4, <2>5, <2>6, <2>7 DEF Devices
  <2> HIDE DEF note, ntOf, notes
  <2>9. id # None
    BY <2>1, NoneAssumption
  <2>10. \A m \in NoteGuids : ntOf[m] # None => note[ntOf[m]].guid = m
    <3> TAKE m \in NoteGuids
    <3> HAVE ntOf[m] # None
    <3>1. CASE m = g
      BY <2>4, <2>5, <3>1
    <3>2. CASE m # g
      <4>1. /\ ntOf[m] = dev.ntOf[m] /\ dev.ntOf[m] \in Notes
            /\ dev.note[dev.ntOf[m]].guid = m
        BY <2>5, <3>2 DEF Inv, Under
      <4>2. dev.ntOf[m] # id
        BY <2>1, <3>2, <4>1
      <4> QED BY <2>4, <4>1, <4>2
    <3> QED BY <3>1, <3>2
  <2>11. \A m \in NoteGuids : /\ dev.ntOf[m] # None => ntOf[m] # None
                              /\ m = g => ntOf[m] # None
    BY <2>5, <2>9
  <2>12. \A n \in Notes : note[n].st = "unused" => note[n].guid = None
    BY <2>4 DEF Inv, Under
  <2> QED BY <2>8, <2>10, <2>11, <2>12, HadKeeps DEF g
<1> QED BY <1>2, <1>3, <1>4 DEF Answered

LEMMA SaveUsnKeeps ==
    ASSUME Inv, SaveUsn
    PROVE  Inv'
<1>1. TypeOK /\ sync \in Syncs /\ dev \in Devices /\ srv' = srv /\ sync.call.kind = "usn"
  BY DEF Inv, TypeOK, SaveUsn
<1> USE <1>1, Types
<1> DEFINE usn == IF sync.call.usn = dev.usn + 1 THEN dev.usn + 1 ELSE dev.usn
<1>2. usn \in Usns /\ (usn = dev.usn \/ (usn = dev.usn + 1 /\ usn = sync.call.usn))
  BY DEF Calls, Devices
<1>3. dev' = [dev EXCEPT !.usn = usn] /\ sync' = [sync EXCEPT !.call = NoCall]
  BY DEF SaveUsn
<1> HIDE DEF usn
<1>4. NoCall \in Calls /\ NoCall.kind = "none"
  BY BoundsAssumption DEF NoCall, Calls, Usns
<1>5. /\ sync' \in Syncs /\ sync'.got = sync.got /\ sync'.pc = sync.pc
      /\ sync'.chunk = sync.chunk /\ sync'.call.kind = "none" /\ sync.pc = "push"
  BY <1>3, <1>4 DEF Syncs, Inv, OnItsWay
<1>6. /\ dev' \in Devices /\ dev'.usn = usn /\ dev'.note = dev.note /\ dev'.ntOf = dev.ntOf
  BY <1>2, <1>3 DEF Devices
<1>7. TypeOK' /\ KnownNames' /\ Under' /\ InHand' /\ OnItsWay'
  BY <1>5, <1>6 DEF Inv, TypeOK, KnownNames, Under, InHand, OnItsWay
<1>8. Counted'
  BY <1>2, <1>5, <1>6 DEF Inv, Counted, OnItsWay
<1>9. HasUpToUsn'
  <2> SUFFICES ASSUME NEW k \in Live, srv.at[k] <= usn
               PROVE  sync.got[k] = srv.at[k]
    BY <1>5, <1>6 DEF HasUpToUsn, Live, OnServer
  <2>1. k \in Guids
    BY DEF Live
  <2>2. CASE srv.at[k] <= dev.usn
    BY <2>2 DEF Inv, HasUpToUsn
  <2>3. CASE srv.at[k] = dev.usn + 1 /\ usn = sync.call.usn
    BY <1>2, <2>1, <2>3 DEF Inv, OnItsWay
  <2> QED BY <1>2, <2>1, <2>2, <2>3
<1> QED BY <1>7, <1>8, <1>9 DEF Inv

-----------------------------------------------------------------------------
(* The theorems.                                                           *)

LEMMA InitHolds == Init => Inv
<1> SUFFICES ASSUME Init PROVE Inv
  OBVIOUS
<1>1. 0 \in Usns /\ NoteGuids \subseteq Guids /\ BookGuids \subseteq Guids
  BY BoundsAssumption DEF Usns, Guids
<1>2. srv \in Accounts /\ srv.at = [g \in Guids |-> 0] /\ srv.count = 0 /\ srv.gone = {}
  BY <1>1 DEF Init, Accounts
<1> DEFINE book == [b \in Books |-> [st |-> "unused", name |-> None, guid |-> None]]
           note == [n \in Notes |-> [st |-> "unused", guid |-> None, nb |-> None]]
<1>3. book \in [Books -> LocalBook] /\ note \in [Notes -> LocalNote]
  BY DEF LocalBook, LocalNote
<1>4. /\ dev \in Devices /\ dev.usn = 0 /\ dev.note = note
      /\ dev.ntOf = [m \in NoteGuids |-> None]
  <2>1. dev = [usn |-> 0, full |-> FALSE, time |-> 0, book |-> book, note |-> note,
               names |-> [x \in Names |-> None], nbOf |-> [h \in BookGuids |-> None],
               ntOf |-> [m \in NoteGuids |-> None], books |-> {}, notes |-> {}]
    BY DEF Init
  <2> HIDE DEF book, note
  <2> QED BY <1>1, <1>3, <2>1 DEF Devices
<1>5. /\ sync \in Syncs /\ sync.pc = "off" /\ sync.got = [g \in Guids |-> 0]
      /\ sync.chunk.at = [g \in Guids |-> 0] /\ sync.call.kind = "none"
  BY <1>1, OffType DEF Init
<1>6. TypeOK
  BY <1>2, <1>4, <1>5 DEF TypeOK
<1>7. KnownNames /\ Counted /\ HasUpToUsn
  BY <1>1, <1>2, <1>4, <1>5 DEF KnownNames, Counted, HasUpToUsn, Live, OnServer
<1>8. Under
  BY <1>1, <1>4, <1>5 DEF Under
<1>9. InHand /\ OnItsWay
  BY <1>5 DEF InHand, OnItsWay
<1> QED BY <1>6, <1>7, <1>8, <1>9 DEF Inv

LEMMA KeptBySync ==
    ASSUME Inv, Synchronize
    PROVE  Inv'
BY StartKeeps, ChunkKeeps, CheckpointKeeps, PushStartKeeps, NotebookKeeps, NoteKeeps,
   ExpungedKeeps, PushNotebookKeeps, PushNewNotebookKeeps, PushNoteKeeps, PassOverKeeps,
   AnsweredKeeps, SaveUsnKeeps, EndKeeps DEF Synchronize

LEMMA NextHolds == Inv /\ [Next]_vars => Inv'
<1> SUFFICES ASSUME Inv, [Next]_vars PROVE Inv'
  OBVIOUS
<1>1. CASE UNCHANGED vars
  BY <1>1 DEF vars, Inv, TypeOK, KnownNames, Counted, HasUpToUsn, Under, InHand, OnItsWay,
              Live, OnServer
<1>2. CASE User
  BY <1>2, EditKeeps, NewNotebookKeeps, RenameKeeps DEF User
<1>3. CASE SyncFails \/ \E n \in Notes : PassOver(n)
  BY <1>3, EndKeeps, PassOverKeeps
<1> QED BY <1>1, <1>2, <1>3, KeptByOthers, KeptBySync DEF Next

LEMMA InvHolds == Spec => []Inv
BY InitHolds, NextHolds, PTL DEF Spec

\* The account, the device and the sync have their types, for any ids and bounds.
THEOREM TypeCorrect ==
    Spec => []TypeOK
<1>1. Inv => TypeOK
  BY DEF Inv
<1> QED
  BY <1>1, InvHolds, PTL

\* The stored USN keeps its promise: the device has the last change of all that is
\* in the account and did not change later, and has the notes under their guids.
THEOREM MirrorCorrect ==
    Spec => []MirrorUpToUsn
<1>1. Inv => MirrorUpToUsn
  <2> SUFFICES ASSUME Inv, NEW g \in Live, srv.at[g] <= dev.usn
               PROVE  /\ sync.got[g] = srv.at[g]
                      /\ g \in NoteGuids => dev.ntOf[g] # None /\ dev.note[dev.ntOf[g]].guid = g
    BY DEF MirrorUpToUsn
  <2>1. sync.got[g] = srv.at[g]
    BY DEF Inv, HasUpToUsn
  <2>2. g \in Guids /\ g \notin srv.gone /\ srv.at[g] > 0
    BY DEF Live, OnServer
  <2> QED BY <2>1, <2>2 DEF Inv, Under
<1> QED
  BY <1>1, InvHolds, PTL

-----------------------------------------------------------------------------
(* The refinement: each step of the protocol is one of the mirror's, or    *)
(* changes nothing the mirror knows.                                       *)

LEMMA ChangeSteps ==
    ASSUME Inv, NEW g \in Guids, ServerChanges(g),
           \A k \in Guids \ {g} : k \in srv'.gone <=> k \in srv.gone,
           dev'.usn = dev.usn, sync'.got = sync.got
    PROVE  Account!Change(g)
<1>1. TypeOK
  BY DEF Inv
<1>2. /\ srv'.count = srv.count + 1
      /\ srv'.at = [srv.at EXCEPT ![g] = srv'.count]
      /\ \A k \in Guids \ {g} : srv'.at[k] = srv.at[k]
  BY <1>1, Types DEF ServerChanges
<1>3. Live' = Live \cup {g} \/ Live' = Live \ {g}
  BY <1>2 DEF Live, OnServer
<1> QED BY <1>2, <1>3 DEF Account!Change

LEMMA ReceiveSteps ==
    ASSUME Inv, NEW g \in Guids, NEW usn \in Nat, srv' = srv, dev'.usn = dev.usn,
           sync'.got = [sync.got EXCEPT ![g] = usn],
           sync.got[g] <= usn, usn <= srv.at[g]
    PROVE  Account!Receive(g)
<1>1. TypeOK
  BY DEF Inv
<1>2. sync'.got \in [Guids -> Nat] /\ sync'.got[g] = usn
  BY <1>1, Types
<1>3. Live' = Live
  BY DEF Live, OnServer
<1> QED BY <1>2, <1>3 DEF Account!Receive

LEMMA AdvanceSteps ==
    ASSUME Inv, Inv', srv' = srv, sync'.got = sync.got, dev.usn < dev'.usn
    PROVE  Account!Advance
<1>1. dev'.usn \in Nat /\ dev'.usn <= srv.count
  BY Types DEF Inv, TypeOK, Devices, Usns, Counted
<1>2. Live' = Live
  BY DEF Live, OnServer
<1>3. \A g \in Live : srv.at[g] <= dev'.usn => sync.got[g] = srv.at[g]
  BY <1>2 DEF Inv, HasUpToUsn
<1> QED BY <1>1, <1>2, <1>3 DEF Account!Advance

LEMMA StutterSteps ==
    ASSUME srv'.count = srv.count, srv'.at = srv.at, srv'.gone = srv.gone,
           dev'.usn = dev.usn, sync'.got = sync.got
    PROVE  UNCHANGED Account!mirrorVars
BY DEF Account!mirrorVars, Live, OnServer

LEMMA AppliedSteps ==
    ASSUME Inv, NEW g \in Guids, g \in InChunk, sync.pc = "apply",
           srv' = srv, sync' = Applied(g), dev'.usn = dev.usn
    PROVE  Account!Receive(g)
<1>1. TypeOK /\ sync \in Syncs
  BY DEF Inv, TypeOK
<1>2. /\ sync.got[g] <= sync.chunk.at[g] /\ sync.chunk.at[g] <= srv.at[g]
      /\ sync.chunk.at[g] \in Nat
  BY <1>1, Types DEF Inv, InHand, InChunk
<1>3. sync'.got = [sync.got EXCEPT ![g] = sync.chunk.at[g]]
  BY <1>1 DEF Applied, Syncs
<1> QED BY <1>2, <1>3, ReceiveSteps

\* The steps that are not the mirror's.
LEMMA OtherSteps ==
    ASSUME Inv
    PROVE  /\ Forget => UNCHANGED Account!mirrorVars
           /\ User => UNCHANGED Account!mirrorVars
           /\ SyncStart \/ GetSyncChunk \/ PushStart \/ SyncDone \/ SyncFails
                 => UNCHANGED Account!mirrorVars
           /\ \A n \in Notes : PassOver(n) => UNCHANGED Account!mirrorVars
<1>1. TypeOK /\ srv \in Accounts /\ dev \in Devices /\ sync \in Syncs
  BY DEF Inv, TypeOK
<1>2. ASSUME Forget PROVE UNCHANGED Account!mirrorVars
  <2>1. srv'.count = srv.count /\ srv'.at = srv.at /\ srv'.gone = srv.gone
    BY <1>1, <1>2 DEF Forget, Accounts
  <2> QED BY <1>2, <2>1, StutterSteps DEF Forget
<1>3. ASSUME User PROVE UNCHANGED Account!mirrorVars
  <2>1. dev'.usn = dev.usn
    <3>1. ASSUME NEW n \in Notes, EditNote(n) PROVE dev'.usn = dev.usn
      BY <1>1, <3>1 DEF EditNote, Devices
    <3>2. ASSUME NEW n \in Notes, NEW x \in Names, NewNotebook(n, x) PROVE dev'.usn = dev.usn
      <4>1. PICK b \in IdsFor(dev, x) :
               dev' = [CreateNotebook(dev, b, x) EXCEPT !.note[n].nb = b, !.notes = @ \cup {n}]
        BY <3>2 DEF NewNotebook
      <4> DEFINE d == CreateNotebook(dev, b, x)
      <4>2. d \in Devices /\ d.usn = dev.usn
        BY <1>1, NextTypes, CreateTypes DEF SameNotes
      <4> HIDE DEF d
      <4>3. dev' = [d EXCEPT !.note[n].nb = b, !.notes = @ \cup {n}]
        BY <4>1 DEF d
      <4> QED BY <4>2, <4>3 DEF Devices
    <3>3. ASSUME NEW b \in Books, NEW x \in Names, RenameNotebook(b, x) PROVE dev'.usn = dev.usn
      BY <1>1, <3>3 DEF RenameNotebook, Devices
    <3> QED BY <1>3, <3>1, <3>2, <3>3 DEF User
  <2>2. UNCHANGED <<srv, sync>>
    BY <1>3 DEF User, EditNote, NewNotebook, RenameNotebook
  <2> QED BY <2>1, <2>2, StutterSteps
<1>4. ASSUME SyncStart \/ GetSyncChunk \/ PushStart \/ SyncDone \/ SyncFails
      PROVE  UNCHANGED Account!mirrorVars
  <2>1. UNCHANGED <<srv, dev>>
    BY <1>4 DEF SyncStart, GetSyncChunk, PushStart, SyncDone, SyncFails
  <2>2. sync'.got = sync.got
    <3>1. CASE SyncStart
      BY <1>1, <3>1 DEF SyncStart, Syncs
    <3>2. CASE GetSyncChunk
      BY <1>1, <3>2 DEF GetSyncChunk, Syncs
    <3>3. CASE PushStart
      BY <1>1, <3>3 DEF PushStart, Syncs
    <3>4. CASE SyncDone \/ SyncFails
      BY <3>4 DEF SyncDone, SyncFails, Off
    <3> QED BY <1>4, <3>1, <3>2, <3>3, <3>4
  <2> QED BY <2>1, <2>2, StutterSteps
<1>5. ASSUME NEW n \in Notes, PassOver(n) PROVE UNCHANGED Account!mirrorVars
  <2>1. UNCHANGED <<srv, dev>> /\ sync'.got = sync.got
    BY <1>1, <1>5 DEF PassOver, Syncs
  <2> QED BY <2>1, StutterSteps
<1> QED BY <1>2, <1>3, <1>4, <1>5

LEMMA OthersStep ==
    ASSUME Inv, Others
    PROVE  [Account!Next]_(Account!mirrorVars)
<1>0. srv \in Accounts
  BY DEF Inv, TypeOK
<1>1. ASSUME NEW h \in BookGuids, NEW x \in Names, OtherBook(h, x) PROVE Account!Next
  <2>1. h \in Guids /\ ServerChanges(h) /\ srv'.gone = srv.gone /\ UNCHANGED <<dev, sync>>
    BY <1>0, <1>1, NamedChanges, NamedTypes DEF OtherBook, Guids
  <2> QED BY <2>1, ChangeSteps DEF Account!Next
<1>2. ASSUME NEW m \in NoteGuids, OtherNote(m) PROVE Account!Next
  <2>1. m \in Guids /\ ServerChanges(m) /\ srv'.gone = srv.gone /\ UNCHANGED <<dev, sync>>
    BY <1>0, <1>2, NoteChanges, ChangedTypes DEF OtherNote, Guids
  <2> QED BY <2>1, ChangeSteps DEF Account!Next
<1>3. ASSUME NEW g \in Guids, OtherExpunge(g) PROVE Account!Next
  <2>1. ServerChanges(g) /\ UNCHANGED <<dev, sync>>
    BY <1>3, ExpungeChanges DEF OtherExpunge
  <2>2. srv'.gone = srv.gone \cup {g}
    <3> DEFINE c == Changed(g)
    <3>1. c \in Accounts /\ c.gone = srv.gone
      BY <1>0, <1>3, ChangedTypes DEF OtherExpunge
    <3>2. srv' = [c EXCEPT !.gone = c.gone \cup {g}]
      BY <1>3 DEF OtherExpunge
    <3> HIDE DEF c
    <3> QED BY <3>1, <3>2 DEF Accounts
  <2> QED BY <2>1, <2>2, ChangeSteps DEF Account!Next
<1> QED BY <1>1, <1>2, <1>3, OtherSteps DEF Others

LEMMA ApplySteps ==
    ASSUME Inv, Inv', NEW g \in Guids,
           ApplyExpunged(g) \/ (g \in BookGuids /\ ApplyNotebook(g)) \/ (g \in NoteGuids /\ ApplyNote(g))
    PROVE  Account!Next
<1>1. TypeOK /\ dev \in Devices
  BY DEF Inv, TypeOK
<1>2. g \in InChunk /\ sync.pc = "apply" /\ srv' = srv /\ sync' = Applied(g)
  BY DEF ApplyExpunged, ApplyNotebook, ApplyNote
<1>3. dev'.usn = dev.usn
  <2>1. CASE g \in BookGuids /\ ApplyNotebook(g)
    <3> DEFINE x == sync.chunk.name[g]
    <3>1. x \in Names \cup {None} /\ x # None
      BY <1>1, <1>2, <2>1, Types DEF Chunks, Inv, KnownNames, InChunk
    <3>2. dev' \in SetSyncedNotebookData(dev, g, x)
      BY <2>1 DEF ApplyNotebook
    <3> HIDE DEF x
    <3> QED BY <1>1, <2>1, <3>1, <3>2, SyncedNotebookTypes DEF SameNotes
  <2>2. CASE g \in NoteGuids /\ ApplyNote(g)
    <3>1. dev' \in SetSyncedNoteGist(dev, g)
      BY <2>2 DEF ApplyNote
    <3>2. CASE dev.ntOf[g] # None
      BY <3>1, <3>2 DEF SetSyncedNoteGist
    <3>3. CASE dev.ntOf[g] = None
      BY <1>1, <2>2, <3>1, <3>3, SyncedNoteTypes
    <3> QED BY <3>2, <3>3
  <2>3. CASE ApplyExpunged(g)
    <3>1. CASE g \in NoteGuids /\ dev.ntOf[g] # None /\ dev' = ExpungeNote(dev, dev.ntOf[g])
      BY <1>1, <3>1, Types, ExpungeNoteTypes
    <3>2. CASE g \in BookGuids /\ dev.nbOf[g] # None /\ dev' = ExpungeNotebook(dev, dev.nbOf[g])
      <4>1. dev.nbOf[g] \in Books
        BY <1>1, <3>2 DEF Devices
      <4> QED BY <1>1, <3>2, <4>1, ExpungeNotebookTypes
    <3> QED BY <2>3, <3>1, <3>2 DEF ApplyExpunged
  <2> QED BY <2>1, <2>2, <2>3
<1> QED BY <1>2, <1>3, AppliedSteps DEF Account!Next

LEMMA PushSteps ==
    ASSUME Inv
    PROVE  /\ \A b \in Books : PushNotebook(b) => [Account!Next]_(Account!mirrorVars)
           /\ \A n \in Notes : PushNewNotebook(n) \/ PushNote(n) => Account!Next
<1>1. TypeOK /\ srv \in Accounts /\ sync \in Syncs /\ dev \in Devices
  BY DEF Inv, TypeOK
<1>2. ASSUME NEW b \in Books, PushNotebook(b) PROVE [Account!Next]_(Account!mirrorVars)
  <2> DEFINE nb == dev.book[b]
  <2>1. dev' = dev /\ sync'.got = sync.got
    BY <1>1, <1>2 DEF PushNotebook, Syncs
  <2>2. CASE UNCHANGED srv
    BY <2>1, <2>2, StutterSteps
  <2>3. CASE nb.name # None /\ nb.guid # None /\ srv.count < MaxUsn /\ srv' = Named(nb.guid, nb.name)
    <3>1. nb \in LocalBook
      BY <1>1 DEF Devices
    <3>2. nb.guid \in BookGuids /\ nb.name \in Names
      BY <2>3, <3>1 DEF LocalBook
    <3> HIDE DEF nb
    <3>3. nb.guid \in Guids /\ ServerChanges(nb.guid) /\ srv'.gone = srv.gone
      BY <1>1, <2>3, <3>2, NamedChanges, NamedTypes DEF Guids
    <3> QED BY <2>1, <3>3, ChangeSteps DEF Account!Next
  <2> QED BY <1>2, <2>2, <2>3 DEF PushNotebook
<1>3. ASSUME NEW n \in Notes, PushNewNotebook(n) PROVE Account!Next
  <2> DEFINE b == dev.note[n].nb
             x == dev.book[b].name
  <2>1. dev' = dev /\ sync'.got = sync.got /\ srv.count < MaxUsn /\ b # None /\ x # None
    BY <1>1, <1>3 DEF PushNewNotebook, NeedsNotebook, Syncs
  <2>2. PICK h \in BookGuids : srv' = Named(h, x)
    BY <1>3 DEF PushNewNotebook
  <2>3. b \in Books
    <3>1. dev.note[n] \in LocalNote
      BY <1>1, Types
    <3> QED BY <2>1, <3>1 DEF LocalNote
  <2>4. x \in Names
    <3>1. dev.book[b] \in LocalBook
      BY <1>1, <2>3 DEF Devices
    <3> QED BY <2>1, <3>1 DEF LocalBook
  <2> HIDE DEF b, x
  <2>5. h \in Guids /\ ServerChanges(h) /\ srv'.gone = srv.gone
    BY <1>1, <2>1, <2>2, <2>4, NamedChanges, NamedTypes DEF Guids
  <2> QED BY <2>1, <2>5, ChangeSteps DEF Account!Next
<1>4. ASSUME NEW n \in Notes, PushNote(n) PROVE Account!Next
  <2>1. dev' = dev /\ sync'.got = sync.got /\ srv.count < MaxUsn
    BY <1>1, <1>4 DEF PushNote, Syncs
  <2>2. PICK m \in NoteGuids : srv' = Changed(m)
    BY <1>4 DEF PushNote
  <2>3. m \in Guids /\ ServerChanges(m) /\ srv'.gone = srv.gone
    BY <1>1, <2>1, <2>2, NoteChanges, ChangedTypes DEF Guids
  <2> QED BY <2>1, <2>3, ChangeSteps DEF Account!Next
<1> QED BY <1>2, <1>3, <1>4

LEMMA AnswerSteps ==
    ASSUME Inv, Inv', Answered
    PROVE  Account!Next
<1> DEFINE g == sync.call.guid
<1>1. TypeOK /\ dev \in Devices /\ sync \in Syncs
  BY DEF Inv, TypeOK
<1>2. /\ g \in Guids /\ sync.got[g] <= sync.call.usn /\ sync.call.usn <= srv.at[g]
      /\ sync.call.usn \in Nat
  BY <1>1, Types DEF Inv, OnItsWay, Answered
<1>3. srv' = srv /\ sync'.got = [sync.got EXCEPT ![g] = sync.call.usn]
  BY <1>1 DEF Answered, Syncs
<1>4. dev'.usn = dev.usn
  BY <1>1 DEF Answered, SetNotebookGuid, Devices
<1> HIDE DEF g
<1> QED BY <1>2, <1>3, <1>4, ReceiveSteps DEF Account!Next

LEMMA AdvancingSteps ==
    ASSUME Inv, Inv', Checkpoint \/ SaveUsn
    PROVE  [Account!Next]_(Account!mirrorVars)
<1>1. TypeOK /\ dev \in Devices /\ sync \in Syncs
  BY DEF Inv, TypeOK
<1>2. srv' = srv /\ sync'.got = sync.got
  BY <1>1 DEF Checkpoint, SaveUsn, Syncs
<1>3. CASE Checkpoint
  <2>1. dev'.usn = sync.chunk.high /\ dev.usn < sync.chunk.high
    BY <1>1, <1>3 DEF Checkpoint, Devices, Inv, InHand
  <2> QED BY <1>2, <2>1, AdvanceSteps DEF Account!Next
<1>4. CASE SaveUsn
  <2>1. dev'.usn = dev.usn \/ (dev'.usn = dev.usn + 1)
    BY <1>1, <1>4 DEF SaveUsn, Devices
  <2>2. CASE dev'.usn = dev.usn
    BY <1>2, <2>2, StutterSteps
  <2>3. CASE dev'.usn = dev.usn + 1
    <3>1. dev.usn < dev'.usn
      BY <1>1, <2>3, Types
    <3> QED BY <1>2, <3>1, AdvanceSteps DEF Account!Next
  <2> QED BY <2>1, <2>2, <2>3
<1> QED BY <1>3, <1>4

LEMMA SyncSteps ==
    ASSUME Inv, Inv', Synchronize
    PROVE  [Account!Next]_(Account!mirrorVars)
<1>1. NoteGuids \subseteq Guids /\ BookGuids \subseteq Guids
  BY DEF Guids
<1>2. CASE \/ \E h \in BookGuids : ApplyNotebook(h)
           \/ \E m \in NoteGuids : ApplyNote(m)
           \/ \E g \in Guids : ApplyExpunged(g)
  BY <1>1, <1>2, ApplySteps
<1>3. CASE \/ SyncStart \/ GetSyncChunk \/ PushStart \/ SyncDone
           \/ \E n \in Notes : PassOver(n)
  BY <1>3, OtherSteps
<1>4. CASE \/ \E b \in Books : PushNotebook(b)
           \/ \E n \in Notes : PushNewNotebook(n) \/ PushNote(n)
  BY <1>4, PushSteps
<1>5. CASE Answered \/ Checkpoint \/ SaveUsn
  BY <1>5, AnswerSteps, AdvancingSteps
<1> QED BY <1>2, <1>3, <1>4, <1>5 DEF Synchronize

\* The protocol implements the mirror: whatever fails, and whoever else changes the
\* account, the device moves forward only, and only as far as it has everything.
THEOREM RefinesMirror ==
    Spec => MirrorsAccount
<1>1. Init => Account!Init
  <2> SUFFICES ASSUME Init PROVE Account!Init
    OBVIOUS
  <2>1. Live = {}
    BY DEF Init, Live, OnServer
  <2>2. sync.got = [g \in Guids |-> 0]
    BY DEF Init, Off
  <2> QED BY <2>1, <2>2 DEF Init, Account!Init
<1>2. Inv /\ Inv' /\ [Next]_vars => [Account!Next]_(Account!mirrorVars)
  <2> SUFFICES ASSUME Inv, Inv', [Next]_vars PROVE [Account!Next]_(Account!mirrorVars)
    OBVIOUS
  <2>1. CASE UNCHANGED vars
    BY <2>1, StutterSteps DEF vars
  <2>2. CASE User \/ SyncFails \/ \E n \in Notes : PassOver(n)
    BY <2>2, OtherSteps
  <2> QED BY <2>1, <2>2, OthersStep, SyncSteps DEF Next
<1> QED
  BY <1>1, <1>2, InvHolds, PTL DEF Spec, MirrorsAccount, Account!Spec

-----------------------------------------------------------------------------
\* What is let go of when note n is no longer to be pushed.
LetGo(n) ==
    \/ n \in dev'.notes
    \/ dev'.note[n].st = "gone"
    \/ dev'.note[n].guid \in Guids /\ srv.at[dev'.note[n].guid] > 0

LEMMA ExpungeLetsGo ==
    ASSUME Inv, NEW g \in Guids, ApplyExpunged(g), NEW n \in dev.notes
    PROVE  LetGo(n)
<1>1. TypeOK /\ dev \in Devices /\ n \in Notes
  BY Types DEF Inv, TypeOK
<1>2. CASE g \in NoteGuids /\ dev.ntOf[g] # None /\ dev' = ExpungeNote(dev, dev.ntOf[g])
  <2> DEFINE k == dev.ntOf[g]
  <2>1. k \in Notes
    BY <1>1, <1>2, Types
  <2>2. /\ dev'.notes = dev.notes \ {k}
        /\ dev'.note = [dev.note EXCEPT ![k] = [st |-> "gone", guid |-> None, nb |-> None]]
    BY <1>1, <1>2, <2>1, ExpungeNoteTypes
  <2> HIDE DEF k
  <2>3. dev'.note[k].st = "gone"
    BY <1>1, <2>1, <2>2, Types
  <2> QED BY <2>2, <2>3 DEF LetGo
<1>3. CASE g \in BookGuids /\ dev.nbOf[g] # None /\ dev' = ExpungeNotebook(dev, dev.nbOf[g])
  <2>1. dev.nbOf[g] \in Books
    BY <1>1, <1>3 DEF Devices
  <2>2. dev'.notes = dev.notes
    BY <1>1, <1>3, <2>1, ExpungeNotebookTypes
  <2> QED BY <2>2 DEF LetGo
<1>4. CASE UNCHANGED dev
  BY <1>4 DEF LetGo
<1> QED BY <1>2, <1>3, <1>4 DEF ApplyExpunged

LEMMA AnswerLetsGo ==
    ASSUME Inv, Answered, NEW n \in dev.notes
    PROVE  LetGo(n)
<1> DEFINE id == sync.call.id
           g == sync.call.guid
<1>1. TypeOK /\ dev \in Devices /\ n \in Notes /\ srv' = srv
  BY Types DEF Inv, TypeOK, Answered
<1>2. CASE dev'.notes = dev.notes
  BY <1>2 DEF LetGo
<1>3. CASE /\ sync.call.kind = "note"
           /\ dev' = [dev EXCEPT !.note[id].guid = g, !.ntOf[g] = id, !.notes = @ \ {id}]
  <2>1. id \in Notes /\ g \in Guids /\ srv.at[g] > 0
    BY <1>1, <1>3, Types DEF Inv, OnItsWay
  <2> HIDE DEF id, g
  <2> DEFINE r == [dev.note[id] EXCEPT !.guid = g]
  <2>2. dev'.notes = dev.notes \ {id} /\ dev'.note = [dev.note EXCEPT ![id] = r]
    BY <1>1, <1>3 DEF Devices
  <2>3. dev.note[id] \in LocalNote
    BY <1>1, <2>1, Types
  <2>4. r.guid = g
    BY <2>3 DEF LocalNote
  <2> HIDE DEF r
  <2>5. dev'.note[id].guid = g
    BY <1>1, <2>1, <2>2, <2>4, Types
  <2> QED BY <1>1, <2>1, <2>2, <2>5 DEF LetGo
<1> QED BY <1>1, <1>2, <1>3 DEF Answered, SetNotebookGuid, Devices

LEMMA SyncLetsGo ==
    ASSUME Inv, Synchronize, NEW n \in dev.notes
    PROVE  LetGo(n)
<1>1. TypeOK /\ dev \in Devices
  BY DEF Inv, TypeOK
<1>2. CASE dev'.notes = dev.notes
  BY <1>2 DEF LetGo
<1>3. ASSUME NEW h \in BookGuids, ApplyNotebook(h) PROVE dev'.notes = dev.notes
  <2> DEFINE x == sync.chunk.name[h]
  <2>1. x \in Names \cup {None} /\ x # None
    BY <1>1, <1>3, Types DEF Chunks, Inv, KnownNames, InChunk, ApplyNotebook
  <2>2. dev' \in SetSyncedNotebookData(dev, h, x)
    BY <1>3 DEF ApplyNotebook
  <2> HIDE DEF x
  <2> QED BY <1>1, <2>1, <2>2, SyncedNotebookTypes DEF SameNotes
<1>4. ASSUME NEW m \in NoteGuids, ApplyNote(m) PROVE dev'.notes = dev.notes
  <2>1. dev' \in SetSyncedNoteGist(dev, m)
    BY <1>4 DEF ApplyNote
  <2>2. CASE dev.ntOf[m] # None
    BY <2>1, <2>2 DEF SetSyncedNoteGist
  <2>3. CASE dev.ntOf[m] = None
    BY <1>1, <2>1, <2>3, SyncedNoteTypes
  <2> QED BY <2>2, <2>3
<1>5. Checkpoint \/ SaveUsn => dev'.notes = dev.notes
  BY <1>1 DEF Checkpoint, SaveUsn, Devices
<1>6. \/ SyncStart \/ GetSyncChunk \/ PushStart \/ SyncDone
      \/ \E b \in Books : PushNotebook(b)
      \/ \E k \in Notes : PushNewNotebook(k) \/ PushNote(k) \/ PassOver(k)
      => dev' = dev
  BY DEF SyncStart, GetSyncChunk, PushStart, SyncDone, PushNotebook, PushNewNotebook,
         PushNote, PassOver
<1> QED
  BY <1>2, <1>3, <1>4, <1>5, <1>6, ExpungeLetsGo, AnswerLetsGo DEF Synchronize

LEMMA UserLetsGo ==
    ASSUME Inv, User, NEW n \in dev.notes
    PROVE  LetGo(n)
<1>1. dev \in Devices
  BY DEF Inv, TypeOK
<1>2. ASSUME NEW k \in Notes, EditNote(k) PROVE n \in dev'.notes
  BY <1>1, <1>2 DEF EditNote, Devices
<1>3. ASSUME NEW k \in Notes, NEW x \in Names, NewNotebook(k, x) PROVE n \in dev'.notes
  <2>1. PICK b \in IdsFor(dev, x) :
           dev' = [CreateNotebook(dev, b, x) EXCEPT !.note[k].nb = b, !.notes = @ \cup {k}]
    BY <1>3 DEF NewNotebook
  <2> DEFINE d == CreateNotebook(dev, b, x)
  <2>2. d \in Devices /\ d.notes = dev.notes
    BY <1>1, NextTypes, CreateTypes DEF SameNotes
  <2> HIDE DEF d
  <2>3. dev' = [d EXCEPT !.note[k].nb = b, !.notes = @ \cup {k}]
    BY <2>1 DEF d
  <2> QED BY <2>2, <2>3 DEF Devices
<1>4. ASSUME NEW b \in Books, NEW x \in Names, RenameNotebook(b, x) PROVE n \in dev'.notes
  BY <1>1, <1>4 DEF RenameNotebook, Devices
<1> QED BY <1>2, <1>3, <1>4 DEF User, LetGo

\* A changed note stays to be pushed until the server has it or has expunged it.
THEOREM UnpushedCorrect ==
    Spec => UnpushedKept
<1>1. Inv /\ [Next]_vars =>
         [\A n \in dev.notes : n \in dev.notes'
            \/ dev.note'[n].st = "gone"
            \/ /\ dev.note'[n].guid \in Guids
               /\ srv.at[dev.note'[n].guid] > 0]_vars
  <2> SUFFICES ASSUME Inv, Next, NEW n \in dev.notes PROVE LetGo(n)
    BY DEF LetGo
  <2>1. CASE Others \/ SyncFails \/ \E k \in Notes : PassOver(k)
    <3>1. dev' = dev
      BY <2>1 DEF Others, OtherBook, OtherNote, OtherExpunge, Forget, SyncFails, PassOver
    <3> QED BY <3>1 DEF LetGo
  <2> QED BY <2>1, SyncLetsGo, UserLetsGo DEF Next
<1> QED
  BY <1>1, InvHolds, PTL DEF Spec, UnpushedKept
=============================================================================
