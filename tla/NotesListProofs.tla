--------------------------- MODULE NotesListProofs ---------------------------
(***************************************************************************)
(* Proofs about NotesList: the types; that a page shows what the store's   *)
(* list has, when no load is under way and no named race touched the note  *)
(* (ShowsTheList); and that a note leaves the lists only when it is        *)
(* expunged or an order update writes back an older list (KeptInAList).    *)
(***************************************************************************)
EXTENDS NotesList, FiniteSetTheorems, SequenceTheorems, WellFoundedInduction, TLAPS

-----------------------------------------------------------------------------
(* The operators on lists.                                                 *)

\* The gists of all notes.
Gists == [Notes -> [at : Time, trashed : BOOLEAN, mark : BOOLEAN]]

\* The assumptions, one by one, with the set of numbers in which times are.
LEMMA Bounds ==
    /\ None \notin Notes /\ MaxTime \in Nat \ {0} /\ MaxQueue \in Nat
    /\ Time \subseteq Nat /\ 0 \in Time /\ MaxTime \in Time
  BY BoundsAssumption DEF Time

\* How many numbers there are up to n.
LEMMA UpTo ==
    ASSUME NEW n \in Nat
    PROVE  IsFiniteSet(1 .. n) /\ Cardinality(1 .. n) = n
  <1>1. 1 \in Int /\ n \in Int OBVIOUS
  <1> QED BY <1>1, FS_Interval

\* A list has an element where its set of elements has it.
LEMMA ElementsOf ==
    ASSUME NEW S, NEW s \in Seq(S)
    PROVE  /\ Len(s) \in Nat /\ DOMAIN s = 1 .. Len(s)
           /\ ToSet(s) = {s[i] : i \in 1 .. Len(s)} /\ ToSet(s) \subseteq S
           /\ \A e : Contains(s, e) <=> e \in ToSet(s)
  <1>1. Len(s) \in Nat /\ DOMAIN s = 1 .. Len(s) /\ \A i \in 1 .. Len(s) : s[i] \in S
    BY LenProperties, ElementOfSeq
  <1> QED BY <1>1 DEF ToSet, Contains

\* A list without elements is the empty one.
LEMMA NoElements ==
    ASSUME NEW S, NEW s \in Seq(S), ToSet(s) = {}
    PROVE  s = <<>>
  <1>1. 1 \notin 1 .. Len(s) /\ Len(s) \in Nat
    BY ElementsOf
  <1> QED BY <1>1, EmptySeq

\* The empty list.
LEMMA EmptyList == <<>> \in Ids /\ ToSet(<<>>) = {} /\ Len(<<>>) = 0
  <1>1. <<>> \in Seq(Notes) /\ Len(<<>>) = 0
    BY EmptySeq
  <1>2. DOMAIN <<>> = {}
    BY <1>1, LenProperties
  <1> QED BY <1>1, <1>2 DEF Ids, IsInjective, ToSet

\* A list of one note.
LEMMA OneList ==
    ASSUME NEW n \in Notes
    PROVE  <<n>> \in Seq(Notes) /\ Len(<<n>>) = 1 /\ <<n>>[1] = n
  OBVIOUS

\* A list of ids, as a sequence.
LEMMA IdsAre ==
    ASSUME NEW s \in Ids
    PROVE  /\ s \in Seq(Notes) /\ Len(s) \in Nat /\ DOMAIN s = 1 .. Len(s)
           /\ \A i \in 1 .. Len(s) : s[i] \in Notes
           /\ \A i, j \in 1 .. Len(s) : s[i] = s[j] => i = j
           /\ ToSet(s) = {s[i] : i \in 1 .. Len(s)} /\ ToSet(s) \subseteq Notes
           /\ \A e : Contains(s, e) <=> e \in ToSet(s)
  <1>1. s \in Seq(Notes) /\ IsInjective(s)
    BY DEF Ids
  <1>2. Len(s) \in Nat /\ DOMAIN s = 1 .. Len(s) /\ \A i \in 1 .. Len(s) : s[i] \in Notes
    BY <1>1, LenProperties, ElementOfSeq
  <1> QED BY <1>1, <1>2, ElementsOf DEF IsInjective

\* Where InsertAt leaves what.
LEMMA InsertAtIs ==
    ASSUME NEW s \in Seq(Notes), NEW i \in 1 .. Len(s) + 1, NEW n \in Notes
    PROVE  /\ InsertAt(s, i, n) \in Seq(Notes) /\ Len(InsertAt(s, i, n)) = Len(s) + 1
           /\ \A k \in 1 .. Len(s) + 1 :
                 InsertAt(s, i, n)[k] = IF k < i THEN s[k] ELSE IF k = i THEN n ELSE s[k - 1]
  <1> DEFINE a == SubSeq(s, 1, i - 1)
             b == SubSeq(s, i, Len(s))
  <1>1. Len(s) \in Nat /\ i \in Int /\ \A k \in 1 .. Len(s) : s[k] \in Notes
    BY LenProperties, ElementOfSeq
  <1>2. /\ a \in Seq(Notes) /\ Len(a) = i - 1
        /\ \A k \in 1 .. i - 1 : a[k] = s[k]
    <2>1. \A k \in 1 .. i - 1 : s[k] \in Notes
      BY <1>1
    <2>2. /\ a \in Seq(Notes) /\ Len(a) = IF 1 <= i - 1 THEN (i - 1) - 1 + 1 ELSE 0
          /\ \A k \in 1 .. (i - 1) - 1 + 1 : a[k] = s[1 + k - 1]
      BY <1>1, <2>1, SubSeqProperties
    <2> HIDE DEF a
    <2> QED BY <1>1, <2>2
  <1>3. /\ b \in Seq(Notes) /\ Len(b) = Len(s) - i + 1
        /\ \A k \in 1 .. Len(s) - i + 1 : b[k] = s[i + k - 1]
    <2>1. \A k \in i .. Len(s) : s[k] \in Notes
      BY <1>1
    <2>2. /\ b \in Seq(Notes) /\ Len(b) = IF i <= Len(s) THEN Len(s) - i + 1 ELSE 0
          /\ \A k \in 1 .. Len(s) - i + 1 : b[k] = s[i + k - 1]
      BY <1>1, <2>1, SubSeqProperties
    <2> HIDE DEF b
    <2> QED BY <1>1, <2>2
  <1> DEFINE one == <<n>>
             c == a \o one
  <1>4. InsertAt(s, i, n) = c \o b
    BY DEF InsertAt
  <1>0. one \in Seq(Notes) /\ Len(one) = 1 /\ one[1] = n
    BY OneList
  <1> HIDE DEF a, b, one
  <1>5. /\ c \in Seq(Notes) /\ Len(c) = i
        /\ \A k \in 1 .. i : c[k] = IF k < i THEN s[k] ELSE n
    <2>0. /\ c \in Seq(Notes) /\ Len(c) = Len(a) + Len(one)
          /\ \A k \in 1 .. Len(a) + Len(one) : c[k] = IF k <= Len(a) THEN a[k] ELSE one[k - Len(a)]
      BY <1>0, <1>2, ConcatProperties
    <2> HIDE DEF c
    <2>1. /\ c \in Seq(Notes) /\ Len(c) = (i - 1) + 1
          /\ \A k \in 1 .. (i - 1) + 1 : c[k] = IF k <= i - 1 THEN a[k] ELSE one[k - (i - 1)]
      BY <1>0, <1>2, <2>0
    <2>2. ASSUME NEW k \in 1 .. i PROVE c[k] = IF k < i THEN s[k] ELSE n
      <3>1. CASE k < i
        BY <1>1, <1>2, <2>1, <3>1
      <3>2. CASE k = i
        <4>1. k - (i - 1) = 1 /\ ~(k <= i - 1) /\ k \in 1 .. (i - 1) + 1
          BY <1>1, <3>2
        <4> QED BY <1>0, <2>1, <3>2, <4>1
      <3> QED BY <1>1, <3>1, <3>2
    <2> QED BY <1>1, <2>1, <2>2
  <1> HIDE DEF c
  <1>6. /\ c \o b \in Seq(Notes) /\ Len(c \o b) = i + (Len(s) - i + 1)
        /\ \A k \in 1 .. i + (Len(s) - i + 1) : (c \o b)[k] = IF k <= i THEN c[k] ELSE b[k - i]
    BY <1>3, <1>5, ConcatProperties
  <1> DEFINE d == c \o b
  <1> HIDE DEF d
  <1>7. ASSUME NEW k \in 1 .. Len(s) + 1
        PROVE  d[k] = IF k < i THEN s[k] ELSE IF k = i THEN n ELSE s[k - 1]
    <2>1. CASE k <= i
      BY <1>1, <1>5, <1>6, <2>1 DEF d
    <2>2. CASE k > i
      <3>1. k - i \in 1 .. Len(s) - i + 1 /\ i + (k - i) - 1 = k - 1 /\ k \in 1 .. i + (Len(s) - i + 1)
        BY <1>1, <2>2
      <3>2. ~(k <= i) /\ ~(k < i) /\ k # i
        BY <1>1, <2>2
      <3>3. d[k] = b[k - i]
        BY <1>6, <3>1, <3>2 DEF d
      <3> QED BY <1>3, <3>1, <3>2, <3>3
    <2> QED BY <1>1, <2>1, <2>2
  <1> QED BY <1>1, <1>4, <1>6, <1>7 DEF d

\* A set of numbers up to n has a smallest one.
LEMMA FirstOf ==
    ASSUME NEW n \in Nat, NEW S, S \subseteq 1 .. n, S # {}
    PROVE  \E i \in S : \A j \in S : i <= j
  <1>0. S \subseteq Nat
    OBVIOUS
  <1>1. PICK x \in S : \A y \in S : ~ (<<y, x>> \in OpToRel(<, Nat))
    BY <1>0, NatLessThanWellFounded, WFMin
  <1>2. \A y \in S : ~ (y < x)
    BY <1>0, <1>1 DEF OpToRel
  <1> QED BY <1>0, <1>2

\* A note goes to a position of the list or to its end.
LEMMA InsertionPositionIs ==
    ASSUME NEW s \in Ids, NEW n \in Notes, NEW g \in Gists
    PROVE  InsertionPosition(n, s, g) \in 1 .. Len(s) + 1
  <1> DEFINE older == {i \in DOMAIN s : g[n].at > g[s[i]].at}
  <1>1. older \subseteq 1 .. Len(s) /\ Len(s) \in Nat
    BY IdsAre
  <1>2. CASE older = {}
    BY <1>1, <1>2 DEF InsertionPosition
  <1>3. CASE older # {}
    <2>1. \E i \in older : \A j \in older : i <= j
      <3> HIDE DEF older
      <3> QED BY <1>1, <1>3, FirstOf
    <2>2. InsertionPosition(n, s, g) = CHOOSE i \in older : \A j \in older : i <= j
      BY <1>3 DEF InsertionPosition
    <2>3. InsertionPosition(n, s, g) \in older
      <3> HIDE DEF older
      <3> QED BY <2>1, <2>2
    <2> QED BY <1>1, <2>3
  <1> QED BY <1>2, <1>3

\* What Insert adds to a list that does not have the note.
LEMMA Inserted ==
    ASSUME NEW s \in Ids, NEW n \in Notes, NEW g \in Gists, n \notin ToSet(s)
    PROVE  Insert(n, s, g) \in Ids /\ ToSet(Insert(n, s, g)) = ToSet(s) \cup {n}
  <1> DEFINE p == InsertionPosition(n, s, g)
             t == InsertAt(s, p, n)
  <1>1. /\ s \in Seq(Notes) /\ Len(s) \in Nat /\ p \in 1 .. Len(s) + 1
        /\ \A i \in 1 .. Len(s) : s[i] \in Notes /\ s[i] # n
        /\ \A i, j \in 1 .. Len(s) : s[i] = s[j] => i = j
        /\ ToSet(s) = {s[i] : i \in 1 .. Len(s)}
    BY IdsAre, InsertionPositionIs
  <1>2. Insert(n, s, g) = t
    BY DEF Insert
  <1> HIDE DEF p
  <1>3. /\ t \in Seq(Notes) /\ Len(t) = Len(s) + 1
        /\ \A k \in 1 .. Len(s) + 1 : t[k] = IF k < p THEN s[k] ELSE IF k = p THEN n ELSE s[k - 1]
    BY <1>1, InsertAtIs
  <1> HIDE DEF t
  <1>4. /\ t[p] = n
        /\ \A k \in 1 .. Len(s) : k < p => t[k] = s[k]
        /\ \A k \in 1 .. Len(s) : k >= p => t[k + 1] = s[k]
    BY <1>1, <1>3
  <1>5. \A k \in 1 .. Len(t) : \/ k = p
                               \/ k < p /\ k \in 1 .. Len(s) /\ t[k] = s[k]
                               \/ k > p /\ k - 1 \in 1 .. Len(s) /\ t[k] = s[k - 1]
    BY <1>1, <1>3
  <1>6. \A i, j \in 1 .. Len(t) : t[i] = t[j] => i = j
    <2> SUFFICES ASSUME NEW i \in 1 .. Len(t), NEW j \in 1 .. Len(t), t[i] = t[j], i # j PROVE FALSE
      OBVIOUS
    <2>0. i \in Int /\ j \in Int /\ p \in Int
      BY <1>1, <1>3
    <2>1. CASE i = p
      BY <1>1, <1>4, <1>5, <2>0, <2>1
    <2>2. CASE j = p
      BY <1>1, <1>4, <1>5, <2>0, <2>2
    <2>3. CASE i # p /\ j # p
      <3>1. CASE i < p /\ j < p
        BY <1>1, <1>5, <2>0, <3>1
      <3>2. CASE i < p /\ j > p
        <4>1. s[i] = s[j - 1] /\ i \in 1 .. Len(s) /\ j - 1 \in 1 .. Len(s)
          BY <1>5, <2>0, <3>2
        <4>2. i = j - 1
          BY <1>1, <4>1
        <4> QED BY <2>0, <3>2, <4>2
      <3>3. CASE i > p /\ j < p
        <4>1. s[j] = s[i - 1] /\ j \in 1 .. Len(s) /\ i - 1 \in 1 .. Len(s)
          BY <1>5, <2>0, <3>3
        <4>2. j = i - 1
          BY <1>1, <4>1
        <4> QED BY <2>0, <3>3, <4>2
      <3>4. CASE i > p /\ j > p
        <4>1. s[j - 1] = s[i - 1] /\ j - 1 \in 1 .. Len(s) /\ i - 1 \in 1 .. Len(s)
          BY <1>5, <2>0, <3>4
        <4>2. j - 1 = i - 1
          BY <1>1, <4>1
        <4> QED BY <2>0, <4>2
      <3> QED BY <2>0, <2>3, <3>1, <3>2, <3>3, <3>4
    <2> QED BY <2>1, <2>2, <2>3
  <1>7. t \in Ids /\ ToSet(t) = {t[k] : k \in 1 .. Len(t)}
    BY <1>3, <1>6, ElementsOf DEF Ids, IsInjective
  <1>8. ToSet(t) = ToSet(s) \cup {n}
    <2>1. p \in 1 .. Len(t) /\ \A k \in 1 .. Len(s) : k \in 1 .. Len(t) /\ k + 1 \in 1 .. Len(t)
      BY <1>1, <1>3
    <2>2. \A k \in 1 .. Len(t) : t[k] \in ToSet(s) \cup {n}
      <3>1. \A k \in 1 .. Len(s) : s[k] \in ToSet(s)
        BY <1>1
      <3> QED BY <1>4, <1>5, <3>1
    <2>3. \A k \in 1 .. Len(s) : s[k] \in ToSet(t)
      BY <1>1, <1>4, <1>7, <2>1
    <2>4. n \in ToSet(t)
      BY <1>4, <1>7, <2>1
    <2>5. ToSet(t) \subseteq ToSet(s) \cup {n}
      BY <1>7, <2>2
    <2>6. ToSet(s) \subseteq ToSet(t)
      BY <1>1, <2>3
    <2> QED BY <2>4, <2>5, <2>6
  <1> QED BY <1>2, <1>7, <1>8

\* What Without leaves of a list.
LEMMA WithoutIs ==
    ASSUME NEW s \in Ids, NEW n
    PROVE  Without(n, s) \in Ids /\ ToSet(Without(n, s)) = ToSet(s) \ {n}
  <1>1. /\ s \in Seq(Notes) /\ Len(s) \in Nat /\ DOMAIN s = 1 .. Len(s)
        /\ \A i \in 1 .. Len(s) : s[i] \in Notes
        /\ \A i, j \in 1 .. Len(s) : s[i] = s[j] => i = j
        /\ ToSet(s) = {s[i] : i \in 1 .. Len(s)}
        /\ Contains(s, n) <=> n \in ToSet(s)
    BY IdsAre
  <1>2. CASE n \notin ToSet(s)
    BY <1>1, <1>2 DEF Without
  <1>3. CASE n \in ToSet(s)
    <2> DEFINE p == Position(n, s)
               a == SubSeq(s, 1, p - 1)
               b == SubSeq(s, p + 1, Len(s))
               t == a \o b
    <2>1. p \in 1 .. Len(s) /\ s[p] = n
      <3>1. PICK i \in DOMAIN s : s[i] = n
        BY <1>1, <1>3
      <3>2. \A j \in 1 .. i - 1 : s[j] # n
        BY <1>1, <3>1
      <3> QED BY <1>1, <3>1, <3>2 DEF Position
    <2>2. Without(n, s) = t
      BY <1>1, <1>3 DEF Without, RemoveAt
    <2> HIDE DEF p
    <2>3. /\ a \in Seq(Notes) /\ Len(a) = p - 1
          /\ \A k \in 1 .. p - 1 : a[k] = s[k]
      <3>1. \A k \in 1 .. p - 1 : s[k] \in Notes
        BY <1>1, <2>1
      <3>2. /\ a \in Seq(Notes) /\ Len(a) = IF 1 <= p - 1 THEN (p - 1) - 1 + 1 ELSE 0
            /\ \A k \in 1 .. (p - 1) - 1 + 1 : a[k] = s[1 + k - 1]
        BY <1>1, <2>1, <3>1, SubSeqProperties
      <3> HIDE DEF a
      <3> QED BY <1>1, <2>1, <3>2
    <2>4. /\ b \in Seq(Notes) /\ Len(b) = Len(s) - p
          /\ \A k \in 1 .. Len(s) - p : b[k] = s[p + k]
      <3>1. \A k \in p + 1 .. Len(s) : s[k] \in Notes
        BY <1>1, <2>1
      <3>2. /\ b \in Seq(Notes) /\ Len(b) = IF p + 1 <= Len(s) THEN Len(s) - (p + 1) + 1 ELSE 0
            /\ \A k \in 1 .. Len(s) - (p + 1) + 1 : b[k] = s[p + 1 + k - 1]
        BY <1>1, <2>1, <3>1, SubSeqProperties
      <3> HIDE DEF b
      <3>3. b \in Seq(Notes) /\ Len(b) = Len(s) - p
        <4>1. CASE p + 1 <= Len(s)
          BY <1>1, <2>1, <3>2, <4>1
        <4>2. CASE ~(p + 1 <= Len(s))
          <5>1. Len(s) \in Int /\ p \in Int /\ p <= Len(s)
            BY <1>1, <2>1
          <5>2. Len(s) - p = 0
            BY <4>2, <5>1
          <5> QED BY <3>2, <4>2, <5>2
        <4> QED BY <4>1, <4>2
      <3>4. ASSUME NEW k \in 1 .. Len(s) - p PROVE b[k] = s[p + k]
        <4>1. k \in 1 .. Len(s) - (p + 1) + 1 /\ p + 1 + k - 1 = p + k
          BY <1>1, <2>1
        <4> QED BY <3>2, <4>1
      <3> QED BY <3>3, <3>4
    <2> HIDE DEF a, b
    <2>0. /\ t \in Seq(Notes) /\ Len(t) = Len(a) + Len(b)
          /\ \A k \in 1 .. Len(a) + Len(b) : t[k] = IF k <= Len(a) THEN a[k] ELSE b[k - Len(a)]
      BY <2>3, <2>4, ConcatProperties
    <2> HIDE DEF t
    <2>5. /\ t \in Seq(Notes) /\ Len(t) = Len(s) - 1
          /\ \A k \in 1 .. Len(s) - 1 : t[k] = IF k <= p - 1 THEN a[k] ELSE b[k - (p - 1)]
      BY <1>1, <2>0, <2>1, <2>3, <2>4
    <2> DEFINE from(k) == IF k < p THEN k ELSE k + 1
    <2>6. \A k \in 1 .. Len(t) : from(k) \in 1 .. Len(s) /\ t[k] = s[from(k)]
      <3> SUFFICES ASSUME NEW k \in 1 .. Len(t)
                   PROVE  from(k) \in 1 .. Len(s) /\ t[k] = s[from(k)]
        OBVIOUS
      <3>1. CASE k < p
        <4>1. k \in 1 .. p - 1 /\ k <= p - 1 /\ k \in 1 .. Len(s) - 1
          BY <1>1, <2>1, <2>5, <3>1
        <4> QED BY <1>1, <2>1, <2>3, <2>5, <3>1, <4>1
      <3>2. CASE k >= p
        <4>1. k - (p - 1) \in 1 .. Len(s) - p /\ p + (k - (p - 1)) = k + 1 /\ k + 1 \in 1 .. Len(s)
          BY <1>1, <2>1, <2>5, <3>2
        <4>0. k \in Int /\ p \in Int /\ k \in 1 .. Len(s) - 1 /\ ~(k < p) /\ ~(k <= p - 1)
          BY <1>1, <2>1, <2>5, <3>2
        <4>2. t[k] = b[k - (p - 1)] /\ from(k) = k + 1
          BY <2>5, <4>0
        <4>3. b[k - (p - 1)] = s[p + (k - (p - 1))]
          BY <2>4, <4>1
        <4> QED BY <4>1, <4>2, <4>3
      <3> QED BY <1>1, <2>1, <2>5, <3>1, <3>2
    <2>7. Len(t) = Len(s) - 1 /\ p \in Int
      BY <1>1, <2>1, <2>5
    <2>8. \A i, j \in 1 .. Len(t) : t[i] = t[j] => i = j
      <3> SUFFICES ASSUME NEW i \in 1 .. Len(t), NEW j \in 1 .. Len(t), t[i] = t[j] PROVE i = j
        OBVIOUS
      <3>1. from(i) \in 1 .. Len(s) /\ from(j) \in 1 .. Len(s) /\ s[from(i)] = s[from(j)]
        BY <2>6
      <3>2. from(i) = from(j)
        <4> HIDE DEF from
        <4> QED BY <1>1, <3>1
      <3> QED BY <2>7, <3>2
    <2>9. t \in Ids /\ ToSet(t) = {t[k] : k \in 1 .. Len(t)}
      BY <2>5, <2>8, ElementsOf DEF Ids, IsInjective
    <2>10. \A k \in 1 .. Len(t) : t[k] \in ToSet(s) \ {n}
      <3> SUFFICES ASSUME NEW k \in 1 .. Len(t) PROVE t[k] \in ToSet(s) \ {n}
        OBVIOUS
      <3>1. from(k) # p
        BY <2>7
      <3>2. from(k) \in 1 .. Len(s) /\ t[k] = s[from(k)]
        BY <2>6
      <3> HIDE DEF from
      <3> QED BY <1>1, <2>1, <3>1, <3>2
    <2>11. \A x \in 1 .. Len(s) : s[x] # n => s[x] \in ToSet(t)
      <3> SUFFICES ASSUME NEW x \in 1 .. Len(s), s[x] # n PROVE s[x] \in ToSet(t)
        OBVIOUS
      <3>1. x # p
        BY <2>1
      <3>2. CASE x < p
        <4>1. x \in 1 .. Len(t) /\ t[x] = s[x]
          BY <1>1, <2>1, <2>6, <2>7, <3>2
        <4> QED BY <2>9, <4>1
      <3>3. CASE x > p
        <4>1. x - 1 \in 1 .. Len(t) /\ x - 1 >= p /\ (x - 1) + 1 = x
          BY <1>1, <2>1, <2>7, <3>3
        <4>2. t[x - 1] = s[x]
          BY <2>6, <2>7, <4>1
        <4> QED BY <2>9, <4>1, <4>2
      <3> QED BY <2>7, <3>1, <3>2, <3>3
    <2> QED BY <1>1, <2>2, <2>9, <2>10, <2>11
  <1> QED BY <1>2, <1>3

\* What Prepend adds to a list.
LEMMA PrependIs ==
    ASSUME NEW s \in Ids, NEW n \in Notes
    PROVE  Prepend(n, s) \in Ids /\ ToSet(Prepend(n, s)) = ToSet(s) \cup {n}
  <1> DEFINE one == <<n>>
             t == one \o s
  <1>1. /\ s \in Seq(Notes) /\ Len(s) \in Nat
        /\ \A i, j \in 1 .. Len(s) : s[i] = s[j] => i = j
        /\ ToSet(s) = {s[i] : i \in 1 .. Len(s)}
        /\ Contains(s, n) <=> n \in ToSet(s)
    BY IdsAre
  <1>2. CASE n \in ToSet(s)
    BY <1>1, <1>2 DEF Prepend
  <1>3. CASE n \notin ToSet(s)
    <2>1. Prepend(n, s) = t
      BY <1>1, <1>3 DEF Prepend
    <2>2. one \in Seq(Notes) /\ Len(one) = 1 /\ one[1] = n /\ s \in Seq(Notes)
      BY <1>1, OneList
    <2> HIDE DEF one
    <2>3. /\ t \in Seq(Notes) /\ Len(t) = Len(one) + Len(s)
          /\ \A k \in 1 .. Len(one) + Len(s) : t[k] = IF k <= Len(one) THEN one[k] ELSE s[k - Len(one)]
      BY <2>2, ConcatProperties
    <2> HIDE DEF t
    <2>4. /\ Len(t) = Len(s) + 1 /\ t[1] = n
          /\ \A k \in 1 .. Len(t) : k # 1 => k - 1 \in 1 .. Len(s) /\ t[k] = s[k - 1]
      BY <1>1, <2>2, <2>3
    <2>5. \A i, j \in 1 .. Len(t) : t[i] = t[j] => i = j
      <3> SUFFICES ASSUME NEW i \in 1 .. Len(t), NEW j \in 1 .. Len(t), t[i] = t[j] PROVE i = j
        OBVIOUS
      <3>1. CASE i = 1 \/ j = 1
        BY <1>1, <1>3, <2>4, <3>1
      <3>2. CASE i # 1 /\ j # 1
        <4>1. i - 1 \in 1 .. Len(s) /\ j - 1 \in 1 .. Len(s) /\ s[i - 1] = s[j - 1]
          BY <2>4, <3>2
        <4>2. i - 1 = j - 1
          BY <1>1, <4>1
        <4> QED BY <1>1, <2>4, <4>2
      <3> QED BY <3>1, <3>2
    <2>6. t \in Ids /\ ToSet(t) = {t[k] : k \in 1 .. Len(t)}
      <3>1. DOMAIN t = 1 .. Len(t) /\ ToSet(t) = {t[k] : k \in 1 .. Len(t)}
        BY <2>3, ElementsOf
      <3>2. IsInjective(t)
        BY <2>5, <3>1 DEF IsInjective
      <3> QED BY <2>3, <3>1, <3>2 DEF Ids
    <2>7. ToSet(t) = ToSet(s) \cup {n}
      <3>1. \A k \in 1 .. Len(t) : t[k] \in ToSet(s) \cup {n}
        BY <1>1, <2>4
      <3>2. \A k \in 1 .. Len(s) : k + 1 \in 1 .. Len(t) /\ t[k + 1] = s[k]
        <4> SUFFICES ASSUME NEW k \in 1 .. Len(s) PROVE k + 1 \in 1 .. Len(t) /\ t[k + 1] = s[k]
          OBVIOUS
        <4>1. k + 1 \in 1 .. Len(t) /\ k + 1 # 1 /\ (k + 1) - 1 = k
          BY <1>1, <2>4
        <4> QED BY <2>4, <4>1
      <3>3. 1 \in 1 .. Len(t)
        BY <1>1, <2>4
      <3> QED BY <1>1, <2>4, <2>6, <3>1, <3>2, <3>3
    <2> QED BY <2>1, <2>6, <2>7
  <1> QED BY <1>2, <1>3

\* What Chosen takes of a list: every element that is in S, and none twice.
LEMMA ChosenIs ==
    ASSUME NEW s \in Ids, NEW S
    PROVE  Chosen(s, S) \in Ids /\ ToSet(Chosen(s, S)) = ToSet(s) \cap S
  <1> DEFINE kept     == {i \in DOMAIN s : s[i] \in S}
             upto(i)  == {j \in kept : j <= i}
             place(i) == Cardinality(upto(i))
             n        == Cardinality(kept)
             pick(k)  == CHOOSE i \in kept : place(i) = k
             t        == [k \in 1 .. n |-> s[pick(k)]]
  <1>0. Chosen(s, S) = t
    BY DEF Chosen
  <1>1. /\ Len(s) \in Nat /\ DOMAIN s = 1 .. Len(s)
        /\ \A i \in 1 .. Len(s) : s[i] \in Notes
        /\ \A i, j \in 1 .. Len(s) : s[i] = s[j] => i = j
        /\ ToSet(s) = {s[i] : i \in 1 .. Len(s)}
    BY IdsAre
  <1>2. kept \subseteq 1 .. Len(s) /\ IsFiniteSet(kept) /\ n \in Nat
    <2>1. kept \subseteq 1 .. Len(s)
      BY <1>1
    <2> HIDE DEF kept
    <2> QED BY <1>1, <2>1, UpTo, FS_Subset, FS_CardinalityType
  <1>3. \A i \in kept : /\ upto(i) \subseteq kept /\ i \in upto(i)
                        /\ IsFiniteSet(upto(i)) /\ place(i) \in 1 .. n
    <2> SUFFICES ASSUME NEW i \in kept
                 PROVE  /\ upto(i) \subseteq kept /\ i \in upto(i)
                        /\ IsFiniteSet(upto(i)) /\ place(i) \in 1 .. n
      OBVIOUS
    <2>1. upto(i) \subseteq kept /\ i \in upto(i)
      BY <1>2
    <2>2. IsFiniteSet(upto(i)) /\ place(i) <= n /\ place(i) \in Nat
      <3> HIDE DEF upto, kept
      <3> QED BY <1>2, <2>1, FS_Subset, FS_CardinalityType
    <2>3. place(i) # 0
      <3> HIDE DEF upto, kept
      <3> QED BY <2>1, <2>2, FS_EmptySet
    <2> HIDE DEF place, kept, n
    <2> QED BY <1>2, <2>1, <2>2, <2>3
  <1>4. \A i, j \in kept : i < j => place(i) # place(j)
    <2> SUFFICES ASSUME NEW i \in kept, NEW j \in kept, i < j, place(i) = place(j) PROVE FALSE
      OBVIOUS
    <2>1. upto(i) \subseteq upto(j) /\ j \notin upto(i)
      BY <1>2
    <2>2. upto(i) = upto(j)
      <3> HIDE DEF upto, kept
      <3> QED BY <1>3, <2>1, FS_Subset
    <2> QED BY <1>3, <2>1, <2>2
  <1>5. \A i, j \in kept : place(i) = place(j) => i = j
    <2> HIDE DEF place, kept
    <2> QED BY <1>2, <1>4
  <1>6. \A k \in 1 .. n : \E i \in kept : place(i) = k
    <2> DEFINE f == [i \in kept |-> place(i)]
    <2>1. f \in Injection(kept, 1 .. n)
      <3> HIDE DEF place, kept, n
      <3> QED BY <1>3, <1>5 DEF Injection, IsInjective
    <2>2. IsFiniteSet(1 .. n) /\ Cardinality(1 .. n) = n
      BY <1>2, UpTo
    <2>3. f \in Surjection(kept, 1 .. n)
      <3> HIDE DEF f, kept
      <3> QED BY <2>1, <2>2, FS_Injection
    <2> HIDE DEF place, kept, n
    <2> QED BY <2>3 DEF Surjection
  <1>7. \A k \in 1 .. n : pick(k) \in kept /\ place(pick(k)) = k
    <2> HIDE DEF place, kept, n
    <2> QED BY <1>6
  <1>8. \A i \in kept : place(i) \in 1 .. n /\ pick(place(i)) = i
    <2> HIDE DEF place, kept, n
    <2> QED BY <1>3, <1>5, <1>7
  <1>9. t \in [1 .. n -> Notes] /\ \A k \in 1 .. n : t[k] = s[pick(k)]
    <2> HIDE DEF pick, kept, n
    <2> QED BY <1>1, <1>2, <1>7
  <1> HIDE DEF t
  <1>10. t \in Seq(Notes) /\ Len(t) = n
    <2> HIDE DEF n
    <2> QED BY <1>2, <1>9, SeqDef
  <1>11. \A k, m \in 1 .. Len(t) : t[k] = t[m] => k = m
    <2> HIDE DEF pick, kept, n, place
    <2> SUFFICES ASSUME NEW k \in 1 .. n, NEW m \in 1 .. n, t[k] = t[m] PROVE k = m
      BY <1>10
    <2>1. pick(k) = pick(m)
      BY <1>1, <1>2, <1>7, <1>9
    <2> QED BY <1>7, <2>1
  <1>12. t \in Ids /\ ToSet(t) = {t[k] : k \in 1 .. n}
    <2> HIDE DEF n
    <2> QED BY <1>10, <1>11, ElementsOf DEF Ids, IsInjective
  <1>13. {t[k] : k \in 1 .. n} = {s[i] : i \in kept}
    <2> HIDE DEF pick, kept, n, place
    <2> QED BY <1>7, <1>8, <1>9
  <1>14. {s[i] : i \in kept} = ToSet(s) \cap S
    BY <1>1
  <1> HIDE DEF n, kept
  <1> QED BY <1>0, <1>12, <1>13, <1>14

-----------------------------------------------------------------------------
(* The invariants.                                                         *)

\* The lists of the store.
StoreType ==
    /\ unused \subseteq Notes /\ gist \in Gists
    /\ all \in Ids /\ trash \in Ids /\ marked \subseteq Notes

\* The order updates: the note in hand is in the list that was read, and no
\* note is in two hands.
Op == [note : Notes \cup {None}, ids : Ids, restoring : BOOLEAN]
OpType(o) == IF o.note = None THEN o = Idle ELSE o.note \in ToSet(o.ids)

HandsType ==
    /\ op \in [Actor -> Op] /\ \A p \in Actor : OpType(op[p])
    /\ op["ui"].note = op["sync"].note => op["ui"].note = None

\* The model and the signals to it.
ModelType ==
    /\ shown \in Ids /\ type \in Types /\ hooked \in BOOLEAN
    /\ load \in [pc : {"off", "read", "set"}, ids : Ids]
    /\ queue \in Seq(Signals) /\ Len(queue) <= MaxQueue
    /\ off \subseteq Notes
    /\ type = "NoNotes" => shown = <<>> /\ off = {} /\ ~Loading
    /\ ~Loading /\ type # "NoNotes" => hooked

TypeInv == StoreType /\ HandsType /\ ModelType

\* The notes that a list names, or that an order update may write.
Read == UNION {ToSet(op[p].ids) : p \in Actor}
Named == Known \cup marked \cup Read

\* Actor p has n in hand, and its order update is part of a restoring.
RestoredBy(p, n) == op[p].note = n /\ op[p].restoring
Restored(n) == \E p \in Actor : RestoredBy(p, n)

\* A new id is nowhere yet; the mark's list has the notes with the mark, and
\* has to have those that are not in the trash; what is in the trash and not
\* trashed is on its way out.
StoreInv ==
    /\ unused \cap Named = {}
    /\ \A n \in marked : gist[n].mark
    /\ \A n \in Notes : gist[n].mark /\ ~gist[n].trashed => n \in marked
    /\ \A n \in ToSet(trash) : ~gist[n].trashed => Restored(n)
    /\ \A n \in Notes : Restored(n) => ~gist[n].trashed

\* What a page has in hand is off, if a signal about it is on its way.
HandInv == op["ui"].note \in Queued /\ type # "NoNotes" => op["ui"].note \in off

\* What a signal does to its note in the model when the gists are g: it brings
\* it, takes it, or neither.
Brings(e, g) ==
    \/ e.sig = "created" /\ type = "AllNotes"
    \/ e.sig = "mark" /\ e.is /\ type = "Marked"
    \/ e.sig = "trash" /\ e.is /\ type = "TrashNotes"
    \/ e.sig = "trash" /\ ~e.is /\ type = "AllNotes"
    \/ e.sig = "trash" /\ ~e.is /\ type = "Marked" /\ g[e.note].mark

Takes(e) ==
    \/ e.sig = "expunged"
    \/ e.sig = "mark" /\ ~e.is /\ type = "Marked"
    \/ e.sig = "trash" /\ e.is /\ type # "TrashNotes"
    \/ e.sig = "trash" /\ ~e.is /\ type = "TrashNotes"

Decides(e, n) == e.note = n /\ (Brings(e, gist) \/ Takes(e))

\* The i-th signal on its way is the last one that decides about n.
LastOn(i, n) ==
    Decides(queue[i], n) /\ \A j \in DOMAIN queue : j > i => ~Decides(queue[j], n)

\* A note is being restored, and the signal to come will decide about it.
Pending(n) == Restored(n) /\ (type = "Marked" => gist[n].mark)

\* The model and the signals on their way agree with the store about n.
Follows(n) ==
    /\ (\A i \in DOMAIN queue : ~Decides(queue[i], n)) => (n \in ToSet(shown) <=> n \in Listed)
    /\ \A i \in DOMAIN queue : LastOn(i, n) => (Brings(queue[i], gist) <=> n \in Listed)

FollowInv ==
    ~Loading /\ type # "NoNotes" => \A n \in Notes \ off : Pending(n) \/ Follows(n)

\* During a load what is being changed is off; of the other notes, what was
\* read, and then what is shown, is what the store has.
LoadInv ==
    Loading =>
        /\ Busy \subseteq off
        /\ load.pc = "read" /\ type # "TrashNotes" =>
              \A n \in Notes \ off : n \in ToSet(load.ids) <=> n \in ToSet(all)
        /\ load.pc = "set" => \A n \in Notes \ off : n \in ToSet(shown) <=> n \in Listed

\* The invariant that proves ShowsTheList.
ShowInv == StoreInv /\ HandInv /\ FollowInv /\ LoadInv

\* The types of the slots' signals and of an order update.
LEMMA SignalIs ==
    ASSUME NEW n \in Notes, NEW is \in BOOLEAN
    PROVE  /\ {Created(n), Expunged(n), TimeChanged(n), MarkSet(n, is), Trashedness(n, is)} \subseteq Signals
           /\ Idle \in Op
  <1>1. Idle \in Op
    BY EmptyList DEF Idle, Op
  <1> QED BY <1>1 DEF Created, Expunged, TimeChanged, MarkSet, Trashedness, Signals

\* What a slot does to the model: to the signal's note what the signal says,
\* and nothing to others.
LEMMA SlotIs ==
    ASSUME shown \in Ids, type \in Types, NEW e \in Signals, NEW g \in Gists
    PROVE  /\ Slot(e, g) \in Ids
           /\ \A m : m # e.note => (m \in ToSet(Slot(e, g)) <=> m \in ToSet(shown))
           /\ Brings(e, g) /\ ~NotTakenBack(e) => e.note \in ToSet(Slot(e, g))
           /\ Takes(e) => e.note \notin ToSet(Slot(e, g))
           /\ ~Brings(e, g) /\ ~Takes(e) =>
                 (e.note \in ToSet(Slot(e, g)) <=> e.note \in ToSet(shown))
           /\ type = "NoNotes" /\ shown = <<>> => Slot(e, g) = <<>>
  <1> DEFINE n == e.note
             in == Insert(n, shown, g)
             out == Without(n, shown)
             moved == Insert(n, out, g)
             s == Slot(e, g)
  <1>1. n \in Notes /\ e.is \in BOOLEAN /\ e.sig \in {"created", "expunged", "display", "mark", "trash"}
    BY DEF Signals
  <1>2. out \in Ids /\ ToSet(out) = ToSet(shown) \ {n}
    BY WithoutIs
  <1>3. n \notin ToSet(shown) => in \in Ids /\ ToSet(in) = ToSet(shown) \cup {n}
    BY <1>1, Inserted
  <1>4. moved \in Ids /\ ToSet(moved) = (ToSet(shown) \ {n}) \cup {n}
    <2> QED BY <1>1, <1>2, Inserted
  <1>5. Contains(shown, n) <=> n \in ToSet(shown)
    BY IdsAre
  <1>6. CASE e.sig = "created"
    <2>1. s = IF type = "AllNotes" /\ n \notin ToSet(shown) THEN in ELSE shown
      BY <1>5, <1>6 DEF Slot, NoteCreated
    <2> QED BY <1>3, <1>6, <2>1 DEF Brings, Takes
  <1>7. CASE e.sig = "expunged"
    <2>1. s = out
      BY <1>7 DEF Slot, NoteExpunged
    <2>2. s \in Ids /\ ToSet(s) = ToSet(shown) \ {n} /\ ~Brings(e, g)
      BY <1>2, <1>7, <2>1 DEF Brings
    <2>3. shown = <<>> => s = <<>>
      BY <2>2, EmptyList, NoElements DEF Ids
    <2> QED BY <1>7, <2>2, <2>3 DEF Takes
  <1>8. CASE e.sig = "display"
    <2>1. s = IF n \in ToSet(shown) THEN moved ELSE shown
      BY <1>5, <1>8 DEF Slot, NoteDisplayDataChanged
    <2> QED BY <1>4, <1>8, <2>1, EmptyList DEF Brings, Takes
  <1>9. CASE e.sig = "mark"
    <2>1. s = MarkChanged(n, e.is, g)
      BY <1>9 DEF Slot
    <2>2. s = CASE type = "Marked" /\ n \in ToSet(shown) /\ ~e.is -> out
                [] type = "Marked" /\ n \notin ToSet(shown) /\ e.is -> in
                [] OTHER -> shown
      BY <1>5, <2>1 DEF MarkChanged
    <2>3. CASE type = "Marked" /\ n \in ToSet(shown) /\ ~e.is
      BY <1>2, <1>9, <2>2, <2>3 DEF Brings, Takes
    <2>4. CASE type = "Marked" /\ n \notin ToSet(shown) /\ e.is
      BY <1>3, <1>9, <2>2, <2>4 DEF Brings, Takes
    <2>5. CASE type # "Marked" \/ (n \in ToSet(shown) <=> e.is)
      <3>1. s = shown
        BY <2>2, <2>5
      <3> QED BY <1>1, <1>9, <2>5, <3>1 DEF Brings, Takes
    <2> QED BY <1>1, <2>3, <2>4, <2>5
  <1>10. CASE e.sig = "trash"
    <2>1. s = NoteTrashednessChanged(n, e.is, g)
      BY <1>10 DEF Slot
    <2>2. s = CASE n \in ToSet(shown) /\ e.is # (type = "TrashNotes") -> out
                [] n \notin ToSet(shown) /\ e.is /\ type = "TrashNotes" -> in
                [] n \notin ToSet(shown) /\ ~e.is /\ type = "Marked" /\ g[n].mark -> in
                [] OTHER -> shown
      BY <1>5, <2>1 DEF NoteTrashednessChanged
    <2>3. NotTakenBack(e) <=> ~e.is /\ type = "AllNotes" /\ n \notin ToSet(shown)
      BY <1>5, <1>10 DEF NotTakenBack
    <2>4. CASE n \in ToSet(shown)
      <3>1. CASE (e.is /\ type # "TrashNotes") \/ (~e.is /\ type = "TrashNotes")
        <4>1. s = out
          BY <2>2, <2>4, <3>1
        <4> QED BY <1>2, <1>10, <2>4, <3>1, <4>1, EmptyList DEF Brings, Takes
      <3>2. CASE (e.is /\ type = "TrashNotes") \/ (~e.is /\ type # "TrashNotes")
        <4>0. ~(e.is # (type = "TrashNotes"))
          BY <1>1, <3>2
        <4>1. s = shown
          BY <2>2, <2>4, <4>0
        <4> QED BY <1>10, <2>4, <3>2, <4>1 DEF Brings, Takes
      <3> QED BY <1>1, <3>1, <3>2
    <2>5. CASE n \notin ToSet(shown)
      <3>1. CASE e.is /\ type = "TrashNotes"
        <4>1. s = in
          BY <2>2, <2>5, <3>1
        <4> QED BY <1>3, <1>10, <2>5, <3>1, <4>1 DEF Brings, Takes
      <3>2. CASE ~e.is /\ type = "Marked" /\ g[n].mark
        <4>1. s = in
          BY <2>2, <2>5, <3>2
        <4> QED BY <1>3, <1>10, <2>5, <3>2, <4>1 DEF Brings, Takes
      <3>3. CASE ~(e.is /\ type = "TrashNotes") /\ ~(~e.is /\ type = "Marked" /\ g[n].mark)
        <4>1. s = shown
          BY <2>2, <2>5, <3>3
        <4> QED BY <1>10, <2>3, <2>5, <3>3, <4>1 DEF Brings, Takes
      <3> QED BY <3>1, <3>2, <3>3
    <2> QED BY <2>4, <2>5
  <1> QED BY <1>1, <1>6, <1>7, <1>8, <1>9, <1>10

\* A signal does not both.
LEMMA OneVerdict ==
    ASSUME NEW e, NEW g
    PROVE  ~(Brings(e, g) /\ Takes(e))
  BY DEF Brings, Takes

\* A step of actor p on the note n: it leaves the page's query and the load
\* alone, ends with the signal e or with none, and puts the notes of S off.
Acts(p, n, e, S) ==
    /\ UNCHANGED <<type, hooked, load>>
    /\ PutOff(S)
    /\ Emit(p, e, gist') \/ (UNCHANGED <<shown, queue>> /\ e = TimeChanged(n))

\* What such a step leaves has its types.
LEMMA ModelStep ==
    ASSUME ModelType, NEW p \in Actor, NEW n \in Notes, NEW e \in Signals, NEW S, S \subseteq Notes,
           Acts(p, n, e, S), gist' \in Gists
    PROVE  ModelType'
  <1>1. off' \subseteq Notes /\ (type = "NoNotes" => off' = {})
    BY DEF Acts, PutOff, ModelType
  <1>2. Slot(e, gist') \in Ids /\ (type = "NoNotes" /\ shown = <<>> => Slot(e, gist') = <<>>)
    BY SlotIs DEF ModelType
  <1>3. /\ shown' \in Ids /\ (type = "NoNotes" => shown' = <<>>)
        /\ queue' = queue \/ (queue' = Append(queue, e) /\ Len(queue) < MaxQueue)
    BY <1>2 DEF Acts, Emit, ModelType
  <1>4. queue' \in Seq(Signals) /\ Len(queue') <= MaxQueue
    <2>1. CASE queue' = queue
      BY <2>1 DEF ModelType
    <2>2. CASE queue' = Append(queue, e) /\ Len(queue) < MaxQueue
      <3>1. Len(queue) \in Nat
        BY LenProperties DEF ModelType
      <3> QED BY <2>2, <3>1, AppendProperties, Bounds DEF ModelType
    <2> QED BY <1>3, <2>1, <2>2
  <1> QED BY <1>1, <1>3, <1>4 DEF ModelType, Acts, Loading

\* What is connected: signals that are not, decide nothing.
LEMMA NotConnected ==
    ASSUME ModelType, ~Loading, type # "NoNotes", NEW e, NEW g, ~Connected(e)
    PROVE  ~Brings(e, g) /\ ~Takes(e)
  BY DEF ModelType, Connected, Brings, Takes

\* The notes that signals are about.
LEMMA QueuedIs ==
    ASSUME queue \in Seq(Signals)
    PROVE  /\ Len(queue) \in Nat /\ DOMAIN queue = 1 .. Len(queue)
           /\ Queued = {queue[i].note : i \in 1 .. Len(queue)}
           /\ \A i \in 1 .. Len(queue) : queue[i] \in Signals /\ queue[i].note \in Queued
  <1>1. Len(queue) \in Nat /\ DOMAIN queue = 1 .. Len(queue)
    BY LenProperties
  <1>2. \A i \in 1 .. Len(queue) : queue[i] \in Signals
    BY ElementOfSeq
  <1> QED BY <1>1, <1>2 DEF Queued

\* A step leaves the note m in the lists where it was.
Stays(m) ==
    /\ m \in ToSet(all)' <=> m \in ToSet(all)
    /\ m \in ToSet(trash)' <=> m \in ToSet(trash)
    /\ m \in marked' <=> m \in marked

\* Then it stays in the list that the model stands for, or out of it.
LEMMA ListedStep ==
    ASSUME NEW m, type \in Types, type' = type, Stays(m)
    PROVE  m \in Listed' <=> m \in Listed
  BY DEF Listed, Types, Stays

\* Signals that are appended: what is decided about which note.
LEMMA QueueStep ==
    ASSUME TypeInv, NEW p \in Actor, NEW n \in Notes, NEW e \in Signals, e.note = n, NEW S,
           Acts(p, n, e, S), gist' \in Gists
    PROVE  /\ p = "ui" => queue' = queue
           /\ queue' = queue \/ queue' = Append(queue, e)
           /\ Queued' \subseteq Queued \cup {n}
           /\ \A m \in Notes \ {n} : m \in ToSet(shown') <=> m \in ToSet(shown)
  <1>1. /\ p = "ui" => queue' = queue
        /\ queue' = queue \/ queue' = Append(queue, e)
        /\ shown' = shown \/ shown' = Slot(e, gist')
    BY DEF Acts, Emit
  <1>2. queue \in Seq(Signals) /\ shown \in Ids /\ type \in Types
    BY DEF TypeInv, ModelType
  <1>3. Queued' \subseteq Queued \cup {n}
    <2>1. CASE queue' = queue
      BY <2>1 DEF Queued
    <2>2. CASE queue' = Append(queue, e)
      <3>1. /\ Len(queue') = Len(queue) + 1 /\ queue' \in Seq(Signals)
            /\ \A i \in 1 .. Len(queue) : queue'[i] = queue[i]
            /\ queue'[Len(queue) + 1] = e
        BY <1>2, <2>2, AppendProperties
      <3>2. Queued' = {queue'[i].note : i \in 1 .. Len(queue')}
        BY <3>1, LenProperties DEF Queued
      <3>3. \A i \in 1 .. Len(queue') : i \in 1 .. Len(queue) \/ i = Len(queue) + 1
        BY <1>2, <3>1, QueuedIs
      <3> QED BY <1>2, <3>1, <3>2, <3>3, QueuedIs
    <2> QED BY <1>1, <2>1, <2>2
  <1> QED BY <1>1, <1>2, <1>3, SlotIs

\* What such a step does to the rest: only p's hand, only n's gist, and of the
\* notes that are not put off only n changes its lists.
Changes(p, n, e, S) ==
    /\ Acts(p, n, e, S)
    /\ S \subseteq Notes /\ Missed(n) \subseteq S
    /\ gist' \in Gists /\ \A m \in Notes \ {n} : gist'[m] = gist[m]
    /\ \A m \in Notes \ ({n} \cup S) : Stays(m)
    /\ op' = [op EXCEPT ![p] = op'[p]]
    /\ {op[p].note, op'[p].note} \subseteq {None, n}
    /\ \A q \in Actor \ {p} : op[q].note # n
    /\ Overtakes(p, n) /\ type # "NoNotes" => n \in off'

\* What the step says of n: nothing, as n is off or the end of an order update
\* will say it, or what is true then.
Truthful(p, n, e, S) ==
    \/ type = "NoNotes" \/ n \in off' \/ Pending(n)'
    \/ /\ p = "ui" => ~NotTakenBack(e)
       /\ Brings(e, gist') => n \in Listed'
       /\ Takes(e) => n \notin Listed'
       /\ ~Brings(e, gist') /\ ~Takes(e) =>
             /\ ~Pending(n) /\ (n \in Listed' <=> n \in Listed)
             /\ type = "Marked" => gist'[n].mark = gist[n].mark

\* Another note is followed as before.
LEMMA OtherFollows ==
    ASSUME TypeInv, FollowInv, NEW p \in Actor, NEW n \in Notes, NEW e \in Signals, e.note = n, NEW S,
           Changes(p, n, e, S), ~Loading, type # "NoNotes",
           NEW m \in Notes \ off', m # n
    PROVE  (Pending(m) \/ Follows(m))'
  <1>1. /\ type' = type /\ off' = off \cup S /\ gist' \in Gists /\ gist'[m] = gist[m] /\ Acts(p, n, e, S)
        /\ m \notin off /\ Stays(m)
    BY DEF Changes, Acts, PutOff
  <1>2. /\ queue' = queue \/ queue' = Append(queue, e)
        /\ m \in ToSet(shown') <=> m \in ToSet(shown)
    BY <1>1, QueueStep
  <1>3. m \in Listed' <=> m \in Listed
    BY <1>1, ListedStep DEF TypeInv, ModelType
  <1>4. CASE Pending(m)
    <2>1. PICK q \in Actor : op[q].note = m /\ op[q].restoring
      BY <1>4 DEF Pending, Restored, RestoredBy
    <2>2. q # p
      <3>1. op[p].note \in {None, n} /\ m # None
        BY Bounds DEF Changes
      <3> QED BY <2>1, <3>1
    <2>3. op'[q] = op[q]
      BY <2>2 DEF Changes, TypeInv, HandsType
    <2> QED BY <1>1, <1>4, <2>1, <2>3 DEF Pending, Restored, RestoredBy
  <1>5. CASE Follows(m)
    <2>1. /\ queue \in Seq(Signals) /\ Len(queue) \in Nat /\ DOMAIN queue = 1 .. Len(queue)
      BY QueuedIs DEF TypeInv, ModelType
    <2>2. \A i : Decides(queue[i], m)' <=> Decides(queue'[i], m)
      BY <1>1 DEF Decides, Brings, Takes
    <2>3. \A f : f.note = m => (Brings(f, gist)' <=> Brings(f, gist))
      BY <1>1 DEF Brings
    <2>4. CASE queue' = queue
      <3>1. \A i \in DOMAIN queue : LastOn(i, m)' <=> LastOn(i, m)
        BY <2>2, <2>4 DEF LastOn
      <3> QED BY <1>2, <1>3, <1>5, <2>2, <2>3, <2>4, <3>1 DEF Follows, LastOn, Decides
    <2>5. CASE queue' = Append(queue, e)
      <3>1. /\ DOMAIN queue' = 1 .. Len(queue) + 1
            /\ \A i \in 1 .. Len(queue) : queue'[i] = queue[i]
            /\ queue'[Len(queue) + 1] = e
        BY <2>1, <2>5, AppendProperties, LenProperties
      <3>2. ~Decides(e, m)
        BY DEF Decides
      <3>3. \A i \in DOMAIN queue' : i \in DOMAIN queue \/ i = Len(queue) + 1
        BY <2>1, <3>1
      <3>4. DOMAIN queue \subseteq DOMAIN queue'
        BY <2>1, <3>1
      <3>5. \A i \in DOMAIN queue' : Decides(queue'[i], m) => i \in DOMAIN queue /\ Decides(queue[i], m)
        BY <2>1, <3>1, <3>2, <3>3
      <3>6. \A i \in DOMAIN queue : Decides(queue[i], m) => Decides(queue'[i], m)
        BY <2>1, <3>1
      <3>7. \A i \in DOMAIN queue' : LastOn(i, m)' => i \in DOMAIN queue /\ LastOn(i, m) /\ queue'[i] = queue[i]
        BY <2>1, <2>2, <3>1, <3>4, <3>5, <3>6 DEF LastOn
      <3>8. (\A i \in DOMAIN queue' : ~Decides(queue'[i], m)) => \A i \in DOMAIN queue : ~Decides(queue[i], m)
        BY <3>4, <3>6
      <3>9. (\A i \in DOMAIN queue : ~Decides(queue[i], m))' => (m \in ToSet(shown') <=> m \in Listed')
        BY <1>2, <1>3, <1>5, <2>2, <3>8 DEF Follows
      <3>10. ASSUME NEW i \in DOMAIN queue', LastOn(i, m)'
             PROVE  Brings(queue[i], gist)' <=> m \in Listed'
        <4>1. i \in DOMAIN queue /\ LastOn(i, m) /\ queue'[i] = queue[i] /\ queue[i].note = m
          BY <3>7, <3>10 DEF LastOn, Decides
        <4> QED BY <1>1, <1>3, <1>5, <4>1 DEF Follows, Brings
      <3> QED BY <3>9, <3>10 DEF Follows
    <2> QED BY <1>2, <2>4, <2>5
  <1> QED BY <1>1, <1>4, <1>5 DEF FollowInv

\* What is true of n: it is followed, too.
LEMMA OwnFollows ==
    ASSUME TypeInv, FollowInv, NEW p \in Actor, NEW n \in Notes, NEW e \in Signals, e.note = n, NEW S,
           Changes(p, n, e, S), Truthful(p, n, e, S), ~Loading, type # "NoNotes", n \notin off'
    PROVE  (Pending(n) \/ Follows(n))'
  <1>1. /\ type' = type /\ off' = off \cup S /\ gist' \in Gists /\ Acts(p, n, e, S)
        /\ n \notin off /\ n \notin S /\ (p = "ui" => n \notin Queued)
    BY DEF Changes, Acts, PutOff, Overtakes
  <1>2. CASE Pending(n)'
    BY <1>2
  <1>3. CASE ~Pending(n)'
    <2>1. /\ p = "ui" => ~NotTakenBack(e)
          /\ Brings(e, gist') => n \in Listed'
          /\ Takes(e) => n \notin Listed'
          /\ ~Brings(e, gist') /\ ~Takes(e) =>
                /\ ~Pending(n) /\ (n \in Listed' <=> n \in Listed)
                /\ type = "Marked" => gist'[n].mark = gist[n].mark
      BY <1>1, <1>3 DEF Truthful
    <2>2. /\ queue \in Seq(Signals) /\ Len(queue) \in Nat /\ DOMAIN queue = 1 .. Len(queue)
          /\ shown \in Ids /\ type \in Types
          /\ \A i \in 1 .. Len(queue) : queue[i].note \in Queued
      BY QueuedIs DEF TypeInv, ModelType
    <2>3. \A i : Decides(queue[i], n)' <=> queue'[i].note = n /\ (Brings(queue'[i], gist') \/ Takes(queue'[i]))
      BY <1>1 DEF Decides, Brings, Takes
    <2>4. \A i : Brings(queue[i], gist)' <=> Brings(queue'[i], gist')
      BY <1>1 DEF Brings
    <2>5. ~Connected(e) => ~Brings(e, gist') /\ ~Takes(e)
      BY NotConnected DEF TypeInv
    <2>6. /\ p = "sync" \/ p = "ui"
          /\ e = TimeChanged(n) => ~Brings(e, gist') /\ ~Takes(e)
      BY DEF Actor, TimeChanged, Brings, Takes
    <2>7. ASSUME ~Brings(e, gist'), ~Takes(e) PROVE Follows(n)
      BY <1>1, <2>1, <2>7 DEF FollowInv
    <2>8. ASSUME ~Brings(e, gist'), ~Takes(e)
          PROVE  \A f : f.note = n => (Brings(f, gist') <=> Brings(f, gist))
      BY <2>1, <2>8 DEF Brings
    <2>9. CASE queue' = queue /\ (\A i \in DOMAIN queue : ~Decides(queue[i], n)')
      <3>1. n \in ToSet(shown') <=> n \in Listed'
        <4>1. CASE shown' = Slot(e, gist') /\ p = "ui"
          <5>1. CASE Brings(e, gist')
            BY <1>1, <2>1, <2>2, <4>1, <5>1, SlotIs
          <5>2. CASE Takes(e)
            BY <1>1, <2>1, <2>2, <4>1, <5>2, SlotIs
          <5>3. CASE ~Brings(e, gist') /\ ~Takes(e)
            <6>1. n \in ToSet(shown') <=> n \in ToSet(shown)
              BY <1>1, <2>2, <4>1, <5>3, SlotIs
            <6>2. \A i \in DOMAIN queue : ~Decides(queue[i], n)
              BY <1>1, <2>2, <4>1 DEF Decides
            <6> QED BY <2>1, <2>7, <5>3, <6>1, <6>2 DEF Follows
          <5> QED BY <5>1, <5>2, <5>3
        <4>2. CASE shown' = shown /\ ~Brings(e, gist') /\ ~Takes(e)
          <5>1. \A i \in DOMAIN queue : ~Decides(queue[i], n)
            BY <1>1, <2>3, <2>8, <2>9, <4>2 DEF Decides, Brings, Takes
          <5> QED BY <2>1, <2>7, <4>2, <5>1 DEF Follows
        <4>3. \/ shown' = Slot(e, gist') /\ p = "ui"
              \/ shown' = shown /\ ~Brings(e, gist') /\ ~Takes(e)
          <5>1. ASSUME queue' = Append(queue, e) PROVE FALSE
            BY <2>2, <2>9, <5>1, AppendProperties
          <5> QED BY <1>1, <2>5, <2>6, <5>1 DEF Acts, Emit
        <4> QED BY <4>1, <4>2, <4>3
      <3> QED BY <2>9, <3>1 DEF Follows, LastOn
    <2>10. CASE queue' = queue /\ ~(\A i \in DOMAIN queue : ~Decides(queue[i], n)')
      <3>1. n \in Queued /\ p # "ui"
        BY <1>1, <2>2, <2>3, <2>10
      <3>2. ~Brings(e, gist') /\ ~Takes(e)
        <4>1. queue' # Append(queue, e)
          <5>1. ASSUME queue' = Append(queue, e) PROVE FALSE
            BY <2>2, <2>10, <5>1, AppendProperties
          <5> QED BY <5>1
        <4> QED BY <1>1, <2>5, <2>6, <3>1, <4>1 DEF Acts, Emit
      <3>3. \A i \in DOMAIN queue : Decides(queue[i], n)' <=> Decides(queue[i], n)
        BY <2>3, <2>8, <2>10, <3>2 DEF Decides
      <3>4. ASSUME NEW i \in DOMAIN queue, LastOn(i, n)' PROVE Brings(queue[i], gist)' <=> n \in Listed'
        <4>1. LastOn(i, n) /\ queue[i].note = n
          BY <2>10, <3>3, <3>4 DEF LastOn, Decides
        <4>2. Brings(queue[i], gist) <=> n \in Listed
          BY <2>7, <3>2, <4>1 DEF Follows
        <4> QED BY <2>1, <2>4, <2>8, <2>10, <3>2, <4>1, <4>2
      <3> QED BY <2>10, <3>4 DEF Follows
    <2>11. CASE queue' = Append(queue, e) /\ shown' = shown
      <3>0. PICK k \in Nat : k = Len(queue) + 1
        BY <2>2
      <3>1. /\ DOMAIN queue' = 1 .. k
            /\ \A i \in 1 .. Len(queue) : queue'[i] = queue[i]
            /\ queue'[k] = e
        BY <2>2, <2>11, <3>0, AppendProperties, LenProperties
      <3>2. /\ k \in DOMAIN queue' /\ k \in Int
            /\ \A i \in DOMAIN queue' : i = k \/ (i \in DOMAIN queue /\ k > i)
            /\ \A i \in DOMAIN queue : i \in DOMAIN queue' /\ queue'[i] = queue[i] /\ k > i
        BY <2>2, <3>0, <3>1
      <3>3. Decides(queue[k], n)' <=> Brings(e, gist') \/ Takes(e)
        BY <2>3, <3>1
      <3>4. CASE Brings(e, gist') \/ Takes(e)
        <4>1. ~(\A i \in DOMAIN queue : ~Decides(queue[i], n))'
          BY <3>2, <3>3, <3>4
        <4>2. ASSUME NEW i \in DOMAIN queue', LastOn(i, n)' PROVE i = k
          BY <3>2, <3>3, <3>4, <4>2 DEF LastOn
        <4>3. Brings(queue[k], gist)' <=> n \in Listed'
          <5>1. Brings(queue[k], gist)' <=> Brings(e, gist')
            BY <2>4, <3>1
          <5> QED BY <2>1, <3>4, <5>1, OneVerdict
        <4> QED BY <4>1, <4>2, <4>3 DEF Follows
      <3>5. CASE ~Brings(e, gist') /\ ~Takes(e)
        <4>1. \A i \in DOMAIN queue : Decides(queue[i], n)' <=> Decides(queue[i], n)
          BY <2>3, <2>8, <3>2, <3>5 DEF Decides
        <4>2. (n \in ToSet(shown') <=> n \in ToSet(shown)) /\ (n \in Listed' <=> n \in Listed) /\ Follows(n)
          BY <2>1, <2>7, <2>11, <3>5
        <4>3. (\A i \in DOMAIN queue : ~Decides(queue[i], n))' => (n \in ToSet(shown') <=> n \in Listed')
          BY <3>2, <4>1, <4>2 DEF Follows
        <4>4. ASSUME NEW i \in DOMAIN queue', LastOn(i, n)' PROVE Brings(queue[i], gist)' <=> n \in Listed'
          <5>1. i \in DOMAIN queue /\ queue'[i] = queue[i]
            BY <3>2, <3>3, <3>5, <4>4 DEF LastOn
          <5>2. LastOn(i, n) /\ queue[i].note = n
            BY <3>2, <4>1, <4>4, <5>1 DEF LastOn, Decides
          <5>3. Brings(queue[i], gist) <=> n \in Listed
            BY <4>2, <5>1, <5>2 DEF Follows
          <5> QED BY <2>4, <2>8, <3>5, <4>2, <5>1, <5>2, <5>3
        <4> QED BY <4>3, <4>4 DEF Follows
      <3> QED BY <3>4, <3>5
    <2>12. \/ queue' = queue \/ (queue' = Append(queue, e) /\ shown' = shown)
      BY <1>1 DEF Acts, Emit
    <2> QED BY <2>9, <2>10, <2>11, <2>12
  <1> QED BY <1>2, <1>3

\* The step keeps a page's hand off what is on its way.
LEMMA HandStep ==
    ASSUME TypeInv, HandInv, NEW p \in Actor, NEW n \in Notes, NEW e \in Signals, e.note = n, NEW S,
           Changes(p, n, e, S)
    PROVE  HandInv'
  <1> SUFFICES ASSUME op'["ui"].note \in Queued', type # "NoNotes"
               PROVE  op'["ui"].note \in off'
    BY DEF HandInv, Changes, Acts
  <1>1. /\ p = "ui" => queue' = queue
        /\ Queued' \subseteq Queued \cup {n}
    BY QueueStep DEF Changes
  <1>2. None \notin Queued /\ None # n
    <2>1. queue \in Seq(Signals)
      BY DEF TypeInv, ModelType
    <2> QED BY <2>1, QueuedIs, Bounds DEF Signals
  <1>3. off' = off \cup S
    BY DEF Changes, Acts, PutOff
  <1>4. CASE p = "ui"
    <2>1. op'["ui"].note \in {None, n} /\ Queued' = Queued
      BY <1>1, <1>4 DEF Changes, Queued
    <2> QED BY <1>2, <1>4, <2>1 DEF Changes, Overtakes
  <1>5. CASE p = "sync"
    <2>1. op'["ui"] = op["ui"] /\ op["ui"].note # n
      BY <1>5 DEF Changes, Actor, TypeInv, HandsType
    <2> QED BY <1>1, <1>3, <2>1 DEF HandInv
  <1> QED BY <1>4, <1>5 DEF Actor

\* The step keeps what a load has read, and the model then shows, as the
\* store has it.
LEMMA LoadStep ==
    ASSUME TypeInv, LoadInv, NEW p \in Actor, NEW n \in Notes, NEW e \in Signals, e.note = n, NEW S,
           Changes(p, n, e, S)
    PROVE  LoadInv'
  <1> SUFFICES ASSUME Loading PROVE LoadInv'
    BY DEF LoadInv, Changes, Acts, Loading
  <1>1. /\ type # "NoNotes" /\ type' = type /\ load' = load
        /\ off' = off \cup S /\ n \in S /\ type \in Types
    BY DEF Changes, Acts, PutOff, TypeInv, ModelType, Missed
  <1>2. Busy' \subseteq off'
    <2>1. Queued' \subseteq Queued \cup {n}
      BY QueueStep DEF Changes
    <2>2. InHand' \subseteq InHand \cup {n}
      <3>1. \A q \in Actor \ {p} : op'[q] = op[q]
        BY DEF Changes, TypeInv, HandsType
      <3>2. op'[p].note \in {None, n}
        BY DEF Changes
      <3> QED BY <3>1, <3>2 DEF InHand
    <2> QED BY <1>1, <2>1, <2>2 DEF LoadInv, Busy
  <1>3. ASSUME NEW m \in Notes \ off'
        PROVE  /\ m \notin off /\ (m \in Listed' <=> m \in Listed)
               /\ m \in ToSet(shown') <=> m \in ToSet(shown)
               /\ m \in ToSet(all') <=> m \in ToSet(all)
    <2>1. m \notin off /\ m # n /\ m \notin S /\ Stays(m)
      BY <1>1 DEF Changes
    <2>2. m \in ToSet(shown') <=> m \in ToSet(shown)
      BY <2>1, QueueStep DEF Changes
    <2> QED BY <1>1, <2>1, <2>2, ListedStep DEF Stays
  <1>4. load.pc = "read" /\ type # "TrashNotes" =>
            \A m \in Notes \ off' : m \in ToSet(load.ids) <=> m \in ToSet(all')
    BY <1>3 DEF LoadInv
  <1>5. load.pc = "set" => \A m \in Notes \ off' : m \in ToSet(shown') <=> m \in Listed'
    BY <1>3 DEF LoadInv
  <1> QED BY <1>1, <1>2, <1>4, <1>5 DEF LoadInv

\* All that such a step leaves of the model.
LEMMA ShowStep ==
    ASSUME TypeInv, ShowInv, NEW p \in Actor, NEW n \in Notes, NEW e \in Signals, e.note = n, NEW S,
           Changes(p, n, e, S), Truthful(p, n, e, S)
    PROVE  ModelType' /\ HandInv' /\ FollowInv' /\ LoadInv'
  <1>1. HandInv' /\ LoadInv'
    BY HandStep, LoadStep DEF ShowInv
  <1>2. ModelType'
    BY ModelStep DEF Changes, TypeInv
  <1>3. ASSUME ~Loading, type # "NoNotes", NEW m \in Notes \ off'
        PROVE  (Pending(m) \/ Follows(m))'
    <2>1. CASE m = n
      BY <1>3, <2>1, OwnFollows DEF ShowInv
    <2>2. CASE m # n
      BY <1>3, <2>2, OtherFollows DEF ShowInv
    <2> QED BY <2>1, <2>2
  <1>4. FollowInv'
    <2>1. type' = type /\ load' = load
      BY DEF Changes, Acts
    <2> QED BY <1>3, <2>1 DEF FollowInv, Loading
  <1> QED BY <1>1, <1>2, <1>4

-----------------------------------------------------------------------------
(* The operations on the store.                                            *)

\* Whom an actor may take in hand.
LEMMA TakenIs ==
    ASSUME TypeInv, StoreInv, NEW p \in Actor, NEW n \in MayTake(p)
    PROVE  /\ n \in Notes /\ n # None /\ op[p] = Idle /\ op[p].note = None
           /\ \A q \in Actor : op[q].note # n
           /\ ~Restored(n)
  <1>1. op[p] = Idle /\ n \in Notes \ InHand
    BY DEF MayTake
  <1>2. n # None /\ \A q \in Actor : op[q].note # n
    BY <1>1, Bounds DEF InHand
  <1> QED BY <1>1, <1>2 DEF Restored, RestoredBy, Idle

\* What is off at the end of an operation.
LEMMA TouchIs ==
    ASSUME TypeInv, NEW p \in Actor, NEW n \in Notes, NEW S, S \subseteq {n}, PutOff(S),
           Overtakes(p, n) => n \in S
    PROVE  Overtakes(p, n) /\ type # "NoNotes" => n \in off'
  BY DEF PutOff

\* What order updates have read.
LEMMA ReadIs ==
    /\ \A m : m \in Read <=> \E q \in Actor : m \in ToSet(op[q].ids)
    /\ \A m : m \in Read' <=> \E q \in Actor : m \in ToSet(op'[q].ids)
  BY Zenon DEF Read, ToSet

\* An operation that leaves the order updates alone, or begins one.
LEMMA OpIs ==
    ASSUME TypeInv, NEW p \in Actor, NEW n \in Notes, NEW ids \in Ids, NEW restoring \in BOOLEAN,
           op[p] = Idle, \A q \in Actor : op[q].note # n,
           BeginOrder(p, n, ids, restoring)
    PROVE  /\ HandsType'
           /\ op' = [op EXCEPT ![p] = op'[p]]
           /\ op'[p].note \in {None, n} /\ ToSet(op'[p].ids) \subseteq ToSet(ids)
           /\ n \in ToSet(ids) => op'[p].note = n /\ op'[p].restoring = restoring
           /\ op'[p].restoring => restoring /\ op'[p].note = n
  <1> DEFINE o == [note |-> n, ids |-> ids, restoring |-> restoring]
  <1>1. op' = [op EXCEPT ![p] = IF n \in ToSet(ids) THEN o ELSE Idle]
    BY IdsAre DEF BeginOrder
  <1>2. op \in [Actor -> Op] /\ \A q \in Actor : OpType(op[q])
    BY DEF TypeInv, HandsType
  <1>3. op'[p] = (IF n \in ToSet(ids) THEN o ELSE Idle) /\ \A q \in Actor \ {p} : op'[q] = op[q]
    BY <1>1, <1>2
  <1>4. o \in Op /\ Idle \in Op /\ n # None
    <2>1. Idle \in Op
      BY EmptyList DEF Idle, Op
    <2> QED BY <2>1, Bounds DEF Op
  <1>5. op' \in [Actor -> Op] /\ op' = [op EXCEPT ![p] = op'[p]]
    BY <1>1, <1>2, <1>3, <1>4
  <1>6. Idle.note = None /\ Idle.restoring = FALSE /\ ToSet(Idle.ids) = {} /\ OpType(Idle)
    BY EmptyList DEF Idle, OpType
  <1>7. \A q \in Actor : OpType(op'[q])
    <2>1. n \in ToSet(ids) => OpType(o)
      BY <1>4 DEF OpType
    <2> HIDE DEF o
    <2> QED BY <1>2, <1>3, <1>6, <2>1
  <1>8. op'["ui"].note = op'["sync"].note => op'["ui"].note = None
    <2>1. op'[p].note \in {n, None} /\ \A q \in Actor \ {p} : op'[q].note # n
      BY <1>3, <1>6
    <2> QED BY <2>1, <1>3, <1>6 DEF Actor
  <1> QED BY <1>3, <1>5, <1>6, <1>7, <1>8 DEF HandsType

\* An operation that leaves them alone.
LEMMA OpStays ==
    ASSUME TypeInv, NEW p \in Actor, NEW n, op[p] = Idle, UNCHANGED op
    PROVE  /\ HandsType' /\ op' = [op EXCEPT ![p] = op'[p]]
           /\ {op[p].note, op'[p].note} \subseteq {None, n}
           /\ \A m : Restored(m)' <=> Restored(m)
           /\ Read' = Read
  <1>1. op \in [Actor -> Op] /\ op' = op
    BY DEF TypeInv, HandsType
  <1>2. op = [op EXCEPT ![p] = op[p]]
    BY <1>1
  <1>3. Read' = Read
    BY <1>1 DEF Read
  <1> QED BY <1>1, <1>2, <1>3 DEF TypeInv, HandsType, Restored, RestoredBy, Idle

\* Expunging a note: it is in no list, and the signal says so.
LEMMA ShowExpunge ==
    ASSUME TypeInv, ShowInv, NEW p \in Actor, NEW n \in MayTake(p), ExpungeNote(p, n)
    PROVE  TypeInv' /\ ShowInv'
  <1> DEFINE e == Expunged(n)
             S == Missed(n) \cup {m \in {n} : Overtakes(p, n)}
  <1>0. /\ n \in Notes /\ n # None /\ op[p] = Idle /\ \A q \in Actor : op[q].note # n
        /\ e \in Signals /\ e.note = n /\ S \subseteq {n} /\ StoreInv
    BY TakenIs, SignalIs DEF ShowInv, Expunged, Missed
  <1>1. /\ all' = Without(n, all) /\ trash' = Without(n, trash) /\ marked' = marked \ {n}
        /\ gist' = [gist EXCEPT ![n] = NoGist]
        /\ Emit(p, e, gist') /\ PutOff(S)
        /\ UNCHANGED <<unused, type, hooked, load, op>>
    BY DEF ExpungeNote, Touch
  <1>2. /\ all' \in Ids /\ trash' \in Ids
        /\ ToSet(all') = ToSet(all) \ {n} /\ ToSet(trash') = ToSet(trash) \ {n}
    BY <1>1, WithoutIs DEF TypeInv, StoreType
  <1>3. gist' \in Gists /\ gist'[n] = NoGist /\ \A m \in Notes \ {n} : gist'[m] = gist[m]
    <2>1. NoGist \in [at : Time, trashed : BOOLEAN, mark : BOOLEAN]
      BY Bounds DEF NoGist
    <2> QED BY <1>0, <1>1, <2>1 DEF Gists, TypeInv, StoreType
  <1>4. /\ HandsType' /\ op' = [op EXCEPT ![p] = op'[p]] /\ {op[p].note, op'[p].note} \subseteq {None, n}
        /\ \A m : Restored(m)' <=> Restored(m)
        /\ Read' = Read
    BY <1>0, <1>1, OpStays
  <1>5. StoreType'
    BY <1>1, <1>2, <1>3 DEF StoreType, TypeInv
  <1>6. StoreInv'
    <2>1. Named' \subseteq Named /\ unused' = unused
      BY <1>1, <1>2, <1>4 DEF Named, Known
    <2>2. gist'[n].mark = FALSE /\ gist'[n].trashed = FALSE
      BY <1>3 DEF NoGist
    <2>3. ~Restored(n)
      BY TakenIs, <1>0
    <2> QED BY <1>0, <1>1, <1>2, <1>3, <1>4, <2>1, <2>2, <2>3 DEF StoreInv, TypeInv, StoreType
  <1>7. Changes(p, n, e, S)
    <2>1. \A m : m # n => Stays(m)
      BY <1>1, <1>2 DEF Stays
    <2>2. Overtakes(p, n) /\ type # "NoNotes" => n \in off'
      <3> HIDE DEF S
      <3>1. Overtakes(p, n) => n \in S
        BY DEF S
      <3> QED BY <1>0, <1>1, <3>1, TouchIs
    <2> QED BY <1>0, <1>1, <1>3, <1>4, <2>1, <2>2 DEF Changes, Acts
  <1>8. Truthful(p, n, e, S)
    <2>1. n \notin Listed'
      BY <1>1, <1>2 DEF Listed, TypeInv, ModelType, Types
    <2> QED BY <2>1 DEF Truthful, Brings, Takes, Expunged, NotTakenBack
  <1> HIDE DEF e, S
  <1> QED BY <1>0, <1>4, <1>5, <1>6, <1>7, <1>8, ShowStep DEF TypeInv, ShowInv

\* Moving a note to the trash: the model of the trash gets it, the others
\* lose it.
LEMMA ShowTrash ==
    ASSUME TypeInv, ShowInv, NEW p \in Actor, NEW n \in MayTake(p), MoveNoteToTrash(p, n)
    PROVE  TypeInv' /\ ShowInv'
  <1> DEFINE e == Trashedness(n, TRUE)
             S == Missed(n) \cup {m \in {n} : Overtakes(p, n)}
  <1>0. /\ n \in Notes /\ n # None /\ op[p] = Idle /\ \A q \in Actor : op[q].note # n
        /\ e \in Signals /\ e.note = n /\ S \subseteq {n} /\ StoreInv /\ ~Restored(n)
    BY TakenIs, SignalIs DEF ShowInv, Trashedness, Missed
  <1>1. /\ n \in Known
        /\ all' = Without(n, all) /\ trash' = Prepend(n, trash) /\ marked' \in {marked, marked \ {n}}
        /\ gist' = [gist EXCEPT ![n].trashed = TRUE]
        /\ Emit(p, e, gist') /\ PutOff(S)
        /\ UNCHANGED <<unused, type, hooked, load, op>>
    BY DEF MoveNoteToTrash, Touch
  <1>2. /\ all' \in Ids /\ trash' \in Ids
        /\ ToSet(all') = ToSet(all) \ {n} /\ ToSet(trash') = ToSet(trash) \cup {n}
    BY <1>0, <1>1, WithoutIs, PrependIs DEF TypeInv, StoreType
  <1>3. /\ gist' \in Gists /\ \A m \in Notes \ {n} : gist'[m] = gist[m]
        /\ gist'[n].trashed = TRUE /\ gist'[n].mark = gist[n].mark
    BY <1>0, <1>1 DEF Gists, TypeInv, StoreType
  <1>4. /\ HandsType' /\ op' = [op EXCEPT ![p] = op'[p]] /\ {op[p].note, op'[p].note} \subseteq {None, n}
        /\ \A m : Restored(m)' <=> Restored(m)
        /\ Read' = Read
    BY <1>0, <1>1, OpStays
  <1>5. StoreType'
    BY <1>1, <1>2, <1>3 DEF StoreType, TypeInv
  <1>6. StoreInv'
    <2>1. Named' \subseteq Named /\ unused' = unused
      BY <1>1, <1>2, <1>4 DEF Named, Known
    <2>2. \A m \in Notes \ {n} : m \in marked' <=> m \in marked
      BY <1>1
    <2>3. marked' \subseteq marked
      BY <1>1
    <2>4. unused' \cap Named' = {}
      BY <1>0, <2>1 DEF StoreInv
    <2>5. \A m \in marked' : gist'[m].mark
      BY <1>0, <1>3, <1>5, <2>3 DEF StoreInv, StoreType
    <2>6. ASSUME NEW m \in Notes, gist'[m].mark, ~gist'[m].trashed PROVE m \in marked'
      <3>1. m # n
        BY <1>3, <2>6
      <3> QED BY <1>0, <1>3, <2>2, <2>6, <3>1 DEF StoreInv
    <2>7. ASSUME NEW m \in ToSet(trash'), ~gist'[m].trashed PROVE Restored(m)'
      <3>1. m # n /\ m \in ToSet(trash) /\ m \in Notes
        BY <1>2, <1>3, <2>7, IdsAre
      <3> QED BY <1>0, <1>3, <1>4, <2>7, <3>1 DEF StoreInv
    <2>8. ASSUME NEW m \in Notes, Restored(m)' PROVE ~gist'[m].trashed
      <3>1. Restored(m) /\ m # n
        BY <1>0, <1>4, <2>8
      <3> QED BY <1>0, <1>3, <3>1 DEF StoreInv
    <2> QED BY <2>4, <2>5, <2>6, <2>7, <2>8 DEF StoreInv
  <1>7. Changes(p, n, e, S)
    <2>1. \A m : m # n => Stays(m)
      BY <1>1, <1>2 DEF Stays
    <2>2. Overtakes(p, n) /\ type # "NoNotes" => n \in off'
      <3> HIDE DEF S
      <3>1. Overtakes(p, n) => n \in S
        BY DEF S
      <3> QED BY <1>0, <1>1, <3>1, TouchIs
    <2> QED BY <1>0, <1>1, <1>3, <1>4, <2>1, <2>2 DEF Changes, Acts
  <1>8. Truthful(p, n, e, S)
    <2>1. n \notin ToSet(all') /\ n \in ToSet(trash') /\ type' = type /\ type \in Types
      BY <1>1, <1>2 DEF TypeInv, ModelType
    <2>2. e.sig = "trash" /\ e.is = TRUE
      BY DEF Trashedness
    <2>3. n \in Listed' <=> type = "TrashNotes"
      BY <2>1 DEF Listed, Types
    <2> QED BY <2>2, <2>3 DEF Truthful, Brings, Takes, NotTakenBack
  <1> HIDE DEF e, S
  <1> QED BY <1>0, <1>4, <1>5, <1>6, <1>7, <1>8, ShowStep DEF TypeInv, ShowInv

\* Setting or clearing the mark: the signal says which it is, and the note,
\* unless it is in the trash, is in the list of all notes.
LEMMA ShowMark ==
    ASSUME TypeInv, ShowInv, NEW p \in Actor, NEW n \in MayTake(p), SetMark(p, n)
    PROVE  TypeInv' /\ ShowInv'
  <1> DEFINE e == MarkSet(n, ~gist[n].mark)
             S == Missed(n) \cup {m \in {n} : Overtakes(p, n) \/ gist[n].trashed}
  <1>0. /\ n \in Notes /\ n # None /\ op[p] = Idle /\ \A q \in Actor : op[q].note # n
        /\ gist[n].mark \in BOOLEAN /\ gist[n].trashed \in BOOLEAN
        /\ e \in Signals /\ e.note = n /\ S \subseteq {n} /\ StoreInv /\ ~Restored(n)
    <2>1. n \in Notes
      BY TakenIs DEF ShowInv
    <2>2. gist[n].mark \in BOOLEAN /\ gist[n].trashed \in BOOLEAN
      BY <2>1 DEF TypeInv, StoreType, Gists
    <2> QED BY <2>2, TakenIs, SignalIs DEF ShowInv, MarkSet, Missed
  <1>1. /\ n \in Known /\ (p = "ui" => n \in ToSet(all))
        /\ marked' = IF gist[n].mark THEN marked \ {n} ELSE marked \cup {n}
        /\ gist' = [gist EXCEPT ![n].mark = ~gist[n].mark]
        /\ Emit(p, e, gist') /\ PutOff(S)
        /\ UNCHANGED <<unused, all, trash, type, hooked, load, op>>
    BY DEF SetMark, Known
  <1>3. /\ gist' \in Gists /\ \A m \in Notes \ {n} : gist'[m] = gist[m]
        /\ gist'[n].trashed = gist[n].trashed /\ gist'[n].mark = ~gist[n].mark
    BY <1>0, <1>1 DEF Gists, TypeInv, StoreType
  <1>4. /\ HandsType' /\ op' = [op EXCEPT ![p] = op'[p]] /\ {op[p].note, op'[p].note} \subseteq {None, n}
        /\ \A m : Restored(m)' <=> Restored(m)
        /\ Read' = Read
    BY <1>0, <1>1, OpStays
  <1>5. StoreType'
    BY <1>0, <1>1, <1>3 DEF StoreType, TypeInv
  <1>6. StoreInv'
    <2>1. Named' \subseteq Named \cup {n} /\ n \in Named /\ unused' = unused
      BY <1>1, <1>4 DEF Named, Known
    <2>2. \A m \in Notes \ {n} : m \in marked' <=> m \in marked
      BY <1>1
    <2>3. n \in marked' <=> gist'[n].mark
      BY <1>0, <1>1, <1>3
    <2> QED BY <1>0, <1>1, <1>3, <1>4, <1>5, <2>1, <2>2, <2>3 DEF StoreInv, TypeInv, StoreType
  <1>7. Changes(p, n, e, S)
    <2>1. \A m : m # n => Stays(m)
      BY <1>1 DEF Stays
    <2>2. Overtakes(p, n) /\ type # "NoNotes" => n \in off'
      <3> HIDE DEF S
      <3>1. Overtakes(p, n) => n \in S
        BY DEF S
      <3> QED BY <1>0, <1>1, <3>1, TouchIs
    <2> QED BY <1>0, <1>1, <1>3, <1>4, <2>1, <2>2 DEF Changes, Acts
  <1>8. Truthful(p, n, e, S)
    <2>1. CASE n \in off' \/ type = "NoNotes"
      BY <2>1 DEF Truthful
    <2>2. CASE n \notin off' /\ type # "NoNotes"
      <3>1. ~gist[n].trashed
        BY <1>1, <2>2 DEF PutOff
      <3>2. n \in ToSet(all)
        BY <1>0, <1>1, <3>1 DEF StoreInv, Known
      <3>3. /\ type' = type /\ type \in Types /\ all' = all /\ trash' = trash
            /\ n \in marked' <=> ~gist[n].mark
        BY <1>0, <1>1 DEF TypeInv, ModelType
      <3>4. e.sig = "mark" /\ e.is = ~gist[n].mark
        BY DEF MarkSet
      <3>5. CASE type = "Marked"
        <4>1. n \in Listed' <=> ~gist[n].mark
          BY <3>2, <3>3, <3>5 DEF Listed
        <4> QED BY <1>0, <3>4, <3>5, <4>1 DEF Truthful, Brings, Takes, NotTakenBack
      <3>6. CASE type # "Marked"
        <4>1. n \in Listed' <=> n \in Listed
          BY <2>2, <3>3, <3>6 DEF Listed, Types
        <4>2. ~Pending(n)
          BY <1>0 DEF Pending
        <4> QED BY <3>4, <3>6, <4>1, <4>2 DEF Truthful, Brings, Takes, NotTakenBack
      <3> QED BY <3>5, <3>6
    <2> QED BY <2>1, <2>2
  <1> HIDE DEF e, S
  <1> QED BY <1>0, <1>4, <1>5, <1>6, <1>7, <1>8, ShowStep DEF TypeInv, ShowInv

\* A new note: the model of all notes gets it.
LEMMA ShowCreate ==
    ASSUME TypeInv, ShowInv, NEW p \in Actor, NEW n \in Notes, NEW t \in Time, CreateNote(p, n, t)
    PROVE  TypeInv' /\ ShowInv'
  <1> DEFINE e == Created(n)
             S == Missed(n) \cup {m \in {n} : Overtakes(p, n)}
  <1>1. /\ op[p] = Idle /\ n \in unused /\ unused' = unused \ {n}
        /\ gist' = [gist EXCEPT ![n].at = t] /\ all' = Prepend(n, all)
        /\ Emit(p, e, gist') /\ PutOff(S)
        /\ UNCHANGED <<trash, marked, type, hooked, load, op>>
    BY DEF CreateNote, Touch
  <1>a. n \notin Named /\ n # None
    BY <1>1, Bounds DEF ShowInv, StoreInv
  <1>0. /\ \A q \in Actor : op[q].note # n
        /\ e \in Signals /\ e.note = n /\ S \subseteq {n} /\ StoreInv /\ ~Restored(n)
    <2>1. ASSUME NEW q \in Actor, op[q].note = n PROVE FALSE
      <3>1. n \in ToSet(op[q].ids)
        BY <1>a, <2>1 DEF TypeInv, HandsType, OpType
      <3> QED BY <1>a, <3>1, ReadIs DEF Named
    <2>2. e \in Signals /\ e.note = n
      BY SignalIs DEF Created
    <2> QED BY <2>1, <2>2 DEF ShowInv, Missed, Restored, RestoredBy
  <1>2. all' \in Ids /\ ToSet(all') = ToSet(all) \cup {n}
    BY <1>1, PrependIs DEF TypeInv, StoreType
  <1>3. /\ gist' \in Gists /\ \A m \in Notes \ {n} : gist'[m] = gist[m]
        /\ gist'[n].trashed = gist[n].trashed /\ gist'[n].mark = gist[n].mark
    BY <1>1 DEF Gists, TypeInv, StoreType
  <1>4. /\ HandsType' /\ op' = [op EXCEPT ![p] = op'[p]] /\ {op[p].note, op'[p].note} \subseteq {None, n}
        /\ \A m : Restored(m)' <=> Restored(m)
        /\ Read' = Read
    BY <1>1, OpStays
  <1>5. StoreType'
    BY <1>1, <1>2, <1>3 DEF StoreType, TypeInv
  <1>6. StoreInv'
    <2>1. Named' \subseteq Named \cup {n}
      BY <1>1, <1>2, <1>4 DEF Named, Known
    <2> QED BY <1>0, <1>1, <1>3, <1>4, <2>1 DEF StoreInv, TypeInv, StoreType
  <1>7. Changes(p, n, e, S)
    <2>1. \A m : m # n => Stays(m)
      BY <1>1, <1>2 DEF Stays
    <2>2. Overtakes(p, n) /\ type # "NoNotes" => n \in off'
      <3> HIDE DEF S
      <3>1. Overtakes(p, n) => n \in S
        BY DEF S
      <3> QED BY <1>0, <1>1, <3>1, TouchIs
    <2> QED BY <1>0, <1>1, <1>3, <1>4, <2>1, <2>2 DEF Changes, Acts
  <1>8. Truthful(p, n, e, S)
    <2>1. /\ n \in ToSet(all') /\ type' = type /\ type \in Types /\ trash' = trash
          /\ n \notin marked /\ marked' = marked
      BY <1>1, <1>2, <1>a DEF TypeInv, ModelType, Named
    <2>2. e.sig = "created"
      BY DEF Created
    <2>3. type = "AllNotes" => n \in Listed'
      BY <2>1 DEF Listed
    <2>4. type # "AllNotes" => (n \in Listed' <=> n \in Listed)
      BY <2>1 DEF Listed, Types
    <2>5. ~Pending(n)
      BY <1>0 DEF Pending
    <2> QED BY <1>3, <2>2, <2>3, <2>4, <2>5 DEF Truthful, Brings, Takes, NotTakenBack
  <1> HIDE DEF e, S
  <1> QED BY <1>0, <1>4, <1>5, <1>6, <1>7, <1>8, ShowStep DEF TypeInv, ShowInv

\* Beginning an order update of n changes nothing for the notes in other hands.
LEMMA BeginIs ==
    ASSUME TypeInv, NEW p \in Actor, NEW n \in Notes, NEW ids \in Ids, NEW restoring \in BOOLEAN,
           op[p] = Idle, \A q \in Actor : op[q].note # n,
           BeginOrder(p, n, ids, restoring)
    PROVE  /\ \A m \in Notes \ {n} : Restored(m)' <=> Restored(m)
           /\ Restored(n)' <=> restoring /\ n \in ToSet(ids)
           /\ Read' \subseteq Read \cup ToSet(ids)
  <1>1. /\ op' = [op EXCEPT ![p] = op'[p]] /\ op \in [Actor -> Op]
        /\ op'[p].note \in {None, n} /\ ToSet(op'[p].ids) \subseteq ToSet(ids)
        /\ n \in ToSet(ids) => op'[p].note = n /\ op'[p].restoring = restoring
        /\ op'[p].restoring => restoring /\ op'[p].note = n
    BY OpIs DEF TypeInv, HandsType
  <1>2. \A q \in Actor \ {p} : op'[q] = op[q]
    BY <1>1
  <1>3. None \notin Notes /\ op[p].note = None
    BY Bounds DEF Idle
  <1>4. ASSUME NEW m \in Notes \ {n} PROVE Restored(m)' <=> Restored(m)
    BY <1>1, <1>2, <1>3 DEF Restored, RestoredBy
  <1>5. Restored(n)' <=> restoring /\ n \in ToSet(ids)
    <2>1. Restored(n)' <=> op'[p].note = n /\ op'[p].restoring
      BY <1>2 DEF Restored, RestoredBy
    <2>2. n \notin ToSet(ids) => op'[p] = Idle
      <3>1. n \notin ToSet(ids) => ~Contains(ids, n)
        BY IdsAre
      <3> QED BY <1>1, <3>1 DEF BeginOrder, TypeInv, HandsType
    <2> QED BY <1>1, <2>1, <2>2 DEF Idle
  <1>6. ASSUME NEW m \in Read' PROVE m \in Read \/ m \in ToSet(ids)
    <2>1. PICK q \in Actor : m \in ToSet(op'[q].ids)
      BY <1>6, ReadIs
    <2>2. CASE q = p
      <3>1. m \in ToSet(op'[p].ids)
        BY <2>1, <2>2
      <3> QED BY <1>1, <3>1
    <2>3. CASE q # p
      <3>1. m \in ToSet(op[q].ids)
        BY <1>2, <2>1, <2>3
      <3> QED BY <3>1, ReadIs
    <2> QED BY <2>2, <2>3
  <1> QED BY <1>4, <1>5, <1>6

\* Restoring a note, as far as the beginning of its order update: the signal
\* of its end will say that the note is back.
LEMMA ShowRestore ==
    ASSUME TypeInv, ShowInv, NEW p \in Actor, NEW n \in MayTake(p), RestoreNoteFromTrash(p, n)
    PROVE  TypeInv' /\ ShowInv'
  <1> DEFINE e == TimeChanged(n)
             S == Missed(n) \cup {m \in {n} : Overtakes(p, n)}
  <1>0. /\ n \in Notes /\ n # None /\ op[p] = Idle /\ \A q \in Actor : op[q].note # n
        /\ e \in Signals /\ e.note = n /\ S \subseteq {n} /\ StoreInv /\ ~Restored(n)
    BY TakenIs, SignalIs DEF ShowInv, TimeChanged, Missed
  <1>1. /\ n \in Known /\ gist[n].trashed
        /\ all' = Prepend(n, all) /\ marked' = IF gist[n].mark THEN marked \cup {n} ELSE marked
        /\ gist' = [gist EXCEPT ![n].trashed = FALSE]
        /\ BeginOrder(p, n, all', TRUE) /\ PutOff(S)
        /\ UNCHANGED <<unused, trash, shown, type, hooked, load, queue>>
    BY DEF RestoreNoteFromTrash, Touch, model
  <1>2. all' \in Ids /\ ToSet(all') = ToSet(all) \cup {n}
    BY <1>0, <1>1, PrependIs DEF TypeInv, StoreType
  <1>3. /\ gist' \in Gists /\ \A m \in Notes \ {n} : gist'[m] = gist[m]
        /\ gist'[n].trashed = FALSE /\ gist'[n].mark = gist[n].mark
    BY <1>0, <1>1 DEF Gists, TypeInv, StoreType
  <1>4. /\ HandsType' /\ op' = [op EXCEPT ![p] = op'[p]] /\ {op[p].note, op'[p].note} \subseteq {None, n}
        /\ \A m \in Notes \ {n} : Restored(m)' <=> Restored(m)
        /\ Restored(n)'
        /\ Read' \subseteq Read \cup ToSet(all')
    <2>1. op[p].note = None
      BY <1>0 DEF Idle
    <2>2. n \in ToSet(all')
      BY <1>2
    <2>3. HandsType' /\ op' = [op EXCEPT ![p] = op'[p]] /\ op'[p].note \in {None, n}
      BY <1>0, <1>1, <1>2, OpIs
    <2>4. /\ \A m \in Notes \ {n} : Restored(m)' <=> Restored(m)
          /\ Restored(n)' <=> TRUE /\ n \in ToSet(all')
          /\ Read' \subseteq Read \cup ToSet(all')
      BY <1>0, <1>1, <1>2, BeginIs
    <2> QED BY <2>1, <2>2, <2>3, <2>4
  <1>5. StoreType'
    BY <1>0, <1>1, <1>2, <1>3 DEF StoreType, TypeInv
  <1>6. StoreInv'
    <2>1. Named' \subseteq Named /\ unused' = unused
      <3>1. Known' = Known
        BY <1>1, <1>2 DEF Known
      <3>2. ToSet(all') \subseteq Known' /\ marked' \subseteq marked \cup Known
        BY <1>1 DEF Known
      <3> QED BY <1>1, <1>4, <3>1, <3>2 DEF Named
    <2>2. \A m \in Notes \ {n} : m \in marked' <=> m \in marked
      BY <1>1
    <2>3. n \in marked' <=> gist'[n].mark
      BY <1>0, <1>1, <1>3 DEF StoreInv
    <2>4. unused' \cap Named' = {}
      BY <1>0, <2>1 DEF StoreInv
    <2>5. \A m \in marked' : gist'[m].mark
      BY <1>0, <1>3, <1>5, <2>2, <2>3 DEF StoreInv, StoreType
    <2>6. \A m \in Notes : gist'[m].mark /\ ~gist'[m].trashed => m \in marked'
      BY <1>0, <1>3, <2>2, <2>3 DEF StoreInv
    <2>7. ASSUME NEW m \in ToSet(trash'), ~gist'[m].trashed PROVE Restored(m)'
      <3>1. m \in ToSet(trash) /\ m \in Notes
        BY <1>1, <2>7, IdsAre DEF TypeInv, StoreType
      <3> QED BY <1>0, <1>3, <1>4, <2>7, <3>1 DEF StoreInv
    <2>8. ASSUME NEW m \in Notes, Restored(m)' PROVE ~gist'[m].trashed
      BY <1>0, <1>3, <1>4, <2>8 DEF StoreInv
    <2> QED BY <2>4, <2>5, <2>6, <2>7, <2>8 DEF StoreInv
  <1>7. Changes(p, n, e, S)
    <2>1. \A m : m # n => Stays(m)
      BY <1>1, <1>2 DEF Stays
    <2>2. Overtakes(p, n) /\ type # "NoNotes" => n \in off'
      <3> HIDE DEF S
      <3>1. Overtakes(p, n) => n \in S
        BY DEF S
      <3> QED BY <1>0, <1>1, <3>1, TouchIs
    <2> QED BY <1>0, <1>1, <1>3, <1>4, <2>1, <2>2 DEF Changes, Acts
  <1>8. Truthful(p, n, e, S)
    <2>1. CASE type # "Marked" \/ gist[n].mark
      <3>1. Pending(n)'
        BY <1>1, <1>3, <1>4, <2>1 DEF Pending
      <3> QED BY <3>1 DEF Truthful
    <2>2. CASE type = "Marked" /\ ~gist[n].mark
      <3>1. n \notin Listed /\ n \notin Listed'
        BY <1>0, <1>1, <2>2 DEF Listed, StoreInv
      <3>2. ~Pending(n) /\ e.sig = "display"
        BY <1>0 DEF Pending, TimeChanged
      <3> QED BY <1>3, <3>1, <3>2 DEF Truthful, Brings, Takes, NotTakenBack
    <2> QED BY <2>1, <2>2
  <1> HIDE DEF e, S
  <1> QED BY <1>0, <1>4, <1>5, <1>6, <1>7, <1>8, ShowStep DEF TypeInv, ShowInv

\* A new time of a note, and the beginning of its order update, by the page or
\* by the synchronisation: nothing is added or taken away.
LEMMA ShowTime ==
    ASSUME TypeInv, ShowInv, NEW p \in Actor, NEW n \in MayTake(p), NEW t \in Time, n \in Known,
           gist' = [gist EXCEPT ![n].at = t], BeginOrder(p, n, all, FALSE), Touch(p, n),
           Emit(p, TimeChanged(n), gist') \/ UNCHANGED <<shown, queue>>,
           UNCHANGED <<unused, all, trash, marked, type, hooked, load>>
    PROVE  TypeInv' /\ ShowInv'
  <1> DEFINE e == TimeChanged(n)
             S == Missed(n) \cup {m \in {n} : Overtakes(p, n)}
  <1>0. /\ n \in Notes /\ n # None /\ op[p] = Idle /\ \A q \in Actor : op[q].note # n
        /\ e \in Signals /\ e.note = n /\ S \subseteq {n} /\ StoreInv /\ ~Restored(n)
    BY TakenIs, SignalIs DEF ShowInv, TimeChanged, Missed
  <1>1. PutOff(S)
    BY DEF Touch
  <1>3. /\ gist' \in Gists /\ \A m \in Notes \ {n} : gist'[m] = gist[m]
        /\ gist'[n].trashed = gist[n].trashed /\ gist'[n].mark = gist[n].mark
    BY <1>0 DEF Gists, TypeInv, StoreType
  <1>4. /\ HandsType' /\ op' = [op EXCEPT ![p] = op'[p]] /\ {op[p].note, op'[p].note} \subseteq {None, n}
        /\ \A m \in Notes \ {n} : Restored(m)' <=> Restored(m)
        /\ ~Restored(n)'
        /\ Read' \subseteq Read \cup ToSet(all)
    <2>1. op[p].note = None /\ all \in Ids
      BY <1>0 DEF Idle, TypeInv, StoreType
    <2> QED BY <1>0, <2>1, OpIs, BeginIs
  <1>5. StoreType'
    BY <1>3 DEF StoreType, TypeInv
  <1>6. StoreInv'
    <2>1. Named' \subseteq Named
      <3>1. Known' = Known /\ ToSet(all) \subseteq Known
        BY DEF Known
      <3> QED BY <1>4, <3>1 DEF Named
    <2>2. \A m \in Notes : /\ gist'[m].trashed = gist[m].trashed /\ gist'[m].mark = gist[m].mark
                           /\ Restored(m)' <=> Restored(m)
      BY <1>0, <1>3, <1>4
    <2>3. marked \subseteq Notes /\ ToSet(trash) \subseteq Notes
      BY IdsAre DEF TypeInv, StoreType
    <2> QED BY <1>0, <2>1, <2>2, <2>3 DEF StoreInv
  <1>7. Changes(p, n, e, S)
    <2>1. \A m : m # n => Stays(m)
      BY DEF Stays
    <2>2. Overtakes(p, n) /\ type # "NoNotes" => n \in off'
      <3> HIDE DEF S
      <3>1. Overtakes(p, n) => n \in S
        BY DEF S
      <3> QED BY <1>0, <1>1, <3>1, TouchIs
    <2> QED BY <1>0, <1>1, <1>3, <1>4, <2>1, <2>2 DEF Changes, Acts
  <1>8. Truthful(p, n, e, S)
    <2>1. n \in Listed' <=> n \in Listed
      BY DEF Listed
    <2>2. ~Pending(n) /\ e.sig = "display"
      BY <1>0 DEF Pending, TimeChanged
    <2> QED BY <1>3, <2>1, <2>2 DEF Truthful, Brings, Takes, NotTakenBack
  <1> HIDE DEF e, S
  <1> QED BY <1>0, <1>4, <1>5, <1>6, <1>7, <1>8, ShowStep DEF TypeInv, ShowInv

\* The end of an order update: what the list it writes back adds or loses is
\* off; a restored note leaves the trash and the signal brings it back.
LEMMA ShowOrder ==
    ASSUME TypeInv, ShowInv, NEW p \in Actor, WriteOrder(p)
    PROVE  TypeInv' /\ ShowInv'
  <1>a. PICK n, o : n = op[p].note /\ o = op[p]
    OBVIOUS
  <1> DEFINE e == IF o.restoring THEN Trashedness(n, FALSE) ELSE TimeChanged(n)
             back == {m \in {n} : o.restoring /\ p = "ui" /\ NotTakenBack(Trashedness(n, FALSE))}
             S == Missed(n) \cup SymDiff(ToSet(all), ToSet(all')) \cup back
  <1>0. /\ op \in [Actor -> Op] /\ n \in Notes /\ n # None /\ o.ids \in Ids /\ n \in ToSet(o.ids)
        /\ o.restoring \in BOOLEAN
        /\ \A q \in Actor \ {p} : op[q].note # n
        /\ StoreInv /\ HandInv /\ e \in Signals /\ e.note = n
    <2>1. op \in [Actor -> Op] /\ op[p] # Idle /\ OpType(op[p])
      BY DEF WriteOrder, TypeInv, HandsType
    <2>2. n \in Notes /\ n # None /\ o.ids \in Ids /\ n \in ToSet(o.ids) /\ o.restoring \in BOOLEAN
      BY <1>a, <2>1, Bounds DEF OpType, Op
    <2>3. \A q \in Actor \ {p} : op[q].note # n
      BY <1>a, <2>2 DEF TypeInv, HandsType, Actor
    <2>4. e \in Signals /\ e.note = n
      BY <2>2, SignalIs DEF Trashedness, TimeChanged
    <2> QED BY <2>1, <2>2, <2>3, <2>4 DEF ShowInv
  <1>1. /\ all' = Insert(n, Without(n, o.ids), gist)
        /\ trash' = IF o.restoring THEN Without(n, trash) ELSE trash
        /\ PutOff(S)
        /\ op' = [op EXCEPT ![p] = Idle]
        /\ UNCHANGED <<unused, gist, marked, type, hooked, load>>
    BY <1>a DEF WriteOrder
  <1>2. /\ all' \in Ids /\ trash' \in Ids
        /\ ToSet(all') = ToSet(o.ids) /\ ToSet(trash') = IF o.restoring THEN ToSet(trash) \ {n} ELSE ToSet(trash)
    <2>1. trash \in Ids /\ gist \in Gists
      BY DEF TypeInv, StoreType
    <2>2. Without(n, o.ids) \in Ids /\ ToSet(Without(n, o.ids)) = ToSet(o.ids) \ {n}
      BY <1>0, WithoutIs
    <2>3. all' \in Ids /\ ToSet(all') = (ToSet(o.ids) \ {n}) \cup {n}
      BY <1>0, <1>1, <2>1, <2>2, Inserted
    <2>4. Without(n, trash) \in Ids /\ ToSet(Without(n, trash)) = ToSet(trash) \ {n}
      BY <2>1, WithoutIs
    <2> QED BY <1>0, <1>1, <2>1, <2>3, <2>4
  <1>3. op'[p] = Idle /\ (\A q \in Actor \ {p} : op'[q] = op[q]) /\ op' = [op EXCEPT ![p] = op'[p]]
    BY <1>0, <1>1
  <1>4. HandsType'
    <2>1. Idle \in Op /\ Idle.note = None /\ OpType(Idle)
      BY <1>0, SignalIs DEF Idle, OpType
    <2>2. op' \in [Actor -> Op] /\ \A q \in Actor : OpType(op'[q])
      BY <1>0, <1>1, <1>3, <2>1 DEF TypeInv, HandsType
    <2>3. op'["ui"].note = None \/ op'["sync"].note = None
      BY <1>3, <2>1 DEF Actor
    <2>4. \/ op'["ui"] = op["ui"] \/ op'["ui"].note = None
      BY <1>3, <2>1 DEF Actor
    <2> QED BY <2>2, <2>3, <2>4 DEF HandsType
  <1>5. StoreType'
    BY <1>1, <1>2 DEF StoreType, TypeInv
  <1>6. /\ Restored(n)' <=> FALSE
        /\ \A m \in Notes \ {n} : Restored(m)' <=> Restored(m)
        /\ Restored(n) <=> o.restoring
    <2>1. op'[p].note = None
      BY <1>3 DEF Idle
    <2>2. \A m \in Notes \ {n} : Restored(m)' <=> Restored(m)
      BY <1>a, <1>3, <2>1, Bounds DEF Restored, RestoredBy
    <2>3. Restored(n)' <=> FALSE
      BY <1>a, <1>0, <1>3, <2>1 DEF Restored, RestoredBy
    <2>4. Restored(n) <=> o.restoring
      BY <1>a, <1>0 DEF Restored, RestoredBy
    <2> QED BY <2>2, <2>3, <2>4
  <1>7. StoreInv'
    <2>1. Named' \subseteq Named
      <3>1. ToSet(all') \subseteq Read
        BY <1>a, <1>2, ReadIs
      <3>2. Read' \subseteq Read
        <4> SUFFICES ASSUME NEW m \in Read' PROVE m \in Read
          OBVIOUS
        <4>1. PICK q \in Actor : m \in ToSet(op'[q].ids)
          BY ReadIs
        <4>2. CASE q = p
          <5>1. op'[p].ids = <<>>
            BY <1>3 DEF Idle
          <5> QED BY <4>1, <4>2, <5>1, EmptyList
        <4>3. CASE q # p
          <5>1. m \in ToSet(op[q].ids)
            BY <1>3, <4>1, <4>3
          <5> QED BY <5>1, ReadIs
        <4> QED BY <4>2, <4>3
      <3> QED BY <1>1, <1>2, <3>1, <3>2 DEF Named, Known
    <2>2. unused' \cap Named' = {}
      BY <1>0, <1>1, <2>1 DEF StoreInv
    <2>3. /\ \A m \in marked' : gist'[m].mark
          /\ \A m \in Notes : gist'[m].mark /\ ~gist'[m].trashed => m \in marked'
      BY <1>0, <1>1 DEF StoreInv
    <2>4. ASSUME NEW m \in ToSet(trash'), ~gist'[m].trashed PROVE Restored(m)'
      <3>1. m \in ToSet(trash) /\ m \in Notes /\ Restored(m)
        BY <1>0, <1>1, <1>2, <2>4, IdsAre DEF StoreInv
      <3>2. m # n
        BY <1>2, <1>6, <2>4, <3>1
      <3> QED BY <1>6, <3>1, <3>2
    <2>5. \A m \in Notes : Restored(m)' => ~gist'[m].trashed
      BY <1>0, <1>1, <1>6 DEF StoreInv
    <2> QED BY <2>2, <2>3, <2>4, <2>5 DEF StoreInv
  <1>8. Changes(p, n, e, S)
    <2>1. S \subseteq Notes /\ Missed(n) \subseteq S
      <3>1. ToSet(all) \subseteq Notes /\ ToSet(all') \subseteq Notes
        BY <1>2, IdsAre DEF TypeInv, StoreType
      <3> QED BY <1>0, <3>1 DEF Missed, SymDiff
    <2>2. \A m \in Notes \ ({n} \cup S) : Stays(m)
      BY <1>1, <1>2 DEF Stays, SymDiff
    <2>3. op[p].note \in {None, n} /\ op'[p].note \in {None, n}
      BY <1>a, <1>3 DEF Idle
    <2>4. Overtakes(p, n) /\ type # "NoNotes" => n \in off'
      BY <1>a, <1>0, <1>1 DEF Overtakes, HandInv, PutOff
    <2>5. Emit(p, e, gist') \/ (UNCHANGED <<shown, queue>> /\ e = TimeChanged(n))
      <3>1. CASE o.restoring
        BY <1>a, <1>1, <3>1 DEF WriteOrder
      <3>2. CASE ~o.restoring
        BY <1>a, <1>1, <3>2 DEF WriteOrder
      <3> QED BY <3>1, <3>2
    <2>6. Acts(p, n, e, S)
      BY <1>1, <2>5 DEF Acts
    <2>7. gist' \in Gists /\ \A m \in Notes \ {n} : gist'[m] = gist[m]
      BY <1>1 DEF TypeInv, StoreType
    <2> HIDE DEF e, S
    <2> QED BY <1>0, <1>3, <2>1, <2>2, <2>3, <2>4, <2>6, <2>7 DEF Changes
  <1>9. Truthful(p, n, e, S)
    <2>1. CASE n \in off' \/ type = "NoNotes"
      BY <2>1 DEF Truthful
    <2>2. CASE n \notin off' /\ type # "NoNotes"
      <3>1. n \notin S /\ type' = type /\ type \in Types /\ marked' = marked /\ gist' = gist
        BY <1>1, <2>2 DEF PutOff, TypeInv, ModelType
      <3>2. n \in ToSet(all') /\ n \in ToSet(all)
        BY <1>0, <1>2, <3>1 DEF SymDiff
      <3>3. CASE o.restoring
        <4>1. e = Trashedness(n, FALSE) /\ e.sig = "trash" /\ e.is = FALSE /\ e.note = n
          BY <3>3 DEF Trashedness
        <4>2. p = "ui" => ~NotTakenBack(e)
          BY <1>0, <3>1, <3>3, <4>1
        <4>3. n \notin ToSet(trash') /\ ~gist[n].trashed /\ (n \in marked <=> gist[n].mark)
          BY <1>0, <1>2, <1>6, <3>3 DEF StoreInv
        <4>4. CASE type = "AllNotes"
          <5>1. n \in Listed'
            BY <3>1, <3>2, <4>4 DEF Listed
          <5> QED BY <4>1, <4>2, <4>4, <5>1 DEF Truthful, Brings, Takes
        <4>5. CASE type = "TrashNotes"
          <5>1. n \notin Listed'
            BY <3>1, <4>3, <4>5 DEF Listed
          <5> QED BY <4>1, <4>2, <4>5, <5>1 DEF Truthful, Brings, Takes
        <4>6. CASE type = "Marked"
          <5>1. (n \in Listed' <=> gist[n].mark) /\ (n \in Listed <=> gist[n].mark)
            BY <3>1, <3>2, <4>3, <4>6 DEF Listed
          <5>2. Pending(n) <=> gist[n].mark
            BY <1>6, <3>3, <4>6 DEF Pending
          <5>3. /\ Brings(e, gist') <=> gist[n].mark
                /\ ~Takes(e)
            BY <3>1, <4>1, <4>6 DEF Brings, Takes
          <5> HIDE DEF e, S
          <5> QED BY <3>1, <4>2, <5>1, <5>2, <5>3 DEF Truthful
        <4> QED BY <2>2, <3>1, <4>4, <4>5, <4>6 DEF Types
      <3>4. CASE ~o.restoring
        <4>1. e.sig = "display" /\ ~Pending(n)
          BY <1>6, <3>4 DEF TimeChanged, Pending
        <4>2. n \in Listed' <=> n \in Listed
          BY <1>2, <3>1, <3>2, <3>4 DEF Listed, Types
        <4> QED BY <3>1, <4>1, <4>2 DEF Truthful, Brings, Takes, NotTakenBack
      <3> QED BY <3>3, <3>4
    <2> QED BY <2>1, <2>2
  <1> HIDE DEF e, S
  <1> QED BY <1>0, <1>4, <1>5, <1>7, <1>8, <1>9, ShowStep DEF TypeInv, ShowInv

-----------------------------------------------------------------------------
(* The event loop and the loads.                                           *)

\* They leave the store and the order updates alone.
LEMMA StoreStays ==
    ASSUME TypeInv, StoreInv, UNCHANGED <<store, op>>
    PROVE  /\ StoreType' /\ HandsType' /\ StoreInv'
           /\ \A m : Restored(m)' <=> Restored(m)
           /\ op["ui"].note = None => op'["ui"].note = None
  <1>1. UNCHANGED <<unused, gist, all, trash, marked, op>>
    BY DEF store
  <1>2. StoreType'
    BY <1>1 DEF TypeInv, StoreType
  <1>3. HandsType'
    BY <1>1 DEF TypeInv, HandsType
  <1>4. \A m : Restored(m)' <=> Restored(m)
    BY <1>1 DEF Restored, RestoredBy
  <1>5. Named' = Named
    BY <1>1 DEF Named, Known, Read
  <1>6. StoreInv'
    BY <1>1, <1>4, <1>5 DEF StoreInv
  <1> QED BY <1>1, <1>2, <1>3, <1>4, <1>6

\* Nobody is busy with what is not a note.
LEMMA BusyIs ==
    ASSUME TypeInv
    PROVE  Busy \subseteq Notes /\ None \notin Queued
  <1>1. Queued \subseteq Notes
    <2>1. queue \in Seq(Signals)
      BY DEF TypeInv, ModelType
    <2> QED BY <2>1, QueuedIs DEF Signals
  <1>2. InHand \subseteq Notes
    BY DEF InHand, TypeInv, HandsType, Op
  <1> QED BY <1>1, <1>2, Bounds DEF Busy

\* The first signal is taken from the queue: the others move up by one.
LEMMA TailIs ==
    ASSUME queue \in Seq(Signals), queue # <<>>, queue' = Tail(queue), UNCHANGED <<gist, type>>
    PROVE  /\ Len(queue) \in Nat \ {0} /\ Head(queue) = queue[1] /\ Head(queue) \in Signals
           /\ queue' \in Seq(Signals) /\ Len(queue') = Len(queue) - 1
           /\ DOMAIN queue = 1 .. Len(queue) /\ DOMAIN queue' = 1 .. Len(queue) - 1
           /\ \A i \in 1 .. Len(queue) - 1 : queue'[i] = queue[i + 1]
           /\ Queued' \subseteq Queued /\ Head(queue).note \in Queued
  <1>1. Len(queue) \in Nat \ {0} /\ DOMAIN queue = 1 .. Len(queue)
    BY EmptySeq, QueuedIs
  <1>2. /\ Head(queue) = queue[1] /\ Head(queue) \in Signals
        /\ queue' \in Seq(Signals) /\ Len(queue') = Len(queue) - 1
        /\ \A i \in 1 .. Len(queue) - 1 : queue'[i] = queue[i + 1]
    BY HeadTailProperties, <1>1
  <1>3. DOMAIN queue' = 1 .. Len(queue) - 1
    BY <1>2, LenProperties
  <1>4. \A i \in DOMAIN queue' : i + 1 \in DOMAIN queue
    BY <1>1, <1>3
  <1>5. Queued' \subseteq Queued
    <2>1. Queued' = {queue'[i].note : i \in DOMAIN queue'}
      BY DEF Queued
    <2> QED BY <1>2, <1>3, <1>4, <2>1 DEF Queued
  <1>6. 1 \in DOMAIN queue
    BY <1>1
  <1> QED BY <1>1, <1>2, <1>3, <1>5, <1>6 DEF Queued

\* A signal arrives: if it is the last that decides about its note, it makes
\* the model agree with the store.
LEMMA ShowDeliver ==
    ASSUME TypeInv, ShowInv, Deliver
    PROVE  TypeInv' /\ ShowInv'
  <1>a. PICK e : e = Head(queue)
    OBVIOUS
  <1> DEFINE S == {n \in {e.note} : Loading \/ NotTakenBack(e)}
  <1>0. /\ queue # <<>> /\ op["ui"].note = None
        /\ shown' = Slot(e, gist) /\ queue' = Tail(queue) /\ PutOff(S)
        /\ UNCHANGED <<store, type, hooked, load, op>>
        /\ UNCHANGED <<gist, all, trash, marked, type, load>>
    BY <1>a DEF Deliver, store, Idle
  <1>1. /\ queue \in Seq(Signals) /\ shown \in Ids /\ type \in Types /\ gist \in Gists
        /\ Len(queue) <= MaxQueue /\ off \subseteq Notes
    BY DEF TypeInv, ModelType, StoreType
  <1>2. /\ Len(queue) \in Nat \ {0} /\ e = queue[1] /\ e \in Signals
        /\ queue' \in Seq(Signals) /\ Len(queue') = Len(queue) - 1
        /\ DOMAIN queue = 1 .. Len(queue) /\ DOMAIN queue' = 1 .. Len(queue) - 1
        /\ \A i \in 1 .. Len(queue) - 1 : queue'[i] = queue[i + 1]
        /\ Queued' \subseteq Queued /\ e.note \in Queued
    BY <1>a, <1>0, <1>1, TailIs
  <1>3. /\ StoreType' /\ HandsType' /\ StoreInv' /\ op'["ui"].note = None
        /\ \A m : Restored(m)' <=> Restored(m)
    BY <1>0, StoreStays DEF ShowInv
  <1>4. /\ shown' \in Ids
        /\ \A m : m # e.note => (m \in ToSet(shown') <=> m \in ToSet(shown))
        /\ Brings(e, gist) /\ ~NotTakenBack(e) => e.note \in ToSet(shown')
        /\ Takes(e) => e.note \notin ToSet(shown')
        /\ ~Brings(e, gist) /\ ~Takes(e) => (e.note \in ToSet(shown') <=> e.note \in ToSet(shown))
        /\ type = "NoNotes" /\ shown = <<>> => shown' = <<>>
    BY <1>0, <1>1, <1>2, SlotIs
  <1>5. /\ off' \subseteq Notes /\ (type = "NoNotes" => off' = {})
        /\ type # "NoNotes" => off \subseteq off' /\ (e.note \notin off' => ~Loading /\ ~NotTakenBack(e))
    <2>1. e.note \in Notes
      BY <1>2 DEF Signals
    <2> QED BY <1>0, <1>1, <2>1 DEF PutOff
  <1>6. ModelType'
    <2>1. Len(queue') <= MaxQueue
      BY <1>1, <1>2, Bounds
    <2> QED BY <1>0, <1>2, <1>4, <1>5, <2>1 DEF TypeInv, ModelType, Loading
  <1>7. HandInv'
    <2>1. None \notin Queued'
      BY <1>2, BusyIs
    <2> QED BY <1>3, <2>1 DEF HandInv
  <1>8. \A m : m \in Listed' <=> m \in Listed
    BY <1>0 DEF Listed
  <1>9. LoadInv'
    <2> SUFFICES ASSUME Loading PROVE LoadInv'
      BY <1>0 DEF LoadInv, Loading
    <2>1. type # "NoNotes" /\ off \subseteq off' /\ e.note \in off'
      BY <1>5 DEF TypeInv, ModelType
    <2>2. Busy' \subseteq Busy
      BY <1>0, <1>2 DEF Busy, InHand
    <2> QED BY <1>0, <1>4, <1>8, <2>1, <2>2 DEF ShowInv, LoadInv
  <1>10. ASSUME ~Loading, type # "NoNotes", NEW m \in Notes \ off', ~Pending(m)
         PROVE  Follows(m)'
    <2>1. m \notin off /\ Follows(m)
      BY <1>5, <1>10 DEF ShowInv, FollowInv
    <2>2. ASSUME NEW i \in DOMAIN queue'
          PROVE  /\ i + 1 \in DOMAIN queue /\ i \in Nat
                 /\ queue'[i] = queue[i + 1]
                 /\ Decides(queue[i], m)' <=> Decides(queue[i + 1], m)
                 /\ Brings(queue[i], gist)' <=> Brings(queue[i + 1], gist)
      <3>1. i + 1 \in DOMAIN queue /\ i \in Nat /\ queue'[i] = queue[i + 1]
        BY <1>2
      <3>2. Brings(queue[i], gist)' <=> Brings(queue[i + 1], gist)
        BY <1>0, <3>1 DEF Brings
      <3>3. Takes(queue[i])' <=> Takes(queue[i + 1])
        BY <1>0, <3>1 DEF Takes
      <3> QED BY <3>1, <3>2, <3>3 DEF Decides
    <2>3. \A j \in DOMAIN queue : j = 1 \/ (j - 1 \in DOMAIN queue' /\ (j - 1) + 1 = j)
      BY <1>2
    <2>4. ASSUME NEW i \in DOMAIN queue', LastOn(i, m)'
          PROVE  (Brings(queue[i], gist) <=> m \in Listed)'
      <3>1. LastOn(i + 1, m)
        <4>1. Decides(queue[i + 1], m)
          BY <2>2, <2>4 DEF LastOn
        <4>2. ASSUME NEW j \in DOMAIN queue, j > i + 1 PROVE ~Decides(queue[j], m)
          <5>1. j - 1 \in DOMAIN queue' /\ (j - 1) + 1 = j /\ j - 1 > i
            BY <1>2, <2>2, <2>3, <4>2
          <5> QED BY <2>2, <2>4, <5>1 DEF LastOn
        <4> QED BY <4>1, <4>2 DEF LastOn
      <3>2. Brings(queue[i + 1], gist) <=> m \in Listed
        BY <2>1, <2>2, <3>1 DEF Follows
      <3> QED BY <1>8, <2>2, <3>2
    <2>5. ASSUME \A i \in DOMAIN queue' : ~Decides(queue[i], m)'
          PROVE  m \in ToSet(shown') <=> m \in Listed'
      <3>1. \A j \in DOMAIN queue : j # 1 => ~Decides(queue[j], m)
        BY <2>2, <2>3, <2>5
      <3>2. CASE ~Decides(e, m)
        <4>1. \A j \in DOMAIN queue : ~Decides(queue[j], m)
          BY <1>2, <3>1, <3>2
        <4>2. m \in ToSet(shown') <=> m \in ToSet(shown)
          BY <1>4, <3>2 DEF Decides
        <4> QED BY <1>8, <2>1, <4>1, <4>2 DEF Follows
      <3>3. CASE Decides(e, m)
        <4>1. 1 \in DOMAIN queue /\ \A j \in DOMAIN queue : j > 1 => j # 1
          BY <1>2
        <4>2. LastOn(1, m)
          BY <1>2, <3>1, <3>3, <4>1 DEF LastOn
        <4>3. Brings(e, gist) <=> m \in Listed
          BY <1>2, <2>1, <4>1, <4>2 DEF Follows
        <4>4. m = e.note /\ (Brings(e, gist) \/ Takes(e)) /\ ~NotTakenBack(e)
          BY <1>5, <1>10, <3>3 DEF Decides
        <4> QED BY <1>4, <1>8, <4>3, <4>4
      <3> QED BY <3>2, <3>3
    <2> QED BY <2>4, <2>5 DEF Follows, LastOn
  <1>11. FollowInv'
    <2>1. \A m : Pending(m)' <=> Pending(m)
      BY <1>0, <1>3 DEF Pending
    <2> QED BY <1>0, <1>10, <2>1 DEF FollowInv, Loading
  <1> QED BY <1>3, <1>6, <1>7, <1>9, <1>11 DEF TypeInv, ShowInv

\* A load begins: what it reads is the store's list, and the busy notes are off.
LEMMA ShowQuery ==
    ASSUME TypeInv, ShowInv, NEW t \in Types, SetNotesListQuery(t)
    PROVE  TypeInv' /\ ShowInv'
  <1>1. /\ t # "NoNotes" /\ hooked' = FALSE /\ type' = t /\ shown' = <<>>
        /\ load' = [pc |-> "read", ids |-> IF t = "TrashNotes" THEN <<>> ELSE all]
        /\ off' = Busy /\ queue' = queue /\ op' = op /\ all' = all
        /\ UNCHANGED <<store, op>>
    BY DEF SetNotesListQuery, store
  <1>2. StoreType' /\ HandsType' /\ StoreInv'
    BY <1>1, StoreStays DEF ShowInv
  <1>3. load' \in [pc : {"off", "read", "set"}, ids : Ids] /\ load'.pc = "read"
    <2>1. <<>> \in Ids /\ all \in Ids
      BY EmptyList DEF TypeInv, StoreType
    <2> QED BY <1>1, <2>1
  <1>4. ModelType'
    BY <1>1, <1>3, EmptyList, BusyIs DEF TypeInv, ModelType, Loading
  <1>5. Busy' = Busy
    BY <1>1 DEF Busy, Queued, InHand
  <1>6. LoadInv'
    BY <1>1, <1>3, <1>5 DEF LoadInv
  <1>7. HandInv' /\ FollowInv'
    BY <1>1, <1>3 DEF HandInv, FollowInv, Loading, Busy, Queued
  <1> QED BY <1>2, <1>4, <1>6, <1>7 DEF TypeInv, ShowInv

\* It sets what it read: the store's list, but for the notes that are off.
LEMMA ShowRead ==
    ASSUME TypeInv, ShowInv, LoadRead
    PROVE  TypeInv' /\ ShowInv'
  <1>1. /\ load.pc = "read" /\ load' = [pc |-> "set", ids |-> <<>>]
        /\ shown' = CASE type = "AllNotes" -> load.ids
                      [] type = "TrashNotes" -> trash
                      [] type = "Marked" -> Chosen(load.ids, marked)
        /\ UNCHANGED <<type, hooked, op, queue, off, all, trash, marked>>
        /\ UNCHANGED <<store, op>>
    BY DEF LoadRead, store
  <1>2. StoreType' /\ HandsType' /\ StoreInv'
    BY <1>1, StoreStays DEF ShowInv
  <1>3. /\ type \in {"AllNotes", "TrashNotes", "Marked"} /\ Loading
        /\ load.ids \in Ids /\ trash \in Ids
        /\ \A m \in Notes \ off : type # "TrashNotes" => (m \in ToSet(load.ids) <=> m \in ToSet(all))
    BY <1>1 DEF ShowInv, LoadInv, Loading, TypeInv, ModelType, StoreType, Types
  <1>4. /\ Chosen(load.ids, marked) \in Ids
        /\ ToSet(Chosen(load.ids, marked)) = ToSet(load.ids) \cap marked
    BY <1>3, ChosenIs
  <1>5. /\ shown' \in Ids
        /\ \A m \in Notes \ off : m \in ToSet(shown') <=> m \in Listed'
    <2>1. CASE type = "AllNotes"
      BY <1>1, <1>3, <2>1 DEF Listed
    <2>2. CASE type = "TrashNotes"
      BY <1>1, <1>3, <2>2 DEF Listed
    <2>3. CASE type = "Marked"
      BY <1>1, <1>3, <1>4, <2>3 DEF Listed
    <2> QED BY <1>3, <2>1, <2>2, <2>3
  <1>6. load' \in [pc : {"off", "read", "set"}, ids : Ids] /\ load'.pc = "set"
    BY <1>1, EmptyList
  <1>7. ModelType'
    BY <1>1, <1>3, <1>5, <1>6 DEF TypeInv, ModelType, Loading
  <1>8. Busy' = Busy /\ Busy \subseteq off
    BY <1>1, <1>3 DEF Busy, Queued, InHand, ShowInv, LoadInv
  <1>9. LoadInv'
    BY <1>1, <1>5, <1>6, <1>8 DEF LoadInv
  <1>10. HandInv' /\ FollowInv'
    BY <1>1, <1>6 DEF ShowInv, HandInv, FollowInv, Loading, Queued
  <1> QED BY <1>2, <1>7, <1>9, <1>10 DEF TypeInv, ShowInv

\* The load ends: no signal on its way is about a note that is not off.
LEMMA ShowConnect ==
    ASSUME TypeInv, ShowInv, ConnectTypeDependantSlots
    PROVE  TypeInv' /\ ShowInv'
  <1>1. /\ load.pc = "set" /\ hooked' = TRUE /\ load' = [load EXCEPT !.pc = "off"]
        /\ UNCHANGED <<shown, type, op, queue, off, all, trash, marked, gist>>
        /\ UNCHANGED <<store, op>>
    BY DEF ConnectTypeDependantSlots, store
  <1>2. StoreType' /\ HandsType' /\ StoreInv'
    BY <1>1, StoreStays DEF ShowInv
  <1>3. /\ load' \in [pc : {"off", "read", "set"}, ids : Ids] /\ load'.pc = "off"
        /\ Loading /\ ~Loading'
    BY <1>1 DEF TypeInv, ModelType, Loading
  <1>4. ModelType'
    BY <1>1, <1>3 DEF TypeInv, ModelType
  <1>5. ASSUME NEW m \in Notes \ off PROVE Follows(m)'
    <2>1. queue \in Seq(Signals)
      BY DEF TypeInv, ModelType
    <2>2. Queued \subseteq off
      BY <1>3 DEF ShowInv, LoadInv, Busy
    <2>3. \A i \in DOMAIN queue' : ~Decides(queue[i], m)'
      BY <1>1, <1>5, <2>1, <2>2, QueuedIs DEF Decides
    <2>4. m \in ToSet(shown') <=> m \in Listed'
      BY <1>1, <1>3, <1>5 DEF ShowInv, LoadInv, Listed
    <2> QED BY <2>3, <2>4 DEF Follows, LastOn
  <1>6. FollowInv'
    BY <1>1, <1>5 DEF FollowInv
  <1>7. HandInv' /\ LoadInv'
    BY <1>1, <1>3 DEF ShowInv, HandInv, LoadInv, Queued
  <1> QED BY <1>2, <1>4, <1>6, <1>7 DEF TypeInv, ShowInv

\* A logout leaves an empty model.
LEMMA ShowClear ==
    ASSUME TypeInv, ShowInv, ClearNotesListQuery
    PROVE  TypeInv' /\ ShowInv'
  <1>1. /\ ~Loading /\ shown' = <<>> /\ type' = "NoNotes" /\ hooked' = FALSE /\ off' = {}
        /\ load' = load /\ queue' = queue /\ UNCHANGED <<store, op>>
    BY DEF ClearNotesListQuery, store
  <1>2. StoreType' /\ HandsType' /\ StoreInv'
    BY <1>1, StoreStays DEF ShowInv
  <1>3. ModelType'
    BY <1>1, EmptyList DEF TypeInv, ModelType, Loading, Types
  <1>4. HandInv' /\ FollowInv' /\ LoadInv'
    BY <1>1 DEF HandInv, FollowInv, LoadInv, Loading
  <1> QED BY <1>2, <1>3, <1>4 DEF TypeInv, ShowInv

-----------------------------------------------------------------------------
(* The theorems.                                                           *)

\* At the start there is nothing.
LEMMA ShowInit ==
    ASSUME Init
    PROVE  TypeInv /\ ShowInv
  <1>1. /\ unused = Notes /\ gist = [n \in Notes |-> NoGist]
        /\ all = <<>> /\ trash = <<>> /\ marked = {}
        /\ shown = <<>> /\ type = "NoNotes" /\ hooked = FALSE
        /\ load = [pc |-> "off", ids |-> <<>>]
        /\ op = [p \in Actor |-> Idle] /\ queue = <<>> /\ off = {}
    BY DEF Init
  <1>2. /\ \A p \in Actor : op[p] = Idle /\ OpType(op[p])
        /\ Idle.note = None /\ Idle.ids = <<>> /\ Idle.restoring = FALSE
    BY <1>1 DEF Idle, OpType
  <1>3. StoreType
    <2>1. NoGist \in [at : Time, trashed : BOOLEAN, mark : BOOLEAN]
      BY Bounds DEF NoGist
    <2> QED BY <1>1, <2>1, EmptyList DEF StoreType, Gists
  <1>4. HandsType
    <2>1. Idle \in Op
      BY EmptyList DEF Idle, Op
    <2>2. op \in [Actor -> Op]
      BY <1>1, <2>1
    <2> QED BY <1>2, <2>2 DEF HandsType, Actor
  <1>5. ModelType
    <2>1. <<>> \in Seq(Signals) /\ Len(<<>>) = 0
      BY EmptySeq
    <2>2. load \in [pc : {"off", "read", "set"}, ids : Ids] /\ load.pc = "off"
      BY <1>1, EmptyList
    <2>3. queue \in Seq(Signals) /\ Len(queue) <= MaxQueue
      BY <1>1, <2>1, Bounds
    <2>4. shown \in Ids /\ off \subseteq Notes /\ type \in Types /\ hooked \in BOOLEAN
      BY <1>1, EmptyList DEF Types
    <2> QED BY <1>1, <2>2, <2>3, <2>4 DEF ModelType, Loading
  <1>6. \A n : ~Restored(n)
    BY <1>2 DEF Restored, RestoredBy
  <1>7. Named = {}
    <2>1. \A n : n \notin Read
      BY <1>2, ReadIs, EmptyList
    <2> QED BY <1>1, <2>1, EmptyList DEF Named, Known
  <1>8. StoreInv
    BY <1>1, <1>6, <1>7, EmptyList DEF StoreInv, NoGist
  <1>9. HandInv /\ FollowInv /\ LoadInv
    BY <1>1 DEF HandInv, FollowInv, LoadInv, Loading
  <1> QED BY <1>3, <1>4, <1>5, <1>8, <1>9 DEF TypeInv, ShowInv

\* Every step keeps the invariants.
LEMMA ShowNext ==
    ASSUME TypeInv, ShowInv, [Next]_vars
    PROVE  TypeInv' /\ ShowInv'
  <1>1. ASSUME NEW p \in Actor, Step(p) PROVE TypeInv' /\ ShowInv'
    BY <1>1, ShowOrder, ShowMark, ShowExpunge, ShowTrash, ShowRestore DEF Step
  <1>2. ASSUME NEW n \in Notes, CreateNote("ui", n, MaxTime) PROVE TypeInv' /\ ShowInv'
    BY <1>2, ShowCreate, Bounds DEF Actor
  <1>3. ASSUME NEW n \in Notes, NEW t \in Time \ {0}, CreateNote("sync", n, t) PROVE TypeInv' /\ ShowInv'
    BY <1>3, ShowCreate DEF Actor
  <1>4. ASSUME NEW n \in MayTake("ui"), UpdateNoteTitle(n) PROVE TypeInv' /\ ShowInv'
    <2>1. /\ n \in Known /\ gist' = [gist EXCEPT ![n].at = MaxTime]
          /\ BeginOrder("ui", n, all, FALSE) /\ Touch("ui", n)
          /\ Emit("ui", TimeChanged(n), gist') \/ UNCHANGED <<shown, queue>>
          /\ UNCHANGED <<unused, all, trash, marked, type, hooked, load>>
      BY <1>4 DEF UpdateNoteTitle
    <2>2. "ui" \in Actor /\ MaxTime \in Time
      BY Bounds DEF Actor
    <2> QED BY <2>1, <2>2, ShowTime
  <1>5. ASSUME NEW n \in MayTake("sync"), NEW t \in Time \ {0}, SetSyncedNoteGist(n, t) PROVE TypeInv' /\ ShowInv'
    <2>1. /\ n \in Known /\ gist' = [gist EXCEPT ![n].at = t]
          /\ BeginOrder("sync", n, all, FALSE) /\ Touch("sync", n)
          /\ Emit("sync", TimeChanged(n), gist')
          /\ UNCHANGED <<unused, all, trash, marked, type, hooked, load>>
      BY <1>5 DEF SetSyncedNoteGist
    <2>2. "sync" \in Actor
      BY DEF Actor
    <2> QED BY <2>1, <2>2, ShowTime
  <1>6. ASSUME NEW t \in Types, SetNotesListQuery(t) PROVE TypeInv' /\ ShowInv'
    BY <1>6, ShowQuery
  <1>7. CASE Deliver \/ LoadRead \/ ConnectTypeDependantSlots \/ ClearNotesListQuery
    BY <1>7, ShowDeliver, ShowRead, ShowConnect, ShowClear
  <1>8. CASE UNCHANGED vars
    <2>1. /\ UNCHANGED <<unused, gist, all, trash, marked, shown, type, hooked, load, op, queue, off>>
          /\ UNCHANGED <<store, op>>
      BY <1>8 DEF vars, store
    <2>2. StoreType' /\ HandsType' /\ StoreInv' /\ \A m : Restored(m)' <=> Restored(m)
      BY <2>1, StoreStays DEF ShowInv
    <2>3. ModelType' /\ HandInv'
      BY <2>1 DEF TypeInv, ShowInv, ModelType, Loading, HandInv, Queued
    <2>4. \A m : (m \in Listed' <=> m \in Listed) /\ (Pending(m)' <=> Pending(m))
      BY <2>1, <2>2 DEF Listed, Pending
    <2>5. Busy' = Busy /\ Loading' = Loading
      BY <2>1 DEF Busy, Queued, InHand, Loading
    <2>6. LoadInv'
      BY <2>1, <2>4, <2>5 DEF ShowInv, LoadInv
    <2>7. \A m : Follows(m)' <=> Follows(m)
      <3>1. \A m : \A i \in DOMAIN queue : Decides(queue[i], m)' <=> Decides(queue[i], m)
        BY <2>1 DEF Decides, Brings, Takes
      <3>2. \A i : Brings(queue[i], gist)' <=> Brings(queue[i], gist)
        BY <2>1 DEF Brings
      <3> QED BY <2>1, <2>4, <3>1, <3>2 DEF Follows, LastOn
    <2>8. FollowInv'
      BY <2>1, <2>4, <2>5, <2>7 DEF ShowInv, FollowInv
    <2> QED BY <2>2, <2>3, <2>6, <2>8 DEF TypeInv, ShowInv
  <1> QED BY <1>1, <1>2, <1>3, <1>4, <1>5, <1>6, <1>7, <1>8 DEF Next

\* The invariants of every behaviour.
LEMMA Invariance == Spec => [](TypeInv /\ ShowInv)
  <1>1. Init => TypeInv /\ ShowInv
    BY ShowInit
  <1>2. (TypeInv /\ ShowInv) /\ [Next]_vars => (TypeInv /\ ShowInv)'
    BY ShowNext
  <1> QED BY <1>1, <1>2, PTL DEF Spec

\* The store, the page's model, the loads and the signals keep their types;
\* what the lists of the store name is named once.
THEOREM TypeCorrect == Spec => []TypeOK
  <1>1. TypeInv => TypeOK
    BY DEF TypeInv, StoreType, HandsType, ModelType, TypeOK, Gists, Op, Ids
  <1> QED BY <1>1, Invariance, PTL

\* What the page shows is what the store's list has, for whatever number of
\* notes, times and signals on their way.
THEOREM ShowsCorrect == Spec => []ShowsTheList
  <1>1. ASSUME TypeInv, ShowInv PROVE ShowsTheList
    <2>1. shown \in Ids /\ queue \in Seq(Signals)
      BY <1>1 DEF TypeInv, ModelType
    <2>2. IsInjective(shown)
      BY <2>1 DEF Ids
    <2>3. ASSUME ~Loading, NEW n \in Notes \ (off \cup Busy)
          PROVE  Contains(shown, n) <=> n \in Listed
      <3>1. Contains(shown, n) <=> n \in ToSet(shown)
        BY <2>1, IdsAre
      <3>2. CASE type = "NoNotes"
        <4>1. shown = <<>>
          BY <1>1, <3>2 DEF TypeInv, ModelType
        <4> QED BY <3>1, <3>2, <4>1, EmptyList DEF Listed
      <3>3. CASE type # "NoNotes"
        <4>1. ~Pending(n)
          <5>1. n # None
            BY Bounds
          <5> QED BY <2>3, <5>1 DEF Pending, Restored, RestoredBy, Busy, InHand
        <4>2. Follows(n)
          BY <1>1, <2>3, <3>3, <4>1 DEF ShowInv, FollowInv
        <4>3. \A i \in DOMAIN queue : ~Decides(queue[i], n)
          BY <2>1, <2>3, QueuedIs DEF Decides, Busy
        <4> QED BY <3>1, <4>2, <4>3 DEF Follows
      <3> QED BY <3>2, <3>3
    <2> QED BY <2>2, <2>3 DEF ShowsTheList
  <1> QED BY <1>1, Invariance, PTL

\* A note leaves the lists of the store only by being expunged, or when an
\* order update writes back a list that had been read without it.
THEOREM KeptCorrect == Spec => KeptInAList
  <1> DEFINE Kept == \A n \in Known \ Known' :
                        \/ gist'[n] = NoGist
                        \/ \E p \in Actor : op[p] # Idle /\ op'[p] = Idle /\ ~Contains(op[p].ids, n)
  <1>1. ASSUME TypeInv, Next PROVE Kept
    <2>0. /\ all \in Ids /\ trash \in Ids /\ gist \in Gists /\ ToSet(all) \subseteq Notes /\ ToSet(trash) \subseteq Notes
          /\ op \in [Actor -> Op]
      BY <1>1, IdsAre DEF TypeInv, StoreType, HandsType
    <2>1. ASSUME NEW p \in Actor, WriteOrder(p) PROVE Kept
      <3>1. PICK n, o : n = op[p].note /\ o = op[p]
        OBVIOUS
      <3>2. /\ op[p] # Idle /\ op'[p] = Idle
            /\ all' = Insert(n, Without(n, o.ids), gist)
            /\ trash' = IF o.restoring THEN Without(n, trash) ELSE trash
        BY <2>0, <2>1, <3>1 DEF WriteOrder
      <3>3. o.ids \in Ids /\ n \in Notes /\ n \in ToSet(o.ids)
        BY <1>1, <2>0, <3>1, <3>2, Bounds DEF TypeInv, HandsType, OpType, Op
      <3>4. ToSet(all') = ToSet(o.ids)
        <4>1. Without(n, o.ids) \in Ids /\ ToSet(Without(n, o.ids)) = ToSet(o.ids) \ {n}
          BY <3>3, WithoutIs
        <4>2. ToSet(all') = (ToSet(o.ids) \ {n}) \cup {n}
          BY <2>0, <3>2, <3>3, <4>1, Inserted
        <4> QED BY <3>3, <4>2
      <3>5. ToSet(trash) \subseteq ToSet(trash') \cup {n}
        <4>1. ToSet(Without(n, trash)) = ToSet(trash) \ {n}
          BY <2>0, WithoutIs
        <4> QED BY <3>2, <4>1
      <3>6. ASSUME NEW m \in Known \ Known' PROVE ~Contains(op[p].ids, m)
        <4>1. m \notin ToSet(o.ids)
          BY <3>4, <3>6 DEF Known
        <4> QED BY <3>1, <3>3, <4>1, IdsAre
      <3> QED BY <3>2, <3>6
    <2>2. ASSUME NEW p \in Actor, NEW n \in Notes, ExpungeNote(p, n) PROVE Kept
      <3>1. /\ all' = Without(n, all) /\ trash' = Without(n, trash) /\ gist' = [gist EXCEPT ![n] = NoGist]
        BY <2>2 DEF ExpungeNote
      <3>2. ToSet(all') = ToSet(all) \ {n} /\ ToSet(trash') = ToSet(trash) \ {n}
        BY <2>0, <3>1, WithoutIs
      <3>3. gist'[n] = NoGist
        BY <2>0, <3>1 DEF Gists
      <3> QED BY <3>2, <3>3 DEF Known
    <2>3. ASSUME NEW p \in Actor, NEW n \in Notes, MoveNoteToTrash(p, n) PROVE Kept
      <3>1. all' = Without(n, all) /\ trash' = Prepend(n, trash)
        BY <2>3 DEF MoveNoteToTrash
      <3>2. ToSet(all') = ToSet(all) \ {n} /\ ToSet(trash') = ToSet(trash) \cup {n}
        BY <2>0, <3>1, WithoutIs, PrependIs
      <3> QED BY <3>2 DEF Known
    <2>4. ASSUME NEW n \in Notes, all' = Prepend(n, all), trash' = trash PROVE Kept
      <3>1. ToSet(all') = ToSet(all) \cup {n}
        BY <2>0, <2>4, PrependIs
      <3> QED BY <2>4, <3>1 DEF Known
    <2>5. ASSUME all' = all, trash' = trash PROVE Kept
      BY <2>5 DEF Known
    <2> HIDE DEF Kept
    <2>6. ASSUME NEW p \in Actor, Step(p) PROVE Kept
      <3>1. \A n \in MayTake(p) : n \in Notes
        BY DEF MayTake
      <3>2. ASSUME NEW n \in Notes, SetMark(p, n) PROVE Kept
        BY <2>5, <3>2 DEF SetMark
      <3>3. ASSUME NEW n \in Notes, RestoreNoteFromTrash(p, n) PROVE Kept
        BY <2>4, <3>3 DEF RestoreNoteFromTrash
      <3> QED BY <2>1, <2>2, <2>3, <2>6, <3>1, <3>2, <3>3 DEF Step
    <2>7. ASSUME NEW p, NEW n \in Notes, NEW t, CreateNote(p, n, t) PROVE Kept
      BY <2>4, <2>7 DEF CreateNote
    <2>8. ASSUME NEW n, UpdateNoteTitle(n) \/ \E t \in Time \ {0} : SetSyncedNoteGist(n, t) PROVE Kept
      BY <2>5, <2>8 DEF UpdateNoteTitle, SetSyncedNoteGist
    <2>9. CASE Deliver \/ (\E t \in Types : SetNotesListQuery(t))
                  \/ LoadRead \/ ConnectTypeDependantSlots \/ ClearNotesListQuery
      BY <2>5, <2>9 DEF Deliver, SetNotesListQuery, LoadRead, ConnectTypeDependantSlots, ClearNotesListQuery, store
    <2> QED BY <1>1, <2>6, <2>7, <2>8, <2>9 DEF Next
  <1>2. TypeInv /\ [Next]_vars => [Kept]_vars
    BY <1>1
  <1> QED BY <1>2, Invariance, PTL DEF Spec, KeptInAList
=============================================================================
