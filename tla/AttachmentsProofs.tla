--------------------------- MODULE AttachmentsProofs ---------------------------
(***************************************************************************)
(* Proofs about Attachments: the types, with a bound on the array of       *)
(* attachments.ini, that what is appended here is listed, with its file,   *)
(* until the server has had it (AppendedKept), and that a device which has *)
(* pulled the last change lists all that the server has, but what was      *)
(* removed here (NothingForgotten).                                        *)
(*                                                                         *)
(* The array of attachments.ini is a function on slots, and what each      *)
(* operation of the storage manager writes is computed from sets of        *)
(* entries and from orders of them.  The first part says of every one of   *)
(* these operators which entries it leaves in the array, the second which  *)
(* types each step leaves, the third carries the invariant of AppendedKept *)
(* over the steps.  NothingForgotten depends on which reply is stored      *)
(* when, and needs three invariants: of the order of calls and replies, of *)
(* the guids, and of what is removed here and not yet on the server.       *)
(***************************************************************************)
EXTENDS Attachments, FiniteSetTheorems, SequenceTheorems, WellFoundedInduction, TLAPS

-----------------------------------------------------------------------------
(* The array of attachments.ini, and what each operation writes there.     *)

\* The slots of an array, and what an array read from attachments.ini is.
MaxLen == 2 * Cardinality(Hash) + 1

ListType == [size : {0} \cup Slot, at : [Slot -> Entry], removals : SUBSET (1 .. MaxGuid)]

\* The assumption on the constants, one by one.
LEMMA Bounds ==
    /\ IsFiniteSet(Hash) /\ None \notin Hash /\ FoldKeys \in BOOLEAN
    /\ MaxSize \in Nat \ {0} /\ MaxGuid \in Nat \ {0} /\ MaxChanges \in Nat \ {0}
    /\ MaxDepth \in Nat
  BY BoundsAssumption

\* The slots are numbered from one.
LEMMA HashNumber ==
    /\ Cardinality(Hash) \in Nat
    /\ MaxLen \in Nat /\ Slot = 1 .. MaxLen
  BY BoundsAssumption, FS_CardinalityType DEF MaxLen, Slot

\* How many numbers there are up to n.
LEMMA UpTo ==
    ASSUME NEW n \in Nat
    PROVE  IsFiniteSet(1 .. n) /\ Cardinality(1 .. n) = n
  <1>1. 1 \in Int /\ n \in Int OBVIOUS
  <1> QED BY <1>1, FS_Interval

\* The orders of a finite set S have every element of S, and each once.
LEMMA OrdersOf ==
    ASSUME NEW S, IsFiniteSet(S), NEW f \in Orders(S)
    PROVE  /\ f \in Seq(S) /\ Len(f) = Cardinality(S)
           /\ ToSet(f) = S
  <1>0. Cardinality(S) \in Nat BY FS_CardinalityType
  <1>1. f \in [1 .. Cardinality(S) -> S] /\ IsInjective(f)
    BY DEF Orders
  <1>2. f \in Seq(S) /\ Len(f) = Cardinality(S)
    BY <1>0, <1>1, SeqDef
  <1>3. f \in Injection(1 .. Cardinality(S), S)
    BY <1>1 DEF Injection, IsInjective
  <1>4. Cardinality(1 .. Cardinality(S)) = Cardinality(S)
    BY <1>0, UpTo
  <1>5. f \in Surjection(1 .. Cardinality(S), S)
    BY <1>3, <1>4, FS_Injection
  <1>6. ToSet(f) = S
    BY <1>1, <1>5 DEF Surjection, ToSet
  <1> QED BY <1>2, <1>6

\* What WithList writes: the entries of s, and no others; beyond them the
\* slots keep their old values.
LEMMA EntriesOfWithList ==
    ASSUME NEW a \in ListType, NEW s \in Seq(Entry), Len(s) <= MaxLen
    PROVE  /\ WithList(a, s) \in ListType
           /\ WithList(a, s).size = Len(s)
           /\ WithList(a, s).removals = a.removals
           /\ Entries(WithList(a, s)) = ToSet(s)
           /\ \A i \in Slot : WithList(a, s).at[i] = IF i <= Len(s) THEN s[i] ELSE a.at[i]
  <1>1. Len(s) \in Nat /\ \A i \in 1 .. Len(s) : s[i] \in Entry
    BY LenProperties, ElementOfSeq
  <1>2. Len(s) \in {0} \cup Slot
    BY <1>1, HashNumber
  <1>3. WithList(a, s).size = Len(s) /\ WithList(a, s).removals = a.removals
    BY DEF WithList, ListType
  <1>4. \A i \in Slot : WithList(a, s).at[i] = IF i <= Len(s) THEN s[i] ELSE a.at[i]
    BY DEF WithList, ListType
  <1>5. WithList(a, s) \in ListType
    <2> DEFINE new == [i \in Slot |-> IF i <= Len(s) THEN s[i] ELSE a.at[i]]
    <2>1. a.at \in [Slot -> Entry] BY DEF ListType
    <2>2. new \in [Slot -> Entry]
      BY <1>1, <2>1, HashNumber
    <2>3. WithList(a, s) = [a EXCEPT !.size = Len(s), !.at = new]
      BY Zenon DEF WithList
    <2> HIDE DEF new
    <2> QED BY <1>2, <2>2, <2>3 DEF ListType
  <1>6. Entries(WithList(a, s)) = {s[i] : i \in 1 .. Len(s)}
    <2>1. \A i \in 1 .. Len(s) : i \in Slot /\ i <= Len(s)
      BY <1>1, HashNumber
    <2> QED BY <2>1, <1>3, <1>4 DEF Entries
  <1>7. DOMAIN s = 1 .. Len(s) BY LenProperties
  <1> QED BY <1>3, <1>4, <1>5, <1>6, <1>7 DEF ToSet

\* A set of numbers up to n has a largest one.
LEMMA LastOf ==
    ASSUME NEW n \in Nat, NEW S, S \subseteq 1 .. n, S # {}
    PROVE  \E i \in S : \A j \in S : j <= i
  <1> DEFINE T == {n - i : i \in S}
  <1>1. T \subseteq Nat /\ T # {}
    <2>1. \A i \in S : n - i \in Nat
      OBVIOUS
    <2> QED BY <2>1
  <1>2. PICK x \in T : \A y \in T : ~ (<<y, x>> \in OpToRel(<, Nat))
    <2> HIDE DEF T
    <2> QED BY <1>1, NatLessThanWellFounded, WFMin
  <1>3. \A y \in T : ~ (y < x)
    <2> HIDE DEF T
    <2> QED BY <1>1, <1>2 DEF OpToRel
  <1>4. PICK i \in S : x = n - i
    BY <1>2
  <1>5. \A j \in S : ~ (n - j < n - i)
    BY <1>3, <1>4
  <1> QED BY <1>5

\* An array is also a sequence of entries; their hashes are those that the
\* model knows, and None.
LEMMA EntriesOf ==
    ASSUME NEW a \in ListType
    PROVE  /\ a.size \in 0 .. MaxLen
           /\ \A i \in 1 .. a.size : i \in Slot /\ a.at[i] \in Entries(a)
           /\ Entries(a) \subseteq Entry
           /\ ListOf(a) \in Seq(Entry) /\ Len(ListOf(a)) = a.size
           /\ ToSet(ListOf(a)) = Entries(a)
           /\ HashesOf(Entries(a)) \subseteq Hash \cup {None}
           /\ IsFiniteSet(HashesOf(Entries(a)))
           /\ Cardinality(HashesOf(Entries(a))) \in 0 .. Cardinality(Hash) + 1
  <1>1. a.size \in 0 .. MaxLen /\ a.size \in Nat
    BY HashNumber DEF ListType
  <1>2. \A i \in 1 .. a.size : i \in Slot
    BY <1>1, HashNumber
  <1>3. \A i \in 1 .. a.size : a.at[i] \in Entry /\ a.at[i] \in Entries(a)
    BY <1>2 DEF ListType, Entries
  <1>4. Entries(a) \subseteq Entry
    BY <1>3 DEF Entries
  <1>5. ListOf(a) \in [1 .. a.size -> Entry]
    BY <1>3 DEF ListOf
  <1>6. ListOf(a) \in Seq(Entry) /\ Len(ListOf(a)) = a.size
    BY <1>1, <1>5, SeqDef
  <1>7. ToSet(ListOf(a)) = Entries(a)
    BY DEF ToSet, ListOf, Entries
  <1>8. HashesOf(Entries(a)) \subseteq Hash \cup {None}
    BY <1>4 DEF HashesOf, Entry, Blank
  <1>9. /\ IsFiniteSet(Hash \cup {None})
        /\ Cardinality(Hash \cup {None}) = Cardinality(Hash) + 1
    BY Bounds, FS_AddElement
  <1>10. /\ IsFiniteSet(HashesOf(Entries(a)))
         /\ Cardinality(HashesOf(Entries(a))) <= Cardinality(Hash \cup {None})
    BY <1>8, <1>9, FS_Subset
  <1>11. Cardinality(HashesOf(Entries(a))) \in Nat /\ Cardinality(Hash \cup {None}) \in Nat
    BY <1>9, <1>10, FS_CardinalityType
  <1>12. Cardinality(HashesOf(Entries(a))) \in 0 .. Cardinality(Hash) + 1
    BY <1>9, <1>10, <1>11, HashNumber
  <1> QED BY <1>1, <1>2, <1>3, <1>4, <1>6, <1>7, <1>8, <1>10, <1>12

\* A blank entry, and any other but one for every hash, is one that an earlier
\* reply passed over: an array is never longer than this, which is what keeps
\* it within its slots.
Sized(a) == a.size <= Cardinality(HashesOf(Entries(a))) + Cardinality(Hash)

\* What addAttachmentData leaves: the entry of h is now one without a guid,
\* or is appended; the others stay.
LEMMA ListAdded ==
    ASSUME NEW a \in ListType, Sized(a), NEW h \in Hash
    PROVE  LET b == AddAttachmentData(a, h)
               new == [hash |-> h, guid |-> NoGuid]
           IN /\ b \in ListType /\ Sized(b)
              /\ b.removals = a.removals
              /\ HashesOf(Entries(b)) = HashesOf(Entries(a)) \cup {h}
              /\ Entries(b) = {e \in Entries(a) : e.hash # h} \cup {new}
              /\ \A i \in Slot : b.at[i] \in {a.at[i], new}
  <1> DEFINE b == AddAttachmentData(a, h)
             new == [hash |-> h, guid |-> NoGuid]
             s == ListOf(a)
             H == HashesOf(Entries(a))
  <1>0. new \in Entry
    BY Bounds DEF Entry, NoGuid
  <1>1. s \in Seq(Entry) /\ Len(s) = a.size /\ a.size \in 0 .. MaxLen /\ Cardinality(H) \in 0 .. Cardinality(Hash) + 1
    BY EntriesOf
  <1>2. DOMAIN s = 1 .. a.size /\ \A i \in 1 .. a.size : s[i] = a.at[i] /\ s[i] \in Entry /\ i \in Slot
    BY EntriesOf DEF ListOf
  <1>3. CASE h \in H
    <2> DEFINE t == [i \in DOMAIN s |-> IF s[i].hash = h THEN new ELSE s[i]]
    <2>1. t \in [1 .. a.size -> Entry]
      BY <1>0, <1>2
    <2>2. t \in Seq(Entry) /\ Len(t) = a.size
      BY <1>1, <2>1, SeqDef
    <2>3. b = WithList(a, t)
      BY <1>3 DEF AddAttachmentData
    <2>4. ToSet(t) = {e \in Entries(a) : e.hash # h} \cup {new}
      <3>1. PICK i \in 1 .. a.size : a.at[i].hash = h
        BY <1>3 DEF HashesOf, Entries
      <3>2. t[i] = new
        BY <1>2, <3>1
      <3>3. ToSet(t) = {t[j] : j \in 1 .. a.size}
        BY <1>2 DEF ToSet
      <3>4. ToSet(t) \subseteq {e \in Entries(a) : e.hash # h} \cup {new}
        BY <1>2, <3>3 DEF Entries
      <3>5. \A e \in Entries(a) : e.hash # h => e \in ToSet(t)
        BY <1>2, <3>3 DEF Entries
      <3> HIDE DEF t, new
      <3> QED BY <3>1, <3>2, <3>3, <3>4, <3>5
    <2>5. \A i \in 1 .. a.size : t[i] \in {a.at[i], new}
      BY <1>2
    <2> HIDE DEF t
    <2>6. /\ b \in ListType /\ b.size = a.size /\ b.removals = a.removals
          /\ Entries(b) = {e \in Entries(a) : e.hash # h} \cup {new}
          /\ \A i \in Slot : b.at[i] \in {a.at[i], new}
      <3> HIDE DEF b, new, s
      <3>1. /\ b \in ListType /\ b.size = a.size /\ b.removals = a.removals
            /\ Entries(b) = ToSet(t)
            /\ \A i \in Slot : b.at[i] = IF i <= a.size THEN t[i] ELSE a.at[i]
        BY <1>1, <2>2, <2>3, EntriesOfWithList
      <3>2. \A i \in Slot : i <= a.size => i \in 1 .. a.size
        BY <1>1, HashNumber
      <3> QED BY <2>4, <2>5, <3>1, <3>2
    <2>7. HashesOf(Entries(b)) = H \cup {h}
      <3> HIDE DEF b
      <3>1. \A e \in Entries(b) : e.hash \in H \cup {h}
        BY <2>6 DEF HashesOf
      <3>2. \A e \in Entries(a) : e.hash # h => e \in Entries(b)
        BY <2>6
      <3>3. new \in Entries(b) /\ new.hash = h
        BY <2>6
      <3> HIDE DEF new
      <3> QED BY <3>1, <3>2, <3>3 DEF HashesOf
    <2>8. Sized(b)
      BY <1>3, <2>6, <2>7 DEF Sized
    <2> QED BY <2>6, <2>7, <2>8
  <1>4. CASE h \notin H
    <2> DEFINE t == Append(s, new)
    <2>1. t \in Seq(Entry) /\ Len(t) = a.size + 1 /\ \A i \in 1 .. a.size : t[i] = a.at[i]
      BY <1>0, <1>1, <1>2, AppendProperties
    <2>2. t[a.size + 1] = new
      BY <1>0, <1>1, AppendProperties
    <2>3. b = WithList(a, t)
      BY <1>4 DEF AddAttachmentData
    <2>4. Cardinality(H \cup {h}) = Cardinality(H) + 1 /\ Cardinality(H \cup {h}) <= Cardinality(Hash) + 1
      <3>1. IsFiniteSet(H) /\ H \subseteq Hash \cup {None}
        BY EntriesOf
      <3>2. Cardinality(H \cup {h}) = Cardinality(H) + 1
        BY <1>4, <3>1, FS_AddElement
      <3>3. IsFiniteSet(Hash \cup {None}) /\ Cardinality(Hash \cup {None}) = Cardinality(Hash) + 1
        BY Bounds, FS_AddElement
      <3>4. H \cup {h} \subseteq Hash \cup {None}
        BY <3>1
      <3>5. Cardinality(H \cup {h}) <= Cardinality(Hash \cup {None})
        BY <3>3, <3>4, FS_Subset
      <3> QED BY <3>2, <3>3, <3>5
    <2>5. Len(t) <= MaxLen
      BY <1>1, <2>1, <2>4, HashNumber DEF Sized, MaxLen
    <2>6. ToSet(t) = Entries(a) \cup {new}
      <3>1. DOMAIN t = 1 .. a.size + 1
        BY <2>1, LenProperties
      <3> HIDE DEF t, new
      <3>2. ToSet(t) = {t[i] : i \in 1 .. a.size + 1}
        BY <3>1 DEF ToSet
      <3>3. 1 .. a.size + 1 = (1 .. a.size) \cup {a.size + 1}
        BY <1>1
      <3> QED BY <2>1, <2>2, <3>2, <3>3 DEF Entries
    <2>7. /\ b \in ListType /\ b.size = a.size + 1 /\ b.removals = a.removals
          /\ Entries(b) = Entries(a) \cup {new}
          /\ \A i \in Slot : b.at[i] = IF i <= a.size + 1 THEN t[i] ELSE a.at[i]
      <3> HIDE DEF t
      <3> QED BY <2>1, <2>3, <2>5, <2>6, EntriesOfWithList
    <2>8. \A i \in Slot : b.at[i] \in {a.at[i], new}
      <3> HIDE DEF t, b, new
      <3>1. \A i \in Slot : i <= a.size + 1 => i \in 1 .. a.size \/ i = a.size + 1
        BY <1>1, HashNumber
      <3> QED BY <2>1, <2>2, <2>7, <3>1
    <2>9. \A e \in Entries(a) : e.hash # h
      BY <1>4 DEF HashesOf
    <2>10. HashesOf(Entries(b)) = H \cup {h}
      BY <2>7 DEF HashesOf
    <2>11. Sized(b)
      <3> HIDE DEF b
      <3>1. Cardinality(HashesOf(Entries(b))) = Cardinality(H) + 1
        BY <2>4, <2>10
      <3>2. b.size = a.size + 1 /\ a.size \in Nat /\ Cardinality(H) \in Nat
        BY <1>1, <2>7
      <3>3. a.size <= Cardinality(H) + Cardinality(Hash)
        BY DEF Sized
      <3> HIDE DEF H
      <3> QED BY <3>1, <3>2, <3>3, HashNumber DEF Sized
    <2> QED BY <2>7, <2>8, <2>9, <2>10, <2>11
  <1> QED BY <1>3, <1>4

\* What removeAttachmentData rewrites: all entries but those of h.
LEMMA OthersOf ==
    ASSUME NEW a \in ListType, NEW h
    PROVE  /\ Others(a, h) \in Seq(Entry)
           /\ Len(Others(a, h)) <= a.size
           /\ h \in HashesOf(Entries(a)) => Len(Others(a, h)) < a.size
           /\ ToSet(Others(a, h)) = {e \in Entries(a) : e.hash # h}
  <1> DEFINE rest     == {i \in 1 .. a.size : a.at[i].hash # h}
             upto(i)  == {j \in rest : j <= i}
             place(i) == Cardinality(upto(i))
             n        == Cardinality(rest)
             pick(k)  == CHOOSE i \in rest : place(i) = k
             s        == [k \in 1 .. n |-> a.at[pick(k)]]
  <1>0. Others(a, h) = s
    BY DEF Others
  <1>1. a.size \in Nat /\ IsFiniteSet(1 .. a.size) /\ Cardinality(1 .. a.size) = a.size
    <2>1. a.size \in Nat
      BY EntriesOf, HashNumber
    <2> QED BY <2>1, UpTo
  <1>2. rest \subseteq 1 .. a.size /\ IsFiniteSet(rest) /\ n \in Nat /\ n <= a.size
    <2>1. rest \subseteq 1 .. a.size
      OBVIOUS
    <2> HIDE DEF rest
    <2> QED BY <1>1, <2>1, FS_Subset, FS_CardinalityType
  <1>3. \A i \in rest : /\ upto(i) \subseteq rest /\ i \in upto(i)
                        /\ IsFiniteSet(upto(i)) /\ place(i) \in 1 .. n
    <2> SUFFICES ASSUME NEW i \in rest
                 PROVE  /\ upto(i) \subseteq rest /\ i \in upto(i)
                        /\ IsFiniteSet(upto(i)) /\ place(i) \in 1 .. n
      OBVIOUS
    <2>1. upto(i) \subseteq rest /\ i \in upto(i)
      BY <1>2
    <2>2. IsFiniteSet(upto(i)) /\ place(i) <= n /\ place(i) \in Nat
      <3> HIDE DEF upto, rest
      <3> QED BY <1>2, <2>1, FS_Subset, FS_CardinalityType
    <2>3. place(i) # 0
      <3> HIDE DEF upto, rest
      <3> QED BY <2>1, <2>2, FS_EmptySet
    <2> QED BY <1>2, <2>1, <2>2, <2>3
  <1>4. \A i, j \in rest : i < j => place(i) # place(j)
    <2> SUFFICES ASSUME NEW i \in rest, NEW j \in rest, i < j, place(i) = place(j) PROVE FALSE
      OBVIOUS
    <2>1. upto(i) \subseteq upto(j) /\ j \notin upto(i)
      BY <1>2
    <2>2. upto(i) = upto(j)
      <3> HIDE DEF upto, rest
      <3> QED BY <1>3, <2>1, FS_Subset
    <2> QED BY <1>3, <2>1, <2>2
  <1>5. \A i, j \in rest : place(i) = place(j) => i = j
    <2> HIDE DEF place, rest
    <2> QED BY <1>2, <1>4
  <1>6. \A k \in 1 .. n : \E i \in rest : place(i) = k
    <2> DEFINE f == [i \in rest |-> place(i)]
    <2>1. f \in Injection(rest, 1 .. n)
      <3> HIDE DEF place, rest, n
      <3> QED BY <1>3, <1>5 DEF Injection, IsInjective
    <2>2. IsFiniteSet(1 .. n) /\ Cardinality(1 .. n) = n
      BY <1>2, UpTo
    <2>3. f \in Surjection(rest, 1 .. n)
      <3> HIDE DEF f, rest
      <3> QED BY <2>1, <2>2, FS_Injection
    <2> HIDE DEF place, rest, n
    <2> QED BY <2>3 DEF Surjection
  <1>7. \A k \in 1 .. n : pick(k) \in rest /\ place(pick(k)) = k
    <2> HIDE DEF place, rest, n
    <2> QED BY <1>6
  <1>8. \A i \in rest : place(i) \in 1 .. n /\ pick(place(i)) = i
    <2> HIDE DEF place, rest, n
    <2> QED BY <1>3, <1>5, <1>7
  <1>9. \A i \in rest : a.at[i] \in Entries(a) /\ a.at[i].hash # h
    BY EntriesOf
  <1>10. s \in [1 .. n -> Entry]
    <2> HIDE DEF pick, rest, n
    <2> QED BY <1>7, <1>9, EntriesOf
  <1>11. s \in Seq(Entry) /\ Len(s) = n
    <2> HIDE DEF s, n
    <2> QED BY <1>2, <1>10, SeqDef
  <1>12. ToSet(s) = {a.at[i] : i \in rest}
    <2> HIDE DEF pick, rest, n, place
    <2>1. ToSet(s) = {a.at[pick(k)] : k \in 1 .. n}
      BY DEF ToSet
    <2> QED BY <1>7, <1>8, <2>1
  <1>13. {a.at[i] : i \in rest} = {e \in Entries(a) : e.hash # h}
    BY <1>9 DEF Entries
  <1>14. h \in HashesOf(Entries(a)) => n < a.size
    <2> SUFFICES ASSUME h \in HashesOf(Entries(a)) PROVE n # a.size
      BY <1>1, <1>2
    <2>1. PICK i \in 1 .. a.size : a.at[i].hash = h
      BY DEF HashesOf, Entries
    <2>2. i \notin rest
      BY <2>1
    <2> HIDE DEF rest
    <2> QED BY <1>1, <1>2, <2>2, FS_Subset
  <1> HIDE DEF s, n, rest
  <1> QED BY <1>0, <1>2, <1>11, <1>12, <1>13, <1>14

\* What removeAttachmentData leaves: the entries of h are gone, and the guids
\* they had are among the removals.
LEMMA ListRemoved ==
    ASSUME NEW a \in ListType, Sized(a), NEW h \in Hash
    PROVE  LET b == RemoveAttachmentData(a, h)
           IN /\ b \in ListType /\ Sized(b)
              /\ b.removals = a.removals \cup {e.guid : e \in {x \in Entries(a) : x.hash = h /\ x.guid # NoGuid}}
              /\ Entries(b) = {e \in Entries(a) : e.hash # h}
              /\ HashesOf(Entries(b)) = HashesOf(Entries(a)) \ {h}
              /\ \A i \in Slot : b.at[i] \in Entries(a) \cup {a.at[i]}
  <1> DEFINE b == RemoveAttachmentData(a, h)
             s == Others(a, h)
             w == WithList(a, s)
             gone == {e.guid : e \in {x \in Entries(a) : x.hash = h /\ x.guid # NoGuid}}
             H == HashesOf(Entries(a))
  <1>1. /\ s \in Seq(Entry) /\ Len(s) <= a.size /\ Len(s) \in Nat /\ a.size \in 0 .. MaxLen
        /\ h \in H => Len(s) < a.size
        /\ ToSet(s) = {e \in Entries(a) : e.hash # h}
    BY OthersOf, EntriesOf, LenProperties
  <1>2. /\ w \in ListType /\ w.size = Len(s) /\ w.removals = a.removals /\ Entries(w) = ToSet(s)
        /\ \A i \in Slot : w.at[i] = IF i <= Len(s) THEN s[i] ELSE a.at[i]
    <2> HIDE DEF s
    <2> QED BY <1>1, EntriesOfWithList, HashNumber
  <1>3. b = [w EXCEPT !.removals = a.removals \cup gone]
    BY <1>2 DEF RemoveAttachmentData
  <1>4. gone \subseteq 1 .. MaxGuid
    <2>1. \A e \in Entries(a) : e.guid \in 0 .. MaxGuid
      BY EntriesOf, Bounds DEF Entry, Blank, NoGuid
    <2> QED BY <2>1, Bounds DEF NoGuid
  <1>5. b \in ListType /\ b.size = Len(s) /\ b.at = w.at /\ b.removals = a.removals \cup gone
    <2> HIDE DEF b, w, gone
    <2> QED BY <1>2, <1>3, <1>4 DEF ListType
  <1>6. Entries(b) = {e \in Entries(a) : e.hash # h}
    <2> HIDE DEF b, w, s
    <2> QED BY <1>1, <1>2, <1>5 DEF Entries
  <1>7. HashesOf(Entries(b)) = H \ {h}
    <2> HIDE DEF b
    <2> QED BY <1>6 DEF HashesOf
  <1>8. Sized(b)
    <2>1. IsFiniteSet(H) /\ Cardinality(H) \in Nat
      BY EntriesOf
    <2>2. Cardinality(H \ {h}) = IF h \in H THEN Cardinality(H) - 1 ELSE Cardinality(H)
      <3> HIDE DEF H
      <3> QED BY <2>1, FS_RemoveElement
    <2>3. Cardinality(HashesOf(Entries(b))) = Cardinality(H \ {h})
      BY <1>7
    <2>4. a.size <= Cardinality(H) + Cardinality(Hash)
      BY DEF Sized
    <2> HIDE DEF b, s, H
    <2> QED BY <1>1, <1>5, <2>1, <2>2, <2>3, <2>4, HashNumber DEF Sized
  <1>9. \A i \in Slot : b.at[i] \in Entries(a) \cup {a.at[i]}
    <2>1. \A i \in 1 .. Len(s) : s[i] \in Entries(a)
      <3> HIDE DEF s
      <3> QED BY <1>1, LenProperties DEF ToSet
    <2> HIDE DEF b, w, s
    <2>2. \A i \in Slot : i <= Len(s) => i \in 1 .. Len(s)
      BY <1>1, HashNumber
    <2> QED BY <1>2, <1>5, <2>1, <2>2
  <1> QED BY <1>5, <1>6, <1>7, <1>8, <1>9

\* The QHash of the old entries finds for each of their hashes an entry that
\* has it.
LEMMA OldEntryOf ==
    ASSUME NEW a \in ListType, NEW h \in HashesOf(Entries(a))
    PROVE  OldEntry(a, h) \in Entries(a) /\ OldEntry(a, h).hash = h
  <1> DEFINE at == {i \in 1 .. a.size : a.at[i].hash = h}
  <1>1. a.size \in Nat
    BY EntriesOf, HashNumber
  <1>2. at # {} /\ at \subseteq 1 .. a.size
    BY DEF HashesOf, Entries
  <1>3. \E i \in at : \A j \in at : j <= i
    <2> HIDE DEF at
    <2> QED BY <1>1, <1>2, LastOf
  <1>4. \E i \in 1 .. a.size : a.at[i].hash = h /\ \A j \in i + 1 .. a.size : a.at[j].hash # h
    BY <1>1, <1>3
  <1> DEFINE k == CHOOSE i \in 1 .. a.size : a.at[i].hash = h /\ \A j \in i + 1 .. a.size : a.at[j].hash # h
  <1>5. k \in 1 .. a.size /\ a.at[k].hash = h
    BY <1>4
  <1>6. OldEntry(a, h) = a.at[k]
    BY DEF OldEntry
  <1> HIDE DEF k
  <1> QED BY <1>5, <1>6 DEF Entries

\* The old entries that a reply does not have: one for each of their hashes.
LEMMA UnusedOf ==
    ASSUME NEW a \in ListType, NEW list
    PROVE  /\ Unused(a, list) \subseteq Entries(a)
           /\ \A e \in Unused(a, list) : /\ e.hash \notin HashesOf(ToSet(list))
                                         /\ e = OldEntry(a, e.hash)
           /\ \A h \in HashesOf(Entries(a)) \ HashesOf(ToSet(list)) :
                 \E e \in Unused(a, list) : e.hash = h
           /\ IsFiniteSet(Unused(a, list))
  <1>1. \A h \in HashesOf(Entries(a)) : OldEntry(a, h) \in Entries(a) /\ OldEntry(a, h).hash = h
    BY OldEntryOf
  <1>2. /\ Unused(a, list) \subseteq Entries(a)
        /\ \A e \in Unused(a, list) : e.hash \notin HashesOf(ToSet(list)) /\ e = OldEntry(a, e.hash)
        /\ \A h \in HashesOf(Entries(a)) \ HashesOf(ToSet(list)) :
                 \E e \in Unused(a, list) : e.hash = h
    BY <1>1 DEF Unused
  <1>3. IsFiniteSet(Unused(a, list))
    <2> DEFINE f == [e \in Unused(a, list) |-> e.hash]
    <2>1. \A e \in Unused(a, list) : e.hash \in HashesOf(Entries(a))
      BY <1>2 DEF HashesOf
    <2>2. f \in Injection(Unused(a, list), HashesOf(Entries(a)))
      BY <1>2, <2>1 DEF Injection, IsInjective
    <2> HIDE DEF f
    <2> QED BY <2>2, EntriesOf, FS_Injection
  <1> QED BY <1>2, <1>3

\* What setAttachmentsDataFromServer leaves: what it keeps, and what the reply
\* has and is not passed over; in the place of what is passed over, the entry
\* that was there before.
LEMMA ListFromServer ==
    ASSUME NEW a \in ListType, NEW list \in Seq(Resource), Len(list) <= Cardinality(Hash),
           NEW isAfterPush \in BOOLEAN, NEW kept \in Orders(Kept(a, list))
    PROVE  LET b == ServerList(a, list, kept, isAfterPush)
           IN /\ b \in ListType /\ Sized(b)
              /\ b.removals = IF isAfterPush THEN {} ELSE a.removals
              /\ Kept(a, list) \subseteq Entries(b)
              /\ \A e \in ToSet(list) : ~PassedOver(a, e, isAfterPush) => e \in Entries(b)
              /\ \A i \in Slot : \/ b.at[i] \in Kept(a, list) \cup ToSet(list)
                                 \/ \E j \in Slot : b.at[i] = a.at[j]
              /\ \A e \in Entries(b) :
                    \/ e \in Kept(a, list)
                    \/ e \in ToSet(list) /\ ~PassedOver(a, e, isAfterPush)
                    \/ \E i \in DOMAIN list : e = a.at[i] /\ PassedOver(a, list[i], isAfterPush)
  <1> DEFINE b == ServerList(a, list, kept, isAfterPush)
             K == Kept(a, list)
             got == [i \in DOMAIN list |->
                        IF PassedOver(a, list[i], isAfterPush) THEN a.at[i] ELSE list[i]]
             s == got \o kept
             w == WithList(a, s)
             rem == IF isAfterPush THEN {} ELSE a.removals
             H == HashesOf(Entries(a))
  <1>1. K \subseteq Unused(a, list) /\ K \subseteq Entries(a)
    BY UnusedOf DEF Kept
  <1>2. IsFiniteSet(K) /\ Cardinality(K) \in Nat
    <2> HIDE DEF K
    <2> QED BY <1>1, UnusedOf, FS_Subset, FS_CardinalityType
  <1>3. kept \in Seq(K) /\ Len(kept) = Cardinality(K) /\ ToSet(kept) = K
    <2> HIDE DEF K
    <2>1. kept \in Orders(K)
      BY DEF K
    <2> QED BY <1>2, <2>1, OrdersOf
  <1>4. Entries(a) \subseteq Entry /\ Resource \subseteq Entry
    BY EntriesOf, Bounds DEF Entry, Resource
  <1>5. /\ DOMAIN list = 1 .. Len(list) /\ Len(list) \in Nat
        /\ \A i \in 1 .. Len(list) : list[i] \in Resource /\ i \in Slot
        /\ ToSet(list) = {list[i] : i \in 1 .. Len(list)}
    <2>1. DOMAIN list = 1 .. Len(list) /\ Len(list) \in Nat /\ \A i \in 1 .. Len(list) : list[i] \in Resource
      BY LenProperties, ElementOfSeq
    <2>2. \A i \in 1 .. Len(list) : i \in Slot
      BY <2>1, HashNumber DEF MaxLen
    <2> QED BY <2>1, <2>2 DEF ToSet
  <1>6. got \in [1 .. Len(list) -> Entry]
    BY <1>4, <1>5 DEF ListType
  <1>7. got \in Seq(Entry) /\ Len(got) = Len(list)
    <2> HIDE DEF got
    <2> QED BY <1>5, <1>6, SeqDef
  <1>8. kept \in Seq(Entry) /\ Len(kept) \in Nat /\ \A i \in 1 .. Len(kept) : kept[i] \in K
    <2> HIDE DEF K
    <2>1. kept \in [1 .. Len(kept) -> K] /\ Len(kept) \in Nat
      BY <1>3, LenProperties
    <2>2. kept \in [1 .. Len(kept) -> Entry]
      BY <1>1, <1>4, <2>1
    <2> QED BY <2>1, <2>2, SeqDef
  <1>9. /\ s \in Seq(Entry) /\ Len(s) = Len(list) + Len(kept)
        /\ \A i \in 1 .. Len(list) : s[i] = got[i]
        /\ \A i \in Len(list) + 1 .. Len(list) + Len(kept) : s[i] = kept[i - Len(list)]
    <2> HIDE DEF got
    <2>1. /\ s \in Seq(Entry) /\ Len(s) = Len(got) + Len(kept)
          /\ \A i \in 1 .. Len(got) + Len(kept) : s[i] = IF i <= Len(got) THEN got[i] ELSE kept[i - Len(got)]
      BY <1>7, <1>8, ConcatProperties
    <2> HIDE DEF s
    <2>2. \A i \in 1 .. Len(list) : i \in 1 .. Len(s) /\ i <= Len(got)
      BY <1>5, <1>7, <1>8, <2>1
    <2>3. \A i \in Len(list) + 1 .. Len(list) + Len(kept) : i \in 1 .. Len(s) /\ ~(i <= Len(got))
      BY <1>5, <1>7, <1>8, <2>1
    <2> QED BY <1>7, <2>1, <2>2, <2>3
  <1>10. \A e, f \in K : e.hash = f.hash => e = f
    BY <1>1, UnusedOf
  <1>11. Cardinality(K) <= Cardinality(HashesOf(K)) /\ IsFiniteSet(HashesOf(K)) /\ HashesOf(K) \subseteq H
    <2>1. HashesOf(K) \subseteq H
      BY <1>1 DEF HashesOf
    <2>2. IsFiniteSet(HashesOf(K))
      BY <2>1, EntriesOf, FS_Subset
    <2> DEFINE f == [e \in K |-> e.hash]
    <2>3. f \in Injection(K, HashesOf(K))
      <3> HIDE DEF K
      <3> QED BY <1>10 DEF Injection, IsInjective, HashesOf
    <2> HIDE DEF f, K
    <2> QED BY <2>1, <2>2, <2>3, FS_Injection
  <1>12. Cardinality(HashesOf(K)) \in Nat /\ Cardinality(HashesOf(K)) <= Cardinality(Hash) + 1
    <2>1. Cardinality(HashesOf(K)) <= Cardinality(H)
      BY <1>11, EntriesOf, FS_Subset
    <2>2. Cardinality(H) \in 0 .. Cardinality(Hash) + 1
      BY EntriesOf
    <2>3. Cardinality(HashesOf(K)) \in Nat
      BY <1>11, FS_CardinalityType
    <2> HIDE DEF H, K
    <2> QED BY <2>1, <2>2, <2>3, HashNumber
  <1>13. Len(s) <= MaxLen
    <2> HIDE DEF s, K
    <2> QED BY <1>2, <1>3, <1>5, <1>9, <1>11, <1>12, HashNumber DEF MaxLen
  <1>14. /\ w \in ListType /\ w.size = Len(s) /\ w.removals = a.removals /\ Entries(w) = ToSet(s)
         /\ \A i \in Slot : w.at[i] = IF i <= Len(s) THEN s[i] ELSE a.at[i]
    <2> HIDE DEF s
    <2> QED BY <1>9, <1>13, EntriesOfWithList
  <1>15. b = [w EXCEPT !.removals = rem]
    BY <1>14 DEF ServerList
  <1>16. b \in ListType /\ b.size = Len(s) /\ b.at = w.at /\ b.removals = rem
    <2>1. rem \in SUBSET (1 .. MaxGuid)
      BY DEF ListType
    <2> HIDE DEF b, w, rem
    <2> QED BY <1>14, <1>15, <2>1 DEF ListType
  <1>17. Entries(b) = ToSet(s)
    <2> HIDE DEF b, w, s
    <2> QED BY <1>14, <1>16 DEF Entries
  <1>18. DOMAIN s = 1 .. Len(s)
    <2> HIDE DEF s
    <2> QED BY <1>9, LenProperties
  <1>19. K \subseteq Entries(b)
    <2> SUFFICES ASSUME NEW e \in K PROVE e \in ToSet(s)
      BY <1>17
    <2>1. PICK i \in 1 .. Len(kept) : e = kept[i]
      <3>1. DOMAIN kept = 1 .. Len(kept)
        BY <1>8, LenProperties
      <3> HIDE DEF K
      <3> QED BY <1>3, <3>1 DEF ToSet
    <2>2. Len(list) + i \in Len(list) + 1 .. Len(list) + Len(kept) /\ (Len(list) + i) - Len(list) = i
      BY <1>5, <1>8, <2>1
    <2>3. Len(list) + i \in 1 .. Len(s)
      <3> HIDE DEF s
      <3> QED BY <1>5, <1>8, <1>9, <2>2
    <2>4. s[Len(list) + i] = e
      <3> HIDE DEF s
      <3> QED BY <1>9, <2>1, <2>2
    <2> HIDE DEF s
    <2> QED BY <1>18, <2>3, <2>4 DEF ToSet
  <1>20. \A e \in ToSet(list) : ~PassedOver(a, e, isAfterPush) => e \in Entries(b)
    <2> SUFFICES ASSUME NEW e \in ToSet(list), ~PassedOver(a, e, isAfterPush) PROVE e \in ToSet(s)
      BY <1>17
    <2>1. PICK i \in 1 .. Len(list) : e = list[i]
      BY <1>5
    <2>2. got[i] = e /\ i \in 1 .. Len(s)
      <3>1. got[i] = e
        BY <1>5, <2>1
      <3> HIDE DEF s, got
      <3> QED BY <1>5, <1>8, <1>9, <3>1
    <2>3. s[i] = e
      <3> HIDE DEF s, got
      <3> QED BY <1>9, <2>2
    <2> HIDE DEF s
    <2> QED BY <1>18, <2>2, <2>3 DEF ToSet
  <1>21. \A i \in 1 .. Len(s) :
            \/ s[i] \in K
            \/ s[i] \in ToSet(list) /\ ~PassedOver(a, s[i], isAfterPush)
            \/ i \in DOMAIN list /\ s[i] = a.at[i] /\ PassedOver(a, list[i], isAfterPush)
    <2> SUFFICES ASSUME NEW i \in 1 .. Len(s)
                 PROVE \/ s[i] \in K
                       \/ s[i] \in ToSet(list) /\ ~PassedOver(a, s[i], isAfterPush)
                       \/ i \in DOMAIN list /\ s[i] = a.at[i] /\ PassedOver(a, list[i], isAfterPush)
      OBVIOUS
    <2>1. CASE i \in 1 .. Len(list)
      <3>1. got[i] = IF PassedOver(a, list[i], isAfterPush) THEN a.at[i] ELSE list[i]
        BY <1>5, <2>1
      <3>2. s[i] = got[i] /\ list[i] \in ToSet(list)
        <4> HIDE DEF s, got
        <4> QED BY <1>5, <1>9, <2>1
      <3> HIDE DEF s, got
      <3> QED BY <1>5, <2>1, <3>1, <3>2
    <2>2. CASE i \notin 1 .. Len(list)
      <3> HIDE DEF s, K
      <3>1. i \in Len(list) + 1 .. Len(list) + Len(kept) /\ i - Len(list) \in 1 .. Len(kept)
        BY <1>5, <1>8, <1>9, <2>2
      <3> QED BY <1>8, <1>9, <3>1
    <2> QED BY <2>1, <2>2
  <1>22. \A i \in Slot : \/ b.at[i] \in K \cup ToSet(list)
                         \/ \E j \in Slot : b.at[i] = a.at[j]
    <2>1. \A i \in Slot : i <= Len(s) => i \in 1 .. Len(s)
      <3> HIDE DEF s
      <3> QED BY <1>9, HashNumber, LenProperties
    <2> HIDE DEF s, b, w, K
    <2> QED BY <1>5, <1>14, <1>16, <1>21, <2>1
  <1>23. \A e \in Entries(b) :
            \/ e \in K
            \/ e \in ToSet(list) /\ ~PassedOver(a, e, isAfterPush)
            \/ \E i \in DOMAIN list : e = a.at[i] /\ PassedOver(a, list[i], isAfterPush)
    <2> HIDE DEF s, b, K
    <2> QED BY <1>17, <1>18, <1>21 DEF ToSet
  <1>24. Sized(b)
    <2>1. HashesOf(K) \subseteq HashesOf(Entries(b))
      <3> HIDE DEF K, b
      <3> QED BY <1>19 DEF HashesOf
    <2>2. /\ IsFiniteSet(HashesOf(Entries(b))) /\ Cardinality(HashesOf(Entries(b))) \in Nat
      <3> HIDE DEF b
      <3> QED BY <1>16, EntriesOf, FS_CardinalityType
    <2>3. Cardinality(HashesOf(K)) <= Cardinality(HashesOf(Entries(b)))
      <3> HIDE DEF b, K
      <3> QED BY <2>1, <2>2, FS_Subset
    <2> HIDE DEF b, K, s
    <2> QED BY <1>2, <1>3, <1>5, <1>9, <1>11, <1>12, <1>16, <2>2, <2>3, HashNumber DEF Sized
  <1> QED BY <1>16, <1>19, <1>20, <1>22, <1>23, <1>24

-----------------------------------------------------------------------------
(* Types.                                                                  *)

\* No two resources of a note have the same body.
Distinct(S) == \A r, q \in S : r.hash = q.hash => r = q

\* The resources of a note, as a reply of the server lists them.
Reply(list) == list \in Seq(Resource) /\ Len(list) <= Cardinality(Hash)

\* Where the page works on an attachment, and where synchronize() has the
\* resources of a reply.
Working == {"removeFile", "removeContent", "appendFile", "appendData", "appendContent"}
Replied == {"gist", "attachments", "pushedNote", "pushedAttachments"}

\* The invariant that proves TypeOK.
TypeInv ==
    /\ TypeOK
    /\ \A d \in Depth : Sized(lists[d])
    /\ Distinct(srv)
    /\ page.pc \in Working => page.item \in Hash
    /\ sy.pc \in Replied => Reply(sy.list)
    /\ sy.pc = "call" => Blank \notin ToSet(sy.list)
    /\ \A p \in Thread : Reply(call[p].list)

\* The resources of the server, in any order, are a reply.
LEMMA RepliesOf ==
    ASSUME NEW S \in SUBSET Resource, Distinct(S)
    PROVE  /\ IsFiniteSet(S)
           /\ \A list \in Orders(S) : Reply(list) /\ ToSet(list) = S
  <1> DEFINE f == [r \in S |-> r.hash]
  <1>1. f \in Injection(S, Hash)
    BY DEF Injection, IsInjective, Distinct, Resource
  <1>2. IsFiniteSet(S) /\ Cardinality(S) <= Cardinality(Hash)
    <2> HIDE DEF f
    <2> QED BY <1>1, Bounds, FS_Injection
  <1>3. ASSUME NEW list \in Orders(S)
        PROVE  Reply(list) /\ ToSet(list) = S
    <2>1. list \in Seq(S) /\ Len(list) = Cardinality(S) /\ ToSet(list) = S
      BY <1>2, OrdersOf
    <2>2. list \in [1 .. Len(list) -> S] /\ Len(list) \in Nat
      BY <2>1, LenProperties
    <2>3. list \in [1 .. Len(list) -> Resource]
      BY <2>2
    <2>4. list \in Seq(Resource)
      BY <2>2, <2>3, SeqDef
    <2> QED BY <1>2, <2>1, <2>4 DEF Reply
  <1> QED BY <1>2, <1>3

\* No resources are a reply.
LEMMA EmptyReply == Reply(<<>>)
  <1>1. <<>> \in Seq(Resource) /\ Len(<<>>) = 0
    BY EmptySeq
  <1> QED BY <1>1, HashNumber DEF Reply

\* What the list of the settings in use is, and that only it changes.
LEMMA IniTypes ==
    ASSUME TypeInv
    PROVE  Ini \in ListType /\ Sized(Ini) /\ depth \in Depth /\ lists \in [Depth -> ListType]
  BY DEF TypeInv, TypeOK, Ini, ListType

\* setAttachmentsDataFromServer leaves arrays, files and a history of their
\* types, from any reply.
LEMMA SetAttachmentsType ==
    ASSUME TypeInv, NEW list, Reply(list), NEW isAfterPush \in BOOLEAN, NEW overtaken \in BOOLEAN,
           SetAttachmentsDataFromServer(list, isAfterPush, overtaken)
    PROVE  /\ lists' \in [Depth -> ListType] /\ depth' \in Depth /\ files' \in Content
           /\ \A d \in Depth : Sized(lists'[d])
           /\ seen' \in [sent : Content, dropped : Content, overtaken : BOOLEAN, strayed : BOOLEAN]
  <1>1. CASE Ini.size = 0 /\ list = <<>>
    <2>1. depth < MaxDepth /\ depth' = depth + 1 /\ UNCHANGED <<lists, files, seen>>
      BY <1>1 DEF SetAttachmentsDataFromServer
    <2>2. depth' \in Depth
      BY <2>1, Bounds DEF TypeInv, TypeOK, Depth
    <2> QED BY <2>1, <2>2, IniTypes DEF TypeInv, TypeOK
  <1>2. CASE ~(Ini.size = 0 /\ list = <<>>)
    <2>1. PICK kept \in Orders(Kept(Ini, list)) :
             lists' = [lists EXCEPT ![depth] = ServerList(@, list, kept, isAfterPush)]
      BY <1>2 DEF SetAttachmentsDataFromServer
    <2>2. ServerList(Ini, list, kept, isAfterPush) \in ListType /\ Sized(ServerList(Ini, list, kept, isAfterPush))
      BY IniTypes, ListFromServer DEF Reply
    <2>3. lists' = [lists EXCEPT ![depth] = ServerList(Ini, list, kept, isAfterPush)]
      BY <2>1 DEF Ini
    <2>4. lists' \in [Depth -> ListType] /\ \A d \in Depth : Sized(lists'[d])
      BY <2>2, <2>3, IniTypes DEF TypeInv
    <2>5. /\ files' = files \ FilesUnneeded(Ini, list, isAfterPush)
          /\ seen' = [seen EXCEPT !.dropped = @ \ Taken(Ini, list, isAfterPush),
                                  !.overtaken = overtaken]
          /\ UNCHANGED depth
      BY <1>2 DEF SetAttachmentsDataFromServer
    <2>6. files' \in Content
      BY <2>5 DEF TypeInv, TypeOK, Content
    <2>7. seen' \in [sent : Content, dropped : Content, overtaken : BOOLEAN, strayed : BOOLEAN]
      BY <2>5 DEF TypeInv, TypeOK, Content
    <2> QED BY <2>4, <2>5, <2>6, <2>7, IniTypes
  <1> QED BY <1>1, <1>2

\* The states the program starts in have the types.
LEMMA TypeInit == Init => TypeInv
  <1> SUFFICES ASSUME Init PROVE TypeInv
    OBVIOUS
  <1>1. PICK first \in SUBSET {[hash |-> h, guid |-> 1] : h \in Hash} :
           /\ Cardinality(first) <= 1
           /\ srv = first /\ srvShows = HashesOf(first)
           /\ guids = Cardinality(first)
           /\ lists = [d \in Depth |->
                 IF d > 0 \/ first = {} THEN NoList
                 ELSE [NoList EXCEPT !.size = 1, !.at[1] = CHOOSE r \in first : TRUE]]
           /\ depth = 0 /\ files = {}
           /\ pinned \in BOOLEAN /\ pulled = TRUE
           /\ valid = FALSE /\ file = {} /\ cache = HashesOf(first)
           /\ base = HashesOf(first) /\ synced = HashesOf(first)
           /\ flag = FALSE /\ deferred = FALSE
           /\ page = Closed /\ sy = Idle /\ call = [p \in Thread |-> NoCall]
           /\ changes = 0
           /\ seen = [sent |-> HashesOf(first), dropped |-> {}, overtaken |-> FALSE,
                      strayed |-> FALSE]
    BY DEF Init
  <1> DEFINE one == CHOOSE r \in first : TRUE
             start == [d \in Depth |-> IF d > 0 \/ first = {} THEN NoList
                                       ELSE [NoList EXCEPT !.size = 1, !.at[1] = one]]
  <1>a. lists = start
    BY <1>1, Zenon
  <1>b. /\ Cardinality(first) <= 1
        /\ srv = first /\ srvShows = HashesOf(first)
        /\ guids = Cardinality(first)
        /\ depth = 0 /\ files = {}
        /\ pinned \in BOOLEAN /\ pulled = TRUE
        /\ valid = FALSE /\ file = {} /\ cache = HashesOf(first)
        /\ base = HashesOf(first) /\ synced = HashesOf(first)
        /\ flag = FALSE /\ deferred = FALSE
        /\ page = Closed /\ sy = Idle /\ call = [p \in Thread |-> NoCall]
        /\ changes = 0
        /\ seen = [sent |-> HashesOf(first), dropped |-> {}, overtaken |-> FALSE,
                   strayed |-> FALSE]
    BY <1>1, Zenon
  <1>2. first \subseteq Resource /\ Distinct(first)
    BY Bounds DEF Resource, Distinct
  <1>3. guids \in 0 .. MaxGuid
    <2>1. IsFiniteSet(first)
      BY <1>2, RepliesOf
    <2>2. Cardinality(first) \in Nat
      BY <2>1, FS_CardinalityType
    <2> QED BY <1>b, <2>2, Bounds
  <1>4. HashesOf(first) \in Content
    BY DEF HashesOf, Content
  <1>5. NoList \in ListType /\ Sized(NoList)
    <2>1. NoList \in ListType
      BY DEF NoList, ListType, Blank, Entry
    <2>2. NoList.size = 0 /\ Cardinality(HashesOf(Entries(NoList))) \in 0 .. Cardinality(Hash) + 1
      BY <2>1, EntriesOf DEF NoList
    <2> DEFINE n == Cardinality(HashesOf(Entries(NoList)))
    <2>3. NoList.size <= n + Cardinality(Hash)
      <3> HIDE DEF NoList, n
      <3>1. NoList.size = 0 /\ n \in 0 .. Cardinality(Hash) + 1
        BY <2>2 DEF n
      <3> QED BY <3>1, HashNumber
    <2> QED BY <2>1, <2>3 DEF Sized
  <1>6. ASSUME NEW r \in Resource
        PROVE  LET a == [NoList EXCEPT !.size = 1, !.at[1] = r]
               IN  a \in ListType /\ Sized(a)
    <2> DEFINE a == [NoList EXCEPT !.size = 1, !.at[1] = r]
    <2>1. 1 \in Slot /\ r \in Entry
      BY HashNumber DEF MaxLen, Resource, Entry
    <2>2. a \in ListType /\ a.size = 1 /\ a.at[1] = r
      BY <1>5, <2>1 DEF NoList, ListType
    <2>3. HashesOf(Entries(a)) = {r.hash}
      <3> HIDE DEF a
      <3>1. 1 .. a.size = {1} BY <2>2
      <3> QED BY <2>2, <3>1 DEF HashesOf, Entries
    <2>4. Cardinality(HashesOf(Entries(a))) = 1
      BY <2>3, FS_Singleton
    <2> QED BY <2>2, <2>4, HashNumber DEF Sized
  <1>7. \A d \in Depth : lists[d] \in ListType /\ Sized(lists[d])
    <2> SUFFICES ASSUME NEW d \in Depth PROVE lists[d] \in ListType /\ Sized(lists[d])
      OBVIOUS
    <2>0. (~(d > 0 \/ first = {})) => one \in Resource
      BY <1>2
    <2> HIDE DEF one
    <2>1. CASE d > 0 \/ first = {}
      BY <1>a, <1>5, <2>1
    <2>2. CASE ~(d > 0 \/ first = {})
      <3>1. lists[d] = [NoList EXCEPT !.size = 1, !.at[1] = one]
        BY <1>a, <2>2
      <3> QED BY <1>6, <2>0, <2>2, <3>1
    <2> QED BY <2>1, <2>2
  <1>8. lists \in [Depth -> ListType]
    <2> HIDE DEF one
    <2>1. lists = [d \in Depth |-> lists[d]]
      BY <1>a
    <2> QED BY <1>7, <2>1
  <1>9. depth \in Depth
    BY <1>b, Bounds DEF Depth
  <1>10. TypeOK
    <2>1. srv \in SUBSET Resource /\ {} \in Content
      BY <1>b, <1>2 DEF Content
    <2>2. Idle \in [pc : Pcs, list : Seq(Entry), shows : Content, fresh : BOOLEAN]
      BY <2>1, EmptySeq DEF Idle, Pcs
    <2>3. NoCall \in [pc : {"off", "store", "content"}, list : Seq(Resource),
                      shows : Content, late : BOOLEAN]
      BY <2>1, EmptySeq DEF NoCall
    <2>4. Closed \in [pc : {"closed", "open", "removeFile", "removeContent", "appendFile",
                            "appendData", "appendContent", "flag"},
                      body : Content, base : Content, item : Hash \cup {None}]
      BY <2>1 DEF Closed
    <2>5. changes \in 0 .. MaxChanges
      BY <1>b, Bounds
    <2>6. call \in [Thread -> [pc : {"off", "store", "content"}, list : Seq(Resource),
                      shows : Content, late : BOOLEAN]]
      BY <1>b, <2>3
    <2>7. seen \in [sent : Content, dropped : Content, overtaken : BOOLEAN, strayed : BOOLEAN]
      BY <1>b, <1>4, <2>1
    <2> QED BY <1>b, <1>3, <1>4, <1>8, <1>9, <2>1, <2>2, <2>4, <2>5, <2>6, <2>7 DEF TypeOK, ListType
  <1>11. page.pc \notin Working /\ sy.pc \notin Replied /\ sy.pc # "call"
    BY <1>b DEF Closed, Idle, Working, Replied
  <1>12. \A p \in Thread : Reply(call[p].list)
    BY <1>b, EmptyReply DEF NoCall
  <1> QED BY <1>b, <1>2, <1>7, <1>10, <1>11, <1>12 DEF TypeInv

\* The contents are those of a note.
NoteType ==
    /\ <<valid, flag, deferred>> \in BOOLEAN \X BOOLEAN \X BOOLEAN
    /\ <<file, cache>> \in Content \X Content
    /\ <<base, synced>> \in Content \X Content

\* Whatever stores a content leaves the note's contents of their types.
LEMMA SaveType ==
    ASSUME TypeOK, NEW shows \in Content, NEW pageBase \in Content,
           Save(shows, pageBase) \/ SaveAppended(shows, pageBase)
           \/ SetFetchedNoteContent(shows) \/ SetPushedNote(shows)
    PROVE  NoteType'
  <1>1. CASE Save(shows, pageBase)
    BY <1>1 DEF Save, TypeOK, NoteType
  <1>2. CASE SaveAppended(shows, pageBase)
    BY <1>2 DEF SaveAppended, Save, TypeOK, NoteType, note
  <1>3. CASE SetFetchedNoteContent(shows)
    <2>1. CASE base = shows /\ valid
      BY <1>3, <2>1 DEF SetFetchedNoteContent, TypeOK, NoteType, note
    <2>2. CASE ~(base = shows /\ valid)
      BY <1>3, <2>2 DEF SetFetchedNoteContent, TypeOK, NoteType, Content
    <2> QED BY <2>1, <2>2
  <1>4. CASE SetPushedNote(shows)
    BY <1>4 DEF SetPushedNote, TypeOK, NoteType, Content
  <1> QED BY <1>1, <1>2, <1>3, <1>4

\* What the page may be.
PageType ==
    /\ page \in [pc : {"closed", "open", "removeFile", "removeContent", "appendFile", "appendData",
                       "appendContent", "flag"},
                 body : Content, base : Content, item : Hash \cup {None}]
    /\ page.pc \in Working => page.item \in Hash

\* The steps of the page preserve the types.
LEMMA TypePage ==
    ASSUME TypeInv, Page
    PROVE  TypeInv'
  <1>0. {} \in Content /\ Shows \in Content /\ Ini \in ListType
    BY IniTypes DEF TypeInv, TypeOK, Content, Shows
  <1>p. PageType /\ base \in Content /\ changes \in Nat
    BY Bounds DEF TypeInv, TypeOK, PageType
  <1>1. CASE Open \/ Close
    <2>1. \/ page' = [pc |-> "open", body |-> Shows, base |-> base, item |-> None]
          \/ page' = [pc |-> "closed", body |-> {}, base |-> {}, item |-> None]
      BY <1>1 DEF Open, Close, Closed
    <2>2. PageType'
      BY <1>0, <1>p, <2>1 DEF PageType, Working
    <2> QED BY <1>1, <2>2 DEF Open, Close, TypeInv, TypeOK, PageType, note, server
  <1>2. CASE OpenAsk
    <2>1. PICK list \in Orders(srv) :
            call' = [call EXCEPT !["ui"] =
                       [pc |-> "store", list |-> list, shows |-> srvShows, late |-> FALSE]]
      BY <1>2 DEF OpenAsk
    <2>2. Reply(list)
      BY RepliesOf DEF TypeInv, TypeOK
    <2>3. /\ call' \in [Thread -> [pc : {"off", "store", "content"}, list : Seq(Resource),
                                   shows : Content, late : BOOLEAN]]
          /\ \A p \in Thread : Reply(call'[p].list)
      BY <2>1, <2>2 DEF TypeInv, TypeOK, Reply, Thread
    <2> QED BY <1>2, <2>3 DEF OpenAsk, TypeInv, TypeOK, note, server
  <1>3. ASSUME NEW h \in Hash, RemoveData(h)
        PROVE  TypeInv'
    <2>1. lists' = [lists EXCEPT ![depth] = RemoveAttachmentData(Ini, h)]
      BY <1>3 DEF RemoveData, Ini
    <2>2. lists' \in [Depth -> ListType] /\ \A d \in Depth : Sized(lists'[d])
      BY <2>1, IniTypes, ListRemoved DEF TypeInv
    <2>3. seen' \in [sent : Content, dropped : Content, overtaken : BOOLEAN, strayed : BOOLEAN]
      BY <1>3 DEF RemoveData, TypeInv, TypeOK, Content
    <2>a. /\ changes < MaxChanges /\ changes' = changes + 1
          /\ page' = [page EXCEPT !.pc = "removeFile", !.item = h]
      BY <1>3 DEF RemoveData, Change
    <2>4. PageType' /\ changes' \in 0 .. MaxChanges
      <3>1. changes' \in 0 .. MaxChanges
        BY <1>p, <2>a, Bounds
      <3>2. PageType'
        BY <1>p, <2>a DEF PageType, Working
      <3> QED BY <3>1, <3>2
    <2> QED BY <1>3, <2>2, <2>3, <2>4 DEF RemoveData, TypeInv, TypeOK, ListType, PageType, note, server
  <1>4. ASSUME NEW h \in Hash, StartAppend(h)
        PROVE  TypeInv'
    <2>a. /\ changes < MaxChanges /\ changes' = changes + 1
          /\ page' = [page EXCEPT !.pc = "appendFile", !.item = h]
      BY <1>4 DEF StartAppend, Change
    <2>1. PageType' /\ changes' \in 0 .. MaxChanges
      <3>1. changes' \in 0 .. MaxChanges
        BY <1>p, <2>a, Bounds
      <3>2. PageType'
        BY <1>p, <2>a DEF PageType, Working
      <3> QED BY <3>1, <3>2
    <2> QED BY <1>4, <2>1 DEF StartAppend, TypeInv, TypeOK, PageType, note, server
  <1>5. CASE RemoveFile \/ AppendFile
    <2>1. page.item \in Hash
      BY <1>5 DEF RemoveFile, AppendFile, TypeInv, Working
    <2>2. PageType'
      BY <1>5, <1>p DEF RemoveFile, AppendFile, PageType, Working
    <2>3. files' \in Content
      BY <1>5, <2>1 DEF RemoveFile, AppendFile, TypeInv, TypeOK, Content
    <2> QED BY <1>5, <2>2, <2>3 DEF RemoveFile, AppendFile, TypeInv, TypeOK, PageType, note, server
  <1>6. CASE RemoveContent
    <2> DEFINE body == page.body \ {page.item}
    <2>1. body \in Content /\ page.base \in Content
      BY DEF TypeInv, TypeOK, Content
    <2>2. NoteType'
      BY <1>6, <2>1, SaveType DEF RemoveContent, TypeInv
    <2>3. PageType'
      BY <1>6, <1>p, <2>1 DEF RemoveContent, PageType, Working
    <2> QED BY <1>6, <2>2, <2>3 DEF RemoveContent, TypeInv, TypeOK, NoteType, PageType, server
  <1>7. CASE AppendContent
    <2> DEFINE body == page.body \cup {page.item}
    <2>1. body \in Content /\ page.base \in Content
      BY <1>7 DEF AppendContent, TypeInv, TypeOK, Content, Working
    <2>2. NoteType'
      BY <1>7, <2>1, SaveType DEF AppendContent, TypeInv
    <2>3. PageType'
      BY <1>7, <1>p, <2>1 DEF AppendContent, PageType, Working
    <2> QED BY <1>7, <2>2, <2>3 DEF AppendContent, TypeInv, TypeOK, NoteType, PageType, server
  <1>8. CASE GiveUp \/ SetUnpushed
    <2>1. PageType'
      BY <1>8, <1>p DEF GiveUp, SetUnpushed, PageType, Working
    <2>2. /\ UNCHANGED <<lists, depth, files, pinned, server, sy, call, seen, changes>>
          /\ flag' \in BOOLEAN /\ UNCHANGED <<valid, file, cache, base, synced, deferred>>
      BY <1>8 DEF GiveUp, SetUnpushed, note, TypeInv, TypeOK
    <2> QED BY <2>1, <2>2 DEF TypeInv, TypeOK, PageType, server
  <1>9. CASE AppendData
    <2>1. page.item \in Hash
      BY <1>9 DEF AppendData, TypeInv, Working
    <2>2. lists' = [lists EXCEPT ![depth] = AddAttachmentData(Ini, page.item)]
      BY <1>9 DEF AppendData, Ini
    <2>3. lists' \in [Depth -> ListType] /\ \A d \in Depth : Sized(lists'[d])
      BY <2>1, <2>2, IniTypes, ListAdded DEF TypeInv
    <2>4. seen' \in [sent : Content, dropped : Content, overtaken : BOOLEAN, strayed : BOOLEAN]
      BY <1>9 DEF AppendData, TypeInv, TypeOK, Content
    <2>5. PageType'
      BY <1>9, <1>p DEF AppendData, PageType, Working
    <2> QED BY <1>9, <2>3, <2>4, <2>5 DEF AppendData, TypeInv, TypeOK, ListType, PageType, note, server
  <1> QED BY <1>1, <1>2, <1>3, <1>4, <1>5, <1>6, <1>7, <1>8, <1>9 DEF Page

\* Where synchronize() is, and what it knows.
SyncType ==
    /\ sy \in [pc : Pcs, list : Seq(Entry), shows : Content, fresh : BOOLEAN]
    /\ sy.pc \in Replied => Reply(sy.list)
    /\ sy.pc = "call" => Blank \notin ToSet(sy.list)

\* The calls of fetchNote.
CallType ==
    /\ call \in [Thread -> [pc : {"off", "store", "content"}, list : Seq(Resource),
                            shows : Content, late : BOOLEAN]]
    /\ \A p \in Thread : Reply(call[p].list)

\* A reply is a sequence of entries.
LEMMA ReplyIsList ==
    ASSUME NEW list, Reply(list)
    PROVE  list \in Seq(Entry)
  <1>1. Resource \subseteq Entry
    BY Bounds DEF Resource, Entry
  <1>2. list \in [1 .. Len(list) -> Resource] /\ Len(list) \in Nat
    BY LenProperties DEF Reply
  <1>3. list \in [1 .. Len(list) -> Entry]
    BY <1>1, <1>2
  <1> QED BY <1>2, <1>3, SeqDef

\* Marking the page's call as late changes nothing else of a call.
LEMMA PageLateType ==
    ASSUME CallType
    PROVE  /\ PageLate \in [Thread -> [pc : {"off", "store", "content"}, list : Seq(Resource),
                                       shows : Content, late : BOOLEAN]]
           /\ \A p \in Thread : /\ PageLate[p].pc = call[p].pc /\ PageLate[p].list = call[p].list
                                /\ PageLate[p].shows = call[p].shows
  BY DEF CallType, PageLate, Thread

\* The steps of fetchNote preserve the types.
LEMMA TypeFetch ==
    ASSUME TypeInv, NEW p \in Thread, FetchStore(p) \/ FetchContent(p)
    PROVE  TypeInv'
  <1>0. CallType /\ SyncType /\ PageType /\ {} \in Content /\ Reply(<<>>) /\ <<>> \in Seq(Resource)
    BY EmptyReply DEF TypeInv, TypeOK, CallType, SyncType, PageType, Content, Reply
  <1>1. CASE FetchStore(p)
    <2>1. /\ SetAttachmentsDataFromServer(call[p].list, FALSE, seen.overtaken \/ (p = "ui" /\ call[p].late))
          /\ call' = [(IF p = "sync" THEN PageLate ELSE call) EXCEPT ![p] =
                         [NoCall EXCEPT !.pc = "content", !.shows = call[p].shows]]
          /\ UNCHANGED <<pinned, note, server, page, sy, changes>>
      BY <1>1 DEF FetchStore
    <2>2. Reply(call[p].list) /\ (seen.overtaken \/ (p = "ui" /\ call[p].late)) \in BOOLEAN
      BY DEF TypeInv, TypeOK
    <2>3. /\ lists' \in [Depth -> ListType] /\ depth' \in Depth /\ files' \in Content
          /\ \A d \in Depth : Sized(lists'[d])
          /\ seen' \in [sent : Content, dropped : Content, overtaken : BOOLEAN, strayed : BOOLEAN]
      BY <2>1, <2>2, SetAttachmentsType
    <2>4. CallType'
      <3> DEFINE new == [NoCall EXCEPT !.pc = "content", !.shows = call[p].shows]
      <3>1. call[p].shows \in Content
        BY <1>0 DEF CallType
      <3>2. NoCall \in [pc : {"off", "store", "content"}, list : Seq(Resource),
                        shows : Content, late : BOOLEAN] /\ NoCall.list = <<>>
        BY <1>0 DEF NoCall
      <3>3. /\ new \in [pc : {"off", "store", "content"}, list : Seq(Resource),
                         shows : Content, late : BOOLEAN]
            /\ new.list = <<>> /\ call' = [(IF p = "sync" THEN PageLate ELSE call) EXCEPT ![p] = new]
        BY <2>1, <3>1, <3>2
      <3> HIDE DEF new
      <3> QED BY <1>0, <3>3, PageLateType DEF CallType
    <2> QED BY <2>1, <2>3, <2>4 DEF TypeInv, TypeOK, CallType, ListType, note, server
  <1>2. CASE FetchContent(p)
    <2>1. call[p].shows \in Content
      BY <1>0 DEF CallType
    <2>2. NoteType'
      BY <1>2, <2>1, SaveType DEF FetchContent, TypeInv
    <2>3. CallType'
      BY <1>0, <1>2 DEF FetchContent, CallType, NoCall
    <2>4. CASE p = "ui"
      <3>1. page' = [pc |-> "open", body |-> call[p].shows, base |-> call[p].shows, item |-> None] /\ UNCHANGED sy
        BY <1>2, <2>4 DEF FetchContent, Closed
      <3>2. PageType'
        BY <1>0, <2>1, <3>1 DEF PageType, Working
      <3> QED BY <1>2, <2>2, <2>3, <3>1, <3>2 DEF FetchContent, TypeInv, TypeOK, PageType, NoteType, CallType, server
    <2>5. CASE p # "ui"
      <3>1. sy' = [sy EXCEPT !.pc = AfterFetch] /\ UNCHANGED page
        BY <1>2, <2>5 DEF FetchContent
      <3>2. SyncType'
        BY <1>0, <3>1 DEF SyncType, AfterFetch, Replied, Pcs
      <3> QED BY <1>2, <2>2, <2>3, <3>1, <3>2 DEF FetchContent, TypeInv, TypeOK, SyncType, NoteType, CallType, server
    <2> QED BY <2>4, <2>5
  <1> QED BY <1>1, <1>2

\* What a push makes of the server's resources.
LEMMA UpdateServer ==
    ASSUME TypeInv, NEW answered \in BOOLEAN, UpdateNote(answered)
    PROVE  /\ srv' \in SUBSET Resource /\ Distinct(srv')
           /\ guids' \in 0 .. MaxGuid
           /\ HashesOf(srv') \in Content
           /\ HashesOf(srv') = HashesOf(ToSet(sy.list))
  <1> DEFINE old == {r \in srv : r.hash \in HashesOf(ToSet(sy.list))}
             N == NewHashes(sy.list)
  <1>1. /\ sy.pc = "call" /\ guids' = guids + Cardinality(N) /\ guids' <= MaxGuid
    BY DEF UpdateNote
  <1>2. PICK new \in Orders(N) :
           srv' = old \cup {[hash |-> new[i], guid |-> guids + i] : i \in DOMAIN new}
    BY DEF UpdateNote
  <1>3. /\ \A e \in ToSet(sy.list) : e \in Entry /\ e # Blank
        /\ srv \subseteq Resource /\ Distinct(srv) /\ guids \in Nat
    <2>1. sy.list \in Seq(Entry) /\ Blank \notin ToSet(sy.list)
      BY <1>1 DEF TypeInv, TypeOK
    <2>2. \A e \in ToSet(sy.list) : e \in Entry
      BY <2>1, LenProperties, ElementOfSeq DEF ToSet
    <2> QED BY <2>1, <2>2, Bounds DEF TypeInv, TypeOK
  <1>4. N \subseteq Hash /\ \A h \in N : h \notin HashesOf(srv)
    BY <1>3 DEF NewHashes, HashesOf, Entry
  <1>5. IsFiniteSet(N) /\ Cardinality(N) \in Nat
    <2> HIDE DEF N
    <2> QED BY <1>4, Bounds, FS_Subset, FS_CardinalityType
  <1>6. new \in [1 .. Cardinality(N) -> N] /\ IsInjective(new) /\ ToSet(new) = N
    <2> HIDE DEF N
    <2> QED BY <1>5, OrdersOf DEF Orders
  <1> DEFINE add == {[hash |-> new[i], guid |-> guids + i] : i \in DOMAIN new}
  <1>7. \A i \in DOMAIN new : i \in 1 .. Cardinality(N) /\ new[i] \in N /\ guids + i \in 1 .. MaxGuid
    <2> HIDE DEF N
    <2> QED BY <1>1, <1>3, <1>5, <1>6, Bounds
  <1>8. add \subseteq Resource /\ old \subseteq Resource
    <2>1. \A i \in DOMAIN new : new[i] \in Hash /\ guids + i \in 1 .. MaxGuid
      <3> HIDE DEF N
      <3> QED BY <1>4, <1>7
    <2> HIDE DEF N
    <2> QED BY <1>3, <2>1 DEF Resource
  <1>9. Distinct(srv')
    <2> SUFFICES ASSUME NEW r \in srv', NEW q \in srv', r.hash = q.hash PROVE r = q
      BY DEF Distinct
    <2>1. CASE r \in old /\ q \in old
      BY <1>3, <2>1 DEF Distinct
    <2>2. \A x \in add, y \in old : x.hash # y.hash
      <3>1. \A x \in add : x.hash \in N
        <4> HIDE DEF N
        <4> QED BY <1>7
      <3> HIDE DEF N, add
      <3> QED BY <1>4, <3>1 DEF HashesOf
    <2>3. \A x, y \in add : x.hash = y.hash => x = y
      <3> HIDE DEF N
      <3> QED BY <1>6 DEF IsInjective
    <2> HIDE DEF add, old, N
    <2> QED BY <1>2, <2>1, <2>2, <2>3 DEF add
  <1>10. HashesOf(srv') = HashesOf(ToSet(sy.list))
    <2>1. HashesOf(old) = HashesOf(ToSet(sy.list)) \cap HashesOf(srv)
      BY DEF HashesOf
    <2>2. HashesOf(add) = N
      <3> HIDE DEF N
      <3>1. \A x \in add : x.hash \in N
        BY <1>7
      <3>2. ASSUME NEW h \in N
            PROVE  \E x \in add : x.hash = h
        <4>1. PICK i \in DOMAIN new : new[i] = h
          BY <1>6 DEF ToSet
        <4>2. [hash |-> new[i], guid |-> guids + i] \in add
          OBVIOUS
        <4> HIDE DEF add
        <4> QED BY <4>1, <4>2
      <3> HIDE DEF add
      <3> QED BY <3>1, <3>2 DEF HashesOf
    <2>3. N = HashesOf(ToSet(sy.list)) \ HashesOf(srv)
      BY DEF NewHashes
    <2>4. HashesOf(srv') = HashesOf(old) \cup HashesOf(add)
      <3>1. srv' = old \cup add
        BY <1>2
      <3> HIDE DEF old, add
      <3> QED BY <3>1 DEF HashesOf
    <2> HIDE DEF old, add, N
    <2> QED BY <2>1, <2>2, <2>3, <2>4
  <1>11. HashesOf(ToSet(sy.list)) \in Content
    BY <1>3 DEF HashesOf, Content, Entry
  <1>12. guids' \in 0 .. MaxGuid
    <2> HIDE DEF N
    <2> QED BY <1>1, <1>3, <1>5, Bounds
  <1>13. srv' \in SUBSET Resource
    BY <1>2, <1>8
  <1> QED BY <1>9, <1>10, <1>11, <1>12, <1>13

\* The steps of synchronize() preserve the types.
LEMMA TypeSync ==
    ASSUME TypeInv, Synchronize
    PROVE  TypeInv'
  <1>0. CallType /\ SyncType /\ PageType /\ {} \in Content /\ Reply(<<>>) /\ <<>> \in Seq(Entry)
        /\ Shows \in Content
    BY EmptyReply, EmptySeq DEF TypeInv, TypeOK, CallType, SyncType, PageType, Content, Reply, Shows
  <1>1. CASE Begin \/ SyncNoFetch \/ ClearDeferred
    <2>1. SyncType'
      BY <1>0, <1>1 DEF Begin, SyncNoFetch, ClearDeferred, SyncType, AfterFetch, Replied, Pcs, Idle
    <2>2. /\ UNCHANGED <<lists, depth, files, pinned, server, page, call, seen, changes>>
          /\ deferred' \in BOOLEAN /\ UNCHANGED <<valid, file, cache, base, synced, flag>>
      BY <1>1 DEF Begin, SyncNoFetch, ClearDeferred, note, TypeInv, TypeOK
    <2> QED BY <2>1, <2>2 DEF TypeInv, TypeOK, SyncType, server
  <1>2. CASE SyncAsk
    <2>1. PICK list \in Orders(srv) :
            call' = [call EXCEPT !["sync"] =
                       [pc |-> "store", list |-> list, shows |-> srvShows, late |-> FALSE]]
      BY <1>2 DEF SyncAsk
    <2>2. Reply(list) /\ srvShows \in Content
      BY RepliesOf DEF TypeInv, TypeOK
    <2>3. CallType'
      BY <1>0, <2>1, <2>2 DEF CallType, Reply, Thread
    <2> QED BY <1>2, <2>3 DEF SyncAsk, TypeInv, TypeOK, CallType, note, server
  <1>3. CASE Pull
    <2>1. SyncType'
      <3>1. CASE pulled
        <4>1. sy' = [pc |-> "push", list |-> <<>>, shows |-> {}, fresh |-> FALSE]
          BY <1>3, <3>1 DEF Pull, Idle
        <4> QED BY <1>0, <4>1 DEF SyncType, Replied, Pcs
      <3>2. CASE ~pulled
        <4>1. PICK list \in Orders(srv) :
                 sy' = [pc |-> "gist", list |-> list, shows |-> srvShows, fresh |-> TRUE]
          BY <1>3, <3>2 DEF Pull
        <4>2. Reply(list) /\ srvShows \in Content /\ list \in Seq(Entry)
          BY RepliesOf, ReplyIsList DEF TypeInv, TypeOK
        <4> QED BY <4>1, <4>2 DEF SyncType, Replied, Pcs
      <3> QED BY <3>1, <3>2
    <2> QED BY <1>3, <2>1 DEF Pull, TypeInv, TypeOK, SyncType, note, server
  <1>4. CASE StoreNoteGist
    <2>1. SyncType' /\ synced' \in Content
      BY <1>0, <1>4 DEF StoreNoteGist, SyncType, Replied, Pcs
    <2> QED BY <1>4, <2>1 DEF StoreNoteGist, TypeInv, TypeOK, SyncType, note, server
  <1>5. CASE StoreNoteAttachments \/ StorePushedAttachments
    <2>1. PICK after \in BOOLEAN : /\ SetAttachmentsDataFromServer(sy.list, after, FALSE)
                                   /\ call' = PageLate
                                   /\ UNCHANGED <<pinned, note, server, page, changes>>
      BY <1>5 DEF StoreNoteAttachments, StorePushedAttachments
    <2>2. Reply(sy.list)
      BY <1>0, <1>5 DEF StoreNoteAttachments, StorePushedAttachments, SyncType, Replied
    <2>3. /\ lists' \in [Depth -> ListType] /\ depth' \in Depth /\ files' \in Content
          /\ \A d \in Depth : Sized(lists'[d])
          /\ seen' \in [sent : Content, dropped : Content, overtaken : BOOLEAN, strayed : BOOLEAN]
      BY <2>1, <2>2, SetAttachmentsType
    <2>4. SyncType'
      BY <1>0, <1>5 DEF StoreNoteAttachments, StorePushedAttachments, SyncType, Replied, Pcs
    <2>5. CallType'
      BY <1>0, <2>1, PageLateType DEF CallType
    <2> QED BY <2>1, <2>3, <2>4, <2>5 DEF TypeInv, TypeOK, ListType, SyncType, CallType, note, server
  <1>6. CASE Checkpoint \/ Pushed
    <2>1. pulled' \in BOOLEAN /\ flag' \in BOOLEAN
      BY <1>0, <1>6 DEF Checkpoint, Pushed, SyncType, note, TypeInv, TypeOK
    <2>2. PICK pc \in {"push", "idle"} :
             sy' = [pc |-> pc, list |-> <<>>, shows |-> {}, fresh |-> FALSE]
      BY <1>6 DEF Checkpoint, Pushed, Idle
    <2>3. SyncType'
      BY <1>0, <2>2 DEF SyncType, Replied, Pcs
    <2> QED BY <1>6, <2>1, <2>3 DEF Checkpoint, Pushed, TypeInv, TypeOK, SyncType, note, server
  <1>7. CASE ReadNote
    <2>1. SyncType'
      BY <1>0, <1>7 DEF ReadNote, SyncType, Replied, Pcs, Idle, TypeInv, TypeOK
    <2> QED BY <1>7, <2>1 DEF ReadNote, TypeInv, TypeOK, SyncType, note, server
  <1>8. CASE SetEdamNoteResources
    <2>1. ListOf(Ini) \in Seq(Entry) /\ ToSet(ListOf(Ini)) = Entries(Ini)
      BY IniTypes, EntriesOf
    <2>2. SyncType'
      BY <1>0, <1>8, <2>1 DEF SetEdamNoteResources, CanSend, SyncType, Replied, Pcs, Idle
    <2> QED BY <1>8, <2>2 DEF SetEdamNoteResources, TypeInv, TypeOK, SyncType, note, server
  <1>9. ASSUME NEW answered \in BOOLEAN, UpdateNote(answered)
        PROVE  TypeInv'
    <2>1. /\ srv' \in SUBSET Resource /\ Distinct(srv')
          /\ guids' \in 0 .. MaxGuid
          /\ HashesOf(srv') \in Content
      BY <1>9, UpdateServer
    <2>2. SyncType'
      <3>1. CASE answered
        <4>1. PICK list \in Orders(srv') :
                 sy' = [sy EXCEPT !.pc = "pushedNote", !.list = list, !.fresh = pulled]
          BY <1>9, <3>1 DEF UpdateNote
        <4>2. Reply(list) /\ list \in Seq(Entry) /\ pulled \in BOOLEAN
          BY <2>1, RepliesOf, ReplyIsList DEF TypeInv, TypeOK
        <4> QED BY <1>0, <4>1, <4>2 DEF SyncType, Replied, Pcs
      <3>2. CASE ~answered
        <4>1. sy' = Idle
          BY <1>9, <3>2 DEF UpdateNote
        <4> QED BY <1>0, <4>1 DEF Idle, SyncType, Replied, Pcs
      <3> QED BY <3>1, <3>2
    <2>3. /\ srvShows' \in Content /\ pulled' \in BOOLEAN
          /\ seen' \in [sent : Content, dropped : Content, overtaken : BOOLEAN, strayed : BOOLEAN]
      BY <1>9, <2>1 DEF UpdateNote, TypeInv, TypeOK, Content
    <2>4. UNCHANGED <<lists, depth, files, pinned, note, page, call, changes>>
      BY <1>9 DEF UpdateNote
    <2> QED BY <2>1, <2>2, <2>3, <2>4 DEF TypeInv, TypeOK, SyncType, note
  <1>10. CASE UpdateNoteFails
    <2>1. SyncType'
      BY <1>0, <1>10 DEF UpdateNoteFails, SyncType, Replied, Pcs, Idle
    <2> QED BY <1>10, <2>1 DEF UpdateNoteFails, TypeInv, TypeOK, SyncType, note, server
  <1>11. CASE StorePushedNote
    <2>1. NoteType'
      BY <1>11, SaveType DEF StorePushedNote, TypeInv, TypeOK
    <2>2. SyncType'
      BY <1>0, <1>11 DEF StorePushedNote, SyncType, Replied, Pcs
    <2> QED BY <1>11, <2>1, <2>2 DEF StorePushedNote, TypeInv, TypeOK, SyncType, NoteType, server
  <1> QED BY <1>1, <1>2, <1>3, <1>4, <1>5, <1>6, <1>7, <1>8, <1>9, <1>10, <1>11 DEF Synchronize

\* Another client, the cache of settings and a restart preserve the types.
LEMMA TypeElse ==
    ASSUME TypeInv, OtherClient \/ Evict \/ Restart
    PROVE  TypeInv'
  <1>0. /\ CallType /\ SyncType /\ {} \in Content /\ Reply(<<>>) /\ changes \in Nat /\ guids \in Nat
        /\ srv \in SUBSET Resource /\ Distinct(srv) /\ srvShows \in Content
    BY Bounds, EmptyReply DEF TypeInv, TypeOK, CallType, SyncType, Content
  <1>1. ASSUME NEW S, NEW shows \in Content, ServerChanges(S, shows), S \in SUBSET Resource, Distinct(S),
               guids' \in 0 .. MaxGuid
        PROVE  TypeInv'
    <2>1. changes' \in 0 .. MaxChanges /\ SyncType'
      <3>1. changes < MaxChanges /\ changes' = changes + 1 /\ sy' = [sy EXCEPT !.fresh = FALSE]
        BY <1>1 DEF ServerChanges, Change
      <3>2. changes' \in 0 .. MaxChanges
        BY <1>0, <3>1, Bounds
      <3>3. SyncType'
        BY <1>0, <3>1 DEF SyncType
      <3> QED BY <3>2, <3>3
    <2>2. HashesOf(S) \in Content
      BY <1>1 DEF HashesOf, Content, Resource
    <2>3. seen' \in [sent : Content, dropped : Content, overtaken : BOOLEAN, strayed : BOOLEAN]
      BY <1>1, <2>2 DEF ServerChanges, TypeInv, TypeOK, Content
    <2> QED BY <1>1, <2>1, <2>3 DEF ServerChanges, TypeInv, TypeOK, SyncType, note
  <1>2. ASSUME NEW h \in Hash, ServerAdds(h)
        PROVE  TypeInv'
    <2> DEFINE S == srv \cup {[hash |-> h, guid |-> guids + 1]}
    <2>1. guids' \in 0 .. MaxGuid /\ guids + 1 \in 1 .. MaxGuid
      BY <1>0, <1>2, Bounds DEF ServerAdds
    <2>2. S \in SUBSET Resource
      BY <1>0, <2>1 DEF Resource
    <2>3. Distinct(S)
      BY <1>0, <1>2 DEF ServerAdds, Distinct, HashesOf
    <2>4. ServerChanges(S, srvShows \cup {h}) /\ srvShows \cup {h} \in Content
      BY <1>0, <1>2 DEF ServerAdds, Content
    <2> HIDE DEF S
    <2> QED BY <1>1, <2>1, <2>2, <2>3, <2>4
  <1>3. ASSUME NEW h \in Hash, ServerRemoves(h)
        PROVE  TypeInv'
    <2> DEFINE S == {r \in srv : r.hash # h}
    <2>1. guids' \in 0 .. MaxGuid
      BY <1>3 DEF ServerRemoves, TypeInv, TypeOK
    <2>2. S \in SUBSET Resource /\ Distinct(S)
      BY <1>0 DEF Distinct
    <2>3. ServerChanges(S, srvShows \ {h}) /\ srvShows \ {h} \in Content
      BY <1>0, <1>3 DEF ServerRemoves, Content
    <2> HIDE DEF S
    <2> QED BY <1>1, <2>1, <2>2, <2>3
  <1>4. CASE ServerTouches
    <2>1. guids' \in 0 .. MaxGuid /\ ServerChanges(srv, srvShows)
      BY <1>4 DEF ServerTouches, TypeInv, TypeOK
    <2> QED BY <1>0, <1>1, <2>1
  <1>5. ASSUME Reload
        PROVE  /\ depth' \in Depth
               /\ seen' \in [sent : Content, dropped : Content, overtaken : BOOLEAN, strayed : BOOLEAN]
    <2>1. depth' = 0 /\ seen' = [seen EXCEPT !.strayed = seen.strayed \/ depth > 0]
      BY <1>5 DEF Reload
    <2>2. seen.strayed \in BOOLEAN /\ (seen.strayed \/ depth > 0) \in BOOLEAN
      BY DEF TypeInv, TypeOK
    <2>3. seen' \in [sent : Content, dropped : Content, overtaken : BOOLEAN, strayed : BOOLEAN]
      BY <2>1, <2>2 DEF TypeInv, TypeOK
    <2>4. depth' \in Depth
      BY <2>1, Bounds DEF Depth
    <2> QED BY <2>3, <2>4
  <1>6. CASE Evict
    BY <1>5, <1>6 DEF Evict, TypeInv, TypeOK, note, server
  <1>7. CASE Restart
    <2>1. /\ depth' \in Depth
          /\ seen' \in [sent : Content, dropped : Content, overtaken : BOOLEAN, strayed : BOOLEAN]
      BY <1>5, <1>7 DEF Restart
    <2>2. PageType'
      BY <1>0, <1>7 DEF Restart, Closed, PageType, Working
    <2>3. SyncType'
      BY <1>0, <1>7, EmptySeq DEF Restart, Idle, SyncType, Replied, Pcs
    <2>4. CallType'
      BY <1>0, <1>7, EmptySeq DEF Restart, NoCall, CallType
    <2> QED BY <1>7, <2>1, <2>2, <2>3, <2>4 DEF Restart, TypeInv, TypeOK, PageType, SyncType, CallType, note, server
  <1> QED BY <1>2, <1>3, <1>4, <1>6, <1>7 DEF OtherClient

\* Every step preserves the types.
LEMMA TypeNext ==
    ASSUME TypeInv, [Next]_vars
    PROVE  TypeInv'
  <1>1. CASE UNCHANGED vars
    BY <1>1 DEF vars, note, server, TypeInv, TypeOK
  <1> QED BY <1>1, TypePage, TypeFetch, TypeSync, TypeElse DEF Next

\* Every state of every behaviour of Attachments satisfies TypeOK: in particular
\* the array that addAttachmentData, removeAttachmentData and
\* setAttachmentsDataFromServer write stays within its slots, whatever replies
\* are passed over, and a push sends no blank entry.
THEOREM TypeCorrect == Spec => []TypeOK
  <1>1. TypeInv => TypeOK
    BY DEF TypeInv
  <1>2. Spec => []TypeInv
    <2>1. TypeInv /\ [Next]_vars => TypeInv'
      BY TypeNext
    <2> QED BY TypeInit, <2>1, PTL DEF Spec
  <1> QED BY <1>1, <1>2, PTL

-----------------------------------------------------------------------------
(* What is appended here.                                                  *)

\* What the server has, and what has a guid, was sent there.
SentInv ==
    /\ HashesOf(srv) \subseteq seen.sent
    /\ \A d \in Depth, i \in Slot :
          lists[d].at[i].guid # NoGuid => lists[d].at[i].hash \in seen.sent
    /\ sy.pc \in Replied => HashesOf(ToSet(sy.list)) \subseteq seen.sent
    /\ \A p \in Thread : HashesOf(ToSet(call[p].list)) \subseteq seen.sent

\* Nothing is nested deeper than the groups that are open.
NestInv == ~seen.strayed => \A d \in Depth : d > depth => lists[d].size = 0

\* What the page works on.
ItemInv ==
    /\ page.pc = "appendData" => page.item \in files \cup seen.sent
    /\ page.pc = "removeFile" => page.item \in seen.dropped \cup seen.sent

\* The attachments that any content shows which may be stored.
Shown ==
    file \cup cache \cup srvShows \cup sy.shows \cup page.body
    \cup call["ui"].shows \cup call["sync"].shows
    \cup (IF page.pc = "appendContent" THEN {page.item} ELSE {})

\* What the server never had and nobody removed, and what keeps it here.
Owed(h) == h \notin seen.sent \cup seen.dropped
Held(h) == h \in Listed /\ h \in files

\* What any content shows that may be stored, and the server is owed, is held.
ShownInv == ~seen.strayed => \A h \in Shown : Owed(h) => Held(h)

\* The invariant that proves AppendedKept.
KeepInv == SentInv /\ NestInv /\ ItemInv /\ ShownInv

\* setAttachmentsDataFromServer, with a reply of what was sent, forgets the
\* list entry and the file only of what was sent, and takes back only the
\* removal of what was sent.
LEMMA SetAttachmentsKeeps ==
    ASSUME TypeInv, SentInv, NEW list, Reply(list), HashesOf(ToSet(list)) \subseteq seen.sent,
           NEW isAfterPush \in BOOLEAN, NEW overtaken \in BOOLEAN,
           SetAttachmentsDataFromServer(list, isAfterPush, overtaken)
    PROVE  /\ seen'.sent = seen.sent /\ seen'.strayed = seen.strayed
           /\ seen'.dropped \subseteq seen.dropped /\ seen.dropped \subseteq seen'.dropped \cup seen.sent
           /\ files' \subseteq files /\ files \subseteq files' \cup seen.sent
           /\ \A d \in Depth, i \in Slot :
                 lists'[d].at[i].guid # NoGuid => lists'[d].at[i].hash \in seen.sent
           /\ \A d \in Depth : d # depth => lists'[d] = lists[d]
           /\ depth' \in {depth, depth + 1}
           /\ \A h \in Hash : Held(h) /\ h \notin seen.sent => h \in Listed'
  <1>1. CASE Ini.size = 0 /\ list = <<>>
    <2>1. depth' = depth + 1 /\ UNCHANGED <<lists, files, seen>>
      BY <1>1 DEF SetAttachmentsDataFromServer
    <2>2. Listed = {}
      <3>1. 1 .. Ini.size = {}
        BY <1>1
      <3> QED BY <3>1 DEF Listed, HashesOf, Entries
    <2> QED BY <2>1, <2>2 DEF SentInv, Held
  <1>2. CASE ~(Ini.size = 0 /\ list = <<>>)
    <2>1. PICK kept \in Orders(Kept(Ini, list)) :
             lists' = [lists EXCEPT ![depth] = ServerList(Ini, list, kept, isAfterPush)]
      BY <1>2 DEF SetAttachmentsDataFromServer, Ini
    <2> DEFINE b == ServerList(Ini, list, kept, isAfterPush)
    <2>2. /\ files' = files \ FilesUnneeded(Ini, list, isAfterPush)
          /\ seen' = [seen EXCEPT !.dropped = @ \ Taken(Ini, list, isAfterPush),
                                  !.overtaken = overtaken]
          /\ depth' = depth
      BY <1>2 DEF SetAttachmentsDataFromServer
    <2>3. /\ Kept(Ini, list) \subseteq Entries(b)
          /\ \A i \in Slot : \/ b.at[i] \in Kept(Ini, list) \cup ToSet(list)
                             \/ \E j \in Slot : b.at[i] = Ini.at[j]
      BY IniTypes, ListFromServer DEF Reply
    <2>4. /\ depth \in Depth /\ lists \in [Depth -> ListType] /\ Ini \in ListType /\ Ini = lists[depth]
          /\ Ini' = b
      BY <2>1, <2>2, IniTypes DEF Ini
    <2>5. \A e \in Unused(Ini, list) : e.guid # NoGuid => e.hash \in seen.sent
      <3>1. \A e \in Entries(Ini) : e.guid # NoGuid => e.hash \in seen.sent
        BY <2>4, EntriesOf DEF SentInv, Entries
      <3> QED BY <2>4, <3>1, UnusedOf
    <2>6. Taken(Ini, list, isAfterPush) \subseteq seen.sent
      BY DEF Taken, HashesOf
    <2>7. FilesUnneeded(Ini, list, isAfterPush) \subseteq seen.sent
      BY <2>5, <2>6 DEF FilesUnneeded
    <2>8. /\ seen'.sent = seen.sent /\ seen'.strayed = seen.strayed
          /\ seen'.dropped = seen.dropped \ Taken(Ini, list, isAfterPush)
      BY <2>2 DEF TypeInv, TypeOK
    <2>9. \A i \in Slot : b.at[i].guid # NoGuid => b.at[i].hash \in seen.sent
      <3>1. \A e \in Kept(Ini, list) : e.guid = NoGuid
        BY DEF Kept
      <3>2. \A e \in ToSet(list) : e.hash \in seen.sent
        BY DEF HashesOf
      <3>3. \A j \in Slot : Ini.at[j].guid # NoGuid => Ini.at[j].hash \in seen.sent
        BY <2>4 DEF SentInv
      <3> HIDE DEF b
      <3> QED BY <2>3, <3>1, <3>2, <3>3
    <2>10. \A d \in Depth : lists'[d] = IF d = depth THEN b ELSE lists[d]
      <3> HIDE DEF b
      <3> QED BY <2>1, <2>4 DEF b
    <2>11. ASSUME NEW h \in Hash, Held(h), h \notin seen.sent
           PROVE  h \in Listed'
      <3>1. h \in HashesOf(Entries(Ini)) /\ h \in files /\ h \notin HashesOf(ToSet(list))
        BY <2>11 DEF Held, Listed
      <3>2. PICK e \in Unused(Ini, list) : e.hash = h
        BY <2>4, <3>1, UnusedOf
      <3>3. e.guid = NoGuid
        BY <2>5, <2>11, <3>2
      <3>4. e \in Kept(Ini, list)
        BY <3>1, <3>2, <3>3 DEF Kept
      <3>5. e \in Entries(b)
        BY <2>3, <3>4
      <3>6. Listed' = HashesOf(Entries(b))
        BY <2>4 DEF Listed
      <3> HIDE DEF b
      <3> QED BY <3>2, <3>5, <3>6 DEF HashesOf
    <2>12. \A d \in Depth, i \in Slot :
                 lists'[d].at[i].guid # NoGuid => lists'[d].at[i].hash \in seen.sent
      <3> HIDE DEF b
      <3> QED BY <2>9, <2>10 DEF SentInv
    <2>13. \A d \in Depth : d # depth => lists'[d] = lists[d]
      <3> HIDE DEF b
      <3> QED BY <2>10
    <2> QED BY <2>2, <2>6, <2>7, <2>8, <2>11, <2>12, <2>13
  <1> QED BY <1>1, <1>2

\* What is stored as a content is shown already, or what it is given.
LEMMA StoredShown ==
    ASSUME NEW shows, NEW pageBase,
           Save(shows, pageBase) \/ SaveAppended(shows, pageBase)
           \/ SetFetchedNoteContent(shows) \/ SetPushedNote(shows)
    PROVE  file' \cup cache' \subseteq file \cup cache \cup shows
  <1>1. CASE Save(shows, pageBase)
    BY <1>1 DEF Save
  <1>2. CASE SaveAppended(shows, pageBase)
    BY <1>2 DEF SaveAppended, Save, note
  <1>3. CASE SetFetchedNoteContent(shows)
    <2>1. CASE base = shows /\ valid
      BY <1>3, <2>1 DEF SetFetchedNoteContent, note
    <2>2. CASE ~(base = shows /\ valid)
      BY <1>3, <2>2 DEF SetFetchedNoteContent
    <2> QED BY <2>1, <2>2
  <1>4. CASE SetPushedNote(shows)
    BY <1>4 DEF SetPushedNote
  <1> QED BY <1>1, <1>2, <1>3, <1>4

\* A step that leaves the lists, the files and the history alone, and shows
\* nothing new.
LEMMA CalmStep ==
    ASSUME TypeInv, KeepInv, UNCHANGED <<lists, depth, files, seen>>,
           HashesOf(srv') \subseteq seen.sent,
           sy'.pc \in Replied => HashesOf(ToSet(sy'.list)) \subseteq seen.sent,
           \A p \in Thread : HashesOf(ToSet(call'[p].list)) \subseteq seen.sent,
           ItemInv', Shown' \subseteq Shown
    PROVE  KeepInv'
  <1>1. SentInv' /\ NestInv'
    BY DEF KeepInv, SentInv, NestInv
  <1>2. Listed' = Listed
    BY DEF Listed, Ini
  <1>3. ShownInv'
    BY <1>2 DEF KeepInv, ShownInv, Owed, Held
  <1> QED BY <1>1, <1>3 DEF KeepInv

\* Who shows what may be owed, in which files the content is.
LEMMA ShownParts ==
    ASSUME TypeInv
    PROVE  /\ file \subseteq Shown /\ cache \subseteq Shown /\ srvShows \subseteq Shown
           /\ sy.shows \subseteq Shown /\ page.body \subseteq Shown
           /\ \A p \in Thread : call[p].shows \subseteq Shown
           /\ Shows \subseteq Shown
           /\ Shown \subseteq Hash
  <1>1. Shown \subseteq Hash
    BY DEF TypeInv, TypeOK, Shown, Content, Working, Thread
  <1> QED BY <1>1 DEF Shown, Shows, Thread

\* No resources have no hashes.
LEMMA EmptyHashes == HashesOf(ToSet(<<>>)) = {}
  BY DEF HashesOf, ToSet

\* At the start all that is shown was sent.
LEMMA KeepInit == Init => KeepInv
  <1> SUFFICES ASSUME Init PROVE KeepInv
    OBVIOUS
  <1>1. PICK first \in SUBSET {[hash |-> h, guid |-> 1] : h \in Hash} :
           /\ Cardinality(first) <= 1
           /\ srv = first /\ srvShows = HashesOf(first)
           /\ lists = [d \in Depth |->
                 IF d > 0 \/ first = {} THEN NoList
                 ELSE [NoList EXCEPT !.size = 1, !.at[1] = CHOOSE r \in first : TRUE]]
           /\ depth = 0 /\ files = {}
           /\ file = {} /\ cache = HashesOf(first)
           /\ page = Closed /\ sy = Idle /\ call = [p \in Thread |-> NoCall]
           /\ seen = [sent |-> HashesOf(first), dropped |-> {}, overtaken |-> FALSE,
                      strayed |-> FALSE]
    BY DEF Init
  <1> DEFINE one == CHOOSE r \in first : TRUE
             start == [d \in Depth |-> IF d > 0 \/ first = {} THEN NoList
                                       ELSE [NoList EXCEPT !.size = 1, !.at[1] = one]]
  <1>2. lists = start
    BY <1>1, Zenon
  <1>3. /\ srv = first /\ srvShows = HashesOf(first)
        /\ depth = 0 /\ files = {}
        /\ file = {} /\ cache = HashesOf(first)
        /\ page = Closed /\ sy = Idle /\ call = [p \in Thread |-> NoCall]
        /\ seen = [sent |-> HashesOf(first), dropped |-> {}, overtaken |-> FALSE,
                   strayed |-> FALSE]
    BY <1>1, Zenon
  <1>4. first # {} => one \in first
    OBVIOUS
  <1> HIDE DEF one
  <1>5. NoList.size = 0 /\ \A i \in Slot : NoList.at[i] = Blank
    BY DEF NoList
  <1>6. ASSUME NEW d \in Depth
        PROVE  \A i \in Slot : lists[d].at[i].guid # NoGuid => lists[d].at[i].hash \in seen.sent
    <2>1. CASE d > 0 \/ first = {}
      <3>1. lists[d] = NoList
        BY <1>2, <2>1
      <3> QED BY <1>5, <3>1 DEF Blank
    <2>2. CASE ~(d > 0 \/ first = {})
      <3>1. lists[d] = [NoList EXCEPT !.size = 1, !.at[1] = one]
        BY <1>2, <2>2
      <3>2. \A i \in Slot : lists[d].at[i] \in {one, Blank}
        BY <3>1 DEF NoList
      <3>3. one.hash \in seen.sent
        BY <1>3, <1>4, <2>2 DEF HashesOf
      <3> QED BY <3>2, <3>3 DEF Blank
    <2> QED BY <2>1, <2>2
  <1>7. \A d \in Depth : d > 0 => lists[d].size = 0
    BY <1>2, <1>5
  <1>8. SentInv
    BY <1>3, <1>6, EmptyHashes DEF SentInv, Idle, Replied, NoCall
  <1>9. NestInv /\ ItemInv
    BY <1>3, <1>7 DEF NestInv, ItemInv, Closed
  <1>10. Shown \subseteq seen.sent
    BY <1>3 DEF Shown, Closed, Idle, NoCall, Thread
  <1> QED BY <1>8, <1>9, <1>10 DEF KeepInv, ShownInv, Owed

\* The steps of the page preserve the invariant.
LEMMA KeepPage ==
    ASSUME TypeInv, KeepInv, Page
    PROVE  KeepInv'
  <1>0. /\ PageType /\ CallType /\ SentInv /\ ItemInv
    BY DEF TypeInv, TypeOK, PageType, CallType, KeepInv
  <1>t. Ini \in ListType /\ Sized(Ini) /\ depth \in Depth /\ lists \in [Depth -> ListType] /\ Ini = lists[depth]
    BY IniTypes DEF Ini
  <1>1. CASE Open \/ Close
    <2>1. /\ UNCHANGED <<lists, depth, files, note, server, sy, call, seen>>
          /\ page'.pc \in {"open", "closed"} /\ page'.body \in {{}, Shows}
      <3>1. \/ page' = [pc |-> "open", body |-> Shows, base |-> base, item |-> None]
            \/ page' = [pc |-> "closed", body |-> {}, base |-> {}, item |-> None]
        BY <1>1 DEF Open, Close, Closed
      <3> QED BY <1>1, <3>1 DEF Open, Close
    <2>2. Shown' \subseteq Shown
      BY <2>1, ShownParts DEF Shown, note, server
    <2> QED BY <1>0, <2>1, <2>2, CalmStep DEF ItemInv, SentInv, server
  <1>2. CASE OpenAsk
    <2>1. PICK list \in Orders(srv) :
            call' = [call EXCEPT !["ui"] =
                       [pc |-> "store", list |-> list, shows |-> srvShows, late |-> FALSE]]
      BY <1>2 DEF OpenAsk
    <2>2. HashesOf(ToSet(list)) \subseteq seen.sent
      BY <1>0, RepliesOf DEF TypeInv, TypeOK, SentInv
    <2>3. UNCHANGED <<lists, depth, files, note, server, page, sy, seen>>
      BY <1>2 DEF OpenAsk
    <2>4. \A p \in Thread : call'[p].list \in {list, call[p].list} /\ call'[p].shows \in {srvShows, call[p].shows}
      BY <1>0, <2>1 DEF CallType
    <2>5. Shown' \subseteq Shown
      BY <2>3, <2>4, ShownParts DEF Shown, note, server, Thread
    <2>6. \A p \in Thread : HashesOf(ToSet(call'[p].list)) \subseteq seen.sent
      BY <1>0, <2>2, <2>4 DEF SentInv
    <2> QED BY <1>0, <2>3, <2>5, <2>6, CalmStep DEF ItemInv, SentInv, server
  <1>3. ASSUME NEW h \in Hash, RemoveData(h)
        PROVE  KeepInv'
    <2>1. /\ lists' = [lists EXCEPT ![depth] = RemoveAttachmentData(Ini, h)]
          /\ page' = [page EXCEPT !.pc = "removeFile", !.item = h]
          /\ seen' = [seen EXCEPT !.dropped = @ \cup {h}]
          /\ UNCHANGED <<depth, files, note, server, sy, call>>
      BY <1>3 DEF RemoveData, Ini
    <2> DEFINE b == RemoveAttachmentData(Ini, h)
    <2>2. /\ HashesOf(Entries(b)) = HashesOf(Entries(Ini)) \ {h}
          /\ \A i \in Slot : b.at[i] \in Entries(Ini) \cup {Ini.at[i]}
      BY <1>3, <1>t, ListRemoved
    <2>3. /\ seen'.sent = seen.sent /\ seen'.strayed = seen.strayed /\ seen'.dropped = seen.dropped \cup {h}
      BY <2>1 DEF TypeInv, TypeOK
    <2>4. /\ page'.pc = "removeFile" /\ page'.item = h /\ page'.body = page.body
      BY <1>0, <2>1 DEF PageType
    <2> HIDE DEF b
    <2>5. \A d \in Depth : lists'[d] = IF d = depth THEN b ELSE lists[d]
      BY <1>t, <2>1 DEF b
    <2>6. \A i \in Slot : b.at[i].guid # NoGuid => b.at[i].hash \in seen.sent
      <3>1. \A e \in Entries(Ini) : e.guid # NoGuid => e.hash \in seen.sent
        BY <1>0, <1>t, EntriesOf DEF SentInv, Entries
      <3>2. \A i \in Slot : Ini.at[i].guid # NoGuid => Ini.at[i].hash \in seen.sent
        BY <1>0, <1>t DEF SentInv
      <3> QED BY <2>2, <3>1, <3>2
    <2>7. SentInv'
      BY <1>0, <2>1, <2>3, <2>5, <2>6 DEF SentInv, server
    <2>8. NestInv'
      BY <1>t, <2>1, <2>3, <2>5 DEF KeepInv, NestInv, Depth
    <2>9. ItemInv'
      BY <2>3, <2>4 DEF ItemInv
    <2>10. ShownInv'
      <3>1. Shown' \subseteq Shown
        BY <2>1, <2>4 DEF Shown, note, server
      <3>2. Listed' = Listed \ {h}
        BY <1>t, <2>1, <2>2, <2>5 DEF Listed, Ini
      <3> QED BY <2>1, <2>3, <3>1, <3>2 DEF KeepInv, ShownInv, Owed, Held
    <2> QED BY <2>7, <2>8, <2>9, <2>10 DEF KeepInv
  <1>4. ASSUME NEW h \in Hash, StartAppend(h)
        PROVE  KeepInv'
    <2>1. page'.pc = "appendFile" /\ page'.body = page.body
      BY <1>0, <1>4 DEF StartAppend, PageType
    <2>2. UNCHANGED <<lists, depth, files, note, server, sy, call, seen>>
      BY <1>4 DEF StartAppend
    <2>3. Shown' \subseteq Shown
      BY <2>1, <2>2 DEF Shown, note, server
    <2> QED BY <1>0, <2>1, <2>2, <2>3, CalmStep DEF ItemInv, SentInv, server
  <1>5. CASE RemoveFile \/ AppendFile
    <2>1. /\ UNCHANGED <<lists, depth, note, server, sy, call, seen>>
          /\ page'.pc \in {"removeContent", "appendData"} /\ page'.item = page.item /\ page'.body = page.body
      BY <1>0, <1>5 DEF RemoveFile, AppendFile, PageType
    <2>2. SentInv' /\ NestInv' /\ Listed' = Listed
      BY <1>0, <2>1 DEF KeepInv, SentInv, NestInv, server, Listed, Ini
    <2>3. Shown' \subseteq Shown
      BY <2>1 DEF Shown, note, server
    <2>4. CASE RemoveFile
      <3>1. files' = files \ {page.item} /\ ~Owed(page.item) /\ page'.pc = "removeContent"
        BY <1>0, <2>4 DEF RemoveFile, ItemInv, Owed, PageType
      <3>2. ItemInv' /\ ShownInv'
        BY <2>1, <2>2, <2>3, <3>1 DEF ItemInv, KeepInv, ShownInv, Owed, Held
      <3> QED BY <2>2, <3>2 DEF KeepInv
    <2>5. CASE AppendFile
      <3>1. files' = files \cup {page.item} /\ page'.pc = "appendData"
        BY <1>0, <2>5 DEF AppendFile, PageType
      <3>2. ItemInv' /\ ShownInv'
        BY <2>1, <2>2, <2>3, <3>1 DEF ItemInv, KeepInv, ShownInv, Owed, Held
      <3> QED BY <2>2, <3>2 DEF KeepInv
    <2> QED BY <1>5, <2>4, <2>5
  <1>6. CASE RemoveContent \/ AppendContent
    <2>1. /\ UNCHANGED <<lists, depth, files, server, sy, call, seen>>
          /\ page'.pc = "flag"
      BY <1>0, <1>6 DEF RemoveContent, AppendContent, PageType
    <2> DEFINE body == IF RemoveContent THEN page.body \ {page.item} ELSE page.body \cup {page.item}
    <2>2. Save(body, page.base) \/ SaveAppended(body, page.base)
      BY <1>6 DEF RemoveContent, AppendContent
    <2>3. page'.body = body /\ body \subseteq Shown
      BY <1>0, <1>6 DEF RemoveContent, AppendContent, PageType, Shown
    <2>4. file' \cup cache' \subseteq file \cup cache \cup body
      <3> HIDE DEF body
      <3> QED BY <2>2, StoredShown
    <2>5. Shown' \subseteq Shown
      <3> HIDE DEF body
      <3> QED BY <2>1, <2>3, <2>4 DEF Shown, server
    <2> QED BY <1>0, <2>1, <2>5, CalmStep DEF ItemInv, SentInv, server
  <1>7. CASE GiveUp \/ SetUnpushed
    <2>1. /\ UNCHANGED <<lists, depth, files, file, cache, server, sy, call, seen>>
          /\ page'.pc = "open" /\ page'.body = page.body
      BY <1>0, <1>7 DEF GiveUp, SetUnpushed, PageType, note
    <2>2. Shown' \subseteq Shown
      BY <2>1 DEF Shown, server
    <2> QED BY <1>0, <2>1, <2>2, CalmStep DEF ItemInv, SentInv, server
  <1>8. CASE AppendData
    <2>1. /\ lists' = [lists EXCEPT ![depth] = AddAttachmentData(Ini, page.item)]
          /\ page' = [page EXCEPT !.pc = "appendContent"]
          /\ seen' = [seen EXCEPT !.dropped = @ \ {page.item}]
          /\ UNCHANGED <<depth, files, note, server, sy, call>>
          /\ page.item \in Hash /\ page.item \in files \cup seen.sent
      BY <1>0, <1>8 DEF AppendData, Ini, PageType, Working, ItemInv
    <2> DEFINE b == AddAttachmentData(Ini, page.item)
               new == [hash |-> page.item, guid |-> NoGuid]
    <2>2. /\ HashesOf(Entries(b)) = HashesOf(Entries(Ini)) \cup {page.item}
          /\ \A i \in Slot : b.at[i] \in {Ini.at[i], new}
      BY <1>t, <2>1, ListAdded
    <2>3. /\ seen'.sent = seen.sent /\ seen'.strayed = seen.strayed /\ seen'.dropped = seen.dropped \ {page.item}
      BY <2>1 DEF TypeInv, TypeOK
    <2>4. /\ page'.pc = "appendContent" /\ page'.item = page.item /\ page'.body = page.body
      BY <1>0, <2>1 DEF PageType
    <2> HIDE DEF b
    <2>5. \A d \in Depth : lists'[d] = IF d = depth THEN b ELSE lists[d]
      BY <1>t, <2>1 DEF b
    <2>6. \A i \in Slot : b.at[i].guid # NoGuid => b.at[i].hash \in seen.sent
      BY <1>0, <1>t, <2>2 DEF SentInv
    <2>7. SentInv'
      BY <1>0, <2>1, <2>3, <2>5, <2>6 DEF SentInv, server
    <2>8. NestInv'
      BY <1>t, <2>1, <2>3, <2>5 DEF KeepInv, NestInv, Depth
    <2>9. ItemInv'
      BY <2>4 DEF ItemInv
    <2>10. ShownInv'
      <3>1. Shown' \subseteq Shown \cup {page.item}
        BY <2>1, <2>4 DEF Shown, note, server
      <3>2. Listed' = Listed \cup {page.item}
        BY <1>t, <2>1, <2>2, <2>5 DEF Listed, Ini
      <3> QED BY <2>1, <2>3, <3>1, <3>2 DEF KeepInv, ShownInv, Owed, Held
    <2> QED BY <2>7, <2>8, <2>9, <2>10 DEF KeepInv
  <1> QED BY <1>1, <1>2, <1>3, <1>4, <1>5, <1>6, <1>7, <1>8 DEF Page

\* Marking the page's call as late changes neither reply nor content of a call.
LEMMA PageLateKeeps ==
    ASSUME TypeInv, SentInv
    PROVE  \A p \in Thread : /\ PageLate[p].shows = call[p].shows /\ PageLate[p].pc = call[p].pc
                             /\ HashesOf(ToSet(PageLate[p].list)) \subseteq seen.sent
  BY PageLateType DEF CallType, TypeInv, TypeOK, SentInv

\* A step that stores a list of the server, and shows nothing new.
LEMMA StoreStep ==
    ASSUME TypeInv, KeepInv, NEW list, Reply(list), HashesOf(ToSet(list)) \subseteq seen.sent,
           NEW isAfterPush \in BOOLEAN, NEW overtaken \in BOOLEAN,
           SetAttachmentsDataFromServer(list, isAfterPush, overtaken),
           UNCHANGED <<srv, page>>,
           sy'.pc \in Replied => HashesOf(ToSet(sy'.list)) \subseteq seen.sent,
           \A p \in Thread : HashesOf(ToSet(call'[p].list)) \subseteq seen.sent,
           Shown' \subseteq Shown
    PROVE  KeepInv'
  <1>1. /\ seen'.sent = seen.sent /\ seen'.strayed = seen.strayed
        /\ seen'.dropped \subseteq seen.dropped /\ seen.dropped \subseteq seen'.dropped \cup seen.sent
        /\ files' \subseteq files /\ files \subseteq files' \cup seen.sent
        /\ \A d \in Depth, i \in Slot :
              lists'[d].at[i].guid # NoGuid => lists'[d].at[i].hash \in seen.sent
        /\ \A d \in Depth : d # depth => lists'[d] = lists[d]
        /\ depth' \in {depth, depth + 1}
        /\ \A h \in Hash : Held(h) /\ h \notin seen.sent => h \in Listed'
    BY SetAttachmentsKeeps DEF KeepInv
  <1>2. SentInv'
    BY <1>1 DEF KeepInv, SentInv
  <1>3. NestInv'
    <2>1. depth \in Nat /\ \A d \in Depth : d \in Nat
      BY DEF TypeInv, TypeOK, Depth
    <2>2. \A d \in Depth : d > depth' => d > depth /\ d # depth
      BY <1>1, <2>1
    <2> QED BY <1>1, <2>2 DEF KeepInv, NestInv
  <1>4. ItemInv'
    BY <1>1 DEF KeepInv, ItemInv
  <1>5. ShownInv'
    BY <1>1, ShownParts DEF KeepInv, ShownInv, Owed, Held
  <1> QED BY <1>2, <1>3, <1>4, <1>5 DEF KeepInv

\* The steps of fetchNote preserve the invariant: what a fetched content shows
\* is shown by the call already.
LEMMA KeepFetch ==
    ASSUME TypeInv, KeepInv, NEW p \in Thread, FetchStore(p) \/ FetchContent(p)
    PROVE  KeepInv'
  <1>0. CallType /\ SyncType /\ PageType /\ SentInv /\ ItemInv
    BY DEF TypeInv, TypeOK, CallType, SyncType, PageType, KeepInv
  <1>1. CASE FetchStore(p)
    <2> DEFINE new == [NoCall EXCEPT !.pc = "content", !.shows = call[p].shows]
    <2>1. /\ SetAttachmentsDataFromServer(call[p].list, FALSE, seen.overtaken \/ (p = "ui" /\ call[p].late))
          /\ call' = [(IF p = "sync" THEN PageLate ELSE call) EXCEPT ![p] = new]
          /\ UNCHANGED <<pinned, note, server, page, sy, changes>>
      BY <1>1 DEF FetchStore
    <2>2. /\ Reply(call[p].list) /\ (seen.overtaken \/ (p = "ui" /\ call[p].late)) \in BOOLEAN
          /\ HashesOf(ToSet(call[p].list)) \subseteq seen.sent
      BY <1>0 DEF TypeInv, TypeOK, SentInv
    <2>3. new.list = <<>> /\ new.shows = call[p].shows
      BY DEF NoCall
    <2>4. \A q \in Thread : /\ HashesOf(ToSet(call'[q].list)) \subseteq seen.sent
                            /\ call'[q].shows = call[q].shows
      <3> HIDE DEF new
      <3>1. \A q \in Thread : call'[q] = IF q = p THEN new ELSE (IF p = "sync" THEN PageLate[q] ELSE call[q])
        BY <1>0, <2>1, PageLateType DEF CallType
      <3> QED BY <1>0, <2>3, <3>1, PageLateKeeps, EmptyHashes DEF SentInv
    <2>5. Shown' \subseteq Shown
      BY <2>1, <2>4 DEF Shown, note, server, Thread
    <2> HIDE DEF new
    <2> QED BY <1>0, <2>1, <2>2, <2>4, <2>5, StoreStep DEF SentInv, server
  <1>2. CASE FetchContent(p)
    <2>1. /\ SetFetchedNoteContent(call[p].shows)
          /\ call' = [call EXCEPT ![p] = NoCall]
          /\ UNCHANGED <<lists, depth, files, pinned, server, seen, changes>>
      BY <1>2 DEF FetchContent
    <2>2. file' \cup cache' \subseteq file \cup cache \cup call[p].shows
      BY <2>1, StoredShown
    <2>3. \A q \in Thread : /\ HashesOf(ToSet(call'[q].list)) \subseteq seen.sent
                            /\ call'[q].shows \subseteq call[q].shows
      <3>1. NoCall.list = <<>> /\ NoCall.shows = {}
        BY DEF NoCall
      <3> QED BY <1>0, <2>1, <3>1, EmptyHashes DEF SentInv, CallType
    <2>4. /\ sy'.shows = sy.shows /\ sy'.list = sy.list
          /\ sy'.pc = sy.pc \/ sy'.pc \notin Replied
      BY <1>0, <1>2 DEF FetchContent, SyncType, AfterFetch, Replied
    <2>5. \/ page' = page
          \/ page' = [pc |-> "open", body |-> call[p].shows, base |-> call[p].shows, item |-> None]
      BY <1>2 DEF FetchContent, Closed
    <2>6. Shown' \subseteq Shown
      BY <2>1, <2>2, <2>3, <2>4, <2>5, ShownParts DEF Shown, server, Thread
    <2>7. ItemInv'
      BY <1>0, <2>1, <2>5 DEF ItemInv
    <2> QED BY <1>0, <2>1, <2>3, <2>4, <2>6, <2>7, CalmStep DEF SentInv, server
  <1> QED BY <1>1, <1>2

\* The steps of synchronize() preserve the invariant: a push sends what is
\* listed, and its answer has been sent.
LEMMA KeepSync ==
    ASSUME TypeInv, KeepInv, Synchronize
    PROVE  KeepInv'
  <1>0. CallType /\ SyncType /\ SentInv /\ ItemInv
    BY DEF TypeInv, TypeOK, CallType, SyncType, KeepInv
  <1>i. Idle.list = <<>> /\ Idle.shows = {} /\ Idle.pc = "idle" /\ "idle" \notin Replied
    BY DEF Idle, Replied
  <1>1. CASE Begin \/ SyncNoFetch \/ ClearDeferred
    <2>1. /\ UNCHANGED <<lists, depth, files, file, cache, server, page, call, seen>>
          /\ sy'.pc \notin Replied /\ sy'.shows = sy.shows
      BY <1>0, <1>1 DEF Begin, SyncNoFetch, ClearDeferred, SyncType, AfterFetch, Replied, note
    <2>2. Shown' \subseteq Shown
      BY <2>1 DEF Shown, server
    <2> QED BY <1>0, <2>1, <2>2, CalmStep DEF ItemInv, SentInv, server
  <1>2. CASE SyncAsk
    <2>1. PICK list \in Orders(srv) :
            call' = [call EXCEPT !["sync"] =
                       [pc |-> "store", list |-> list, shows |-> srvShows, late |-> FALSE]]
      BY <1>2 DEF SyncAsk
    <2>2. HashesOf(ToSet(list)) \subseteq seen.sent
      BY <1>0, RepliesOf DEF TypeInv, TypeOK, SentInv
    <2>3. UNCHANGED <<lists, depth, files, note, server, page, sy, seen>>
      BY <1>2 DEF SyncAsk
    <2>4. \A p \in Thread : call'[p].list \in {list, call[p].list} /\ call'[p].shows \in {srvShows, call[p].shows}
      BY <1>0, <2>1 DEF CallType
    <2>5. Shown' \subseteq Shown
      BY <2>3, <2>4, ShownParts DEF Shown, note, server, Thread
    <2>6. \A p \in Thread : HashesOf(ToSet(call'[p].list)) \subseteq seen.sent
      BY <1>0, <2>2, <2>4 DEF SentInv
    <2> QED BY <1>0, <2>3, <2>5, <2>6, CalmStep DEF ItemInv, SentInv, server
  <1>3. CASE Pull
    <2>1. UNCHANGED <<lists, depth, files, note, server, page, call, seen>>
      BY <1>3 DEF Pull
    <2>2. /\ sy'.pc \in Replied => HashesOf(ToSet(sy'.list)) \subseteq seen.sent
          /\ sy'.shows \subseteq Shown
      <3>1. CASE pulled
        <4>1. sy'.pc = "push" /\ sy'.shows = {}
          BY <1>3, <3>1 DEF Pull, Idle
        <4> QED BY <4>1 DEF Replied
      <3>2. CASE ~pulled
        <4>1. PICK list \in Orders(srv) :
                 sy' = [pc |-> "gist", list |-> list, shows |-> srvShows, fresh |-> TRUE]
          BY <1>3, <3>2 DEF Pull
        <4>2. HashesOf(ToSet(list)) \subseteq seen.sent
          BY <1>0, RepliesOf DEF TypeInv, TypeOK, SentInv
        <4> QED BY <4>1, <4>2, ShownParts
      <3> QED BY <3>1, <3>2
    <2>3. Shown' \subseteq Shown
      BY <2>1, <2>2, ShownParts DEF Shown, note, server, Thread
    <2> QED BY <1>0, <2>1, <2>2, <2>3, CalmStep DEF ItemInv, SentInv, server
  <1>4. CASE StoreNoteGist
    <2>1. /\ UNCHANGED <<lists, depth, files, file, cache, server, page, call, seen>>
          /\ sy.pc \in Replied /\ sy'.list = sy.list /\ sy'.shows = {}
      BY <1>0, <1>4 DEF StoreNoteGist, SyncType, Replied
    <2>2. Shown' \subseteq Shown
      BY <2>1 DEF Shown, server
    <2> QED BY <1>0, <2>1, <2>2, CalmStep DEF ItemInv, SentInv, server
  <1>5. CASE StoreNoteAttachments \/ StorePushedAttachments
    <2>1. PICK after \in BOOLEAN : SetAttachmentsDataFromServer(sy.list, after, FALSE)
      BY <1>5 DEF StoreNoteAttachments, StorePushedAttachments
    <2>2. /\ call' = PageLate
          /\ UNCHANGED <<pinned, note, server, page, changes>>
          /\ sy.pc \in Replied /\ sy'.pc \notin Replied /\ sy'.shows = sy.shows
      BY <1>0, <1>5 DEF StoreNoteAttachments, StorePushedAttachments, SyncType, Replied
    <2>3. Reply(sy.list) /\ HashesOf(ToSet(sy.list)) \subseteq seen.sent
      BY <1>0, <2>2 DEF SyncType, SentInv
    <2>4. \A p \in Thread : /\ HashesOf(ToSet(call'[p].list)) \subseteq seen.sent
                            /\ call'[p].shows = call[p].shows
      BY <1>0, <2>2, PageLateKeeps
    <2>5. Shown' \subseteq Shown
      BY <2>2, <2>4 DEF Shown, note, server, Thread
    <2> QED BY <2>1, <2>2, <2>3, <2>4, <2>5, StoreStep DEF server
  <1>6. CASE Checkpoint \/ Pushed \/ UpdateNoteFails
    <2>1. /\ UNCHANGED <<lists, depth, files, file, cache, srv, srvShows, page, call, seen>>
          /\ sy'.pc \notin Replied /\ sy'.shows = {}
      BY <1>0, <1>6 DEF Checkpoint, Pushed, UpdateNoteFails, Idle, Replied, note, server
    <2>2. Shown' \subseteq Shown
      BY <2>1 DEF Shown
    <2> QED BY <1>0, <2>1, <2>2, CalmStep DEF ItemInv, SentInv
  <1>7. CASE ReadNote
    <2>1. /\ UNCHANGED <<lists, depth, files, note, server, page, call, seen>>
          /\ sy'.pc \notin Replied /\ sy'.shows \in {{}, Shows}
      BY <1>0, <1>7 DEF ReadNote, Idle, Replied
    <2>2. Shown' \subseteq Shown
      BY <2>1, ShownParts DEF Shown, note, server
    <2> QED BY <1>0, <2>1, <2>2, CalmStep DEF ItemInv, SentInv, server
  <1>8. CASE SetEdamNoteResources
    <2>1. /\ UNCHANGED <<lists, depth, files, note, server, page, call, seen>>
          /\ sy'.pc \notin Replied /\ sy'.shows \in {{}, sy.shows}
      BY <1>0, <1>8 DEF SetEdamNoteResources, Idle, SyncType, Replied
    <2>2. Shown' \subseteq Shown
      BY <2>1 DEF Shown, note, server
    <2> QED BY <1>0, <2>1, <2>2, CalmStep DEF ItemInv, SentInv, server
  <1>9. ASSUME NEW answered \in BOOLEAN, UpdateNote(answered)
        PROVE  KeepInv'
    <2>1. /\ UNCHANGED <<lists, depth, files, note, page, call>>
          /\ seen' = [seen EXCEPT !.sent = @ \cup HashesOf(srv')]
          /\ srvShows' = sy.shows
      BY <1>9 DEF UpdateNote
    <2>2. /\ seen'.sent = seen.sent \cup HashesOf(srv')
          /\ seen'.dropped = seen.dropped /\ seen'.strayed = seen.strayed
      BY <2>1 DEF TypeInv, TypeOK
    <2>3. /\ sy'.pc \in Replied => HashesOf(ToSet(sy'.list)) \subseteq seen'.sent
          /\ sy'.shows \subseteq Shown
      <3>1. CASE answered
        <4>1. PICK list \in Orders(srv') :
                 sy' = [sy EXCEPT !.pc = "pushedNote", !.list = list, !.fresh = pulled]
          BY <1>9, <3>1 DEF UpdateNote
        <4>2. ToSet(list) = srv'
          BY <1>9, UpdateServer, RepliesOf
        <4>3. sy'.list = list /\ sy'.shows = sy.shows
          BY <1>0, <4>1 DEF SyncType
        <4> QED BY <2>2, <4>2, <4>3, ShownParts
      <3>2. CASE ~answered
        <4>1. sy' = Idle
          BY <1>9, <3>2 DEF UpdateNote
        <4> QED BY <1>i, <4>1
      <3> QED BY <3>1, <3>2
    <2>4. SentInv'
      BY <1>0, <2>1, <2>2, <2>3 DEF SentInv
    <2>5. NestInv' /\ ItemInv'
      BY <1>0, <2>1, <2>2 DEF KeepInv, NestInv, ItemInv
    <2>6. Shown' \subseteq Shown
      BY <2>1, <2>3, ShownParts DEF Shown, note, Thread
    <2>7. Listed' = Listed
      BY <2>1 DEF Listed, Ini
    <2>8. ShownInv'
      BY <2>1, <2>2, <2>6, <2>7 DEF KeepInv, ShownInv, Owed, Held
    <2> QED BY <2>4, <2>5, <2>8 DEF KeepInv
  <1>10. CASE StorePushedNote
    <2>1. /\ UNCHANGED <<lists, depth, files, server, page, call, seen>>
          /\ sy.pc \in Replied /\ sy'.list = sy.list /\ sy'.shows = {}
          /\ SetPushedNote(sy.shows)
      BY <1>0, <1>10 DEF StorePushedNote, SyncType, Replied
    <2>2. file' \cup cache' \subseteq file \cup cache \cup sy.shows
      BY <2>1, StoredShown
    <2>3. Shown' \subseteq Shown
      BY <2>1, <2>2 DEF Shown, server
    <2> QED BY <1>0, <2>1, <2>3, CalmStep DEF ItemInv, SentInv, server
  <1> QED BY <1>1, <1>2, <1>3, <1>4, <1>5, <1>6, <1>7, <1>8, <1>9, <1>10 DEF Synchronize

\* Another client, the cache of settings and a restart preserve the invariant.
LEMMA KeepElse ==
    ASSUME TypeInv, KeepInv, OtherClient \/ Evict \/ Restart
    PROVE  KeepInv'
  <1>0. CallType /\ SyncType /\ SentInv /\ ItemInv
    BY DEF TypeInv, TypeOK, CallType, SyncType, KeepInv
  <1>1. ASSUME NEW S, NEW shows, ServerChanges(S, shows), shows \subseteq Shown \cup HashesOf(S)
        PROVE  KeepInv'
    <2>1. /\ UNCHANGED <<lists, depth, files, note, page, call>>
          /\ seen' = [seen EXCEPT !.sent = @ \cup HashesOf(S)]
          /\ sy' = [sy EXCEPT !.fresh = FALSE]
          /\ srv' = S /\ srvShows' = shows
      BY <1>1 DEF ServerChanges
    <2>2. /\ seen'.sent = seen.sent \cup HashesOf(S)
          /\ seen'.dropped = seen.dropped /\ seen'.strayed = seen.strayed
      BY <2>1 DEF TypeInv, TypeOK
    <2>3. sy'.pc = sy.pc /\ sy'.list = sy.list /\ sy'.shows = sy.shows
      BY <1>0, <2>1 DEF SyncType
    <2>4. SentInv'
      BY <1>0, <2>1, <2>2, <2>3 DEF SentInv
    <2>5. NestInv' /\ ItemInv'
      BY <1>0, <2>1, <2>2 DEF KeepInv, NestInv, ItemInv
    <2>6. Shown' \subseteq Shown \cup HashesOf(S)
      BY <1>1, <2>1, <2>3 DEF Shown, note
    <2>7. Listed' = Listed
      BY <2>1 DEF Listed, Ini
    <2>8. ShownInv'
      BY <2>1, <2>2, <2>6, <2>7 DEF KeepInv, ShownInv, Owed, Held
    <2> QED BY <2>4, <2>5, <2>8 DEF KeepInv
  <1>2. ASSUME NEW h \in Hash, ServerAdds(h)
        PROVE  KeepInv'
    <2> DEFINE S == srv \cup {[hash |-> h, guid |-> guids + 1]}
    <2>1. ServerChanges(S, srvShows \cup {h})
      BY <1>2 DEF ServerAdds
    <2>2. h \in HashesOf(S)
      <3> DEFINE r == [hash |-> h, guid |-> guids + 1]
      <3>1. r \in S /\ r.hash = h
        OBVIOUS
      <3> HIDE DEF S, r
      <3> QED BY <3>1 DEF HashesOf
    <2> HIDE DEF S
    <2> QED BY <1>1, <2>1, <2>2, ShownParts
  <1>3. ASSUME NEW h \in Hash, ServerRemoves(h)
        PROVE  KeepInv'
    <2>1. ServerChanges({r \in srv : r.hash # h}, srvShows \ {h})
      BY <1>3 DEF ServerRemoves
    <2> QED BY <1>1, <2>1, ShownParts
  <1>4. CASE ServerTouches
    <2>1. ServerChanges(srv, srvShows)
      BY <1>4 DEF ServerTouches
    <2> QED BY <1>1, <2>1, ShownParts
  <1>5. ASSUME Evict \/ Restart
        PROVE  KeepInv'
    <2>1. /\ depth' = 0 /\ seen' = [seen EXCEPT !.strayed = seen.strayed \/ depth > 0]
          /\ UNCHANGED <<lists, files, note, server>>
      BY <1>5 DEF Evict, Restart, Reload
    <2>2. /\ seen'.sent = seen.sent /\ seen'.dropped = seen.dropped
          /\ ~seen'.strayed => ~seen.strayed /\ depth = 0
      <3>1. seen'.strayed <=> (seen.strayed \/ depth > 0)
        BY <2>1 DEF TypeInv, TypeOK
      <3>2. depth \in Nat
        BY DEF TypeInv, TypeOK, Depth
      <3> QED BY <2>1, <3>1, <3>2 DEF TypeInv, TypeOK
    <2>3. \/ UNCHANGED <<page, sy, call>>
          \/ page' = Closed /\ sy' = Idle /\ call' = [p \in Thread |-> NoCall]
      BY <1>5 DEF Evict, Restart
    <2>4. /\ sy'.pc \in Replied => HashesOf(ToSet(sy'.list)) \subseteq seen.sent
          /\ \A p \in Thread : HashesOf(ToSet(call'[p].list)) \subseteq seen.sent
      BY <1>0, <2>3, EmptyHashes DEF SentInv, Idle, Replied, NoCall
    <2>5. SentInv' /\ ItemInv'
      <3>1. SentInv'
        BY <1>0, <2>1, <2>2, <2>4 DEF SentInv, server
      <3>2. ItemInv'
        BY <1>0, <2>1, <2>2, <2>3 DEF ItemInv, Closed
      <3> QED BY <3>1, <3>2
    <2>6. NestInv'
      BY <2>1, <2>2 DEF KeepInv, NestInv
    <2>7. Shown' \subseteq Shown
      BY <2>1, <2>3 DEF Shown, note, server, Closed, Idle, NoCall, Thread
    <2>8. ~seen'.strayed => Listed' = Listed
      BY <2>1, <2>2 DEF Listed, Ini
    <2>9. ShownInv'
      BY <2>1, <2>2, <2>7, <2>8 DEF KeepInv, ShownInv, Owed, Held
    <2> QED BY <2>5, <2>6, <2>9 DEF KeepInv
  <1> QED BY <1>2, <1>3, <1>4, <1>5 DEF OtherClient

\* Every step preserves the invariant.
LEMMA KeepNext ==
    ASSUME TypeInv, KeepInv, [Next]_vars
    PROVE  KeepInv'
  <1>1. CASE UNCHANGED vars
    BY <1>1 DEF vars, note, server, KeepInv, SentInv, NestInv, ItemInv, ShownInv, Shown, Owed, Held, Listed, Ini
  <1> QED BY <1>1, KeepPage, KeepFetch, KeepSync, KeepElse DEF Next

\* Every state of every behaviour of Attachments satisfies AppendedKept: what
\* appendAttachmentToNote put into a note stays in attachments.ini with its
\* file until the server has had it, whatever pulls, merges, pushes, evictions
\* and restarts come in between.
THEOREM AppendedCorrect == Spec => []AppendedKept
  <1>1. TypeInv /\ KeepInv => AppendedKept
    BY ShownParts DEF KeepInv, ShownInv, AppendedKept, Owed, Held
  <1>2. TypeInv /\ KeepInv /\ [Next]_vars => (TypeInv /\ KeepInv)'
    BY TypeNext, KeepNext
  <1> QED BY TypeInit, KeepInit, <1>1, <1>2, PTL DEF Spec

-----------------------------------------------------------------------------
(* The order of calls and replies.                                         *)

\* The device has heard of the last change of the server.
Current == pulled \/ sy.fresh

\* The page works on the note only without a call of its own, and synchronize()
\* waits for a call only at two points.
PointInv ==
    /\ page.pc # "closed" => call["ui"].pc = "off"
    /\ call["sync"].pc # "off" => sy.pc \in {"deferred", "decide"}

\* A reply in hand is what the server has now, if no other change came after
\* it that the device has not heard of.
FreshInv ==
    /\ sy.pc \in Replied => ~pulled /\ (sy.fresh => ToSet(sy.list) = srv)
    /\ call["sync"].pc = "store" /\ Current => ToSet(call["sync"].list) = srv
    /\ call["ui"].pc = "store" /\ ~call["ui"].late /\ Current /\ sy.pc \notin Replied
          => ToSet(call["ui"].list) = srv

\* Both.
OrderInv == PointInv /\ FreshInv

\* PageLate marks the page's call, if it still has a reply to store.
LEMMA LateIs ==
    ASSUME CallType
    PROVE  /\ PageLate["sync"] = call["sync"]
           /\ PageLate["ui"].pc = call["ui"].pc /\ PageLate["ui"].list = call["ui"].list
           /\ PageLate["ui"].late = (call["ui"].pc = "store")
  BY DEF CallType, PageLate, Thread

\* At the start there is no call.
LEMMA OrderInit == Init => OrderInv
  <1> SUFFICES ASSUME Init PROVE OrderInv
    OBVIOUS
  <1>1. page = Closed /\ sy = Idle /\ call = [p \in Thread |-> NoCall]
    BY DEF Init
  <1> QED BY <1>1 DEF OrderInv, PointInv, FreshInv, Closed, Idle, NoCall, Thread, Replied

\* The steps of the page preserve the order of calls and replies.
LEMMA OrderPage ==
    ASSUME TypeInv, OrderInv, Page
    PROVE  OrderInv'
  <1>0. /\ PageType /\ CallType
    BY DEF TypeInv, TypeOK, PageType, CallType
  <1>1. CASE OpenAsk
    <2>1. PICK list \in Orders(srv) :
            call' = [call EXCEPT !["ui"] =
                       [pc |-> "store", list |-> list, shows |-> srvShows, late |-> FALSE]]
      BY <1>1 DEF OpenAsk
    <2>2. ToSet(list) = srv
      BY RepliesOf DEF TypeInv, TypeOK
    <2>3. page.pc = "closed" /\ UNCHANGED <<server, page, sy>>
      BY <1>1 DEF OpenAsk, Closed
    <2>4. call'["sync"] = call["sync"] /\ call'["ui"].list = list /\ call'["ui"].pc = "store"
      BY <1>0, <2>1 DEF CallType, Thread
    <2> QED BY <2>2, <2>3, <2>4 DEF OrderInv, PointInv, FreshInv, Current, server
  <1>2. CASE Open
    <2>1. call["ui"].pc = "off" /\ UNCHANGED <<server, sy, call>>
      BY <1>2 DEF Open, NoCall
    <2> QED BY <2>1 DEF OrderInv, PointInv, FreshInv, Current, server
  <1>3. CASE Page /\ ~OpenAsk /\ ~Open
    <2>1. page.pc # "closed" /\ UNCHANGED <<server, sy, call>>
      BY <1>3 DEF Page, Close, RemoveData, StartAppend, RemoveFile, RemoveContent, GiveUp,
                  AppendFile, AppendData, AppendContent, SetUnpushed
    <2> QED BY <2>1 DEF OrderInv, PointInv, FreshInv, Current, server
  <1> QED BY <1>1, <1>2, <1>3

\* The steps of fetchNote preserve it.
LEMMA OrderFetch ==
    ASSUME TypeInv, OrderInv, NEW p \in Thread, FetchStore(p) \/ FetchContent(p)
    PROVE  OrderInv'
  <1>0. /\ PageType /\ CallType /\ SyncType
    BY DEF TypeInv, TypeOK, PageType, CallType, SyncType
  <1>1. CASE FetchStore(p)
    <2> DEFINE new == [NoCall EXCEPT !.pc = "content", !.shows = call[p].shows]
    <2>1. /\ call[p].pc = "store"
          /\ call' = [(IF p = "sync" THEN PageLate ELSE call) EXCEPT ![p] = new]
          /\ UNCHANGED <<server, page, sy>>
      BY <1>1 DEF FetchStore
    <2>2. new.pc = "content"
      BY DEF NoCall
    <2> HIDE DEF new
    <2>3. CASE p = "sync"
      <3>1. call'["sync"] = new /\ call'["ui"] = PageLate["ui"]
        BY <1>0, <2>1, <2>3, PageLateType DEF Thread
      <3> QED BY <1>0, <2>1, <2>2, <2>3, <3>1, LateIs DEF OrderInv, PointInv, FreshInv, Current, server
    <2>4. CASE p = "ui"
      <3>1. call'["ui"] = new /\ call'["sync"] = call["sync"]
        BY <1>0, <2>1, <2>4 DEF CallType, Thread
      <3> QED BY <2>1, <2>2, <2>4, <3>1 DEF OrderInv, PointInv, FreshInv, Current, server
    <2> QED BY <2>3, <2>4 DEF Thread
  <1>2. CASE FetchContent(p)
    <2>1. /\ call[p].pc = "content" /\ UNCHANGED server
          /\ call' = [call EXCEPT ![p] = NoCall]
      BY <1>2 DEF FetchContent
    <2>2. NoCall.pc = "off"
      BY DEF NoCall
    <2>3. CASE p = "sync"
      <3>1. /\ call'["sync"].pc = "off" /\ call'["ui"] = call["ui"] /\ page' = page
            /\ sy' = [sy EXCEPT !.pc = AfterFetch]
        BY <1>0, <1>2, <2>1, <2>2, <2>3 DEF CallType, Thread, FetchContent
      <3>2. sy.pc \notin Replied /\ sy'.pc \notin Replied /\ sy'.fresh = sy.fresh
        BY <1>0, <2>1, <2>3, <3>1 DEF OrderInv, PointInv, Replied, SyncType, AfterFetch
      <3> QED BY <2>1, <3>1, <3>2 DEF OrderInv, PointInv, FreshInv, Current, server
    <2>4. CASE p = "ui"
      <3>1. call'["ui"].pc = "off" /\ call'["sync"] = call["sync"] /\ sy' = sy
        BY <1>0, <1>2, <2>1, <2>2, <2>4 DEF CallType, Thread, FetchContent
      <3> QED BY <2>1, <3>1 DEF OrderInv, PointInv, FreshInv, Current, server
    <2> QED BY <2>3, <2>4 DEF Thread
  <1> QED BY <1>1, <1>2

\* The steps of synchronize() preserve it: what a push leaves on the server is
\* what its answer has.
LEMMA OrderSync ==
    ASSUME TypeInv, OrderInv, Synchronize
    PROVE  OrderInv'
  <1>0. CallType /\ SyncType /\ srv \in SUBSET Resource /\ Distinct(srv) /\ pulled \in BOOLEAN
    BY DEF TypeInv, TypeOK, CallType, SyncType
  <1>i. Idle.pc = "idle" /\ Idle.fresh = FALSE
    BY DEF Idle
  <1>1. CASE Begin \/ SyncNoFetch \/ ClearDeferred
    <2>1. /\ sy.pc \notin Replied /\ sy'.pc \notin Replied /\ sy'.fresh = sy.fresh
          /\ UNCHANGED <<server, page, call>>
      BY <1>0, <1>1 DEF Begin, SyncNoFetch, ClearDeferred, Idle, Replied, SyncType, AfterFetch
    <2>2. call["sync"].pc = "off"
      BY <1>1 DEF Begin, SyncNoFetch, ClearDeferred, Idle, NoCall, OrderInv, PointInv
    <2> QED BY <2>1, <2>2 DEF OrderInv, PointInv, FreshInv, Current, server
  <1>2. CASE SyncAsk
    <2>1. PICK list \in Orders(srv) :
            call' = [call EXCEPT !["sync"] =
                       [pc |-> "store", list |-> list, shows |-> srvShows, late |-> FALSE]]
      BY <1>2 DEF SyncAsk
    <2>2. ToSet(list) = srv
      BY <1>0, RepliesOf
    <2>3. sy.pc \in {"deferred", "decide"} /\ UNCHANGED <<server, page, sy>>
      BY <1>2 DEF SyncAsk, ToFetch
    <2>4. call'["ui"] = call["ui"] /\ call'["sync"].list = list /\ call'["sync"].pc = "store"
      BY <1>0, <2>1 DEF CallType, Thread
    <2> QED BY <2>2, <2>3, <2>4 DEF OrderInv, PointInv, FreshInv, Current, server
  <1>3. CASE Pull
    <2>1. sy.pc = "pull" /\ UNCHANGED <<server, page, call>>
      BY <1>3 DEF Pull
    <2>2. call["sync"].pc = "off"
      BY <2>1 DEF OrderInv, PointInv
    <2>3. CASE pulled
      <3>1. sy'.pc = "push"
        BY <1>3, <2>3 DEF Pull, Idle
      <3>2. sy.pc \notin Replied /\ sy'.pc \notin Replied
        BY <2>1, <3>1 DEF Replied
      <3> QED BY <2>1, <2>2, <2>3, <3>2 DEF OrderInv, PointInv, FreshInv, Current, server
    <2>4. CASE ~pulled
      <3>1. PICK list \in Orders(srv) :
               sy' = [pc |-> "gist", list |-> list, shows |-> srvShows, fresh |-> TRUE]
        BY <1>3, <2>4 DEF Pull
      <3>2. ToSet(sy'.list) = srv /\ sy'.pc \in Replied
        BY <1>0, <3>1, RepliesOf DEF Replied
      <3> QED BY <2>1, <2>2, <2>4, <3>2 DEF OrderInv, PointInv, FreshInv, server
    <2> QED BY <2>3, <2>4
  <1>4. CASE StoreNoteGist \/ StorePushedNote
    <2>1. /\ sy.pc \in Replied /\ sy.pc \notin {"deferred", "decide"} /\ UNCHANGED <<server, page, call>>
          /\ sy'.pc \in Replied /\ sy'.list = sy.list /\ sy'.fresh = sy.fresh
      BY <1>0, <1>4 DEF StoreNoteGist, StorePushedNote, Replied, SyncType
    <2> QED BY <2>1 DEF OrderInv, PointInv, FreshInv, server
  <1>5. CASE StoreNoteAttachments \/ StorePushedAttachments
    <2>1. /\ sy.pc \notin {"deferred", "decide"} /\ UNCHANGED <<server, page>> /\ call' = PageLate
          /\ sy'.pc \notin Replied
      BY <1>0, <1>5 DEF StoreNoteAttachments, StorePushedAttachments, Replied, SyncType
    <2> QED BY <1>0, <2>1, LateIs DEF OrderInv, PointInv, FreshInv, server
  <1>6. CASE Checkpoint \/ Pushed
    <2>1. /\ sy.pc \in {"checkpoint", "clear"} /\ UNCHANGED <<srv, page, call>> /\ pulled' = sy.fresh
          /\ sy'.pc \notin Replied /\ ~sy'.fresh
      BY <1>0, <1>6 DEF Checkpoint, Pushed, Idle, Replied, SyncType
    <2>2. sy.pc \notin Replied
      BY <2>1 DEF Replied
    <2> QED BY <2>1, <2>2 DEF OrderInv, PointInv, FreshInv, Current, server
  <1>7. CASE ReadNote \/ SetEdamNoteResources \/ UpdateNoteFails
    <2>1. /\ sy.pc \in {"push", "resources", "call"} /\ UNCHANGED <<server, page, call>>
          /\ sy'.pc \notin Replied /\ (sy'.fresh => pulled \/ sy.fresh)
      <3>1. CASE ReadNote
        <4>1. sy'.pc \in {"resources", "clear", "idle"} /\ (sy'.fresh => pulled)
          BY <1>i, <3>1 DEF ReadNote, Idle
        <4> QED BY <3>1, <4>1 DEF ReadNote, Replied
      <3>2. CASE SetEdamNoteResources \/ UpdateNoteFails
        <4>1. sy'.pc \in {"call", "idle"} /\ (sy'.fresh => sy.fresh)
          BY <1>0, <1>i, <3>2 DEF SetEdamNoteResources, UpdateNoteFails, SyncType
        <4> QED BY <3>2, <4>1 DEF SetEdamNoteResources, UpdateNoteFails, Replied
      <3> QED BY <1>7, <3>1, <3>2
    <2>2. sy.pc \notin Replied
      BY <2>1 DEF Replied
    <2> QED BY <2>1, <2>2 DEF OrderInv, PointInv, FreshInv, Current, server
  <1>8. ASSUME NEW answered \in BOOLEAN, UpdateNote(answered)
        PROVE  OrderInv'
    <2>1. sy.pc = "call" /\ pulled' = FALSE /\ UNCHANGED <<page, call>>
      BY <1>8 DEF UpdateNote
    <2>2. srv' \in SUBSET Resource /\ Distinct(srv')
      BY <1>8, UpdateServer
    <2>3. CASE answered
      <3>1. PICK list \in Orders(srv') : sy' = [sy EXCEPT !.pc = "pushedNote", !.list = list, !.fresh = pulled]
        BY <1>8, <2>3 DEF UpdateNote
      <3>2. sy'.pc \in Replied /\ ToSet(sy'.list) = srv'
        <4>1. ToSet(list) = srv'
          BY <2>2, RepliesOf
        <4> QED BY <1>0, <3>1, <4>1 DEF Replied, SyncType
      <3> QED BY <2>1, <3>2 DEF OrderInv, PointInv, FreshInv
    <2>4. CASE ~answered
      <3>1. sy' = Idle
        BY <1>8, <2>4 DEF UpdateNote
      <3> QED BY <1>i, <2>1, <3>1 DEF OrderInv, PointInv, FreshInv, Current, Replied
    <2> QED BY <2>3, <2>4
  <1> QED BY <1>1, <1>2, <1>3, <1>4, <1>5, <1>6, <1>7, <1>8 DEF Synchronize

\* Another client, the cache of settings and a restart preserve it: a change
\* by another client is one that the device has not heard of.
LEMMA OrderElse ==
    ASSUME TypeInv, OrderInv, OtherClient \/ Evict \/ Restart
    PROVE  OrderInv'
  <1>0. CallType /\ SyncType
    BY DEF TypeInv, TypeOK, CallType, SyncType
  <1>1. CASE OtherClient
    <2>1. /\ pulled' = FALSE /\ sy' = [sy EXCEPT !.fresh = FALSE] /\ UNCHANGED <<page, call>>
      BY <1>1 DEF OtherClient, ServerAdds, ServerRemoves, ServerTouches, ServerChanges
    <2>2. sy'.pc = sy.pc /\ sy'.fresh = FALSE
      BY <1>0, <2>1 DEF SyncType
    <2> QED BY <2>1, <2>2 DEF OrderInv, PointInv, FreshInv, Current
  <1>2. CASE Evict
    <2>1. UNCHANGED <<server, page, sy, call>>
      BY <1>2 DEF Evict
    <2> QED BY <2>1 DEF OrderInv, PointInv, FreshInv, Current, server
  <1>3. CASE Restart
    <2>1. page'.pc = "closed" /\ sy'.pc = "idle" /\ \A p \in Thread : call'[p].pc = "off"
      BY <1>3 DEF Restart, Closed, Idle, NoCall
    <2> QED BY <2>1 DEF OrderInv, PointInv, FreshInv, Replied, Thread
  <1> QED BY <1>1, <1>2, <1>3

\* Every step preserves it.
LEMMA OrderNext ==
    ASSUME TypeInv, OrderInv, [Next]_vars
    PROVE  OrderInv'
  <1>1. CASE UNCHANGED vars
    BY <1>1 DEF vars, server, OrderInv, PointInv, FreshInv, Current
  <1> QED BY <1>1, OrderPage, OrderFetch, OrderSync, OrderElse DEF Next

-----------------------------------------------------------------------------
(* Guids.                                                                  *)

\* A guid is given once, and to one body.
Agrees(e) ==
    /\ e.guid \in 0 .. guids
    /\ \A r \in srv : r.guid = e.guid => r.hash = e.hash

\* What is listed and what is in a reply agree with the server.
GuidInv ==
    /\ \A e \in srv : Agrees(e)
    /\ \A d \in Depth, i \in Slot : Agrees(lists[d].at[i])
    /\ \A d \in Depth : lists[d].removals \subseteq 1 .. guids
    /\ sy.pc \in Replied => \A e \in ToSet(sy.list) : Agrees(e)
    /\ \A p \in Thread : \A e \in ToSet(call[p].list) : Agrees(e)

\* The server gives new guids to new resources, each its own.
GuidsGrow ==
    /\ guids' \in Nat /\ guids <= guids'
    /\ \A r \in srv' \ srv : r.guid \in guids + 1 .. guids'
    /\ \A r, q \in srv' \ srv : r.guid = q.guid => r.hash = q.hash

\* A step that lists nothing new but without a guid, and that has in its
\* replies what agreed or is on the server now, preserves the invariant.
LEMMA GuidStep ==
    ASSUME TypeInv, GuidInv, GuidsGrow,
           \A d \in Depth, i \in Slot :
              Agrees(lists'[d].at[i]) \/ lists'[d].at[i].guid = NoGuid,
           \A d \in Depth : lists'[d].removals \subseteq 1 .. guids,
           sy'.pc \in Replied => \A e \in ToSet(sy'.list) : Agrees(e) \/ e \in srv',
           \A p \in Thread : \A e \in ToSet(call'[p].list) : Agrees(e) \/ e \in srv'
    PROVE  GuidInv'
  <1>0. guids \in Nat /\ srv \subseteq Resource
    BY Bounds DEF TypeInv, TypeOK
  <1>1. ASSUME NEW e, Agrees(e) \/ e \in srv' \/ e.guid = NoGuid
        PROVE  Agrees(e)'
    <2>1. \A r \in srv' : r.guid \in 1 .. guids'
      BY <1>0, Bounds DEF GuidsGrow, GuidInv, Agrees, Resource
    <2>2. CASE e.guid = NoGuid
      BY <2>1, <2>2 DEF Agrees, NoGuid, GuidsGrow
    <2>3. CASE Agrees(e)
      <3>1. e.guid \in 0 .. guids'
        BY <1>0, <2>3 DEF Agrees, GuidsGrow
      <3>2. \A r \in srv' : r.guid = e.guid => r \in srv
        BY <1>0, <2>3 DEF Agrees, GuidsGrow
      <3> QED BY <2>3, <3>1, <3>2 DEF Agrees
    <2>4. CASE e \in srv' /\ ~Agrees(e)
      <3>1. e \notin srv
        BY <2>4 DEF GuidInv
      <3>2. e.guid \in 0 .. guids' /\ e.guid \in guids + 1 .. guids'
        BY <1>0, <2>4, <3>1 DEF GuidsGrow
      <3>3. \A r \in srv' : r.guid = e.guid => r \notin srv
        BY <1>0, <3>2 DEF GuidInv, Agrees, GuidsGrow
      <3> QED BY <2>4, <3>1, <3>2, <3>3 DEF Agrees, GuidsGrow
    <2> QED BY <1>1, <2>2, <2>3, <2>4
  <1>2. 1 .. guids \subseteq 1 .. guids'
    BY <1>0 DEF GuidsGrow
  <1> QED BY <1>1, <1>2 DEF GuidInv

\* The server stays as it is.
LEMMA GuidsStay ==
    ASSUME TypeInv, UNCHANGED <<srv, guids>>
    PROVE  GuidsGrow
  BY Bounds DEF GuidsGrow, TypeInv, TypeOK

\* The settings stay as they are.
LEMMA GuidsListed ==
    ASSUME GuidInv, UNCHANGED lists
    PROVE  /\ \A d \in Depth, i \in Slot :
                 Agrees(lists'[d].at[i]) \/ lists'[d].at[i].guid = NoGuid
           /\ \A d \in Depth : lists'[d].removals \subseteq 1 .. guids
  BY DEF GuidInv

\* What setAttachmentsDataFromServer does to any of the lists.
LEMMA StoreLeaves ==
    ASSUME TypeInv, NEW list, Reply(list), NEW isAfterPush \in BOOLEAN, NEW overtaken \in BOOLEAN,
           SetAttachmentsDataFromServer(list, isAfterPush, overtaken)
    PROVE  \A d \in Depth :
              /\ \A i \in Slot : \/ lists'[d].at[i] \in ToSet(list)
                                 \/ \E j \in Slot : lists'[d].at[i] = lists[d].at[j]
              /\ lists'[d].removals \subseteq lists[d].removals
              /\ d # depth => lists'[d] = lists[d]
  <1>1. CASE Ini.size = 0 /\ list = <<>>
    BY <1>1 DEF SetAttachmentsDataFromServer
  <1>2. CASE ~(Ini.size = 0 /\ list = <<>>)
    <2>1. PICK kept \in Orders(Kept(Ini, list)) :
             lists' = [lists EXCEPT ![depth] = ServerList(Ini, list, kept, isAfterPush)]
      BY <1>2 DEF SetAttachmentsDataFromServer, Ini
    <2> DEFINE b == ServerList(Ini, list, kept, isAfterPush)
    <2>2. depth \in Depth /\ lists \in [Depth -> ListType] /\ Ini \in ListType /\ Ini = lists[depth]
      BY IniTypes DEF Ini
    <2>3. /\ b.removals = IF isAfterPush THEN {} ELSE Ini.removals
          /\ \A i \in Slot : \/ b.at[i] \in Kept(Ini, list) \cup ToSet(list)
                             \/ \E j \in Slot : b.at[i] = Ini.at[j]
      BY <2>2, ListFromServer DEF Reply
    <2>4. \A e \in Kept(Ini, list) : \E j \in Slot : e = Ini.at[j]
      <3>1. Kept(Ini, list) \subseteq Entries(Ini)
        BY <2>2, UnusedOf DEF Kept
      <3> QED BY <2>2, <3>1, EntriesOf DEF Entries
    <2> HIDE DEF b
    <2>5. \A d \in Depth : lists'[d] = IF d = depth THEN b ELSE lists[d]
      BY <2>1, <2>2 DEF b
    <2> QED BY <2>2, <2>3, <2>4, <2>5
  <1> QED BY <1>1, <1>2

\* setAttachmentsDataFromServer lists what agrees.
LEMMA GuidStore ==
    ASSUME TypeInv, GuidInv, NEW list, Reply(list), \A e \in ToSet(list) : Agrees(e),
           NEW isAfterPush \in BOOLEAN, NEW overtaken \in BOOLEAN,
           SetAttachmentsDataFromServer(list, isAfterPush, overtaken)
    PROVE  /\ \A d \in Depth, i \in Slot :
                 Agrees(lists'[d].at[i]) \/ lists'[d].at[i].guid = NoGuid
           /\ \A d \in Depth : lists'[d].removals \subseteq 1 .. guids
  BY StoreLeaves DEF GuidInv

\* Marking the page's call as late changes no reply.
LEMMA GuidPageLate ==
    ASSUME TypeInv, GuidInv
    PROVE  \A p \in Thread : \A e \in ToSet(PageLate[p].list) : Agrees(e)
  BY PageLateType DEF CallType, TypeInv, TypeOK, GuidInv

\* The empty reply has no resource.
LEMMA NoneListed == ToSet(<<>>) = {}
  BY DEF ToSet

\* At the start the server has at most one resource, which is listed.
LEMMA GuidInit == Init => GuidInv
  <1> SUFFICES ASSUME Init PROVE GuidInv
    OBVIOUS
  <1>1. PICK first \in SUBSET {[hash |-> h, guid |-> 1] : h \in Hash} :
           /\ Cardinality(first) <= 1
           /\ srv = first /\ guids = Cardinality(first)
           /\ lists = [d \in Depth |->
                 IF d > 0 \/ first = {} THEN NoList
                 ELSE [NoList EXCEPT !.size = 1, !.at[1] = CHOOSE r \in first : TRUE]]
           /\ sy = Idle /\ call = [p \in Thread |-> NoCall]
    BY DEF Init
  <1> DEFINE one == CHOOSE r \in first : TRUE
             start == [d \in Depth |-> IF d > 0 \/ first = {} THEN NoList
                                       ELSE [NoList EXCEPT !.size = 1, !.at[1] = one]]
  <1>2. lists = start
    BY <1>1, Zenon
  <1>3. /\ srv = first /\ guids = Cardinality(first) /\ Cardinality(first) <= 1
        /\ sy = Idle /\ call = [p \in Thread |-> NoCall]
    BY <1>1, Zenon
  <1>4. first # {} => one \in first
    OBVIOUS
  <1> HIDE DEF one
  <1>5. Blank.guid = 0 /\ NoList.removals = {} /\ \A i \in Slot : NoList.at[i] = Blank
    BY DEF NoList, Blank, NoGuid
  <1>6. /\ \A d \in Depth, i \in Slot : lists[d].at[i] \in first \cup {Blank}
        /\ \A d \in Depth : lists[d].removals = {}
    <2> SUFFICES ASSUME NEW d \in Depth
                 PROVE  /\ \A i \in Slot : lists[d].at[i] \in first \cup {Blank}
                        /\ lists[d].removals = {}
      OBVIOUS
    <2>1. CASE d > 0 \/ first = {}
      <3>1. lists[d] = NoList
        BY <1>2, <2>1
      <3> QED BY <1>5, <3>1
    <2>2. CASE ~(d > 0 \/ first = {})
      <3>1. lists[d] = [NoList EXCEPT !.size = 1, !.at[1] = one]
        BY <1>2, <2>2
      <3>2. \A i \in Slot : lists[d].at[i] \in {one, Blank}
        BY <3>1 DEF NoList
      <3>3. lists[d].removals = {}
        BY <3>1 DEF NoList
      <3> QED BY <1>4, <2>2, <3>2, <3>3
    <2> QED BY <2>1, <2>2
  <1>7. \A r, q \in first : r = q /\ r.guid = 1 /\ guids = 1
    <2> SUFFICES ASSUME NEW r \in first, NEW q \in first
                 PROVE  r = q /\ r.guid = 1 /\ guids = 1
      OBVIOUS
    <2>1. first \subseteq Resource /\ IsFiniteSet(first) /\ Cardinality(first) \in Nat
      <3>1. first \in SUBSET Resource /\ Distinct(first)
        BY Bounds DEF Resource, Distinct
      <3> QED BY <3>1, RepliesOf, FS_CardinalityType
    <2>2. r.guid = 1
      OBVIOUS
    <2>3. Cardinality(first) = 1
      BY <1>3, <2>1, FS_EmptySet
    <2>4. r = q
      <3>1. PICK x : first = {x}
        BY <2>1, <2>3, FS_Singleton
      <3> QED BY <3>1
    <2> QED BY <1>3, <2>2, <2>3, <2>4
  <1>8. \A e \in first \cup {Blank} : Agrees(e)
    <2>1. TypeInv
      BY TypeInit
    <2>2. guids \in Nat
      BY <2>1, Bounds DEF TypeInv, TypeOK
    <2> QED BY <1>3, <1>5, <1>7, <2>2 DEF Agrees
  <1>9. \A p \in Thread : ToSet(call[p].list) = {}
    BY <1>3, NoneListed DEF NoCall
  <1>10. sy.pc \notin Replied
    BY <1>3 DEF Idle, Replied
  <1> QED BY <1>3, <1>6, <1>8, <1>9, <1>10 DEF GuidInv

\* The entries of the array in use agree with the server.
LEMMA GuidEntries ==
    ASSUME TypeInv, GuidInv
    PROVE  \A e \in Entries(Ini) : Agrees(e)
  <1>1. /\ Ini \in ListType /\ depth \in Depth
        /\ \A i \in 1 .. Ini.size : i \in Slot
    BY IniTypes, EntriesOf
  <1>2. \A i \in Slot : Agrees(Ini.at[i])
    BY <1>1 DEF GuidInv, Ini
  <1>3. \A e \in Entries(Ini) : \E i \in 1 .. Ini.size : e = Ini.at[i]
    BY DEF Entries
  <1> QED BY <1>1, <1>2, <1>3

\* The steps of the page preserve the invariant: they give no guids.
LEMMA GuidPage ==
    ASSUME TypeInv, GuidInv, Page
    PROVE  GuidInv'
  <1>0. /\ CallType /\ PageType
    BY DEF TypeInv, TypeOK, CallType, PageType
  <1>g. GuidsGrow /\ UNCHANGED sy
    BY GuidsStay DEF Page, Open, Close, OpenAsk, RemoveData, StartAppend, RemoveFile, RemoveContent, GiveUp,
                  AppendFile, AppendData, AppendContent, SetUnpushed, server
  <1>t. Ini \in ListType /\ Sized(Ini) /\ depth \in Depth /\ lists \in [Depth -> ListType] /\ Ini = lists[depth]
    BY IniTypes DEF Ini
  <1>1. CASE OpenAsk
    <2>1. PICK list \in Orders(srv) :
            call' = [call EXCEPT !["ui"] =
                       [pc |-> "store", list |-> list, shows |-> srvShows, late |-> FALSE]]
      BY <1>1 DEF OpenAsk
    <2>2. ToSet(list) = srv /\ UNCHANGED <<lists, srv>>
      BY <1>1, RepliesOf DEF TypeInv, TypeOK, OpenAsk, server
    <2>3. \A p \in Thread : call'[p].list \in {list, call[p].list}
      BY <1>0, <2>1 DEF CallType
    <2>4. \A p \in Thread : \A e \in ToSet(call'[p].list) : Agrees(e) \/ e \in srv'
      BY <2>2, <2>3 DEF GuidInv
    <2> QED BY <1>g, <2>2, <2>4, GuidStep, GuidsListed DEF GuidInv
  <1>2. ASSUME NEW h \in Hash, RemoveData(h)
        PROVE  GuidInv'
    <2> DEFINE b == RemoveAttachmentData(Ini, h)
    <2>1. lists' = [lists EXCEPT ![depth] = RemoveAttachmentData(Ini, h)] /\ UNCHANGED call
      BY <1>2 DEF RemoveData, Ini
    <2>2. /\ b.removals = Ini.removals \cup {e.guid : e \in {x \in Entries(Ini) : x.hash = h /\ x.guid # NoGuid}}
          /\ \A i \in Slot : b.at[i] \in Entries(Ini) \cup {Ini.at[i]}
      BY <1>2, <1>t, ListRemoved
    <2>3. \A e \in Entries(Ini) : Agrees(e)
      BY GuidEntries
    <2> HIDE DEF b
    <2>4. \A d \in Depth : lists'[d] = IF d = depth THEN b ELSE lists[d]
      BY <1>t, <2>1 DEF b
    <2>5. b.removals \subseteq 1 .. guids
      <3>1. guids \in Nat
        BY Bounds DEF TypeInv, TypeOK
      <3> QED BY <1>t, <2>2, <2>3, <3>1 DEF GuidInv, Agrees, NoGuid
    <2>6. \A i \in Slot : Agrees(b.at[i])
      BY <1>t, <2>2, <2>3 DEF GuidInv
    <2> QED BY <1>g, <2>1, <2>4, <2>5, <2>6, GuidStep DEF GuidInv
  <1>3. CASE AppendData
    <2> DEFINE b == AddAttachmentData(Ini, page.item)
               new == [hash |-> page.item, guid |-> NoGuid]
    <2>1. /\ lists' = [lists EXCEPT ![depth] = AddAttachmentData(Ini, page.item)] /\ UNCHANGED call
          /\ page.item \in Hash
      BY <1>0, <1>3 DEF AppendData, Ini, PageType, Working
    <2>2. /\ b.removals = Ini.removals
          /\ \A i \in Slot : b.at[i] \in {Ini.at[i], new}
      BY <1>t, <2>1, ListAdded
    <2> HIDE DEF b
    <2>3. \A d \in Depth : lists'[d] = IF d = depth THEN b ELSE lists[d]
      BY <1>t, <2>1 DEF b
    <2>4. \A i \in Slot : Agrees(b.at[i]) \/ b.at[i].guid = NoGuid
      BY <1>t, <2>2 DEF GuidInv
    <2> QED BY <1>g, <1>t, <2>1, <2>2, <2>3, <2>4, GuidStep DEF GuidInv
  <1>4. CASE Page /\ ~OpenAsk /\ ~AppendData /\ ~\E h \in Hash : RemoveData(h)
    <2>1. UNCHANGED <<lists, call>>
      BY <1>4 DEF Page, Open, Close, StartAppend, RemoveFile, RemoveContent, GiveUp,
                  AppendFile, AppendContent, SetUnpushed
    <2> QED BY <1>g, <2>1, GuidStep, GuidsListed DEF GuidInv
  <1> QED BY <1>1, <1>2, <1>3, <1>4

\* The steps of fetchNote preserve the invariant.
LEMMA GuidFetch ==
    ASSUME TypeInv, GuidInv, NEW p \in Thread, FetchStore(p) \/ FetchContent(p)
    PROVE  GuidInv'
  <1>0. /\ CallType /\ SyncType
    BY DEF TypeInv, TypeOK, CallType, SyncType
  <1>g. GuidsGrow
    BY GuidsStay DEF FetchStore, FetchContent, server
  <1>1. CASE FetchStore(p)
    <2> DEFINE new == [NoCall EXCEPT !.pc = "content", !.shows = call[p].shows]
    <2>1. /\ SetAttachmentsDataFromServer(call[p].list, FALSE, seen.overtaken \/ (p = "ui" /\ call[p].late))
          /\ call' = [(IF p = "sync" THEN PageLate ELSE call) EXCEPT ![p] = new]
          /\ UNCHANGED sy
      BY <1>1 DEF FetchStore
    <2>2. /\ Reply(call[p].list) /\ (seen.overtaken \/ (p = "ui" /\ call[p].late)) \in BOOLEAN
          /\ \A e \in ToSet(call[p].list) : Agrees(e)
      BY <1>0 DEF TypeInv, TypeOK, GuidInv
    <2>3. new.list = <<>>
      BY DEF NoCall
    <2>4. \A q \in Thread : \A e \in ToSet(call'[q].list) : Agrees(e)
      <3> HIDE DEF new
      <3>1. \A q \in Thread : call'[q] = IF q = p THEN new ELSE (IF p = "sync" THEN PageLate[q] ELSE call[q])
        BY <1>0, <2>1, PageLateType DEF CallType
      <3> QED BY <2>3, <3>1, GuidPageLate, NoneListed DEF GuidInv
    <2>5. /\ \A d \in Depth, i \in Slot :
                 Agrees(lists'[d].at[i]) \/ lists'[d].at[i].guid = NoGuid
          /\ \A d \in Depth : lists'[d].removals \subseteq 1 .. guids
      BY <2>1, <2>2, GuidStore
    <2> QED BY <1>g, <2>1, <2>4, <2>5, GuidStep DEF GuidInv
  <1>2. CASE FetchContent(p)
    <2>1. call' = [call EXCEPT ![p] = NoCall] /\ UNCHANGED lists
      BY <1>2 DEF FetchContent
    <2>2. \A q \in Thread : \A e \in ToSet(call'[q].list) : Agrees(e)
      <3>1. NoCall.list = <<>>
        BY DEF NoCall
      <3> QED BY <1>0, <2>1, <3>1, NoneListed DEF GuidInv, CallType
    <2>3. sy' = sy \/ sy'.pc \notin Replied
      BY <1>0, <1>2 DEF FetchContent, SyncType, AfterFetch, Replied
    <2> QED BY <1>g, <2>1, <2>2, <2>3, GuidStep, GuidsListed DEF GuidInv
  <1> QED BY <1>1, <1>2

\* A push gives each new resource the next guid.
LEMMA UpdateGrows ==
    ASSUME TypeInv, NEW answered \in BOOLEAN, UpdateNote(answered)
    PROVE  GuidsGrow
  <1> DEFINE N == NewHashes(sy.list)
  <1>1. guids' = guids + Cardinality(N)
    BY DEF UpdateNote
  <1>2. PICK new \in Orders(N) :
           srv' = {r \in srv : r.hash \in HashesOf(ToSet(sy.list))}
                  \cup {[hash |-> new[i], guid |-> guids + i] : i \in DOMAIN new}
    BY DEF UpdateNote
  <1>3. new \in [1 .. Cardinality(N) -> N]
    <2> HIDE DEF N
    <2> QED BY DEF Orders
  <1>4. IsFiniteSet(N) /\ Cardinality(N) \in Nat /\ guids \in Nat
    <2>1. N \subseteq HashesOf(ToSet(sy.list))
      BY DEF NewHashes
    <2>2. sy.list \in Seq(Entry) /\ \A e \in ToSet(sy.list) : e \in Entry
      <3>1. sy.list \in Seq(Entry)
        BY DEF TypeInv, TypeOK
      <3> QED BY <3>1, LenProperties, ElementOfSeq DEF ToSet
    <2>3. N \subseteq Hash \cup {None}
      BY <2>1, <2>2 DEF HashesOf, Entry, Blank
    <2>4. IsFiniteSet(Hash \cup {None})
      BY Bounds, FS_AddElement
    <2> HIDE DEF N
    <2> QED BY <2>3, <2>4, Bounds, FS_Subset, FS_CardinalityType DEF TypeInv, TypeOK
  <1> HIDE DEF N
  <1>5. \A r \in srv' \ srv : \E i \in 1 .. Cardinality(N) : r = [hash |-> new[i], guid |-> guids + i]
    BY <1>2, <1>3
  <1>6. \A r \in srv' \ srv : r.guid \in guids + 1 .. guids'
    BY <1>1, <1>4, <1>5
  <1>7. \A r, q \in srv' \ srv : r.guid = q.guid => r.hash = q.hash
    <2> SUFFICES ASSUME NEW r \in srv' \ srv, NEW q \in srv' \ srv, r.guid = q.guid
                 PROVE  r.hash = q.hash
      OBVIOUS
    <2>1. PICK i \in 1 .. Cardinality(N) : r = [hash |-> new[i], guid |-> guids + i]
      BY <1>5
    <2>2. PICK j \in 1 .. Cardinality(N) : q = [hash |-> new[j], guid |-> guids + j]
      BY <1>5
    <2>3. guids + i = guids + j
      BY <2>1, <2>2
    <2>4. i = j
      BY <1>4, <2>3
    <2> QED BY <2>1, <2>2, <2>4
  <1> QED BY <1>1, <1>4, <1>6, <1>7 DEF GuidsGrow

\* The steps of synchronize() preserve the invariant.
LEMMA GuidSync ==
    ASSUME TypeInv, GuidInv, Synchronize
    PROVE  GuidInv'
  <1>0. CallType /\ SyncType /\ srv \in SUBSET Resource /\ Distinct(srv)
    BY DEF TypeInv, TypeOK, CallType, SyncType
  <1>1. CASE SyncAsk
    <2>1. PICK list \in Orders(srv) :
            call' = [call EXCEPT !["sync"] =
                       [pc |-> "store", list |-> list, shows |-> srvShows, late |-> FALSE]]
      BY <1>1 DEF SyncAsk
    <2>2. ToSet(list) = srv /\ UNCHANGED <<lists, srv, guids, sy>>
      BY <1>0, <1>1, RepliesOf DEF SyncAsk, server
    <2>3. \A p \in Thread : call'[p].list \in {list, call[p].list}
      BY <1>0, <2>1 DEF CallType
    <2>4. \A p \in Thread : \A e \in ToSet(call'[p].list) : Agrees(e) \/ e \in srv'
      BY <2>2, <2>3 DEF GuidInv
    <2> QED BY <2>2, <2>4, GuidsStay, GuidStep, GuidsListed DEF GuidInv
  <1>2. CASE Pull
    <2>1. UNCHANGED <<lists, srv, guids, call>>
      BY <1>2 DEF Pull, server
    <2>2. sy'.pc \in Replied => \A e \in ToSet(sy'.list) : e \in srv'
      <3>1. CASE pulled
        BY <1>2, <3>1 DEF Pull, Idle, Replied
      <3>2. CASE ~pulled
        <4>1. PICK list \in Orders(srv) :
                 sy' = [pc |-> "gist", list |-> list, shows |-> srvShows, fresh |-> TRUE]
          BY <1>2, <3>2 DEF Pull
        <4> QED BY <1>0, <2>1, <4>1, RepliesOf
      <3> QED BY <3>1, <3>2
    <2> QED BY <2>1, <2>2, GuidsStay, GuidStep, GuidsListed DEF GuidInv
  <1>3. CASE StoreNoteGist \/ StorePushedNote
    <2>1. /\ UNCHANGED <<lists, srv, guids, call>> /\ sy.pc \in Replied /\ sy'.list = sy.list
      BY <1>0, <1>3 DEF StoreNoteGist, StorePushedNote, Replied, SyncType, server
    <2> QED BY <2>1, GuidsStay, GuidStep, GuidsListed DEF GuidInv
  <1>4. CASE StoreNoteAttachments \/ StorePushedAttachments
    <2>1. PICK after \in BOOLEAN : SetAttachmentsDataFromServer(sy.list, after, FALSE)
      BY <1>4 DEF StoreNoteAttachments, StorePushedAttachments
    <2>2. /\ call' = PageLate /\ UNCHANGED <<srv, guids>>
          /\ sy.pc \in Replied /\ sy'.pc \notin Replied
      BY <1>0, <1>4 DEF StoreNoteAttachments, StorePushedAttachments, SyncType, Replied, server
    <2>3. Reply(sy.list) /\ \A e \in ToSet(sy.list) : Agrees(e)
      BY <1>0, <2>2 DEF SyncType, GuidInv
    <2>4. /\ \A d \in Depth, i \in Slot :
                 Agrees(lists'[d].at[i]) \/ lists'[d].at[i].guid = NoGuid
          /\ \A d \in Depth : lists'[d].removals \subseteq 1 .. guids
      BY <2>1, <2>3, GuidStore
    <2> QED BY <2>2, <2>4, GuidPageLate, GuidsStay, GuidStep
  <1>5. ASSUME NEW answered \in BOOLEAN, UpdateNote(answered)
        PROVE  GuidInv'
    <2>1. UNCHANGED <<lists, call>>
      BY <1>5 DEF UpdateNote
    <2>2. sy'.pc \in Replied => \A e \in ToSet(sy'.list) : e \in srv'
      <3>1. CASE answered
        <4>1. PICK list \in Orders(srv') :
                 sy' = [sy EXCEPT !.pc = "pushedNote", !.list = list, !.fresh = pulled]
          BY <1>5, <3>1 DEF UpdateNote
        <4>2. ToSet(list) = srv'
          BY <1>5, UpdateServer, RepliesOf
        <4> QED BY <1>0, <4>1, <4>2 DEF SyncType
      <3>2. CASE ~answered
        BY <1>5, <3>2 DEF UpdateNote, Idle, Replied
      <3> QED BY <3>1, <3>2
    <2> QED BY <1>5, <2>1, <2>2, UpdateGrows, GuidStep, GuidsListed DEF GuidInv
  <1>6. CASE Begin \/ SyncNoFetch \/ ClearDeferred
    <2>1. UNCHANGED <<lists, srv, guids, call>> /\ sy'.pc \notin Replied
      BY <1>0, <1>6 DEF Begin, SyncNoFetch, ClearDeferred, Replied, SyncType, AfterFetch, server
    <2> QED BY <2>1, GuidsStay, GuidStep, GuidsListed DEF GuidInv
  <1>7. CASE Checkpoint \/ Pushed \/ UpdateNoteFails
    <2>1. UNCHANGED <<lists, srv, guids, call>> /\ sy'.pc \notin Replied
      BY <1>0, <1>7 DEF Checkpoint, Pushed, UpdateNoteFails, Idle, Replied, server
    <2> QED BY <2>1, GuidsStay, GuidStep, GuidsListed DEF GuidInv
  <1>8. CASE ReadNote
    <2>1. UNCHANGED <<lists, srv, guids, call>> /\ sy'.pc \notin Replied
      BY <1>8 DEF ReadNote, Idle, Replied, server
    <2> QED BY <2>1, GuidsStay, GuidStep, GuidsListed DEF GuidInv
  <1>9. CASE SetEdamNoteResources
    <2>1. UNCHANGED <<lists, srv, guids, call>> /\ sy'.pc \notin Replied
      BY <1>0, <1>9 DEF SetEdamNoteResources, Idle, Replied, SyncType, server
    <2> QED BY <2>1, GuidsStay, GuidStep, GuidsListed DEF GuidInv
  <1> QED BY <1>1, <1>2, <1>3, <1>4, <1>5, <1>6, <1>7, <1>8, <1>9 DEF Synchronize

\* Another client's resource gets the next guid.
LEMMA OtherGrows ==
    ASSUME TypeInv, OtherClient
    PROVE  GuidsGrow
  <1>0. guids \in Nat
    BY Bounds DEF TypeInv, TypeOK
  <1>1. ASSUME NEW h \in Hash, ServerAdds(h)
        PROVE  GuidsGrow
    <2> DEFINE new == [hash |-> h, guid |-> guids + 1]
    <2>1. guids' = guids + 1 /\ srv' = srv \cup {new}
      BY <1>1 DEF ServerAdds, ServerChanges
    <2>2. new.guid = guids + 1
      OBVIOUS
    <2> HIDE DEF new
    <2> QED BY <1>0, <2>1, <2>2 DEF GuidsGrow
  <1>2. ASSUME NEW h \in Hash, ServerRemoves(h)
        PROVE  GuidsGrow
    <2>1. guids' = guids /\ srv' \subseteq srv
      BY <1>2 DEF ServerRemoves, ServerChanges
    <2> QED BY <1>0, <2>1 DEF GuidsGrow
  <1>3. CASE ServerTouches
    <2>1. guids' = guids /\ srv' \subseteq srv
      BY <1>3 DEF ServerTouches, ServerChanges
    <2> QED BY <1>0, <2>1 DEF GuidsGrow
  <1> QED BY <1>1, <1>2, <1>3 DEF OtherClient

\* Another client, the cache of settings and a restart preserve the invariant.
LEMMA GuidElse ==
    ASSUME TypeInv, GuidInv, OtherClient \/ Evict \/ Restart
    PROVE  GuidInv'
  <1>0. CallType /\ SyncType
    BY DEF TypeInv, TypeOK, CallType, SyncType
  <1>1. CASE OtherClient
    <2>1. /\ sy' = [sy EXCEPT !.fresh = FALSE] /\ UNCHANGED <<lists, call>>
      BY <1>1 DEF OtherClient, ServerAdds, ServerRemoves, ServerTouches, ServerChanges
    <2>2. sy'.pc = sy.pc /\ sy'.list = sy.list
      BY <1>0, <2>1 DEF SyncType
    <2> QED BY <1>1, <2>1, <2>2, OtherGrows, GuidStep, GuidsListed DEF GuidInv
  <1>2. CASE Evict
    <2>1. UNCHANGED <<lists, srv, guids, sy, call>>
      BY <1>2 DEF Evict, server
    <2> QED BY <2>1, GuidsStay, GuidStep, GuidsListed DEF GuidInv
  <1>3. CASE Restart
    <2>1. /\ UNCHANGED <<lists, srv, guids>> /\ sy'.pc \notin Replied
          /\ \A p \in Thread : call'[p].list = <<>>
      BY <1>3 DEF Restart, Idle, NoCall, Replied, server
    <2> QED BY <2>1, NoneListed, GuidsStay, GuidStep, GuidsListed
  <1> QED BY <1>1, <1>2, <1>3

\* Every step preserves the invariant.
LEMMA GuidNext ==
    ASSUME TypeInv, GuidInv, [Next]_vars
    PROVE  GuidInv'
  <1>1. CASE UNCHANGED vars
    BY <1>1, GuidsStay, GuidStep, GuidsListed DEF vars, server, GuidInv
  <1> QED BY <1>1, GuidPage, GuidFetch, GuidSync, GuidElse DEF Next

-----------------------------------------------------------------------------
(* What the server has.                                                    *)

\* What is there for h: it is listed, or was removed here.
Settled(h) == h \in Listed \cup seen.dropped

\* The resources of the server that are to be removed there.
Removed == {r \in srv : r.guid \in Ini.removals}

\* What was removed here was appended again.
Again(h) ==
    /\ [hash |-> h, guid |-> NoGuid] \in Entries(Ini) /\ h \in files
    /\ \A e \in Entries(Ini) : e.hash = h => e.guid = NoGuid
    /\ ~(page.pc = "removeFile" /\ page.item = h)

\* What becomes of h was decided here: it was removed, or appended again.
Decided(h) ==
    \/ h \in seen.dropped /\ (page.pc = "appendData" /\ page.item = h => h \in files)
    \/ Again(h)

\* The page has changed the content, or is about to write that it has.
Editing == valid \/ page.pc \in {"removeFile", "removeContent"}

\* A reply that synchronize() has not stored yet lacks what was removed here
\* only if the page has removed it since.
Older(list) ==
    \A r \in Removed \ ToSet(list) :
        /\ call["ui"].pc = "off" /\ Editing
        /\ r.hash \in HashesOf(ToSet(list)) \/ Decided(r.hash)

\* So it is for both replies that synchronize() may be about to store.
OlderInv ==
    ~seen.strayed =>
        /\ sy.pc \in {"gist", "attachments"} => Older(sy.list)
        /\ call["sync"].pc = "store" => Older(call["sync"].list)

\* There is such a reply.
Waiting == sy.pc \in {"gist", "attachments"} \/ call["sync"].pc = "store"

\* What is nested deeper than the open groups is empty.
NestedInv ==
    ~seen.strayed =>
        \A d \in Depth : d > depth => lists[d].size = 0 /\ lists[d].removals = {}

\* What the page has asked for has all that is to be removed on the server:
\* while it asks it removes nothing.
PageAskedInv ==
    ~seen.strayed /\ call["ui"].pc = "store" => Removed \subseteq ToSet(call["ui"].list)

\* What is to be removed on the server is settled here.
RemovedInv == ~seen.strayed => \A r \in Removed : Settled(r.hash)

\* NothingForgotten, for every point of synchronize() where no reply of the
\* resources is in hand.
ForgotInv ==
    Current /\ sy.pc \notin Replied /\ ~seen.overtaken /\ ~seen.strayed =>
        \A r \in srv : Settled(r.hash)

\* The invariant that proves NothingForgotten.
ForgetInv == NestedInv /\ PageAskedInv /\ OlderInv /\ RemovedInv /\ ForgotInv

\* A step that leaves the lists, the history and the server alone.
LEMMA StillStep ==
    ASSUME TypeInv, ForgetInv, UNCHANGED <<lists, depth, seen, srv>>,
           Current' /\ sy'.pc \notin Replied => Current /\ sy.pc \notin Replied,
           call'["ui"].pc = "store" => \/ call["ui"].pc = "store" /\ call'["ui"].list = call["ui"].list
                                       \/ srv \subseteq ToSet(call'["ui"].list),
           sy'.pc \in {"gist", "attachments"} =>
              \/ sy.pc \in {"gist", "attachments"} /\ sy'.list = sy.list
              \/ srv \subseteq ToSet(sy'.list),
           call'["sync"].pc = "store" => \/ call["sync"].pc = "store" /\ call'["sync"].list = call["sync"].list
                                         \/ srv \subseteq ToSet(call'["sync"].list),
           Waiting /\ Waiting' /\ call["ui"].pc = "off" /\ Editing => call'["ui"].pc = "off" /\ Editing',
           Waiting /\ Waiting' => \A h \in Hash : Decided(h) => Decided(h)'
    PROVE  ForgetInv'
  <1>1. /\ Removed' = Removed /\ Listed' = Listed
        /\ \A r \in Removed : r.hash \in Hash /\ r \in srv
    BY DEF Removed, Listed, Ini, TypeInv, TypeOK, Resource
  <1>2. NestedInv' /\ PageAskedInv' /\ RemovedInv' /\ ForgotInv'
    BY <1>1 DEF ForgetInv, NestedInv, PageAskedInv, RemovedInv, ForgotInv, Settled
  <1>5. ASSUME ~seen'.strayed, sy'.pc \in {"gist", "attachments"}
        PROVE  Older(sy.list)' 
    <2>1. CASE srv \subseteq ToSet(sy'.list)
      BY <1>1, <2>1 DEF Older
    <2>2. CASE sy.pc \in {"gist", "attachments"} /\ sy'.list = sy.list
      <3>1. Older(sy.list) /\ Waiting /\ Waiting'
        BY <1>5, <2>2 DEF ForgetInv, OlderInv, Waiting
      <3> QED BY <1>1, <2>2, <3>1 DEF Older
    <2> QED BY <1>5, <2>1, <2>2
  <1>6. ASSUME ~seen'.strayed, call'["sync"].pc = "store"
        PROVE  Older(call["sync"].list)' 
    <2>1. CASE srv \subseteq ToSet(call'["sync"].list)
      BY <1>1, <2>1 DEF Older
    <2>2. CASE call["sync"].pc = "store" /\ call'["sync"].list = call["sync"].list
      <3>1. Older(call["sync"].list) /\ Waiting /\ Waiting'
        BY <1>6, <2>2 DEF ForgetInv, OlderInv, Waiting
      <3> QED BY <1>1, <2>2, <3>1 DEF Older
    <2> QED BY <1>6, <2>1, <2>2
  <1> QED BY <1>2, <1>5, <1>6 DEF ForgetInv, OlderInv

\* What the files and the page leave alone.
LEMMA DecidedStays ==
    ASSUME UNCHANGED <<lists, depth, seen, files>>,
           page'.pc \notin {"appendData", "removeFile"} \/ page' = page
    PROVE  \A h \in Hash : Decided(h) => Decided(h)'
  BY DEF Decided, Again, Ini

\* The steps of the page that leave the list alone preserve the invariant.
LEMMA ForgetPageStill ==
    ASSUME TypeInv, OrderInv, ForgetInv, Page, ~AppendData, ~\E h \in Hash : RemoveData(h)
    PROVE  ForgetInv'
  <1>0. /\ PageType /\ CallType
    BY DEF TypeInv, TypeOK, PageType, CallType
  <1>1. CASE OpenAsk
    <2>1. PICK list \in Orders(srv) :
            call' = [call EXCEPT !["ui"] =
                       [pc |-> "store", list |-> list, shows |-> srvShows, late |-> FALSE]]
      BY <1>1 DEF OpenAsk
    <2>2. ToSet(list) = srv
      BY RepliesOf DEF TypeInv, TypeOK
    <2>3. ~Editing /\ UNCHANGED <<lists, depth, seen, srv, pulled, files, page, sy>>
      BY <1>1 DEF OpenAsk, Closed, Editing, Available, server
    <2>4. call'["sync"] = call["sync"] /\ call'["ui"].list = list
      BY <1>0, <2>1 DEF CallType, Thread
    <2> QED BY <2>2, <2>3, <2>4, StillStep, DecidedStays DEF Current
  <1>2. CASE Open \/ Close \/ GiveUp \/ SetUnpushed \/ \E h \in Hash : StartAppend(h)
    <2>1. /\ UNCHANGED <<lists, depth, seen, srv, pulled, files, sy, call, valid>>
          /\ page'.pc \in {"open", "closed", "appendFile"}
          /\ page.pc \notin {"removeFile", "removeContent"}
      <3>1. CASE Open
        <4>1. page = Closed /\ page'.pc = "open" /\ Closed.pc = "closed"
          BY <3>1 DEF Open, Closed
        <4> QED BY <3>1, <4>1 DEF Open, server, note
      <3>3. CASE Close
        <4>1. page.pc = "open" /\ page'.pc = "closed"
          BY <3>3 DEF Close, Closed
        <4> QED BY <3>3, <4>1 DEF Close, server, note
      <3>2. CASE GiveUp \/ SetUnpushed \/ \E h \in Hash : StartAppend(h)
        BY <1>0, <3>2 DEF GiveUp, SetUnpushed, StartAppend, server, note, PageType
      <3> QED BY <1>2, <3>1, <3>2, <3>3
    <2>2. \A h \in Hash : Decided(h) => Decided(h)'
      BY <2>1, DecidedStays
    <2> QED BY <2>1, <2>2, StillStep DEF Current, Editing
  <1>3. CASE RemoveFile
    <2>1. /\ UNCHANGED <<lists, depth, seen, srv, pulled, sy, call, valid>>
          /\ files' = files \ {page.item}
          /\ page.pc = "removeFile" /\ page'.pc = "removeContent"
      BY <1>0, <1>3 DEF RemoveFile, server, note, PageType
    <2>2. \A h \in Hash : Decided(h) => Decided(h)'
      BY <2>1 DEF Decided, Again, Ini
    <2> QED BY <2>1, <2>2, StillStep DEF Current, Editing
  <1>4. CASE AppendFile
    <2>1. /\ UNCHANGED <<lists, depth, seen, srv, pulled, sy, call, valid>>
          /\ files' = files \cup {page.item} /\ page'.item = page.item
          /\ page.pc = "appendFile" /\ page'.pc = "appendData"
      BY <1>0, <1>4 DEF AppendFile, server, note, PageType
    <2>2. \A h \in Hash : Decided(h) => Decided(h)'
      BY <2>1 DEF Decided, Again, Ini
    <2> QED BY <2>1, <2>2, StillStep DEF Current, Editing
  <1>5. CASE RemoveContent \/ AppendContent
    <2>1. /\ UNCHANGED <<lists, depth, seen, srv, pulled, files, sy, call>>
          /\ page'.pc = "flag"
      BY <1>0, <1>5 DEF RemoveContent, AppendContent, server, PageType
    <2>2. valid'
      BY <1>5 DEF RemoveContent, AppendContent, Save, SaveAppended, note
    <2>3. \A h \in Hash : Decided(h) => Decided(h)'
      BY <2>1, DecidedStays
    <2> QED BY <2>1, <2>2, <2>3, StillStep DEF Current, Editing
  <1> QED BY <1>1, <1>2, <1>3, <1>4, <1>5 DEF Page

\* Removing an attachment preserves the invariant: the guids that are to be
\* removed belong to its hash.
LEMMA ForgetRemove ==
    ASSUME TypeInv, OrderInv, GuidInv, ForgetInv, NEW h \in Hash, RemoveData(h)
    PROVE  ForgetInv'
  <1>0. /\ PageType /\ CallType
    BY DEF TypeInv, TypeOK, PageType, CallType
  <1>t. Ini \in ListType /\ Sized(Ini) /\ depth \in Depth /\ lists \in [Depth -> ListType] /\ Ini = lists[depth]
    BY IniTypes DEF Ini
  <1> DEFINE b == RemoveAttachmentData(Ini, h)
  <1>1. /\ lists' = [lists EXCEPT ![depth] = b]
        /\ page' = [page EXCEPT !.pc = "removeFile", !.item = h]
        /\ seen' = [seen EXCEPT !.dropped = @ \cup {h}]
        /\ UNCHANGED <<depth, files, valid, server, sy, call>> /\ page.pc = "open"
    BY DEF RemoveData, Ini, note
  <1>2. /\ b.removals = Ini.removals \cup {e.guid : e \in {x \in Entries(Ini) : x.hash = h /\ x.guid # NoGuid}}
        /\ Entries(b) = {e \in Entries(Ini) : e.hash # h}
        /\ HashesOf(Entries(b)) = HashesOf(Entries(Ini)) \ {h}
    BY <1>t, ListRemoved
  <1> HIDE DEF b
  <1>3. /\ seen'.strayed = seen.strayed /\ seen'.dropped = seen.dropped \cup {h}
        /\ seen'.overtaken = seen.overtaken
        /\ page'.pc = "removeFile" /\ page'.item = h /\ call["ui"].pc = "off"
    BY <1>0, <1>1 DEF TypeInv, TypeOK, PageType, OrderInv, PointInv
  <1>4. /\ Ini' = b /\ \A d \in Depth : d # depth => lists'[d] = lists[d]
        /\ Listed' = Listed \ {h} /\ Entries(Ini)' = {e \in Entries(Ini) : e.hash # h}
    BY <1>t, <1>1, <1>2 DEF Ini, Listed
  <1>5. \A r \in Removed' : r \in Removed \/ r.hash = h
    <2>1. \A e \in Entries(Ini) : Agrees(e)
      BY GuidEntries
    <2> QED BY <1>1, <1>2, <1>4, <2>1 DEF Removed, Agrees, server
  <1>6. \A k \in Hash : Decided(k) \/ k = h => Decided(k)'
    <2>1. \A k \in Hash : k # h /\ Again(k) => Again(k)'
      BY <1>1, <1>3, <1>4 DEF Again
    <2> QED BY <1>3, <2>1 DEF Decided
  <1>7. \A r \in Removed : r.hash \in Hash
    BY DEF Removed, TypeInv, TypeOK, Resource
  <1>8. NestedInv'
    BY <1>1, <1>3, <1>4 DEF ForgetInv, NestedInv, Depth
  <1>9. RemovedInv' /\ ForgotInv' /\ PageAskedInv'
    BY <1>1, <1>3, <1>4, <1>5 DEF ForgetInv, RemovedInv, ForgotInv, PageAskedInv, Settled, Current, server
  <1>10. ASSUME NEW list, Older(list)
         PROVE  Older(list)'
    BY <1>1, <1>3, <1>5, <1>6, <1>7, <1>10 DEF Older, Editing
  <1>11. OlderInv'
    BY <1>1, <1>3, <1>10 DEF ForgetInv, OlderInv
  <1> QED BY <1>8, <1>9, <1>11 DEF ForgetInv

\* Appending an attachment preserves the invariant.
LEMMA ForgetAppend ==
    ASSUME TypeInv, OrderInv, ForgetInv, AppendData, NEW h, h = page.item
    PROVE  ForgetInv'
  <1>0. /\ PageType /\ CallType
    BY DEF TypeInv, TypeOK, PageType, CallType
  <1>t. Ini \in ListType /\ Sized(Ini) /\ depth \in Depth /\ lists \in [Depth -> ListType] /\ Ini = lists[depth]
    BY IniTypes DEF Ini
  <1> DEFINE b == AddAttachmentData(Ini, h)
  <1>1. /\ lists' = [lists EXCEPT ![depth] = b]
        /\ page' = [page EXCEPT !.pc = "appendContent"]
        /\ seen' = [seen EXCEPT !.dropped = @ \ {h}]
        /\ UNCHANGED <<depth, files, valid, server, sy, call>>
        /\ page.pc = "appendData" /\ h \in Hash
    BY <1>0 DEF AppendData, Ini, note, PageType, Working
  <1>2. /\ b.removals = Ini.removals
        /\ Entries(b) = {e \in Entries(Ini) : e.hash # h} \cup {[hash |-> h, guid |-> NoGuid]}
        /\ HashesOf(Entries(b)) = HashesOf(Entries(Ini)) \cup {h}
    BY <1>t, <1>1, ListAdded
  <1> HIDE DEF b
  <1>3. /\ seen'.strayed = seen.strayed /\ seen'.dropped = seen.dropped \ {h}
        /\ seen'.overtaken = seen.overtaken
        /\ page'.pc = "appendContent" /\ call["ui"].pc = "off"
    BY <1>0, <1>1 DEF TypeInv, TypeOK, PageType, OrderInv, PointInv
  <1>4. /\ Ini' = b /\ \A d \in Depth : d # depth => lists'[d] = lists[d]
        /\ Listed' = Listed \cup {h}
        /\ Entries(Ini)' = {e \in Entries(Ini) : e.hash # h} \cup {[hash |-> h, guid |-> NoGuid]}
    BY <1>t, <1>1, <1>2 DEF Ini, Listed
  <1>5. Removed' = Removed
    BY <1>1, <1>2, <1>4 DEF Removed, server
  <1>6. \A k \in Hash : Decided(k) => Decided(k)'
    <2>1. \A k \in Hash : k # h /\ Again(k) => Again(k)'
      BY <1>1, <1>3, <1>4 DEF Again
    <2>2. Decided(h) => Again(h)'
      BY <1>1, <1>3, <1>4 DEF Again, Decided
    <2> QED BY <1>3, <2>1, <2>2 DEF Decided
  <1>7. \A r \in Removed : r.hash \in Hash
    BY DEF Removed, TypeInv, TypeOK, Resource
  <1>8. NestedInv'
    BY <1>1, <1>3, <1>4 DEF ForgetInv, NestedInv, Depth
  <1>9. RemovedInv' /\ ForgotInv' /\ PageAskedInv'
    BY <1>1, <1>3, <1>4, <1>5 DEF ForgetInv, RemovedInv, ForgotInv, PageAskedInv, Settled, Current, server
  <1>10. ASSUME NEW list, Older(list)
         PROVE  Older(list)'
    BY <1>1, <1>3, <1>5, <1>6, <1>7, <1>10 DEF Older, Editing
  <1>11. OlderInv'
    BY <1>1, <1>3, <1>10 DEF ForgetInv, OlderInv
  <1> QED BY <1>8, <1>9, <1>11 DEF ForgetInv

\* What setAttachmentsDataFromServer settles: what the reply has is listed
\* then, or is to be removed on the server and is not listed here; what it has
\* not stays removed, and listed if it was appended again.
LEMMA StoreSettles ==
    ASSUME TypeInv, NEW list, Reply(list), NEW isAfterPush \in BOOLEAN, NEW overtaken \in BOOLEAN,
           SetAttachmentsDataFromServer(list, isAfterPush, overtaken)
    PROVE  /\ seen'.strayed = seen.strayed
           /\ \/ /\ depth' = depth
                 /\ Ini'.removals = IF isAfterPush THEN {} ELSE Ini.removals
                 /\ seen'.overtaken = overtaken
              \/ /\ depth' = depth + 1 /\ UNCHANGED <<lists, seen>>
                 /\ ToSet(list) = {} /\ Listed = {}
           /\ \A h \in HashesOf(ToSet(list)) :
                 \/ h \in Listed'
                 \/ /\ ~isAfterPush /\ h \notin Listed
                    /\ \A e \in ToSet(list) : e.hash = h => e.guid \in Ini.removals
                    /\ h \in seen.dropped => h \in seen'.dropped
           /\ \A h : h \notin HashesOf(ToSet(list)) /\ h \in seen.dropped => h \in seen'.dropped
           /\ \A h : h \notin HashesOf(ToSet(list)) /\ Again(h) => h \in Listed'
  <1>1. CASE Ini.size = 0 /\ list = <<>>
    <2>1. depth' = depth + 1 /\ UNCHANGED <<lists, files, seen>>
      BY <1>1 DEF SetAttachmentsDataFromServer
    <2>2. Listed = {} /\ Entries(Ini) = {}
      <3>1. 1 .. Ini.size = {}
        BY <1>1
      <3> QED BY <3>1 DEF Listed, HashesOf, Entries
    <2>3. ToSet(list) = {} /\ HashesOf(ToSet(list)) = {}
      BY <1>1, NoneListed, EmptyHashes
    <2> QED BY <2>1, <2>2, <2>3 DEF Again
  <1>2. CASE ~(Ini.size = 0 /\ list = <<>>)
    <2>1. PICK kept \in Orders(Kept(Ini, list)) :
             lists' = [lists EXCEPT ![depth] = ServerList(Ini, list, kept, isAfterPush)]
      BY <1>2 DEF SetAttachmentsDataFromServer, Ini
    <2> DEFINE b == ServerList(Ini, list, kept, isAfterPush)
    <2>2. /\ seen' = [seen EXCEPT !.dropped = @ \ Taken(Ini, list, isAfterPush),
                                  !.overtaken = overtaken]
          /\ depth' = depth
      BY <1>2 DEF SetAttachmentsDataFromServer
    <2>3. /\ Kept(Ini, list) \subseteq Entries(b)
          /\ b.removals = IF isAfterPush THEN {} ELSE Ini.removals
          /\ \A e \in ToSet(list) : ~PassedOver(Ini, e, isAfterPush) => e \in Entries(b)
      BY IniTypes, ListFromServer DEF Reply
    <2>4. /\ depth \in Depth /\ lists \in [Depth -> ListType] /\ Ini \in ListType /\ Ini = lists[depth]
          /\ Ini' = b
      BY <2>1, <2>2, IniTypes DEF Ini
    <2>5. /\ seen'.strayed = seen.strayed /\ seen'.overtaken = overtaken
          /\ seen'.dropped = seen.dropped \ Taken(Ini, list, isAfterPush)
      BY <2>2 DEF TypeInv, TypeOK
    <2>6. Listed' = HashesOf(Entries(b))
      BY <2>4 DEF Listed
    <2> HIDE DEF b
    <2>7. Taken(Ini, list, isAfterPush) \subseteq Listed' /\ Taken(Ini, list, isAfterPush) \subseteq HashesOf(ToSet(list))
      BY <2>3, <2>6 DEF Taken, HashesOf
    <2>8. ASSUME NEW h \in HashesOf(ToSet(list)), h \notin Listed'
          PROVE  /\ ~isAfterPush /\ h \notin Listed
                 /\ \A e \in ToSet(list) : e.hash = h => e.guid \in Ini.removals
                 /\ h \in seen.dropped => h \in seen'.dropped
      <3>1. \A e \in ToSet(list) : e.hash = h => PassedOver(Ini, e, isAfterPush)
        BY <2>3, <2>6, <2>8 DEF HashesOf
      <3>2. \E e \in ToSet(list) : e.hash = h
        BY DEF HashesOf
      <3>3. h \notin Taken(Ini, list, isAfterPush)
        BY <2>7, <2>8
      <3> QED BY <2>5, <3>1, <3>2, <3>3 DEF PassedOver, Listed
    <2>9. ASSUME NEW h, h \notin HashesOf(ToSet(list)), Again(h)
          PROVE  h \in Listed'
      <3>1. h \in HashesOf(Entries(Ini))
        <4>1. [hash |-> h, guid |-> NoGuid].hash = h
          OBVIOUS
        <4> QED BY <2>9, <4>1 DEF Again, HashesOf
      <3>2. PICK e \in Unused(Ini, list) : e.hash = h
        BY <2>4, <2>9, <3>1, UnusedOf
      <3>3. e \in Entries(Ini)
        BY <2>4, UnusedOf
      <3>4. e \in Kept(Ini, list)
        BY <2>9, <3>2, <3>3 DEF Kept, Again
      <3> QED BY <2>3, <2>6, <3>2, <3>4 DEF HashesOf
    <2> QED BY <2>2, <2>3, <2>4, <2>5, <2>7, <2>8, <2>9
  <1> QED BY <1>1, <1>2

\* Nothing nested, and what is to be removed on the server, after a reply is
\* stored.
LEMMA StoreNests ==
    ASSUME TypeInv, ForgetInv, UNCHANGED srv,
           NEW list, Reply(list), NEW isAfterPush \in BOOLEAN, NEW overtaken \in BOOLEAN,
           SetAttachmentsDataFromServer(list, isAfterPush, overtaken), ~seen'.strayed
    PROVE  /\ \A d \in Depth : d > depth' => lists'[d].size = 0 /\ lists'[d].removals = {}
           /\ Removed' \subseteq Removed
           /\ isAfterPush => Removed' = {}
           /\ ~seen.strayed
  <1>0. depth \in Depth /\ depth' \in Depth /\ depth \in Nat /\ \A d \in Depth : d \in Nat
    BY IniTypes, SetAttachmentsType DEF Depth
  <1>1. ~seen.strayed /\ depth' \in {depth, depth + 1}
    BY StoreSettles
  <1>2. \A d \in Depth : d > depth' => lists'[d] = lists[d] /\ d > depth
    BY <1>0, <1>1, StoreLeaves
  <1>3. \A d \in Depth : d > depth => lists[d].size = 0 /\ lists[d].removals = {}
    BY <1>1 DEF ForgetInv, NestedInv
  <1>4. Ini'.removals = {} \/ (~isAfterPush /\ Ini'.removals = Ini.removals)
    <2>1. CASE depth' = depth + 1 /\ UNCHANGED lists
      <3>1. Ini' = lists[depth']
        BY <2>1 DEF Ini
      <3> QED BY <1>0, <1>3, <2>1, <3>1
    <2>2. CASE Ini'.removals = IF isAfterPush THEN {} ELSE Ini.removals
      BY <2>2
    <2> QED BY <2>1, <2>2, StoreSettles
  <1> QED BY <1>1, <1>2, <1>3, <1>4 DEF Removed

\* What a reply of all that the server has now settles.
LEMMA StoreAll ==
    ASSUME TypeInv, ForgetInv, UNCHANGED srv,
           NEW list, Reply(list), NEW isAfterPush \in BOOLEAN, NEW overtaken \in BOOLEAN,
           SetAttachmentsDataFromServer(list, isAfterPush, overtaken), ~seen'.strayed,
           NEW r \in srv, r \in ToSet(list)
    PROVE  Settled(r.hash)'
  <1>1. r.hash \in HashesOf(ToSet(list))
    BY DEF HashesOf
  <1>2. ~seen.strayed
    BY StoreSettles
  <1>3. r.guid \in Ini.removals => Settled(r.hash)
    BY <1>2 DEF ForgetInv, RemovedInv, Removed
  <1> QED BY <1>1, <1>3, StoreSettles DEF Settled

\* What is to be removed on the server stays settled, unless an older reply
\* lacks it and nobody has decided here.
LEMMA StoreRemoved ==
    ASSUME TypeInv, ForgetInv, UNCHANGED srv,
           NEW list, Reply(list), NEW isAfterPush \in BOOLEAN, NEW overtaken \in BOOLEAN,
           SetAttachmentsDataFromServer(list, isAfterPush, overtaken), ~seen'.strayed,
           \A r \in Removed \ ToSet(list) : r.hash \in HashesOf(ToSet(list)) \/ Decided(r.hash)
    PROVE  \A r \in Removed : Settled(r.hash)'
  <1> SUFFICES ASSUME NEW r \in Removed
               PROVE  Settled(r.hash)'
    OBVIOUS
  <1>1. r \in srv /\ Settled(r.hash)
    BY StoreSettles DEF Removed, ForgetInv, RemovedInv
  <1>2. CASE r.hash \in HashesOf(ToSet(list))
    BY <1>1, <1>2, StoreSettles DEF Settled
  <1>3. CASE r.hash \notin HashesOf(ToSet(list))
    <2>1. r \notin ToSet(list)
      BY <1>3 DEF HashesOf
    <2>2. Decided(r.hash)
      BY <1>3, <2>1
    <2> QED BY <1>3, <2>2, StoreSettles DEF Settled, Decided
  <1> QED BY <1>2, <1>3

\* Storing a fetched reply preserves the invariant: one that is late is known
\* to be, and one that is not has all that the server has.
LEMMA ForgetFetchStore ==
    ASSUME TypeInv, OrderInv, ForgetInv, NEW p \in Thread, FetchStore(p)
    PROVE  ForgetInv'
  <1>0. /\ PageType /\ CallType /\ SyncType
    BY DEF TypeInv, TypeOK, PageType, CallType, SyncType
  <1> DEFINE new == [NoCall EXCEPT !.pc = "content", !.shows = call[p].shows]
             list == call[p].list
             late == seen.overtaken \/ (p = "ui" /\ call[p].late)
  <1>1. /\ SetAttachmentsDataFromServer(list, FALSE, late)
        /\ call' = [(IF p = "sync" THEN PageLate ELSE call) EXCEPT ![p] = new]
        /\ call[p].pc = "store" /\ UNCHANGED <<srv, pulled, page, sy>>
    BY DEF FetchStore, server
  <1>2. Reply(list) /\ late \in BOOLEAN /\ FALSE \in BOOLEAN
    BY <1>0 DEF TypeInv, TypeOK
  <1>3. new.pc = "content"
    BY DEF NoCall
  <1> HIDE DEF new
  <1>4. CASE seen'.strayed
    BY <1>4 DEF ForgetInv, NestedInv, PageAskedInv, OlderInv, RemovedInv, ForgotInv
  <1>5. CASE ~seen'.strayed
    <2>1. NestedInv' /\ Removed' \subseteq Removed /\ ~seen.strayed
      BY <1>1, <1>2, <1>5, StoreNests DEF NestedInv
    <2>2. CASE p = "sync"
      <3>1. /\ call'["sync"].pc = "content"
            /\ call'["ui"].pc = call["ui"].pc /\ call'["ui"].list = call["ui"].list
        <4>1. call'["sync"] = new /\ call'["ui"] = PageLate["ui"]
          BY <1>0, <1>1, <2>2, PageLateType DEF Thread
        <4> QED BY <1>0, <1>3, <4>1, LateIs
      <3>2. sy.pc \in {"deferred", "decide"}
        BY <1>1, <2>2 DEF OrderInv, PointInv
      <3>3. OlderInv'
        BY <1>1, <3>1, <3>2 DEF OlderInv
      <3>4. PageAskedInv'
        BY <2>1, <3>1 DEF ForgetInv, PageAskedInv
      <3>5. \A r \in Removed \ ToSet(list) : r.hash \in HashesOf(ToSet(list)) \/ Decided(r.hash)
        BY <1>1, <2>1, <2>2 DEF ForgetInv, OlderInv, Older
      <3>6. RemovedInv'
        BY <1>1, <1>2, <1>5, <2>1, <3>5, StoreRemoved DEF RemovedInv
      <3>7. ASSUME Current' PROVE \A r \in srv : Settled(r.hash)'
        <4>1. ToSet(list) = srv
          BY <1>1, <2>2, <3>7 DEF OrderInv, FreshInv, Current
        <4> HIDE DEF list, late
        <4> QED BY <1>1, <1>2, <1>5, <4>1, StoreAll
      <3>8. ForgotInv'
        BY <1>1, <3>7 DEF ForgotInv
      <3> QED BY <2>1, <3>3, <3>4, <3>6, <3>8 DEF ForgetInv
    <2>3. CASE p = "ui"
      <3>1. call'["ui"].pc = "content" /\ call'["sync"] = call["sync"]
        BY <1>0, <1>1, <1>3, <2>3 DEF CallType, Thread
      <3>2. Removed \subseteq ToSet(list) /\ call["ui"].pc # "off"
        BY <1>1, <2>1, <2>3 DEF ForgetInv, PageAskedInv
      <3>3. PageAskedInv'
        BY <3>1 DEF PageAskedInv
      <3>4. ASSUME NEW other, Older(other) PROVE Older(other)'
        BY <2>1, <3>2, <3>4 DEF Older
      <3>5. OlderInv'
        BY <1>1, <2>1, <3>1, <3>4 DEF ForgetInv, OlderInv
      <3>6. RemovedInv'
        BY <1>1, <1>2, <1>5, <2>1, <3>2, StoreRemoved DEF RemovedInv
      <3>7. ASSUME Current', sy'.pc \notin Replied, ~seen'.overtaken PROVE \A r \in srv : Settled(r.hash)'
        <4>1. CASE seen'.overtaken = late
          <5>1. ToSet(list) = srv
            BY <1>1, <2>3, <3>7, <4>1 DEF OrderInv, FreshInv, Current
          <5> HIDE DEF list, late
          <5> QED BY <1>1, <1>2, <1>5, <5>1, StoreAll
        <4>2. CASE UNCHANGED <<lists, seen>> /\ Listed = {}
          <5>1. \A r \in srv : Settled(r.hash)
            BY <1>1, <2>1, <3>7, <4>2 DEF ForgetInv, ForgotInv, Current
          <5> QED BY <4>2, <5>1 DEF Settled
        <4> QED BY <1>1, <1>2, <4>1, <4>2, StoreSettles
      <3>8. ForgotInv'
        BY <1>1, <3>7 DEF ForgotInv
      <3> QED BY <2>1, <3>3, <3>5, <3>6, <3>8 DEF ForgetInv
    <2> QED BY <2>2, <2>3 DEF Thread
  <1> QED BY <1>4, <1>5

\* Storing a pulled reply, or the answer of a push, preserves the invariant.
LEMMA ForgetSyncStore ==
    ASSUME TypeInv, OrderInv, ForgetInv, StoreNoteAttachments \/ StorePushedAttachments
    PROVE  ForgetInv'
  <1>0. /\ PageType /\ CallType /\ SyncType
    BY DEF TypeInv, TypeOK, PageType, CallType, SyncType
  <1> DEFINE after == sy.pc = "pushedAttachments"
  <1>1. /\ SetAttachmentsDataFromServer(sy.list, after, FALSE)
        /\ call' = PageLate /\ UNCHANGED <<srv, pulled, page>>
    <2>1. CASE StoreNoteAttachments
      <3>1. after = FALSE
        BY <2>1 DEF StoreNoteAttachments
      <3> HIDE DEF after
      <3> QED BY <2>1, <3>1 DEF StoreNoteAttachments, server
    <2>2. CASE StorePushedAttachments
      <3>1. after = TRUE
        BY <2>2 DEF StorePushedAttachments
      <3> HIDE DEF after
      <3> QED BY <2>2, <3>1 DEF StorePushedAttachments, server
    <2> QED BY <2>1, <2>2
  <1>2. /\ sy.pc \in Replied /\ sy.pc \notin {"deferred", "decide"}
        /\ sy.pc = "attachments" \/ after
        /\ sy'.pc \in {"decide", "clear"} /\ sy'.pc \notin Replied /\ sy'.fresh = sy.fresh
    BY <1>0 DEF StoreNoteAttachments, StorePushedAttachments, SyncType, Replied
  <1>3. Reply(sy.list) /\ after \in BOOLEAN /\ FALSE \in BOOLEAN
    BY <1>0, <1>2 DEF SyncType
  <1>4. CASE seen'.strayed
    BY <1>4 DEF ForgetInv, NestedInv, PageAskedInv, OlderInv, RemovedInv, ForgotInv
  <1>5. CASE ~seen'.strayed
    <2>1. /\ NestedInv' /\ Removed' \subseteq Removed /\ ~seen.strayed
          /\ after => Removed' = {}
      <3> HIDE DEF after
      <3> QED BY <1>1, <1>3, <1>5, StoreNests DEF NestedInv
    <2>2. /\ call'["sync"].pc = "off"
          /\ call'["ui"].pc = call["ui"].pc /\ call'["ui"].list = call["ui"].list
      BY <1>0, <1>1, <1>2, LateIs DEF OrderInv, PointInv
    <2>3. OlderInv' /\ PageAskedInv'
      BY <1>2, <2>1, <2>2 DEF ForgetInv, OlderInv, PageAskedInv
    <2>4. RemovedInv'
      <3>1. CASE after
        BY <2>1, <3>1 DEF RemovedInv
      <3>2. CASE ~after
        <4>1. \A r \in Removed \ ToSet(sy.list) : r.hash \in HashesOf(ToSet(sy.list)) \/ Decided(r.hash)
          BY <1>2, <2>1, <3>2 DEF ForgetInv, OlderInv, Older
        <4> HIDE DEF after
        <4> QED BY <1>1, <1>3, <1>5, <2>1, <4>1, StoreRemoved DEF RemovedInv
      <3> QED BY <3>1, <3>2
    <2>5. ASSUME Current' PROVE \A r \in srv : Settled(r.hash)'
      <3>1. ToSet(sy.list) = srv
        BY <1>1, <1>2, <2>5 DEF OrderInv, FreshInv, Current
      <3> HIDE DEF after
      <3> QED BY <1>1, <1>3, <1>5, <3>1, StoreAll
    <2>6. ForgotInv'
      BY <1>1, <2>5 DEF ForgotInv
    <2> QED BY <2>1, <2>3, <2>4, <2>6 DEF ForgetInv
  <1> QED BY <1>4, <1>5

\* New resources have new guids: none of them is to be removed.
LEMMA RemovedShrinks ==
    ASSUME TypeInv, GuidInv, GuidsGrow, UNCHANGED <<lists, depth>>
    PROVE  Removed' \subseteq Removed /\ Listed' = Listed
  <1>1. Ini' = Ini /\ Ini.removals \subseteq 1 .. guids /\ guids \in Nat
    BY IniTypes, Bounds DEF Ini, GuidInv, TypeInv, TypeOK
  <1>2. \A r \in srv' : r.guid \in 1 .. guids => r \in srv
    BY <1>1 DEF GuidsGrow
  <1> QED BY <1>1, <1>2 DEF Removed, Listed

\* Storing a fetched content preserves the invariant.
LEMMA ForgetContent ==
    ASSUME TypeInv, OrderInv, ForgetInv, NEW p \in Thread, FetchContent(p)
    PROVE  ForgetInv'
  <1>0. /\ PageType /\ CallType /\ SyncType
    BY DEF TypeInv, TypeOK, PageType, CallType, SyncType
  <1>1. /\ call[p].pc = "content" /\ UNCHANGED <<lists, depth, seen, srv, pulled, files>>
        /\ call' = [call EXCEPT ![p] = NoCall]
    BY DEF FetchContent, server
  <1>2. NoCall.pc = "off"
    BY DEF NoCall
  <1>3. CASE p = "sync"
    <2>1. /\ call'["sync"].pc = "off" /\ call'["ui"] = call["ui"] /\ page' = page
          /\ sy' = [sy EXCEPT !.pc = AfterFetch]
      BY <1>0, <1>1, <1>2, <1>3 DEF CallType, Thread, FetchContent
    <2>2. /\ sy.pc \notin Replied /\ sy'.pc \notin Replied /\ sy'.fresh = sy.fresh
          /\ sy'.pc \notin {"gist", "attachments"}
      BY <1>0, <1>1, <1>3, <2>1 DEF OrderInv, PointInv, Replied, SyncType, AfterFetch
    <2>3. ~Waiting'
      BY <2>1, <2>2 DEF Waiting
    <2> QED BY <1>1, <2>1, <2>2, <2>3, StillStep DEF Current
  <1>4. CASE p = "ui"
    <2>1. call'["ui"].pc = "off" /\ call'["sync"] = call["sync"] /\ sy' = sy /\ page'.pc = "open"
      BY <1>0, <1>1, <1>2, <1>4 DEF CallType, Thread, FetchContent, Closed
    <2>2. \A h \in Hash : Decided(h) => Decided(h)'
      BY <1>1, <2>1, DecidedStays
    <2> QED BY <1>1, <1>4, <2>1, <2>2, StillStep DEF Current
  <1> QED BY <1>3, <1>4 DEF Thread

\* The other steps of synchronize() preserve the invariant.
LEMMA ForgetSync ==
    ASSUME TypeInv, OrderInv, GuidInv, ForgetInv, Synchronize, ~StoreNoteAttachments, ~StorePushedAttachments
    PROVE  ForgetInv'
  <1>0. CallType /\ SyncType /\ srv \in SUBSET Resource /\ Distinct(srv)
    BY DEF TypeInv, TypeOK, CallType, SyncType
  <1>1. CASE SyncAsk
    <2>1. PICK list \in Orders(srv) :
            call' = [call EXCEPT !["sync"] =
                       [pc |-> "store", list |-> list, shows |-> srvShows, late |-> FALSE]]
      BY <1>1 DEF SyncAsk
    <2>2. ToSet(list) = srv
      BY <1>0, RepliesOf
    <2>3. UNCHANGED <<lists, depth, seen, files, valid, srv, pulled, page, sy>>
      BY <1>1 DEF SyncAsk, server, note
    <2>4. call'["ui"] = call["ui"] /\ call'["sync"].list = list
      BY <1>0, <2>1 DEF CallType, Thread
    <2> QED BY <2>2, <2>3, <2>4, StillStep, DecidedStays DEF Current, Editing
  <1>2. CASE Pull
    <2>1. /\ sy.pc = "pull" /\ UNCHANGED <<lists, depth, seen, files, valid, srv, pulled, page, call>>
      BY <1>2 DEF Pull, server, note
    <2>2. CASE pulled
      <3>1. sy'.pc = "push"
        BY <1>2, <2>2 DEF Pull, Idle
      <3>2. sy.pc \notin Replied
        BY <2>1 DEF Replied
      <3> QED BY <2>1, <2>2, <3>1, <3>2, StillStep, DecidedStays DEF Current, Editing
    <2>3. CASE ~pulled
      <3>1. PICK list \in Orders(srv) :
               sy' = [pc |-> "gist", list |-> list, shows |-> srvShows, fresh |-> TRUE]
        BY <1>2, <2>3 DEF Pull
      <3>2. ToSet(sy'.list) = srv /\ sy'.pc \in Replied
        BY <1>0, <3>1, RepliesOf DEF Replied
      <3> QED BY <2>1, <3>2, StillStep, DecidedStays DEF Editing
    <2> QED BY <2>2, <2>3
  <1>3. CASE StoreNoteGist
    <2>1. /\ UNCHANGED <<lists, depth, seen, files, valid, srv, pulled, page, call>>
          /\ sy.pc = "gist" /\ sy'.pc = "attachments" /\ sy'.list = sy.list
      BY <1>0, <1>3 DEF StoreNoteGist, SyncType, server
    <2>2. sy'.pc \in Replied
      BY <2>1 DEF Replied
    <2> QED BY <2>1, <2>2, StillStep, DecidedStays DEF Editing
  <1>4. CASE StorePushedNote
    <2>1. /\ UNCHANGED <<lists, depth, seen, files, srv, pulled, page, call>>
          /\ sy.pc = "pushedNote" /\ sy'.pc = "pushedAttachments"
      BY <1>0, <1>4 DEF StorePushedNote, SyncType, server
    <2>2. sy'.pc \in Replied /\ ~Waiting
      BY <2>1 DEF Replied, Waiting, OrderInv, PointInv
    <2> QED BY <2>1, <2>2, StillStep
  <1>5. CASE Begin \/ SyncNoFetch \/ ClearDeferred
    <2>1. /\ UNCHANGED <<lists, depth, seen, files, valid, srv, pulled, page, call>>
          /\ sy.pc \notin Replied /\ sy'.pc \notin {"gist", "attachments"} /\ sy'.fresh = sy.fresh
      BY <1>0, <1>5 DEF Begin, SyncNoFetch, ClearDeferred, Replied, SyncType, AfterFetch, server, note, Idle
    <2> QED BY <2>1, StillStep, DecidedStays DEF Current, Editing
  <1>6. CASE Checkpoint \/ Pushed
    <2>1. /\ UNCHANGED <<lists, depth, seen, files, valid, srv, page, call>>
          /\ sy'.pc \in {"idle", "push"}
          /\ pulled' = sy.fresh /\ ~sy'.fresh
      BY <1>6 DEF Checkpoint, Pushed, Idle, server, note
    <2>2. sy.pc \notin Replied
      BY <1>6 DEF Checkpoint, Pushed, Replied
    <2> QED BY <2>1, <2>2, StillStep, DecidedStays DEF Current, Editing
  <1>7. CASE ReadNote
    <2>1. /\ UNCHANGED <<lists, depth, seen, files, valid, srv, pulled, page, call>>
          /\ sy.pc = "push"
      BY <1>7 DEF ReadNote, server, note
    <2>2. sy'.pc \in {"resources", "clear", "idle"} /\ (sy'.fresh => pulled)
      BY <1>7 DEF ReadNote, Idle
    <2>3. sy.pc \notin Replied
      BY <2>1 DEF Replied
    <2> QED BY <2>1, <2>2, <2>3, StillStep, DecidedStays DEF Current, Editing
  <1>8. CASE SetEdamNoteResources \/ UpdateNoteFails
    <2>1. /\ UNCHANGED <<lists, depth, seen, files, valid, srv, pulled, page, call>>
          /\ sy.pc \in {"resources", "call"}
      BY <1>8 DEF SetEdamNoteResources, UpdateNoteFails, server, note
    <2>2. sy'.pc \in {"call", "idle"} /\ (sy'.fresh => sy.fresh)
      <3>1. \/ sy' = [sy EXCEPT !.pc = "call", !.list = ListOf(Ini)]
            \/ sy' = Idle
        BY <1>8 DEF SetEdamNoteResources, UpdateNoteFails
      <3>2. CASE sy' = [sy EXCEPT !.pc = "call", !.list = ListOf(Ini)]
        <4>1. sy'.pc = "call" /\ sy'.fresh = sy.fresh
          BY <1>0, <3>2 DEF SyncType
        <4> QED BY <4>1
      <3>3. CASE sy' = Idle
        BY <3>3 DEF Idle
      <3> QED BY <3>1, <3>2, <3>3
    <2>3. sy.pc \notin Replied
      BY <2>1 DEF Replied
    <2> QED BY <2>1, <2>2, <2>3, StillStep, DecidedStays DEF Current, Editing
  <1>9. ASSUME NEW answered \in BOOLEAN, UpdateNote(answered)
        PROVE  ForgetInv'
    <2>1. /\ UNCHANGED <<lists, depth, files, page, call>> /\ sy.pc = "call" /\ ~pulled'
          /\ seen' = [seen EXCEPT !.sent = @ \cup HashesOf(srv')]
      BY <1>9 DEF UpdateNote
    <2>2. /\ seen'.dropped = seen.dropped /\ seen'.strayed = seen.strayed
      BY <2>1 DEF TypeInv, TypeOK
    <2>3. sy'.pc = "pushedNote" \/ (sy'.pc = "idle" /\ ~sy'.fresh)
      <3>1. CASE answered
        <4>1. PICK list \in Orders(srv') :
                 sy' = [sy EXCEPT !.pc = "pushedNote", !.list = list, !.fresh = pulled]
          BY <1>9, <3>1 DEF UpdateNote
        <4>2. sy'.pc = "pushedNote"
          BY <1>0, <4>1 DEF SyncType
        <4> QED BY <4>2
      <3>2. CASE ~answered
        BY <1>9, <3>2 DEF UpdateNote, Idle
      <3> QED BY <3>1, <3>2
    <2>4. call["sync"].pc = "off"
      BY <2>1 DEF OrderInv, PointInv
    <2>5. Removed' \subseteq Removed /\ Listed' = Listed
      BY <1>9, <2>1, UpdateGrows, RemovedShrinks
    <2>6. NestedInv' /\ PageAskedInv' /\ RemovedInv'
      BY <2>1, <2>2, <2>5 DEF ForgetInv, NestedInv, PageAskedInv, RemovedInv, Settled
    <2>7. OlderInv' /\ ForgotInv'
      BY <2>1, <2>3, <2>4 DEF OlderInv, ForgotInv, Current, Replied
    <2> QED BY <2>6, <2>7 DEF ForgetInv
  <1> QED BY <1>1, <1>2, <1>3, <1>4, <1>5, <1>6, <1>7, <1>8, <1>9 DEF Synchronize

\* Another client, the cache of settings and a restart preserve the invariant.
LEMMA ForgetElse ==
    ASSUME TypeInv, OrderInv, GuidInv, ForgetInv, OtherClient \/ Evict \/ Restart
    PROVE  ForgetInv'
  <1>0. /\ PageType /\ CallType /\ SyncType
    BY DEF TypeInv, TypeOK, PageType, CallType, SyncType
  <1>1. CASE OtherClient
    <2>1. /\ sy' = [sy EXCEPT !.fresh = FALSE] /\ UNCHANGED <<lists, depth, files, valid, page, call>> /\ ~pulled'
          /\ seen' = [seen EXCEPT !.sent = @ \cup HashesOf(srv')]
      BY <1>1 DEF OtherClient, ServerAdds, ServerRemoves, ServerTouches, ServerChanges, note
    <2>2. /\ seen'.dropped = seen.dropped /\ seen'.strayed = seen.strayed
          /\ sy'.pc = sy.pc /\ sy'.list = sy.list /\ ~sy'.fresh
      BY <1>0, <2>1 DEF TypeInv, TypeOK, SyncType
    <2>3. Removed' \subseteq Removed /\ Listed' = Listed
      BY <1>1, <2>1, OtherGrows, RemovedShrinks
    <2>4. NestedInv' /\ PageAskedInv' /\ RemovedInv'
      BY <2>1, <2>2, <2>3 DEF ForgetInv, NestedInv, PageAskedInv, RemovedInv, Settled
    <2>5. \A h : Decided(h) => Decided(h)'
      BY <2>1, <2>2 DEF Decided, Again, Ini
    <2>6. ASSUME NEW list, Older(list) PROVE Older(list)'
      BY <2>1, <2>3, <2>5, <2>6 DEF Older, Editing
    <2>7. OlderInv'
      BY <2>1, <2>2, <2>6 DEF ForgetInv, OlderInv
    <2>8. ForgotInv'
      BY <2>1, <2>2 DEF ForgotInv, Current
    <2> QED BY <2>4, <2>7, <2>8 DEF ForgetInv
  <1>2. ASSUME Reload
        PROVE  /\ seen'.dropped = seen.dropped /\ seen'.overtaken = seen.overtaken
               /\ ~seen'.strayed => ~seen.strayed /\ depth = 0 /\ depth' = 0
    <2>1. seen'.strayed <=> (seen.strayed \/ depth > 0)
      BY <1>2 DEF Reload, TypeInv, TypeOK
    <2>2. depth \in Nat
      BY DEF TypeInv, TypeOK, Depth
    <2> QED BY <1>2, <2>1, <2>2 DEF Reload, TypeInv, TypeOK
  <1>3. CASE Evict
    <2>1. seen'.strayed
      BY <1>2, <1>3 DEF Evict
    <2> QED BY <2>1 DEF ForgetInv, NestedInv, PageAskedInv, OlderInv, RemovedInv, ForgotInv
  <1>4. CASE Restart
    <2>1. /\ UNCHANGED <<lists, files, srv, pulled>>
          /\ sy'.pc = "idle" /\ ~sy'.fresh /\ call'["ui"].pc = "off" /\ call'["sync"].pc = "off"
      BY <1>4 DEF Restart, Closed, Idle, NoCall, server, Thread
    <2>2. /\ seen'.dropped = seen.dropped /\ seen'.overtaken = seen.overtaken
          /\ ~seen'.strayed => ~seen.strayed /\ depth = 0 /\ depth' = 0
      BY <1>2, <1>4 DEF Restart
    <2>3. ~seen'.strayed => Removed' = Removed /\ Listed' = Listed
      BY <2>1, <2>2 DEF Removed, Listed, Ini
    <2>4. OlderInv' /\ PageAskedInv'
      BY <2>1 DEF OlderInv, PageAskedInv
    <2>5. NestedInv' /\ RemovedInv'
      BY <2>1, <2>2, <2>3 DEF ForgetInv, NestedInv, RemovedInv, Settled
    <2>6. Current' => Current /\ sy.pc \notin Replied
      BY <2>1 DEF Current, OrderInv, FreshInv
    <2>7. ForgotInv'
      BY <2>1, <2>2, <2>3, <2>6 DEF ForgetInv, ForgotInv, Settled
    <2> QED BY <2>4, <2>5, <2>7 DEF ForgetInv
  <1> QED BY <1>1, <1>3, <1>4

\* At the start what the server has is listed.
LEMMA ForgetInit == Init => ForgetInv
  <1> SUFFICES ASSUME Init PROVE ForgetInv
    OBVIOUS
  <1>1. PICK first \in SUBSET {[hash |-> h, guid |-> 1] : h \in Hash} :
           /\ Cardinality(first) <= 1 /\ srv = first
           /\ lists = [d \in Depth |->
                 IF d > 0 \/ first = {} THEN NoList
                 ELSE [NoList EXCEPT !.size = 1, !.at[1] = CHOOSE r \in first : TRUE]]
           /\ depth = 0 /\ sy = Idle /\ call = [p \in Thread |-> NoCall]
    BY DEF Init
  <1> DEFINE one == CHOOSE r \in first : TRUE
             start == [d \in Depth |-> IF d > 0 \/ first = {} THEN NoList
                                       ELSE [NoList EXCEPT !.size = 1, !.at[1] = one]]
  <1>2. lists = start
    BY <1>1, Zenon
  <1>3. srv = first /\ Cardinality(first) <= 1 /\ depth = 0 /\ sy = Idle /\ call = [p \in Thread |-> NoCall]
    BY <1>1, Zenon
  <1>4. first # {} => one \in first
    OBVIOUS
  <1> HIDE DEF one
  <1>5. NoList.size = 0 /\ NoList.removals = {} /\ \A i \in Slot : NoList.at[i] = Blank
    BY DEF NoList
  <1>6. /\ \A d \in Depth : lists[d].removals = {}
        /\ \A d \in Depth : d > 0 => lists[d].size = 0
    <2> SUFFICES ASSUME NEW d \in Depth
                 PROVE  lists[d].removals = {} /\ (d > 0 => lists[d].size = 0)
      OBVIOUS
    <2>1. CASE d > 0 \/ first = {}
      BY <1>2, <1>5, <2>1
    <2>2. CASE ~(d > 0 \/ first = {})
      <3>1. lists[d] = [NoList EXCEPT !.size = 1, !.at[1] = one]
        BY <1>2, <2>2
      <3> QED BY <2>2, <3>1 DEF NoList
    <2> QED BY <2>1, <2>2
  <1>7. 0 \in Depth /\ 1 \in Slot
    <2>1. 0 \in Depth
      BY Bounds DEF Depth
    <2>2. 1 \in Slot
      BY HashNumber DEF MaxLen
    <2> QED BY <2>1, <2>2
  <1>8. Removed = {}
    BY <1>3, <1>6, <1>7 DEF Removed, Ini
  <1>9. \A r \in srv : r.hash \in Listed
    <2> SUFFICES ASSUME NEW r \in first
                 PROVE  r.hash \in Listed
      BY <1>3
    <2>1. lists[0] = [NoList EXCEPT !.size = 1, !.at[1] = one]
      BY <1>2, <1>7
    <2>2. lists[0].size = 1 /\ lists[0].at[1] = one
      BY <1>7, <2>1 DEF NoList
    <2>3. one = r
      <3>1. first \in SUBSET Resource /\ Distinct(first)
        BY Bounds DEF Resource, Distinct
      <3>2. IsFiniteSet(first) /\ Cardinality(first) \in Nat
        BY <3>1, RepliesOf, FS_CardinalityType
      <3>3. Cardinality(first) = 1
        BY <1>3, <3>2, FS_EmptySet
      <3>4. PICK x : first = {x}
        BY <3>2, <3>3, FS_Singleton
      <3> QED BY <1>4, <3>4
    <2>4. one \in Entries(Ini)
      BY <1>3, <2>2 DEF Entries, Ini
    <2> QED BY <2>3, <2>4 DEF Listed, HashesOf
  <1>10. NestedInv
    BY <1>3, <1>6 DEF NestedInv
  <1>11. OlderInv /\ PageAskedInv
    BY <1>3 DEF OlderInv, PageAskedInv, Idle, NoCall, Thread
  <1> QED BY <1>8, <1>9, <1>10, <1>11 DEF ForgetInv, RemovedInv, ForgotInv, Settled

\* Every step preserves the invariant.
LEMMA ForgetNext ==
    ASSUME TypeInv, OrderInv, GuidInv, ForgetInv, [Next]_vars
    PROVE  ForgetInv'
  <1>1. CASE UNCHANGED vars
    BY <1>1 DEF vars, note, server, ForgetInv, NestedInv, PageAskedInv, OlderInv, Older, RemovedInv, ForgotInv,
                Settled, Removed, Listed, Ini, Decided, Again, Editing, Current
  <1>2. CASE Page
    BY <1>2, ForgetPageStill, ForgetRemove, ForgetAppend
  <1>3. CASE Synchronize
    BY <1>3, ForgetSync, ForgetSyncStore
  <1>4. CASE \E p \in Thread : FetchStore(p) \/ FetchContent(p)
    BY <1>4, ForgetFetchStore, ForgetContent
  <1>5. CASE OtherClient \/ Evict \/ Restart
    BY <1>5, ForgetElse
  <1> QED BY <1>1, <1>2, <1>3, <1>4, <1>5 DEF Next

\* Every state of every behaviour of Attachments satisfies NothingForgotten:
\* when the last change of the server is pulled and no sync runs, the list has
\* every resource of the server but those removed here, so that the next push
\* takes no other off the server, whichever replies were stored late, passed
\* over, pushed or interrupted before.
THEOREM ForgottenCorrect == Spec => []NothingForgotten
  <1> DEFINE Inv == TypeInv /\ OrderInv /\ GuidInv /\ ForgetInv
  <1>1. Inv => NothingForgotten
    BY DEF ForgetInv, ForgotInv, NothingForgotten, Settled, Current, Idle, Replied
  <1>2. Inv /\ [Next]_vars => Inv'
    BY TypeNext, OrderNext, GuidNext, ForgetNext
  <1>3. Init => Inv
    BY TypeInit, OrderInit, GuidInit, ForgetInit
  <1> QED BY <1>1, <1>2, <1>3, PTL DEF Spec
================================================================================
