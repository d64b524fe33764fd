------------------------ MODULE CalendarViews_proofs ------------------------
(***************************************************************************)
(* Proof that the maps of a calendar agree with each other and with the    *)
(* rows it follows, and that the parents and the lists of children of an   *)
(* ETMCalendar are those of an orderly source, for every set of items and  *)
(* uids.                                                                   *)
(***************************************************************************)
EXTENDS CalendarViews, FiniteSetTheorems, SequenceTheorems, TLAPS

SourceOK ==
  /\ rows \in RowsType /\ scenario \in Scenarios
  /\ etmPopulated \in BOOLEAN
  /\ pending \in Seq(Ops)

\* The maps, as in MapsAgree.
SameItems ==
  /\ \A u \in Uids : mItemIdByUid[u] # NoItem => ItemOf(u) # NoItem /\ ItemOf(u).uid = u
  /\ \A i \in Shown(mItemById) : mItemIdByUid[mItemById[i].uid] = i
  /\ incidences = Shown(mItemById)
  /\ Shown(mItemsByCollection) = Shown(mItemById)
  /\ ~IsCollection => mItemsByCollection = mItemById

MapsOK ==
  /\ mItemById \in RowsType /\ mItemsByCollection \in RowsType
  /\ mItemIdByUid \in [Uids -> Ids \cup {NoItem}]
  /\ incidences \subseteq Ids
  /\ SameItems

\* A row that the handler has still to go through.
Awaits(s, op, i) == \E n \in DOMAIN s : s[n] = [op |-> op, id |-> i]
Empties(s, i) == Awaits(s, "remove", i) \/ Awaits(s, "clear", NoItem)
Fills(s, i) == Awaits(s, "insert", i) \/ Awaits(s, "update", i)

\* A handler removes before it inserts, and updates one row.
RemovesFirst(s) ==
  \A m, n \in DOMAIN s :
    /\ s[n].op \in {"remove", "clear"} /\ m < n => s[m].op \in {"remove", "clear"}
    /\ s[m].op = "update" => Len(s) = 1

HandlerInv ==
  /\ RemovesFirst(pending)
  /\ \A i \in Ids : Fills(pending, i) => rows[i] # NoItem
  /\ \A i \in Ids : Awaits(pending, "insert", i) =>
       mItemById[i] \in {NoItem, rows[i]} \/ Empties(pending, i)

\* What is shown has a row, and the rows are shown, or will be.
RowsInv ==
  /\ IsTree => pending = <<>> /\ mItemById = NoRows
  /\ \A i \in Ids : mItemById[i] # NoItem => rows[i] # NoItem \/ Empties(pending, i)
  /\ ~IsTree => \A i \in Ids \ (untaken \cup deleted) : rows[i] # NoItem =>
       \/ Fills(pending, i)
       \/ /\ mItemById[i] # NoItem /\ mItemById[i].uid = rows[i].uid
          /\ ~Empties(pending, i)

IInv == SourceOK /\ MapsOK /\ HandlerInv /\ RowsInv

-----------------------------------------------------------------------------
(* What a handler goes through.                                            *)

\* The order of a set names each of its members.
LEMMA OrderNames ==
  ASSUME NEW S \in SUBSET Ids, NEW order \in Orders(S)
  PROVE  /\ order \in Seq(S) /\ Range(order) = S
         /\ \A i \in S : \E n \in DOMAIN order : order[n] = i
<1>1. IsFiniteSet(S) /\ Cardinality(S) \in Nat
  BY IdsAssumption, FS_Subset, FS_CardinalityType
<1> DEFINE D == 1 .. Cardinality(S)
<1>2. order \in [D -> S] /\ \A m, n \in D : m # n => order[m] # order[n]
  BY DEF Orders, SetToSeqs
<1>3. Cardinality(D) = Cardinality(S)
  BY <1>1, FS_Interval
<1>4. order \in Injection(D, S)
  BY <1>2 DEF Injection, IsInjective
<1>5. order \in Surjection(D, S)
  BY <1>1, <1>3, <1>4, FS_Injection
<1>6. \A i \in S : \E n \in DOMAIN order : order[n] = i
  BY <1>2, <1>5 DEF Surjection
<1>7. order \in Seq(S)
  BY <1>1, <1>2, SeqDef
<1>8. Range(order) = S
  BY <1>2, <1>6 DEF Range
<1> QED BY <1>6, <1>7, <1>8

\* The first step, and what it leaves.
LEMMA HeadAwaits ==
  ASSUME NEW s \in Seq(Ops), s # <<>>, RemovesFirst(s)
  PROVE  /\ Tail(s) \in Seq(Ops) /\ Head(s) \in Ops /\ RemovesFirst(Tail(s))
         /\ \A op, i : Awaits(s, op, i) <=> Head(s) = [op |-> op, id |-> i] \/ Awaits(Tail(s), op, i)
         /\ Head(s).op = "update" => Tail(s) = <<>>
         /\ Head(s).op \notin {"remove", "clear"} => \A i : ~Empties(Tail(s), i)
         /\ \A i : ~Awaits(Tail(s), "update", i)
<1>1. /\ Len(s) \in Nat \ {0} /\ DOMAIN s = 1 .. Len(s) /\ Head(s) = s[1] /\ Head(s) \in Ops
      /\ Tail(s) \in Seq(Ops) /\ Len(Tail(s)) = Len(s) - 1
      /\ DOMAIN Tail(s) = 1 .. Len(s) - 1
      /\ \A n \in 1 .. Len(s) - 1 : Tail(s)[n] = s[n + 1]
  BY HeadTailProperties, LenProperties, EmptySeq
<1>2. \A n \in 2 .. Len(s) : n - 1 \in DOMAIN Tail(s) /\ s[n] = Tail(s)[n - 1]
  BY <1>1
<1>3. \A op, i : Awaits(s, op, i) <=> Head(s) = [op |-> op, id |-> i] \/ Awaits(Tail(s), op, i)
  <2> SUFFICES ASSUME NEW op, NEW i
               PROVE  Awaits(s, op, i) <=> Head(s) = [op |-> op, id |-> i] \/ Awaits(Tail(s), op, i)
    OBVIOUS
  <2>1. ASSUME NEW n \in DOMAIN s, s[n] = [op |-> op, id |-> i]
        PROVE  Head(s) = [op |-> op, id |-> i] \/ Awaits(Tail(s), op, i)
    <3>1. CASE n = 1
      BY <1>1, <2>1, <3>1
    <3>2. CASE n # 1
      <4>1. n \in 2 .. Len(s)
        BY <1>1, <3>2
      <4> QED BY <1>2, <2>1, <4>1 DEF Awaits
    <3> QED BY <3>1, <3>2
  <2>2. ASSUME Head(s) = [op |-> op, id |-> i] PROVE Awaits(s, op, i)
    BY <1>1, <2>2 DEF Awaits
  <2>3. ASSUME NEW n \in DOMAIN Tail(s), Tail(s)[n] = [op |-> op, id |-> i]
        PROVE  Awaits(s, op, i)
    BY <1>1, <2>3 DEF Awaits
  <2> QED BY <2>1, <2>2, <2>3 DEF Awaits
<1>4. RemovesFirst(Tail(s))
  <2>1. ASSUME NEW m \in DOMAIN Tail(s), NEW n \in DOMAIN Tail(s)
        PROVE  /\ Tail(s)[n].op \in {"remove", "clear"} /\ m < n => Tail(s)[m].op \in {"remove", "clear"}
               /\ Tail(s)[m].op = "update" => Len(Tail(s)) = 1
    BY <1>1 DEF RemovesFirst
  <2> QED BY <2>1 DEF RemovesFirst
<1>5. \A n \in DOMAIN Tail(s) : Tail(s)[n].op # "update"
  BY <1>1 DEF RemovesFirst
<1>6. Head(s).op = "update" => Tail(s) = <<>>
  <2>1. Head(s).op = "update" => Len(Tail(s)) = 0
    BY <1>1 DEF RemovesFirst
  <2> QED BY <1>1, <2>1, EmptySeq
<1>7. Head(s).op \notin {"remove", "clear"} =>
        \A n \in DOMAIN Tail(s) : Tail(s)[n].op \notin {"remove", "clear"}
  BY <1>1 DEF RemovesFirst
<1>8. Head(s).op \notin {"remove", "clear"} => \A i : ~Empties(Tail(s), i)
  BY <1>7 DEF Empties, Awaits
<1>9. \A i : ~Awaits(Tail(s), "update", i)
  BY <1>5 DEF Awaits
<1> QED BY <1>1, <1>3, <1>4, <1>6, <1>8, <1>9

LEMMA LoadsAwait ==
  ASSUME NEW S \in SUBSET Ids, NEW order \in Orders(S)
  PROVE  /\ Loads(order) \in Seq(Ops)
         /\ \A n \in DOMAIN Loads(order) : Loads(order)[n].op = "insert"
         /\ \A op, i : Awaits(Loads(order), op, i) <=> op = "insert" /\ i \in S
<1>1. order \in Seq(S) /\ \A i \in S : \E n \in DOMAIN order : order[n] = i
  BY OrderNames
<1>2. Len(order) \in Nat /\ order \in [1 .. Len(order) -> S]
  BY <1>1, LenProperties
<1>3. Loads(order) \in [1 .. Len(order) -> Ops]
  BY <1>2 DEF Loads, Ops
<1>4. Loads(order) \in Seq(Ops)
  BY <1>2, <1>3, SeqDef
<1> QED BY <1>1, <1>2, <1>4 DEF Loads, Awaits

LEMMA RemovalsAwait ==
  ASSUME NEW S \in SUBSET Ids, NEW order \in Orders(S)
  PROVE  /\ Removals(order) \in Seq(Ops)
         /\ \A n \in DOMAIN Removals(order) : Removals(order)[n].op = "remove"
         /\ \A op, i : Awaits(Removals(order), op, i) <=> op = "remove" /\ i \in S
<1>1. order \in Seq(S) /\ \A i \in S : \E n \in DOMAIN order : order[n] = i
  BY OrderNames
<1>2. Len(order) \in Nat /\ order \in [1 .. Len(order) -> S]
  BY <1>1, LenProperties
<1>3. Removals(order) \in [1 .. Len(order) -> Ops]
  BY <1>2 DEF Removals, Ops
<1>4. Removals(order) \in Seq(Ops)
  BY <1>2, <1>3, SeqDef
<1> QED BY <1>1, <1>2, <1>4 DEF Removals, Awaits

LEMMA ClearingAwaits ==
  /\ Clearing \in Seq(Ops)
  /\ \A n \in DOMAIN Clearing : Clearing[n].op = "clear"
  /\ \A op, i : Awaits(Clearing, op, i) <=> op = "clear" /\ i = NoItem
BY DEF Clearing, Ops, Awaits

\* A handler that empties and then fills.
LEMMA ConcatAwaits ==
  ASSUME NEW s \in Seq(Ops), NEW t \in Seq(Ops),
         \A n \in DOMAIN s : s[n].op \in {"remove", "clear"},
         \A n \in DOMAIN t : t[n].op = "insert"
  PROVE  /\ s \o t \in Seq(Ops) /\ RemovesFirst(s \o t)
         /\ \A op, i : Awaits(s \o t, op, i) <=> Awaits(s, op, i) \/ Awaits(t, op, i)
<1>1. /\ Len(s) \in Nat /\ DOMAIN s = 1 .. Len(s)
      /\ Len(t) \in Nat /\ DOMAIN t = 1 .. Len(t)
  BY LenProperties
<1>2. /\ s \o t \in Seq(Ops) /\ DOMAIN (s \o t) = 1 .. Len(s) + Len(t)
      /\ \A n \in DOMAIN s : (s \o t)[n] = s[n]
      /\ \A n \in DOMAIN t : (s \o t)[n + Len(s)] = t[n]
      /\ \A n \in Len(s) + 1 .. Len(s) + Len(t) : n - Len(s) \in DOMAIN t /\ (s \o t)[n] = t[n - Len(s)]
  BY <1>1, ConcatProperties, LenProperties
<1>3. RemovesFirst(s \o t)
  <2> SUFFICES ASSUME NEW m \in DOMAIN (s \o t), NEW n \in DOMAIN (s \o t)
               PROVE  /\ (s \o t)[n].op \in {"remove", "clear"} /\ m < n =>
                           (s \o t)[m].op \in {"remove", "clear"}
                      /\ (s \o t)[m].op # "update"
    BY DEF RemovesFirst
  <2>1. \A k \in DOMAIN (s \o t) : k \in DOMAIN s \/ k \in Len(s) + 1 .. Len(s) + Len(t)
    BY <1>1, <1>2
  <2>2. \A k \in Len(s) + 1 .. Len(s) + Len(t) : (s \o t)[k].op = "insert"
    BY <1>2
  <2>3. \A k \in DOMAIN s : (s \o t)[k].op \in {"remove", "clear"}
    BY <1>2
  <2>4. \A k \in DOMAIN s : \A l : l \in Len(s) + 1 .. Len(s) + Len(t) => k < l
    BY <1>1
  <2> HIDE DEF RemovesFirst
  <2> QED BY <1>1, <1>2, <2>1, <2>2, <2>3
<1>4. ASSUME NEW op, NEW i
      PROVE  Awaits(s \o t, op, i) <=> Awaits(s, op, i) \/ Awaits(t, op, i)
  <2>1. ASSUME NEW n \in DOMAIN (s \o t), (s \o t)[n] = [op |-> op, id |-> i]
        PROVE  Awaits(s, op, i) \/ Awaits(t, op, i)
    <3>1. CASE n \in DOMAIN s
      BY <1>2, <2>1, <3>1 DEF Awaits
    <3>2. CASE n \notin DOMAIN s
      <4>1. n \in Len(s) + 1 .. Len(s) + Len(t)
        BY <1>1, <1>2, <3>2
      <4> QED BY <1>2, <2>1, <4>1 DEF Awaits
    <3> QED BY <3>1, <3>2
  <2>2. ASSUME Awaits(s, op, i) PROVE Awaits(s \o t, op, i)
    BY <1>1, <1>2, <2>2 DEF Awaits
  <2>3. ASSUME Awaits(t, op, i) PROVE Awaits(s \o t, op, i)
    <3>1. PICK n \in DOMAIN t : t[n] = [op |-> op, id |-> i]
      BY <2>3 DEF Awaits
    <3>2. n + Len(s) \in DOMAIN (s \o t)
      BY <1>1, <1>2
    <3> QED BY <1>2, <3>1, <3>2 DEF Awaits
  <2> QED BY <2>1, <2>2, <2>3 DEF Awaits
<1> QED BY <1>2, <1>3, <1>4

-----------------------------------------------------------------------------
(* What the operations on the maps do.                                     *)

LEMMA Items ==
  /\ NoItem \notin Ids /\ NoItem \notin Incidence
  /\ \A r \in RowsType, i \in Ids : r[i] # NoItem => r[i] \in Incidence /\ r[i].uid \in Uids
BY IdsAssumption DEF Incidence, RowsType

\* The payload of the item with a uid is the one that MemoryCalendar finds.
LEMMA ExistingIs ==
  ASSUME MapsOK, NEW u \in Uids
  PROVE  /\ Existing(u) # {} <=> mItemIdByUid[u] # NoItem
         /\ mItemIdByUid[u] # NoItem =>
              /\ mItemIdByUid[u] \in Ids /\ mItemById[mItemIdByUid[u]] \in Incidence
              /\ mItemById[mItemIdByUid[u]].uid = u
<1>1. mItemIdByUid[u] # NoItem =>
        /\ mItemIdByUid[u] \in Shown(mItemById) /\ mItemById[mItemIdByUid[u]].uid = u
  BY DEF MapsOK, SameItems, ItemOf, Shown
<1>2. \A j \in incidences : mItemById[j].uid = u => mItemIdByUid[u] = j
  BY DEF MapsOK, SameItems
<1>3. \A j \in incidences : j \in Ids /\ j # NoItem
  BY Items DEF MapsOK
<1> QED BY <1>1, <1>2, <1>3, Items DEF Existing, MapsOK, SameItems, Shown

\* What an operation on row i leaves: it is shown as the model has it, or left out.
Follows(i) ==
  /\ \A j \in Ids : j # i => mItemById'[j] = mItemById[j] /\ (j \in untaken' <=> j \in untaken)
  /\ \/ mItemById'[i] = rows[i] /\ i \notin untaken'
     \/ mItemById'[i] = mItemById[i] /\ i \in untaken'

LEMMA InsertFollows ==
  ASSUME SourceOK, MapsOK, NEW i \in Ids, rows[i] # NoItem, mItemById[i] \in {NoItem, rows[i]},
         InternalInsert(i), UNCHANGED source
  PROVE  MapsOK' /\ Follows(i)
<1> DEFINE inc == rows[i]
<1>1. inc \in Incidence /\ inc # NoItem /\ inc.uid \in Uids
  BY Items DEF SourceOK
<1>2. CASE mItemIdByUid[inc.uid] \notin {NoItem, i}
  BY <1>2 DEF InternalInsert, maps, source, MapsOK, SameItems, ItemOf, IsCollection, Follows
<1>3. CASE mItemIdByUid[inc.uid] \in {NoItem, i}
  <2>1. /\ mItemById' = [mItemById EXCEPT ![i] = inc]
        /\ mItemIdByUid' = [mItemIdByUid EXCEPT ![inc.uid] = i]
        /\ mItemsByCollection' = [mItemsByCollection EXCEPT ![i] = inc]
        /\ incidences' = incidences \cup {i}
        /\ untaken' = untaken \ {i}
        /\ UNCHANGED scenario
    BY <1>3 DEF InternalInsert, source
  <2>2. /\ mItemById' \in RowsType /\ mItemsByCollection' \in RowsType
        /\ mItemIdByUid' \in [Uids -> Ids \cup {NoItem}] /\ incidences' \subseteq Ids
    BY <1>1, <2>1 DEF MapsOK, RowsType
  <2>3. Shown(mItemById)' = Shown(mItemById) \cup {i}
    BY <1>1, <2>1 DEF Shown, MapsOK, RowsType
  <2>4. Shown(mItemsByCollection)' = Shown(mItemsByCollection) \cup {i}
    BY <1>1, <2>1 DEF Shown, MapsOK, RowsType
  <2>5. \A u \in Uids : mItemIdByUid'[u] # NoItem => ItemOf(u)' # NoItem /\ ItemOf(u)'.uid = u
    <3> SUFFICES ASSUME NEW u \in Uids, mItemIdByUid'[u] # NoItem
                 PROVE  mItemById'[mItemIdByUid'[u]] # NoItem /\ mItemById'[mItemIdByUid'[u]].uid = u
      BY DEF ItemOf
    <3>1. CASE u = inc.uid
      BY <1>1, <2>1, <3>1 DEF MapsOK, RowsType
    <3>2. CASE u # inc.uid
      <4>1. mItemIdByUid'[u] = mItemIdByUid[u] /\ mItemIdByUid[u] # NoItem
        BY <2>1, <3>2 DEF MapsOK
      <4>2. PICK j \in Ids : j = mItemIdByUid[u]
        BY <4>1, ExistingIs
      <4>3. mItemById[j] # NoItem /\ mItemById[j].uid = u
        BY <4>1, <4>2, ExistingIs, Items
      <4>4. j # i
        BY <3>2, <4>3
      <4> QED BY <2>1, <4>1, <4>2, <4>3, <4>4 DEF MapsOK, RowsType
    <3> QED BY <3>1, <3>2
  <2>6. \A j \in Shown(mItemById)' : mItemIdByUid'[mItemById'[j].uid] = j
    <3> SUFFICES ASSUME NEW j \in Shown(mItemById) \cup {i}
                 PROVE  mItemIdByUid'[mItemById'[j].uid] = j
      BY <2>3
    <3>1. CASE j = i
      BY <1>1, <2>1, <3>1 DEF MapsOK, RowsType
    <3>2. CASE j # i
      <4>1. /\ j \in Ids /\ mItemById'[j] = mItemById[j] /\ mItemIdByUid[mItemById[j].uid] = j
            /\ mItemById[j].uid \in Uids /\ j # NoItem
        BY <2>1, <3>2, Items DEF MapsOK, SameItems, RowsType, Shown
      <4>2. mItemById[j].uid # inc.uid
        BY <1>3, <3>2, <4>1
      <4> QED BY <2>1, <4>1, <4>2 DEF MapsOK
    <3> QED BY <3>1, <3>2
  <2>7. ~IsCollection => mItemsByCollection' = mItemById'
    BY <2>1 DEF MapsOK, SameItems
  <2>8. SameItems'
    BY <2>1, <2>3, <2>4, <2>5, <2>6, <2>7 DEF MapsOK, SameItems, IsCollection
  <2>9. Follows(i)
    BY <2>1 DEF Follows, MapsOK, RowsType
  <2> QED BY <2>2, <2>8, <2>9 DEF MapsOK
<1> QED BY <1>2, <1>3

LEMMA RemoveFollows ==
  ASSUME MapsOK, NEW i \in Ids, InternalRemove(i), UNCHANGED scenario
  PROVE  /\ MapsOK' /\ mItemById'[i] = NoItem
         /\ \A j \in Ids : j # i => mItemById'[j] = mItemById[j]
<1> DEFINE inc == mItemById[i]
<1>1. CASE inc = NoItem
  BY <1>1 DEF InternalRemove, maps, MapsOK, SameItems, ItemOf, IsCollection
<1>2. CASE inc # NoItem
  <2>1. /\ mItemById' = [mItemById EXCEPT ![i] = NoItem]
        /\ mItemIdByUid' = [mItemIdByUid EXCEPT ![inc.uid] = NoItem]
        /\ mItemsByCollection' = [mItemsByCollection EXCEPT ![i] = NoItem]
        /\ incidences' = incidences \ {i}
    BY <1>2 DEF InternalRemove
  <2>2. /\ mItemById' \in RowsType /\ mItemsByCollection' \in RowsType
        /\ mItemIdByUid' \in [Uids -> Ids \cup {NoItem}] /\ incidences' \subseteq Ids
    BY <2>1 DEF MapsOK, RowsType
  <2>3. /\ Shown(mItemById)' = Shown(mItemById) \ {i}
        /\ Shown(mItemsByCollection)' = Shown(mItemsByCollection) \ {i}
    BY <2>1 DEF Shown, MapsOK, RowsType
  <2>4. mItemIdByUid[inc.uid] = i /\ inc.uid \in Uids
    BY <1>2, Items DEF MapsOK, SameItems, Shown
  <2>5. \A u \in Uids : mItemIdByUid'[u] # NoItem => ItemOf(u)' # NoItem /\ ItemOf(u)'.uid = u
    <3> SUFFICES ASSUME NEW u \in Uids, mItemIdByUid'[u] # NoItem
                 PROVE  mItemById'[mItemIdByUid'[u]] # NoItem /\ mItemById'[mItemIdByUid'[u]].uid = u
      BY DEF ItemOf
    <3>1. u # inc.uid /\ mItemIdByUid'[u] = mItemIdByUid[u]
      BY <2>1, <2>4 DEF MapsOK
    <3>2. PICK j \in Ids : j = mItemIdByUid[u]
      BY <3>1, ExistingIs
    <3>3. mItemById[j] # NoItem /\ mItemById[j].uid = u
      BY <3>1, <3>2, ExistingIs, Items
    <3>4. mItemById'[j] = mItemById[j]
      BY <2>1, <3>1, <3>3 DEF MapsOK, RowsType
    <3> QED BY <3>1, <3>2, <3>3, <3>4
  <2>6. \A j \in Shown(mItemById)' : mItemIdByUid'[mItemById'[j].uid] = j
    <3> SUFFICES ASSUME NEW j \in Shown(mItemById) \ {i}
                 PROVE  mItemIdByUid'[mItemById'[j].uid] = j
      BY <2>3
    <3>1. /\ mItemById'[j] = mItemById[j] /\ mItemIdByUid[mItemById[j].uid] = j
          /\ mItemById[j].uid \in Uids
      BY <2>1, Items DEF MapsOK, SameItems, RowsType, Shown
    <3>2. mItemById[j].uid # inc.uid
      BY <2>4, <3>1
    <3> QED BY <2>1, <3>1, <3>2 DEF MapsOK
  <2>7. SameItems'
    BY <2>1, <2>3, <2>5, <2>6 DEF MapsOK, SameItems, IsCollection
  <2> QED BY <2>1, <2>2, <2>7 DEF MapsOK, RowsType
<1> QED BY <1>1, <1>2

LEMMA ClearFollows ==
  ASSUME MapsOK, ClearAll, UNCHANGED scenario
  PROVE  MapsOK' /\ \A j \in Ids : mItemById'[j] = NoItem
<1>1. /\ mItemById' = NoRows /\ mItemsByCollection' = NoRows
      /\ mItemIdByUid' = [u \in Uids |-> NoItem] /\ incidences' = {}
  BY DEF ClearAll, MapsOK, SameItems
<1>2. NoRows \in RowsType /\ Shown(NoRows) = {} /\ \A j \in Ids : NoRows[j] = NoItem
  BY DEF NoRows, RowsType, Shown
<1>3. Shown(mItemById)' = {} /\ Shown(mItemsByCollection)' = {}
  BY <1>1, <1>2 DEF Shown
<1>4. SameItems'
  BY <1>1, <1>3 DEF SameItems
<1> QED BY <1>1, <1>2, <1>4 DEF MapsOK

LEMMA UpdateFollows ==
  ASSUME SourceOK, MapsOK, NEW i \in Ids, rows[i] # NoItem, Update(i), UNCHANGED source
  PROVE  MapsOK' /\ Follows(i)
<1> DEFINE inc == rows[i]
           old == mItemById[i].uid
<1>1. inc \in Incidence /\ inc # NoItem /\ inc.uid \in Uids /\ UNCHANGED scenario
  BY Items DEF SourceOK, source
<1>2. CASE IsLeftOut(i)
  BY <1>1, <1>2 DEF Update, LeaveOut, maps, MapsOK, SameItems, ItemOf, IsCollection, Follows
<1>3. CASE ~IsLeftOut(i)
  <2>1. /\ mItemById' = [mItemById EXCEPT ![i] = inc]
        /\ untaken' = untaken \ {i}
        /\ mItemsByCollection' \in {mItemsByCollection, [mItemsByCollection EXCEPT ![i] = inc]}
        /\ ~IsCollection => mItemsByCollection' = [mItemsByCollection EXCEPT ![i] = inc]
        /\ incidences' = incidences
        /\ Existing(inc.uid) # {} => UNCHANGED mItemIdByUid
        /\ Existing(inc.uid) = {} => HandleUidChange(i, old, inc.uid)
    BY <1>3 DEF Update, UpdateItem, InternalUpdate, HandleUidChange
  <2>2. mItemById[i] # NoItem /\ (Existing(inc.uid) # {} => mItemIdByUid[inc.uid] = i)
    BY <1>1, <1>3, ExistingIs, Items DEF IsLeftOut
  <2>3. old \in Uids /\ mItemIdByUid[old] = i /\ i # NoItem
    BY <2>2, Items DEF MapsOK, SameItems, Shown
  <2>4. Existing(inc.uid) # {} => inc.uid = old
    BY <1>1, <2>2, <2>3, ExistingIs
  <2>5. Existing(inc.uid) = {} =>
          inc.uid # old /\ mItemIdByUid[inc.uid] = NoItem
            /\ mItemIdByUid' = [mItemIdByUid EXCEPT ![inc.uid] = i, ![old] = NoItem]
    <3> SUFFICES ASSUME Existing(inc.uid) = {}
                 PROVE  inc.uid # old /\ mItemIdByUid[inc.uid] = NoItem
                          /\ mItemIdByUid' = [mItemIdByUid EXCEPT ![inc.uid] = i, ![old] = NoItem]
      OBVIOUS
    <3>1. mItemIdByUid[inc.uid] = NoItem
      BY <1>1, ExistingIs
    <3>2. Existing(old) # {} /\ inc.uid # old
      BY <2>3, <3>1, ExistingIs
    <3> QED BY <2>1, <3>1, <3>2 DEF HandleUidChange, IdMoved
  <2> HIDE DEF old
  <2>6. /\ mItemIdByUid'[inc.uid] = i
        /\ \A u \in Uids : u \notin {inc.uid, old} => mItemIdByUid'[u] = mItemIdByUid[u]
        /\ old # inc.uid => mItemIdByUid'[old] = NoItem
        /\ mItemIdByUid' \in [Uids -> Ids \cup {NoItem}]
    <3>1. CASE Existing(inc.uid) # {}
      BY <1>1, <2>1, <2>2, <2>4, <3>1 DEF MapsOK
    <3>2. CASE Existing(inc.uid) = {}
      BY <1>1, <2>3, <2>5, <3>2 DEF MapsOK
    <3> QED BY <3>1, <3>2
  <2>7. /\ mItemById'[i] = inc /\ mItemById' \in RowsType
        /\ \A j \in Ids : j # i => mItemById'[j] = mItemById[j]
    BY <1>1, <2>1 DEF MapsOK, RowsType
  <2>8. Shown(mItemById)' = Shown(mItemById) /\ i \in Shown(mItemById)
    BY <1>1, <2>2, <2>7 DEF Shown
  <2>9. mItemsByCollection' \in RowsType /\ Shown(mItemsByCollection)' = Shown(mItemsByCollection)
    <3>1. CASE mItemsByCollection' = mItemsByCollection
      BY <3>1 DEF MapsOK, Shown
    <3>2. CASE mItemsByCollection' = [mItemsByCollection EXCEPT ![i] = inc]
      <4>1. i \in Shown(mItemsByCollection)
        BY <2>8 DEF MapsOK, SameItems
      <4> QED BY <1>1, <3>2, <4>1 DEF MapsOK, RowsType, Shown
    <3> QED BY <2>1, <3>1, <3>2
  <2>10. \A u \in Uids : mItemIdByUid'[u] # NoItem => ItemOf(u)' # NoItem /\ ItemOf(u)'.uid = u
    <3> SUFFICES ASSUME NEW u \in Uids, mItemIdByUid'[u] # NoItem
                 PROVE  mItemById'[mItemIdByUid'[u]] # NoItem /\ mItemById'[mItemIdByUid'[u]].uid = u
      BY DEF ItemOf
    <3>1. CASE u = inc.uid
      BY <1>1, <2>6, <2>7, <3>1
    <3>2. CASE u # inc.uid
      <4>1. u # old /\ mItemIdByUid'[u] = mItemIdByUid[u]
        BY <2>6, <3>2
      <4>2. PICK j \in Ids : j = mItemIdByUid[u]
        BY <4>1, ExistingIs
      <4>3. mItemById[j] # NoItem /\ mItemById[j].uid = u
        BY <4>1, <4>2, ExistingIs, Items
      <4>4. j # i
        BY <4>1, <4>3 DEF old
      <4> QED BY <2>7, <4>1, <4>2, <4>3, <4>4
    <3> QED BY <3>1, <3>2
  <2>11. \A j \in Shown(mItemById)' : mItemIdByUid'[mItemById'[j].uid] = j
    <3> SUFFICES ASSUME NEW j \in Shown(mItemById)
                 PROVE  mItemIdByUid'[mItemById'[j].uid] = j
      BY <2>8
    <3>1. CASE j = i
      BY <2>6, <2>7, <3>1
    <3>2. CASE j # i
      <4>1. /\ mItemById'[j] = mItemById[j] /\ mItemIdByUid[mItemById[j].uid] = j
            /\ mItemById[j].uid \in Uids /\ j # NoItem
        BY <2>7, <3>2, Items DEF MapsOK, SameItems, Shown
      <4>2. mItemById[j].uid # old
        BY <2>3, <3>2, <4>1
      <4>3. mItemById[j].uid # inc.uid
        BY <2>2, <2>5, <3>2, <4>1
      <4> QED BY <2>6, <4>1, <4>2, <4>3
    <3> QED BY <3>1, <3>2
  <2>12. ~IsCollection => mItemsByCollection' = mItemById'
    BY <2>1 DEF MapsOK, SameItems
  <2>13. SameItems'
    BY <1>1, <2>1, <2>8, <2>9, <2>10, <2>11, <2>12 DEF MapsOK, SameItems, IsCollection
  <2>14. Follows(i)
    BY <2>1, <2>7 DEF Follows
  <2>15. incidences' \subseteq Ids
    BY <2>1 DEF MapsOK
  <2> QED BY <2>6, <2>7, <2>9, <2>13, <2>14, <2>15 DEF MapsOK
<1> QED BY <1>2, <1>3

LEMMA EditFollows ==
  ASSUME MapsOK, NEW i \in Ids, NEW parent \in Uids \cup {NoUid}, LocalEdit(i, parent)
  PROVE  /\ MapsOK'
         /\ \A j \in Ids : /\ mItemById'[j] # NoItem <=> mItemById[j] # NoItem
                           /\ mItemById[j] # NoItem => mItemById'[j].uid = mItemById[j].uid
<1> DEFINE inc == [mItemById[i] EXCEPT !.relatedTo = parent]
<1>1. /\ mItemById[i] # NoItem /\ UNCHANGED <<scenario, mItemIdByUid, incidences>>
      /\ mItemById' = [mItemById EXCEPT ![i] = inc]
      /\ mItemsByCollection' = IF SamePayload(i) THEN [mItemsByCollection EXCEPT ![i].relatedTo = parent]
                               ELSE mItemsByCollection
  BY DEF LocalEdit, source
<1>2. inc \in Incidence /\ inc.uid = mItemById[i].uid /\ inc # NoItem
  BY <1>1, Items DEF MapsOK, Incidence
<1>3. SamePayload(i) => mItemsByCollection' = [mItemsByCollection EXCEPT ![i] = inc]
  BY <1>1 DEF SamePayload
<1> HIDE DEF inc
<1>4. /\ mItemById' \in RowsType /\ Shown(mItemById)' = Shown(mItemById)
      /\ \A j \in Ids : /\ mItemById'[j] # NoItem <=> mItemById[j] # NoItem
                        /\ mItemById[j] # NoItem => mItemById'[j].uid = mItemById[j].uid
  BY <1>1, <1>2 DEF MapsOK, RowsType, Shown
<1>5. mItemsByCollection' \in RowsType /\ Shown(mItemsByCollection)' = Shown(mItemsByCollection)
  <2>1. CASE SamePayload(i)
    BY <1>1, <1>2, <1>3, <2>1 DEF MapsOK, RowsType, Shown, SamePayload
  <2>2. CASE ~SamePayload(i)
    BY <1>1, <2>2 DEF MapsOK, Shown
  <2> QED BY <2>1, <2>2
<1>6. \A u \in Uids : mItemIdByUid'[u] # NoItem => ItemOf(u)' # NoItem /\ ItemOf(u)'.uid = u
  <2> SUFFICES ASSUME NEW u \in Uids, mItemIdByUid[u] # NoItem
               PROVE  mItemById'[mItemIdByUid[u]] # NoItem /\ mItemById'[mItemIdByUid[u]].uid = u
    BY <1>1 DEF ItemOf
  <2>1. PICK j \in Ids : j = mItemIdByUid[u]
    BY ExistingIs
  <2>2. mItemById[j] # NoItem /\ mItemById[j].uid = u
    BY <2>1, ExistingIs, Items
  <2> QED BY <1>4, <2>1, <2>2
<1>7. \A j \in Shown(mItemById)' : mItemIdByUid'[mItemById'[j].uid] = j
  BY <1>1, <1>4 DEF MapsOK, SameItems, Shown
<1>8. ~IsCollection => mItemsByCollection' = mItemById'
  BY <1>1, <1>3 DEF SamePayload, MapsOK, SameItems
<1>9. SameItems'
  BY <1>1, <1>4, <1>5, <1>6, <1>7, <1>8 DEF MapsOK, SameItems, IsCollection
<1> QED BY <1>1, <1>4, <1>5, <1>9 DEF MapsOK

LEMMA MapsKept ==
  ASSUME MapsOK, UNCHANGED <<maps, scenario>>
  PROVE  MapsOK' /\ UNCHANGED mItemById
BY DEF maps, MapsOK, SameItems, ItemOf, Shown, IsCollection

-----------------------------------------------------------------------------
(* One row of a handler.                                                   *)

LEMMA HandleStep ==
  ASSUME IInv, Handle
  PROVE  IInv'
<1> DEFINE step == Head(pending)
           i == step.id
<1>1. /\ pending # <<>> /\ pending \in Seq(Ops) /\ RemovesFirst(pending)
      /\ pending' = Tail(pending) /\ UNCHANGED source /\ UNCHANGED <<rows, scenario, etmPopulated>>
  BY DEF Handle, source, IInv, SourceOK, HandlerInv
<1>2. /\ pending' \in Seq(Ops) /\ step \in Ops /\ RemovesFirst(pending')
      /\ \A op, j : Awaits(pending, op, j) <=> step = [op |-> op, id |-> j] \/ Awaits(pending', op, j)
      /\ step.op \notin {"remove", "clear"} => \A j : ~Empties(pending', j)
  BY <1>1, HeadAwaits
<1>3. SourceOK' /\ ~IsTree /\ ~IsTree'
  BY <1>1, <1>2 DEF IInv, SourceOK, RowsInv, IsTree
<1>4. CASE step.op \in {"insert", "update"}
  <2>1. step = [op |-> step.op, id |-> i] /\ i \in Ids
    BY <1>2, <1>4 DEF Ops
  <2>2. Awaits(pending, step.op, i) /\ Fills(pending, i)
    BY <1>2, <1>4, <2>1 DEF Fills
  <2>3. rows[i] # NoItem
    BY <2>1, <2>2 DEF IInv, HandlerInv
  <2>4. \A j : ~Empties(pending, j)
    BY <1>2, <1>4, <2>1 DEF Empties
  <2>5. MapsOK' /\ Follows(i) /\ deleted' \in {deleted, deleted \ {i}}
    <3>1. CASE step.op = "insert"
      <4>1. InternalInsert(i) /\ deleted' = deleted \ {i}
        BY <3>1 DEF Handle
      <4>2. mItemById[i] \in {NoItem, rows[i]}
        BY <2>1, <2>2, <2>4, <3>1 DEF IInv, HandlerInv
      <4> HIDE DEF i
      <4> QED BY <1>1, <2>1, <2>3, <4>1, <4>2, InsertFollows DEF IInv
    <3>2. CASE step.op = "update"
      <4>1. Update(i) /\ deleted' = deleted
        BY <3>2 DEF Handle
      <4> HIDE DEF i
      <4> QED BY <1>1, <2>1, <2>3, <4>1, UpdateFollows DEF IInv
    <3> QED BY <1>4, <3>1, <3>2
  <2>6. PICK k \in Ids : k = i
    BY <2>1
  <2>7. /\ \A j \in Ids : j # k => mItemById'[j] = mItemById[j] /\ (j \in untaken' <=> j \in untaken)
        /\ \/ mItemById'[k] = rows[k] /\ k \notin untaken'
           \/ mItemById'[k] = mItemById[k] /\ k \in untaken'
        /\ deleted' \in {deleted, deleted \ {k}} /\ rows[k] # NoItem
        /\ step = [op |-> step.op, id |-> k]
    BY <2>1, <2>3, <2>5, <2>6 DEF Follows
  <2> HIDE DEF i, step
  <2>8. \A j : j # k /\ Fills(pending, j) => Fills(pending', j)
    BY <1>2, <2>7 DEF Fills
  <2>9. \A op, j : Awaits(pending', op, j) => Awaits(pending, op, j)
    BY <1>2
  <2>10. \A j : ~Empties(pending', j)
    BY <1>2, <1>4
  <2>11. HandlerInv'
    <3>1. \A j \in Ids : Fills(pending', j) => rows'[j] # NoItem
      BY <1>1, <2>9 DEF Fills, IInv, HandlerInv
    <3>2. \A j \in Ids : Awaits(pending', "insert", j) => mItemById'[j] \in {NoItem, rows'[j]}
      BY <1>1, <2>4, <2>7, <2>9 DEF IInv, HandlerInv
    <3> QED BY <1>2, <3>1, <3>2 DEF HandlerInv
  <2>12. RowsInv'
    <3>1. \A j \in Ids : mItemById'[j] # NoItem => rows'[j] # NoItem
      BY <1>1, <2>4, <2>7 DEF IInv, RowsInv
    <3>2. ASSUME NEW j \in Ids \ (untaken' \cup deleted'), rows'[j] # NoItem
          PROVE  \/ Fills(pending', j)
                 \/ mItemById'[j] # NoItem /\ mItemById'[j].uid = rows'[j].uid
      BY <1>1, <1>3, <2>7, <2>8, <3>2 DEF IInv, RowsInv
    <3> QED BY <1>3, <2>10, <3>1, <3>2 DEF RowsInv
  <2> QED BY <1>3, <2>5, <2>11, <2>12 DEF IInv
<1>5. CASE step.op = "remove"
  <2>1. step = [op |-> "remove", id |-> i] /\ i \in Ids
    BY <1>2, <1>5 DEF Ops
  <2>2. PICK k \in Ids : k = i
    BY <2>1
  <2>3. InternalRemove(k) /\ UNCHANGED <<untaken, deleted>> /\ step = [op |-> "remove", id |-> k]
    BY <1>5, <2>1, <2>2 DEF Handle
  <2> HIDE DEF i, step
  <2>4. /\ MapsOK' /\ mItemById'[k] = NoItem
        /\ \A j \in Ids : j # k => mItemById'[j] = mItemById[j]
    BY <1>1, <2>3, RemoveFollows DEF IInv
  <2>5. /\ \A j : Fills(pending, j) <=> Fills(pending', j)
        /\ \A j : Awaits(pending, "insert", j) <=> Awaits(pending', "insert", j)
        /\ \A j : j # k => (Empties(pending, j) <=> Empties(pending', j))
        /\ Empties(pending, k)
    BY <1>2, <2>3 DEF Fills, Empties
  <2>6. HandlerInv'
    BY <1>1, <1>2, <2>4, <2>5 DEF IInv, HandlerInv
  <2>7. RowsInv'
    BY <1>1, <1>3, <2>3, <2>4, <2>5 DEF IInv, RowsInv
  <2> QED BY <1>3, <2>4, <2>6, <2>7 DEF IInv
<1>6. CASE step.op = "clear"
  <2>1. step = [op |-> "clear", id |-> NoItem]
    BY <1>2, <1>6 DEF Ops
  <2>2. ClearAll /\ UNCHANGED <<untaken, deleted>>
    BY <1>6 DEF Handle
  <2> HIDE DEF i, step
  <2>3. MapsOK' /\ \A j \in Ids : mItemById'[j] = NoItem
    BY <1>1, <2>2, ClearFollows DEF IInv
  <2>4. /\ \A j : Fills(pending, j) <=> Fills(pending', j)
        /\ \A j : Empties(pending, j)
    BY <1>2, <2>1 DEF Fills, Empties
  <2>5. HandlerInv'
    BY <1>1, <1>2, <2>3, <2>4 DEF IInv, HandlerInv
  <2>6. RowsInv'
    BY <1>1, <1>3, <2>2, <2>3, <2>4 DEF IInv, RowsInv
  <2> QED BY <1>3, <2>3, <2>5, <2>6 DEF IInv
<1> QED BY <1>2, <1>4, <1>5, <1>6 DEF Ops

-----------------------------------------------------------------------------
(* The signals, when no handler runs.                                      *)

LEMMA EmptyAwaits ==
  /\ \A i : ~Fills(<<>>, i) /\ ~Empties(<<>>, i) /\ ~Awaits(<<>>, "insert", i)
  /\ RemovesFirst(<<>>) /\ <<>> \in Seq(Ops)
BY EmptySeq DEF Fills, Empties, Awaits, RemovesFirst

LEMMA OneKindFirst ==
  ASSUME NEW s, NEW op \in {"insert", "remove"}, \A n \in DOMAIN s : s[n].op = op
  PROVE  RemovesFirst(s)
BY DEF RemovesFirst

LEMMA ShownAreIds == \A r : Shown(r) \in SUBSET Ids
BY DEF Shown

\* When idle, what is shown has a row, and the rows are shown.
LEMMA WhenIdle ==
  ASSUME IInv, Idle
  PROVE  /\ \A i \in Ids : mItemById[i] # NoItem => rows[i] # NoItem
         /\ ~IsTree => \A i \in Ids \ (untaken \cup deleted) : rows[i] # NoItem =>
              mItemById[i] # NoItem /\ mItemById[i].uid = rows[i].uid
BY EmptyAwaits DEF IInv, RowsInv, Idle

\* The model's rows keep their type.
LEMMA RowsChange ==
  ASSUME rows \in RowsType
  PROVE  /\ \A batch \in SUBSET Ids : \A new \in [batch -> UsedIncidences] :
              Insertion(new) => rows' \in RowsType /\ UNCHANGED scenario
         /\ \A S : Removal(S) => rows' \in RowsType /\ UNCHANGED scenario
         /\ \A i \in Ids, inc \in UsedIncidences : Change(i, inc) => rows' \in RowsType /\ UNCHANGED scenario
<1>1. UsedIncidences \subseteq Incidence
  BY BoundsAssumption DEF UsedIncidences, Incidence
<1> QED BY <1>1 DEF Insertion, Removal, Change, RowsType, Without, With

LEMMA InsertedStep ==
  ASSUME IInv, ~IsTree, NEW batch \in SUBSET Ids, NEW order \in Orders(batch),
         NEW new \in [batch -> UsedIncidences], RowsInserted(order, new)
  PROVE  IInv'
<1>1. /\ Idle /\ Insertion(new) /\ pending' = Loads(order)
      /\ UNCHANGED <<etmPopulated, maps, untaken, deleted>>
  BY DEF RowsInserted
<1>2. rows' \in RowsType /\ UNCHANGED scenario
  BY <1>1, RowsChange DEF IInv, SourceOK
<1>3. MapsOK' /\ UNCHANGED mItemById
  BY <1>1, <1>2, MapsKept DEF IInv
<1>4. /\ pending' \in Seq(Ops) /\ RemovesFirst(pending')
      /\ \A i : Fills(pending', i) <=> i \in batch
      /\ \A i : Awaits(pending', "insert", i) <=> i \in batch
      /\ \A i : ~Empties(pending', i)
  BY <1>1, LoadsAwait, OneKindFirst DEF Fills, Empties
<1>5. SourceOK'
  BY <1>1, <1>2, <1>4 DEF IInv, SourceOK
<1>6. \A i \in batch : rows[i] = NoItem /\ rows'[i] # NoItem
  <2>1. \A i \in batch : new[i] \in Incidence
    BY BoundsAssumption DEF UsedIncidences, Incidence
  <2> QED BY <1>1, <2>1, Items DEF Insertion
<1>7. \A i \in Ids : i \notin batch => rows'[i] = rows[i]
  BY <1>1 DEF Insertion
<1>8. HandlerInv'
  BY <1>1, <1>3, <1>4, <1>6, WhenIdle DEF HandlerInv
<1>9. RowsInv'
  <2>1. ~IsTree'
    BY <1>2 DEF IsTree
  <2> QED BY <1>1, <1>3, <1>4, <1>6, <1>7, <2>1, WhenIdle DEF RowsInv
<1> QED BY <1>3, <1>5, <1>8, <1>9 DEF IInv

LEMMA RemovedStep ==
  ASSUME IInv, ~IsTree, NEW batch \in SUBSET Ids, NEW order \in Orders(batch), RowsRemoved(order)
  PROVE  IInv'
<1>1. /\ Idle /\ Removal(batch) /\ pending' = Removals(order)
      /\ untaken' = untaken \ batch /\ deleted' = deleted \ batch
      /\ UNCHANGED <<etmPopulated, maps>>
  BY OrderNames DEF RowsRemoved
<1>2. rows' \in RowsType /\ UNCHANGED scenario
  BY <1>1, RowsChange DEF IInv, SourceOK
<1>3. MapsOK' /\ UNCHANGED mItemById
  BY <1>1, <1>2, MapsKept DEF IInv
<1>4. /\ pending' \in Seq(Ops) /\ RemovesFirst(pending')
      /\ \A i : ~Fills(pending', i) /\ ~Awaits(pending', "insert", i)
      /\ \A i : Empties(pending', i) <=> i \in batch
  BY <1>1, RemovalsAwait, OneKindFirst DEF Fills, Empties
<1>5. SourceOK'
  BY <1>1, <1>2, <1>4 DEF IInv, SourceOK
<1>6. \A i \in Ids : rows'[i] = IF i \in batch THEN NoItem ELSE rows[i]
  BY <1>1 DEF Removal, Without
<1>7. HandlerInv'
  BY <1>4 DEF HandlerInv
<1>8. RowsInv'
  <2>1. ~IsTree'
    BY <1>2 DEF IsTree
  <2> QED BY <1>1, <1>3, <1>4, <1>6, <2>1, WhenIdle DEF RowsInv
<1> QED BY <1>3, <1>5, <1>7, <1>8 DEF IInv

LEMMA ChangedStep ==
  ASSUME IInv, ~IsTree, NEW i \in Ids, NEW inc \in UsedIncidences, DataChanged(i, inc)
  PROVE  IInv'
<1>1. /\ Idle /\ Change(i, inc) /\ pending' = <<[op |-> "update", id |-> i]>>
      /\ UNCHANGED <<etmPopulated, maps, untaken, deleted>>
  BY DEF DataChanged
<1>2. rows' \in RowsType /\ UNCHANGED scenario
  BY <1>1, RowsChange DEF IInv, SourceOK
<1>3. MapsOK' /\ UNCHANGED mItemById
  BY <1>1, <1>2, MapsKept DEF IInv
<1>4. /\ pending' \in Seq(Ops) /\ RemovesFirst(pending')
      /\ \A j : Fills(pending', j) <=> j = i
      /\ \A j : ~Empties(pending', j) /\ ~Awaits(pending', "insert", j)
  <2>1. [op |-> "update", id |-> i] \in Ops
    BY DEF Ops
  <2> QED BY <1>1, <2>1 DEF RemovesFirst, Fills, Empties, Awaits
<1>5. SourceOK'
  BY <1>1, <1>2, <1>4 DEF IInv, SourceOK
<1>6. rows'[i] # NoItem /\ \A j \in Ids : j # i => rows'[j] = rows[j]
  <2>1. inc # NoItem
    BY Items, BoundsAssumption DEF UsedIncidences, Incidence
  <2> QED BY <1>1, <2>1 DEF Change, With, IInv, SourceOK, RowsType
<1>7. HandlerInv'
  BY <1>4, <1>6 DEF HandlerInv
<1>8. RowsInv'
  <2>1. ~IsTree'
    BY <1>2 DEF IsTree
  <2> QED BY <1>1, <1>3, <1>4, <1>6, <2>1, WhenIdle DEF RowsInv
<1> QED BY <1>3, <1>5, <1>7, <1>8 DEF IInv

\* A reset: everything that is shown is removed, and what is loaded is all there is.
LEMMA ResetStep ==
  ASSUME IInv, ~IsTree, UNCHANGED <<source, maps, deleted>>,
         pending' \in Seq(Ops), RemovesFirst(pending'),
         \A i : ~Awaits(pending', "update", i),
         \A i \in Ids : Awaits(pending', "insert", i) => rows[i] # NoItem,
         \A i \in Ids : mItemById[i] # NoItem => Empties(pending', i),
         \A i \in Ids \ untaken' : rows[i] # NoItem => Awaits(pending', "insert", i)
  PROVE  IInv'
<1>1. UNCHANGED <<rows, scenario, etmPopulated>>
  BY DEF source
<1>2. MapsOK' /\ UNCHANGED mItemById
  BY <1>1, MapsKept DEF IInv
<1>3. SourceOK'
  BY <1>1 DEF IInv, SourceOK
<1>4. HandlerInv'
  BY <1>1, <1>2 DEF HandlerInv, Fills
<1>5. RowsInv'
  BY <1>1, <1>2 DEF RowsInv, Fills, IsTree
<1> QED BY <1>2, <1>3, <1>4, <1>5 DEF IInv

LEMMA ModelResetStep ==
  ASSUME IInv, ~IsTree, NEW load \in Orders(Shown(rows)), ModelReset(load)
  PROVE  IInv'
<1>1. pending' = Clearing \o Loads(load) /\ UNCHANGED <<source, maps, deleted>>
  BY DEF ModelReset
<1>2. /\ pending' \in Seq(Ops) /\ RemovesFirst(pending')
      /\ \A op, i : Awaits(pending', op, i) <=>
           \/ op = "clear" /\ i = NoItem
           \/ op = "insert" /\ i \in Shown(rows)
  <2> DEFINE s == Clearing
             t == Loads(load)
  <2>1. /\ s \in Seq(Ops) /\ \A n \in DOMAIN s : s[n].op \in {"remove", "clear"}
        /\ t \in Seq(Ops) /\ \A n \in DOMAIN t : t[n].op = "insert"
        /\ \A op, i : Awaits(s, op, i) <=> op = "clear" /\ i = NoItem
        /\ \A op, i : Awaits(t, op, i) <=> op = "insert" /\ i \in Shown(rows)
        /\ pending' = s \o t
    BY <1>1, ClearingAwaits, LoadsAwait, ShownAreIds
  <2> HIDE DEF s, t
  <2> QED BY <2>1, ConcatAwaits
<1>3. \A i : Empties(pending', i)
  BY <1>2 DEF Empties
<1>4. \A i \in Ids : Awaits(pending', "insert", i) <=> rows[i] # NoItem
  BY <1>2 DEF Shown
<1>5. \A i : ~Awaits(pending', "update", i)
  BY <1>2
<1> QED BY <1>1, <1>2, <1>3, <1>4, <1>5, ResetStep

LEMMA CollectionResetStep ==
  ASSUME IInv, ~IsTree, NEW order \in Orders(Shown(mItemsByCollection)),
         NEW load \in Orders(Shown(rows)), CollectionModelReset(order, load)
  PROVE  IInv'
<1>1. /\ pending' = Removals(order) \o Populated(load) /\ UNCHANGED <<source, maps, deleted>>
      /\ untaken' = IF etmPopulated THEN untaken ELSE Shown(rows)
  BY DEF CollectionModelReset
<1>2. /\ Populated(load) \in Seq(Ops)
      /\ \A n \in DOMAIN Populated(load) : Populated(load)[n].op = "insert"
      /\ \A op, i : Awaits(Populated(load), op, i) <=>
           etmPopulated /\ op = "insert" /\ i \in Shown(rows)
  <2>1. CASE etmPopulated
    BY <2>1, LoadsAwait, ShownAreIds DEF Populated
  <2>2. CASE ~etmPopulated
    BY <2>2, EmptyAwaits DEF Populated, Awaits
  <2> QED BY <2>1, <2>2
<1>3. /\ pending' \in Seq(Ops) /\ RemovesFirst(pending')
      /\ \A op, i : Awaits(pending', op, i) <=>
           \/ op = "remove" /\ i \in Shown(mItemsByCollection)
           \/ Awaits(Populated(load), op, i)
  <2> DEFINE s == Removals(order)
             t == Populated(load)
  <2>1. /\ s \in Seq(Ops) /\ \A n \in DOMAIN s : s[n].op \in {"remove", "clear"}
        /\ t \in Seq(Ops) /\ \A n \in DOMAIN t : t[n].op = "insert"
        /\ \A op, i : Awaits(s, op, i) <=> op = "remove" /\ i \in Shown(mItemsByCollection)
        /\ pending' = s \o t
    BY <1>1, <1>2, RemovalsAwait, ShownAreIds
  <2> HIDE DEF s, t
  <2>2. /\ pending' \in Seq(Ops) /\ RemovesFirst(pending')
        /\ \A op, i : Awaits(pending', op, i) <=> Awaits(s, op, i) \/ Awaits(t, op, i)
    BY <2>1, ConcatAwaits
  <2> QED BY <2>1, <2>2 DEF t
<1>4. \A i \in Ids : mItemById[i] # NoItem => Empties(pending', i)
  BY <1>3 DEF Empties, IInv, MapsOK, SameItems, Shown
<1>5. /\ \A i \in Ids : Awaits(pending', "insert", i) => rows[i] # NoItem
      /\ \A i \in Ids \ untaken' : rows[i] # NoItem => Awaits(pending', "insert", i)
      /\ \A i : ~Awaits(pending', "update", i)
  <2>1. /\ \A i : Awaits(pending', "insert", i) <=> etmPopulated /\ i \in Shown(rows)
        /\ \A i : ~Awaits(pending', "update", i)
    BY <1>2, <1>3
  <2>2. \A i \in Ids : i \in Shown(rows) <=> rows[i] # NoItem
    BY DEF Shown
  <2>3. ~etmPopulated => untaken' = Shown(rows)
    BY <1>1
  <2> QED BY <2>1, <2>2, <2>3
<1> QED BY <1>1, <1>3, <1>4, <1>5, ResetStep

LEMMA DeleteFinishedStep ==
  ASSUME IInv, ~IsTree, NEW i \in Ids, DeleteFinished(i)
  PROVE  IInv'
<1>1. /\ Idle /\ InternalRemove(i) /\ deleted' = deleted \cup {i}
      /\ UNCHANGED <<rows, scenario, etmPopulated, pending, untaken>>
  BY DEF DeleteFinished, source
<1>2. /\ MapsOK' /\ mItemById'[i] = NoItem
      /\ \A j \in Ids : j # i => mItemById'[j] = mItemById[j]
  BY <1>1, RemoveFollows DEF IInv
<1>3. pending' = <<>>
  BY <1>1 DEF Idle
<1>4. SourceOK' /\ HandlerInv'
  BY <1>1, <1>3, EmptyAwaits DEF IInv, SourceOK, HandlerInv
<1>5. RowsInv'
  <2>1. ~IsTree'
    BY <1>1 DEF IsTree
  <2> QED BY <1>1, <1>2, <1>3, <2>1, WhenIdle, EmptyAwaits DEF RowsInv
<1> QED BY <1>2, <1>4, <1>5 DEF IInv

LEMMA LocalEditStep ==
  ASSUME IInv, ~IsTree, NEW i \in Ids, NEW parent \in Uids \cup {NoUid}, LocalEdit(i, parent)
  PROVE  IInv'
<1>1. Idle /\ UNCHANGED <<rows, scenario, etmPopulated, pending, untaken, deleted>>
  BY DEF LocalEdit, source
<1>2. /\ MapsOK'
      /\ \A j \in Ids : /\ mItemById'[j] # NoItem <=> mItemById[j] # NoItem
                        /\ mItemById[j] # NoItem => mItemById'[j].uid = mItemById[j].uid
  BY EditFollows DEF IInv
<1>3. pending' = <<>>
  BY <1>1 DEF Idle
<1>4. SourceOK' /\ HandlerInv'
  BY <1>1, <1>3, EmptyAwaits DEF IInv, SourceOK, HandlerInv
<1>5. RowsInv'
  <2>1. ~IsTree'
    BY <1>1 DEF IsTree
  <2> QED BY <1>1, <1>2, <1>3, <2>1, WhenIdle, EmptyAwaits DEF RowsInv
<1> QED BY <1>2, <1>4, <1>5 DEF IInv

LEMMA PopulatedStep ==
  ASSUME IInv, CollectionPopulated
  PROVE  IInv'
<1>1. /\ etmPopulated' = TRUE
      /\ UNCHANGED <<rows, scenario, pending, maps, untaken, deleted>>
  BY DEF CollectionPopulated
<1>2. MapsOK' /\ UNCHANGED mItemById
  BY <1>1, MapsKept DEF IInv
<1>3. SourceOK' /\ HandlerInv' /\ RowsInv'
  BY <1>1, <1>2 DEF IInv, SourceOK, HandlerInv, RowsInv, IsTree
<1> QED BY <1>2, <1>3 DEF IInv

\* A tree leaves the calendar alone.
LEMMA TreeStep ==
  ASSUME IInv, IsTree, TreeNext
  PROVE  IInv'
<1>1. UNCHANGED <<etmPopulated, pending, maps, untaken, deleted>>
  BY DEF TreeNext
<1>2. rows' \in RowsType /\ UNCHANGED scenario
  <2>1. CASE \E batch \in Batches : \E new \in [batch -> UsedIncidences] : Insertion(new)
    <3>1. Batches \subseteq SUBSET Ids
      BY BoundsAssumption DEF Batches, UsedIds
    <3> QED BY <2>1, <3>1, RowsChange DEF IInv, SourceOK
  <2>2. CASE \E batch \in Batches : Removal(batch)
    BY <2>2, RowsChange DEF IInv, SourceOK
  <2>3. CASE \E i \in Ids, inc \in UsedIncidences : Change(i, inc)
    BY <2>3, RowsChange DEF IInv, SourceOK
  <2>4. CASE UNCHANGED <<rows, scenario>>
    BY <2>4 DEF IInv, SourceOK
  <2> QED BY <2>1, <2>2, <2>3, <2>4 DEF TreeNext
<1>3. MapsOK' /\ UNCHANGED mItemById
  BY <1>1, <1>2, MapsKept DEF IInv
<1>4. pending' = <<>> /\ mItemById' = NoRows /\ IsTree'
  BY <1>1, <1>2, <1>3 DEF IInv, RowsInv, IsTree
<1>5. SourceOK' /\ HandlerInv'
  BY <1>1, <1>2, <1>4, EmptyAwaits DEF IInv, SourceOK, HandlerInv
<1>6. RowsInv'
  BY <1>4 DEF RowsInv, NoRows
<1> QED BY <1>3, <1>5, <1>6 DEF IInv

-----------------------------------------------------------------------------
(* The theorems.                                                           *)

LEMMA InitInv == Init => IInv
<1> SUFFICES ASSUME Init PROVE IInv
  OBVIOUS
<1>1. PICK order \in Orders(Shown(rows)) :
        IF IsTree THEN CalendarInit(<<>>) ELSE CalendarInit(order)
  BY DEF Init
<1>2. /\ rows \in RowsType /\ scenario \in Scenarios /\ etmPopulated \in BOOLEAN
      /\ mItemById = NoRows /\ mItemsByCollection = NoRows
      /\ mItemIdByUid = [u \in Uids |-> NoItem] /\ incidences = {}
  BY <1>1 DEF Init, CalendarInit
<1>3. NoRows \in RowsType /\ Shown(NoRows) = {} /\ \A i \in Ids : NoRows[i] = NoItem
  BY DEF NoRows, RowsType, Shown
<1>4. MapsOK
  BY <1>2, <1>3 DEF MapsOK, SameItems
<1>5. CASE IsTree
  <2>1. pending = <<>>
    BY <1>1, <1>5 DEF CalendarInit, EtmInit, CollectionInit, IsCollection, IsTree, Loads
  <2> QED BY <1>2, <1>3, <1>4, <1>5, <2>1, EmptyAwaits DEF IInv, SourceOK, HandlerInv, RowsInv
<1>6. CASE ~IsTree
  <2>1. \/ pending = Loads(order)
        \/ pending = <<>> /\ untaken = Shown(rows)
    BY <1>1, <1>6 DEF CalendarInit, EtmInit, CollectionInit, Populated
  <2>2. CASE pending = Loads(order)
    <3>1. /\ pending \in Seq(Ops) /\ RemovesFirst(pending)
          /\ \A i : Fills(pending, i) <=> i \in Shown(rows)
          /\ \A i : ~Empties(pending, i)
      BY <2>2, LoadsAwait, OneKindFirst, ShownAreIds DEF Fills, Empties
    <3>2. HandlerInv /\ RowsInv
      BY <1>2, <1>3, <1>6, <3>1 DEF HandlerInv, RowsInv, Shown
    <3> QED BY <1>2, <1>4, <3>1, <3>2 DEF IInv, SourceOK
  <2>3. CASE pending = <<>> /\ untaken = Shown(rows)
    <3>1. HandlerInv /\ RowsInv
      BY <1>2, <1>3, <1>6, <2>3, EmptyAwaits DEF HandlerInv, RowsInv, Shown
    <3> QED BY <1>2, <1>4, <2>3, <3>1, EmptyAwaits DEF IInv, SourceOK
  <2> QED BY <2>1, <2>2, <2>3
<1> QED BY <1>5, <1>6

LEMMA NextInv == IInv /\ [Next]_vars => IInv'
<1> SUFFICES ASSUME IInv, [Next]_vars PROVE IInv'
  OBVIOUS
<1>1. CASE UNCHANGED vars
  <2>1. UNCHANGED <<rows, scenario, etmPopulated, pending, maps, untaken, deleted>>
    BY <1>1 DEF vars, calVars, source
  <2>2. MapsOK' /\ UNCHANGED mItemById
    BY <2>1, MapsKept DEF IInv
  <2> QED BY <2>1, <2>2 DEF IInv, SourceOK, HandlerInv, RowsInv, IsTree
<1>2. CASE ~IsTree /\ CalendarNext
  <2>1. Batches \subseteq SUBSET Ids
    BY BoundsAssumption DEF Batches, UsedIds
  <2>2. FewUids \cup {NoUid} \subseteq Uids \cup {NoUid}
    BY BoundsAssumption
  <2> QED BY <1>2, <2>1, <2>2, InsertedStep, RemovedStep, ChangedStep, ModelResetStep,
        CollectionResetStep, PopulatedStep, DeleteFinishedStep, LocalEditStep, HandleStep
      DEF CalendarNext
<1>3. CASE IsTree /\ TreeNext
  BY <1>3, TreeStep
<1> QED BY <1>1, <1>2, <1>3 DEF Next

\* The inductive invariant: the maps agree after every row of every handler, a handler
\* inserts only what is not shown, and every row the model shows is shown by the calendar,
\* left out, deleted, or still to be handled.
THEOREM Invariance == Spec => []IInv
<1> QED BY InitInv, NextInv, PTL DEF Spec

\* mItemById, mItemIdByUid, mItemsByCollection and the MemoryCalendar hold the same items, and
\* between signals those of the model, for every set of items and uids, every order of the
\* rows of a signal and whatever the source does: the assertion of CalendarBase::item() at
\* calendarbase.cpp:453 holds.
THEOREM ItemsAgree == Spec => []MapsAgree
<1>1. IInv => MapsAgree
  <2> SUFFICES ASSUME IInv PROVE MapsAgree
    OBVIOUS
  <2>1. ShowsTheRows
    BY WhenIdle DEF ShowsTheRows, Idle, Shown, IsTree
  <2> QED BY <2>1 DEF MapsAgree, IInv, MapsOK, SameItems
<1> QED BY <1>1, Invariance, PTL
-----------------------------------------------------------------------------
(* The parents and the lists of children: an ETMCalendar whose source is   *)
(* orderly.                                                                *)

Once(s) == \A m, n \in DOMAIN s : s[m] = s[n] => m = n

Removing(i) == Awaits(pending, "remove", i)
Updating(i) == Awaits(pending, "update", i)
Inserting(i) == Awaits(pending, "insert", i)
Resetting == Awaits(pending, "clear", NoItem)

Orderly == scenario.orderly /\ scenario.view = "ETMCalendar"

\* What the handler still does: an item is inserted once, when it is not shown; a reset inserts
\* every row.
HandlesOnce ==
  /\ Once(pending)
  /\ \A i \in Ids : Inserting(i) => mItemById[i] = NoItem \/ Resetting
  /\ Resetting => \A i \in Ids : ~Removing(i) /\ ~Updating(i) /\ (rows[i] # NoItem => Inserting(i))

\* What is deleted is not shown, and nothing else is left out.
LeavesOutDeleted ==
  /\ untaken \subseteq deleted
  /\ \A i \in deleted : mItemById[i] = NoItem
  /\ \A i \in Ids : Updating(i) => mItemById[i] # NoItem \/ i \in deleted

\* A shown item that the handler is not about to change has the uid and the parent of its row.
Told(i) ==
  /\ rows[i] # NoItem /\ mItemById[i].uid = rows[i].uid
  /\ mUidToParent[rows[i].uid] = rows[i].relatedTo

RowsAreTold ==
  \A i \in Ids : mItemById[i] # NoItem => Told(i) \/ Removing(i) \/ Updating(i)

\* An item about to be removed is of the parent it is known to have, and its children go with it.
RemovesFamilies ==
  \A i \in Ids : Removing(i) /\ mItemById[i] # NoItem =>
    /\ mItemById[i].relatedTo = mUidToParent[mItemById[i].uid]
    /\ \A j \in Ids : mItemById[j] # NoItem /\ mUidToParent[mItemById[j].uid] = mItemById[i].uid => Removing(j)

\* An item whose uid changes has no relatives.
MovesAlone ==
  \A i \in Ids : Updating(i) /\ mItemById[i] # NoItem /\ mItemById[i].uid # rows[i].uid =>
    /\ rows[i].relatedTo = NoUid /\ mUidToParent[mItemById[i].uid] = NoUid
    /\ mItemIdByUid[rows[i].uid] = NoItem
    /\ \A u \in Uids : mUidToParent[u] \notin {mItemById[i].uid, rows[i].uid}

\* A list names once each child that is shown, and nothing else; the list of a parent that was
\* removed is gone, and its children will be.
InList(p, u) == Listed(mParentUidToChildrenUid[p])[u]
ListsTell ==
  \A p, u \in Uids :
    IF mItemIdByUid[u] # NoItem /\ mUidToParent[u] = p
    THEN InList(p, u) = 1 \/ (InList(p, u) = 0 /\ Removing(mItemIdByUid[u]))
    ELSE InList(p, u) = 0

\* Only a reset leaves the parent of an item that is not shown, and it inserts it again.
ParentsOfShown ==
  \A u \in Uids : mUidToParent[u] # NoUid /\ mItemIdByUid[u] = NoItem =>
    \E i \in Ids : Inserting(i) /\ rows[i].uid = u /\ rows[i].relatedTo = mUidToParent[u]

Kin ==
  /\ UniqueUids(rows) /\ HandlesOnce /\ LeavesOutDeleted /\ RowsAreTold
  /\ RemovesFamilies /\ MovesAlone /\ ListsTell /\ ParentsOfShown

ListsType == [Uids -> [Uids -> Nat] \cup {NoList}]
HierarchyOK ==
  /\ mParentUidToChildrenUid \in ListsType
  /\ mUidToParent \in [Uids -> Uids \cup {NoUid}]
  /\ untaken \subseteq Ids /\ deleted \subseteq Ids

KinInv == HierarchyOK /\ (Orderly => Kin)

-----------------------------------------------------------------------------
(* Lists.                                                                  *)

LEMMA ListIs ==
  ASSUME NEW lists \in ListsType, NEW p \in Uids
  PROVE  Listed(lists[p]) \in [Uids -> Nat]
BY NoListAssumption DEF ListsType, Listed

LEMMA ListedCounts ==
  ASSUME NEW lists \in ListsType, NEW p \in Uids, NEW list \in [Uids -> Nat]
  PROVE  LET t == [lists EXCEPT ![p] = list]
         IN  /\ t \in ListsType
             /\ \A q \in Uids : Listed(t[q]) = IF q = p THEN list ELSE Listed(lists[q])
BY NoListAssumption DEF ListsType, Listed

LEMMA AddedCounts ==
  ASSUME NEW lists \in ListsType, NEW u \in Uids, NEW p \in Uids
  PROVE  /\ AddToParent(lists, u, p) \in ListsType
         /\ \A q, v \in Uids : Listed(AddToParent(lists, u, p)[q])[v] =
              IF q = p /\ v = u THEN Listed(lists[q])[v] + 1 ELSE Listed(lists[q])[v]
<1> DEFINE list == Appended(Listed(lists[p]), u)
<1>1. Listed(lists[p]) \in [Uids -> Nat] /\ list \in [Uids -> Nat]
  BY ListIs DEF Appended
<1>2. \A v \in Uids : list[v] = IF v = u THEN Listed(lists[p])[v] + 1 ELSE Listed(lists[p])[v]
  BY <1>1 DEF Appended
<1>3. AddToParent(lists, u, p) = [lists EXCEPT ![p] = list]
  BY DEF AddToParent, ListsType
<1> DEFINE t == [lists EXCEPT ![p] = list]
<1> HIDE DEF list
<1>4. t \in ListsType /\ \A q \in Uids : Listed(t[q]) = IF q = p THEN list ELSE Listed(lists[q])
  BY <1>1, ListedCounts
<1> HIDE DEF t
<1>5. \A q, v \in Uids :
        Listed(t[q])[v] = IF q = p /\ v = u THEN Listed(lists[q])[v] + 1 ELSE Listed(lists[q])[v]
  BY <1>2, <1>4
<1> QED BY <1>3, <1>4, <1>5 DEF t

TakenFrom(lists, u, p) == [lists EXCEPT ![p] = RemoveAll(Listed(@), u)]

LEMMA TakenCounts ==
  ASSUME NEW lists \in ListsType, NEW u \in Uids, NEW p \in Uids
  PROVE  /\ TakenFrom(lists, u, p) \in ListsType
         /\ \A q, v \in Uids : Listed(TakenFrom(lists, u, p)[q])[v] =
              IF q = p /\ v = u THEN 0 ELSE Listed(lists[q])[v]
<1> DEFINE list == RemoveAll(Listed(lists[p]), u)
<1>1. Listed(lists[p]) \in [Uids -> Nat] /\ list \in [Uids -> Nat]
  BY ListIs DEF RemoveAll
<1>2. \A v \in Uids : list[v] = IF v = u THEN 0 ELSE Listed(lists[p])[v]
  BY <1>1 DEF RemoveAll
<1> DEFINE t == [lists EXCEPT ![p] = list]
<1>3. TakenFrom(lists, u, p) = t
  BY DEF TakenFrom, ListsType
<1> HIDE DEF list
<1>4. t \in ListsType /\ \A q \in Uids : Listed(t[q]) = IF q = p THEN list ELSE Listed(lists[q])
  BY <1>1, ListedCounts
<1> HIDE DEF t
<1> QED BY <1>2, <1>3, <1>4

LEMMA ForgottenCounts ==
  ASSUME NEW lists \in ListsType, NEW u \in Uids
  PROVE  LET t == [lists EXCEPT ![u] = NoList]
         IN  /\ t \in ListsType
             /\ \A q, v \in Uids : Listed(t[q])[v] = IF q = u THEN 0 ELSE Listed(lists[q])[v]
BY DEF ListsType, Listed

\* What the maps say of an item and of a uid.
LEMMA UidFacts ==
  ASSUME MapsOK
  PROVE  /\ \A i \in Ids : mItemById[i] # NoItem =>
              /\ mItemById[i].uid \in Uids /\ mItemById[i].relatedTo \in Uids \cup {NoUid}
              /\ mItemIdByUid[mItemById[i].uid] = i /\ i # NoItem
         /\ \A u \in Uids : mItemIdByUid[u] # NoItem =>
              /\ mItemIdByUid[u] \in Ids /\ mItemById[mItemIdByUid[u]] # NoItem
              /\ mItemById[mItemIdByUid[u]].uid = u
<1>1. \A i \in Ids : mItemById[i] # NoItem =>
        /\ mItemById[i] \in Incidence /\ mItemIdByUid[mItemById[i].uid] = i /\ i # NoItem
  BY Items DEF MapsOK, SameItems, Shown
<1>2. \A u \in Uids : mItemIdByUid[u] # NoItem =>
        /\ mItemIdByUid[u] \in Ids /\ mItemById[mItemIdByUid[u]] # NoItem
        /\ mItemById[mItemIdByUid[u]].uid = u
  BY DEF MapsOK, SameItems, ItemOf
<1> QED BY <1>1, <1>2 DEF Incidence

LEMMA RowFacts ==
  ASSUME rows \in RowsType
  PROVE  \A i \in Ids : rows[i] # NoItem =>
           rows[i] \in Incidence /\ rows[i].uid \in Uids /\ rows[i].relatedTo \in Uids \cup {NoUid}
BY DEF RowsType, Incidence

\* The first of a handler's steps is not among the others.
LEMMA OnceTail ==
  ASSUME NEW s \in Seq(Ops), s # <<>>, Once(s)
  PROVE  /\ Once(Tail(s))
         /\ \A op, i : Head(s) = [op |-> op, id |-> i] => ~Awaits(Tail(s), op, i)
<1>1. /\ Len(s) \in Nat \ {0} /\ DOMAIN s = 1 .. Len(s) /\ Head(s) = s[1]
      /\ DOMAIN Tail(s) = 1 .. Len(s) - 1
      /\ \A n \in 1 .. Len(s) - 1 : Tail(s)[n] = s[n + 1]
  BY HeadTailProperties, LenProperties, EmptySeq
<1>2. \A n \in DOMAIN Tail(s) : n + 1 \in DOMAIN s /\ n + 1 # 1 /\ n \in Nat /\ Tail(s)[n] = s[n + 1]
  BY <1>1
<1>3. Once(Tail(s))
  BY <1>2 DEF Once
<1>4. \A n \in DOMAIN Tail(s) : Tail(s)[n] # Head(s)
  BY <1>1, <1>2 DEF Once
<1> QED BY <1>3, <1>4 DEF Awaits

-----------------------------------------------------------------------------
(* What the operations on the maps do to the hierarchy.                    *)

Hierarchies == mParentUidToChildrenUid \in ListsType /\ mUidToParent \in [Uids -> Uids \cup {NoUid}]

LEMMA InsertParents ==
  ASSUME rows \in RowsType, Hierarchies, NEW i \in Ids, rows[i] # NoItem, InternalInsert(i)
  PROVE  LET u == rows[i].uid
             p == rows[i].relatedTo
         IN  /\ Hierarchies' /\ untaken' \subseteq untaken \cup {i}
             /\ mItemIdByUid[u] \in {NoItem, i} =>
                  /\ \A q, v \in Uids : InList(q, v)' = IF q = p /\ v = u THEN InList(q, v) + 1 ELSE InList(q, v)
                  /\ \A v \in Uids : mUidToParent'[v] = IF v = u /\ p # NoUid THEN p ELSE mUidToParent[v]
<1> DEFINE inc == rows[i]
<1>1. inc \in Incidence /\ inc.uid \in Uids /\ inc.relatedTo \in Uids \cup {NoUid}
  BY RowFacts
<1>2. PICK u \in Uids, p \in Uids \cup {NoUid} : u = inc.uid /\ p = inc.relatedTo
  BY <1>1
<1>3. CASE mItemIdByUid[u] \notin {NoItem, i}
  BY <1>2, <1>3 DEF InternalInsert, hierarchy, Hierarchies
<1>4. CASE mItemIdByUid[u] \in {NoItem, i}
  <2>1. CASE p = NoUid
    <3>1. UNCHANGED <<mParentUidToChildrenUid, mUidToParent>> /\ untaken' = untaken \ {i}
      BY <1>2, <1>4, <2>1 DEF InternalInsert, hierarchy
    <3>2. \A q \in Uids : q # p
      BY <2>1, IdsAssumption
    <3> QED BY <1>2, <2>1, <3>1, <3>2 DEF Hierarchies, InList
  <2>2. CASE p # NoUid
    <3>1. /\ mParentUidToChildrenUid' = AddToParent(mParentUidToChildrenUid, u, p)
          /\ mUidToParent' = [mUidToParent EXCEPT ![u] = p] /\ untaken' = untaken \ {i}
      BY <1>2, <1>4, <2>2 DEF InternalInsert
    <3>2. p \in Uids
      BY <2>2
    <3>3. PICK lists \in ListsType : lists = mParentUidToChildrenUid
      BY DEF Hierarchies
    <3>4. /\ AddToParent(lists, u, p) \in ListsType
          /\ \A q, v \in Uids : Listed(AddToParent(lists, u, p)[q])[v] =
               IF q = p /\ v = u THEN Listed(lists[q])[v] + 1 ELSE Listed(lists[q])[v]
      BY <3>2, AddedCounts
    <3>5. /\ mParentUidToChildrenUid' \in ListsType
          /\ \A q, v \in Uids : InList(q, v)' = IF q = p /\ v = u THEN InList(q, v) + 1 ELSE InList(q, v)
      BY <3>1, <3>3, <3>4 DEF InList
    <3> QED BY <1>2, <2>2, <3>1, <3>2, <3>5 DEF Hierarchies
  <2> QED BY <2>1, <2>2
<1> QED BY <1>2, <1>3, <1>4

LEMMA ParentChanged ==
  ASSUME Hierarchies, NEW inc \in Incidence, HandleParentChanged(inc)
  PROVE  LET u == inc.uid
             p == inc.relatedTo
         IN  /\ Hierarchies'
             /\ \A v \in Uids : mUidToParent'[v] = IF v = u THEN p ELSE mUidToParent[v]
             /\ \A q, v \in Uids : v # u \/ mUidToParent[u] = p => InList(q, v)' = InList(q, v)
             /\ mUidToParent[u] # p =>
                  \A q \in Uids : InList(q, u)' = IF q = mUidToParent[u] THEN 0
                                                  ELSE IF q = p THEN InList(q, u) + 1 ELSE InList(q, u)
<1>1. PICK u \in Uids, p \in Uids \cup {NoUid} : u = inc.uid /\ p = inc.relatedTo
  BY DEF Incidence
<1>2. PICK o \in Uids \cup {NoUid} : o = mUidToParent[u]
  BY DEF Hierarchies
<1>3. CASE o = p
  <2>1. UNCHANGED <<mParentUidToChildrenUid, mUidToParent>>
    BY <1>1, <1>2, <1>3 DEF HandleParentChanged, hierarchy
  <2> QED BY <1>1, <1>2, <1>3, <2>1 DEF Hierarchies, InList
<1>4. CASE o # p
  <2> DEFINE taken == IF o = NoUid THEN mParentUidToChildrenUid
                      ELSE TakenFrom(mParentUidToChildrenUid, u, o)
             final == IF p = NoUid THEN taken ELSE AddToParent(taken, u, p)
  <2>1. mParentUidToChildrenUid' = final /\ mUidToParent' = [mUidToParent EXCEPT ![u] = p]
    BY <1>1, <1>2, <1>4 DEF HandleParentChanged, TakenFrom
  <2>2. /\ taken \in ListsType
        /\ \A q, v \in Uids : Listed(taken[q])[v] = IF q = o /\ v = u THEN 0 ELSE InList(q, v)
    <3>1. CASE o = NoUid
      <4>1. \A q \in Uids : q # o
        BY <3>1, IdsAssumption
      <4> QED BY <3>1, <4>1 DEF Hierarchies, InList
    <3>2. CASE o # NoUid
      BY <3>2, TakenCounts DEF Hierarchies, InList
    <3> QED BY <3>1, <3>2
  <2> HIDE DEF taken
  <2>3. /\ final \in ListsType
        /\ \A q, v \in Uids : Listed(final[q])[v] =
             IF q = p /\ v = u THEN Listed(taken[q])[v] + 1 ELSE Listed(taken[q])[v]
    <3>1. CASE p = NoUid
      <4>1. \A q \in Uids : q # p
        BY <3>1, IdsAssumption
      <4> QED BY <2>2, <3>1, <4>1
    <3>2. CASE p # NoUid
      <4>1. PICK t \in ListsType : t = taken
        BY <2>2
      <4>2. /\ AddToParent(t, u, p) \in ListsType
            /\ \A q, v \in Uids : Listed(AddToParent(t, u, p)[q])[v] =
                 IF q = p /\ v = u THEN Listed(t[q])[v] + 1 ELSE Listed(t[q])[v]
        BY <3>2, AddedCounts
      <4> QED BY <3>2, <4>1, <4>2
    <3> QED BY <3>1, <3>2
  <2> HIDE DEF final
  <2>4. \A q, v \in Uids : InList(q, v)' = Listed(final[q])[v]
    BY <2>1 DEF InList
  <2>5. Hierarchies' /\ \A v \in Uids : mUidToParent'[v] = IF v = u THEN p ELSE mUidToParent[v]
    BY <2>1, <2>3 DEF Hierarchies
  <2> QED BY <1>1, <1>2, <1>4, <2>2, <2>3, <2>4, <2>5
<1> QED BY <1>3, <1>4

LEMMA UidChanged ==
  ASSUME Hierarchies, NEW i, NEW old \in Uids, NEW new \in Uids, old # new, HandleUidChange(i, old, new)
  PROVE  /\ Hierarchies' /\ mUidToParent' = mUidToParent
         /\ \A q, v \in Uids : \/ InList(q, v)' = InList(q, v)
                               \/ q = old /\ InList(q, v)' = 0
                               \/ q = new /\ InList(q, v)' = InList(old, v)
<1>1. mUidToParent' = mUidToParent
  BY DEF HandleUidChange
<1>2. CASE UNCHANGED mParentUidToChildrenUid
  BY <1>1, <1>2 DEF Hierarchies, InList
<1>3. CASE /\ mParentUidToChildrenUid[old] # NoList
           /\ mParentUidToChildrenUid' =
                [mParentUidToChildrenUid EXCEPT ![new] = mParentUidToChildrenUid[old], ![old] = NoList]
  <2>1. mParentUidToChildrenUid' \in ListsType
    BY <1>3 DEF Hierarchies, ListsType
  <2>2. \A q \in Uids : mParentUidToChildrenUid'[q] =
          IF q = old THEN NoList ELSE IF q = new THEN mParentUidToChildrenUid[old] ELSE mParentUidToChildrenUid[q]
    BY <1>3 DEF Hierarchies, ListsType
  <2>3. \A v \in Uids : Listed(NoList)[v] = 0
    BY DEF Listed
  <2> QED BY <1>1, <2>1, <2>2, <2>3 DEF Hierarchies, InList
<1> QED BY <1>2, <1>3 DEF HandleUidChange

LEMMA RemoveParents ==
  ASSUME MapsOK, Hierarchies, NEW i \in Ids, mItemById[i] # NoItem, InternalRemove(i)
  PROVE  LET u == mItemById[i].uid
             p == mItemById[i].relatedTo
         IN  /\ Hierarchies'
             /\ mItemIdByUid' = [mItemIdByUid EXCEPT ![u] = NoItem]
             /\ \A q, v \in Uids : InList(q, v)' = IF q = u \/ (q = p /\ v = u) THEN 0 ELSE InList(q, v)
             /\ \A v \in Uids : mUidToParent'[v] = IF v = u /\ p # NoUid THEN NoUid ELSE mUidToParent[v]
<1>1. PICK u \in Uids, p \in Uids \cup {NoUid} : u = mItemById[i].uid /\ p = mItemById[i].relatedTo
  BY UidFacts
<1> DEFINE forgotten == [mParentUidToChildrenUid EXCEPT ![u] = NoList]
<1>2. /\ forgotten \in ListsType
      /\ \A q, v \in Uids : Listed(forgotten[q])[v] = IF q = u THEN 0 ELSE InList(q, v)
  BY ForgottenCounts DEF Hierarchies, InList
<1>3. mItemIdByUid' = [mItemIdByUid EXCEPT ![u] = NoItem]
  BY <1>1 DEF InternalRemove
<1>4. CASE p = NoUid
  <2>1. mParentUidToChildrenUid' = forgotten /\ UNCHANGED mUidToParent
    BY <1>1, <1>4 DEF InternalRemove
  <2>2. \A q \in Uids : q # p
    BY <1>4, IdsAssumption
  <2> HIDE DEF forgotten
  <2>3. \A q, v \in Uids : InList(q, v)' = Listed(forgotten[q])[v]
    BY <2>1 DEF InList
  <2> QED BY <1>1, <1>2, <1>3, <1>4, <2>1, <2>2, <2>3 DEF Hierarchies
<1>5. CASE p # NoUid
  <2> DEFINE final == TakenFrom(forgotten, u, p)
  <2>1. mParentUidToChildrenUid' = final /\ mUidToParent' = [mUidToParent EXCEPT ![u] = NoUid]
    BY <1>1, <1>5 DEF InternalRemove, TakenFrom
  <2> HIDE DEF forgotten
  <2>2. /\ final \in ListsType
        /\ \A q, v \in Uids : Listed(final[q])[v] = IF q = p /\ v = u THEN 0 ELSE Listed(forgotten[q])[v]
    BY <1>2, <1>5, TakenCounts
  <2> HIDE DEF final
  <2>3. \A q, v \in Uids : InList(q, v)' = Listed(final[q])[v]
    BY <2>1 DEF InList
  <2> QED BY <1>1, <1>2, <1>3, <1>5, <2>1, <2>2, <2>3 DEF Hierarchies
<1> QED BY <1>4, <1>5

LEMMA ClearParents ==
  ASSUME Hierarchies, ClearAll
  PROVE  /\ Hierarchies' /\ mItemIdByUid' = [u \in Uids |-> NoItem]
         /\ \A q, v \in Uids : InList(q, v)' = 0
         /\ \A v \in Uids : mUidToParent'[v] = IF \E i \in Ids : /\ mItemById[i] # NoItem /\ mItemById[i].uid = v
                                                                /\ mItemById[i].relatedTo # NoUid
                                              THEN NoUid ELSE mUidToParent[v]
<1>1. mParentUidToChildrenUid' = [u \in Uids |-> NoList] /\ mItemIdByUid' = [u \in Uids |-> NoItem]
  BY DEF ClearAll
<1>2. mUidToParent' = [v \in Uids |-> IF \E i \in Ids : /\ mItemById[i] # NoItem /\ mItemById[i].uid = v
                                                         /\ mItemById[i].relatedTo # NoUid
                                      THEN NoUid ELSE mUidToParent[v]]
  BY DEF ClearAll, Shown
<1>3. Hierarchies'
  BY <1>1, <1>2 DEF Hierarchies, ListsType
<1>4. \A q, v \in Uids : InList(q, v)' = 0
  BY <1>1 DEF InList, Listed
<1> QED BY <1>1, <1>2, <1>3, <1>4

-----------------------------------------------------------------------------
(* One row of a handler, and the hierarchy.                                *)

LEMMA UpdateCases ==
  ASSUME SourceOK, MapsOK, NEW i \in Ids, rows[i] # NoItem, Update(i)
  PROVE  \/ IsLeftOut(i) /\ UNCHANGED <<maps, hierarchy>> /\ untaken' = untaken \cup {i}
         \/ /\ mItemById[i] # NoItem /\ mItemById' = [mItemById EXCEPT ![i] = rows[i]]
            /\ untaken' = untaken \ {i}
            /\ \/ /\ mItemById[i].uid = rows[i].uid /\ UNCHANGED mItemIdByUid
                  /\ HandleParentChanged(rows[i]) \/ (IsCollection /\ UNCHANGED hierarchy)
               \/ /\ mItemById[i].uid # rows[i].uid /\ mItemIdByUid[rows[i].uid] = NoItem
                  /\ HandleUidChange(i, mItemById[i].uid, rows[i].uid)
                  /\ mItemIdByUid' = [mItemIdByUid EXCEPT ![rows[i].uid] = i, ![mItemById[i].uid] = NoItem]
<1> DEFINE inc == rows[i]
           old == mItemById[i].uid
<1>1. inc \in Incidence /\ inc.uid \in Uids
  BY RowFacts DEF SourceOK
<1>2. CASE IsLeftOut(i)
  BY <1>2 DEF Update, LeaveOut
<1>3. CASE ~IsLeftOut(i)
  <2>1. /\ mItemById' = [mItemById EXCEPT ![i] = inc] /\ untaken' = untaken \ {i}
        /\ Existing(inc.uid) # {} => /\ UNCHANGED mItemIdByUid
                                     /\ HandleParentChanged(inc) \/ (IsCollection /\ UNCHANGED hierarchy)
        /\ Existing(inc.uid) = {} => HandleUidChange(i, old, inc.uid)
    BY <1>3 DEF Update, UpdateItem, InternalUpdate
  <2>2. mItemById[i] # NoItem /\ (Existing(inc.uid) # {} => mItemIdByUid[inc.uid] = i)
    BY <1>1, <1>3, ExistingIs, Items DEF IsLeftOut
  <2>3. old \in Uids /\ mItemIdByUid[old] = i /\ i # NoItem
    BY <2>2, UidFacts
  <2>4. CASE Existing(inc.uid) # {}
    <3>1. inc.uid = old
      BY <1>1, <2>2, <2>3, <2>4, UidFacts
    <3> QED BY <2>1, <2>2, <2>4, <3>1
  <2>5. CASE Existing(inc.uid) = {}
    <3>1. mItemIdByUid[inc.uid] = NoItem
      BY <1>1, <2>5, ExistingIs
    <3>2. Existing(old) # {} /\ inc.uid # old
      BY <2>3, <3>1, ExistingIs
    <3>3. mItemIdByUid' = [mItemIdByUid EXCEPT ![inc.uid] = i, ![old] = NoItem]
      BY <2>1, <2>5, <3>1, <3>2 DEF HandleUidChange, IdMoved
    <3> QED BY <2>1, <2>2, <2>5, <3>1, <3>2, <3>3
  <2> QED BY <2>4, <2>5
<1> QED BY <1>2, <1>3

LEMMA HeadStep ==
  ASSUME IInv, Handle
  PROVE  \E op \in {"insert", "update", "remove", "clear"}, k \in Ids \cup {NoItem} :
           /\ Head(pending) = [op |-> op, id |-> k]
           /\ op = "clear" <=> k = NoItem
           /\ \A o, j : Awaits(pending, o, j) <=> (o = op /\ j = k) \/ Awaits(pending', o, j)
           /\ \A j : ~Awaits(pending', "update", j)
           /\ Once(pending) => Once(pending') /\ ~Awaits(pending', op, k)
           /\ op \notin {"remove", "clear"} => \A j : ~Awaits(pending, "remove", j) /\ ~Awaits(pending, "clear", NoItem)
           /\ op \in {"insert", "update"} => rows[k] # NoItem
           /\ op = "update" => \A j : ~Awaits(pending', "insert", j)
           /\ UNCHANGED <<rows, scenario>> /\ pending' \in Seq(Ops)
<1>1. /\ pending # <<>> /\ pending \in Seq(Ops) /\ RemovesFirst(pending)
      /\ pending' = Tail(pending) /\ UNCHANGED <<rows, scenario>>
  BY DEF Handle, source, IInv, SourceOK, HandlerInv
<1>2. /\ Tail(pending) \in Seq(Ops) /\ Head(pending) \in Ops /\ RemovesFirst(Tail(pending))
      /\ \A op, i : Awaits(pending, op, i) <=> Head(pending) = [op |-> op, id |-> i] \/ Awaits(Tail(pending), op, i)
      /\ Head(pending).op = "update" => Tail(pending) = <<>>
      /\ Head(pending).op \notin {"remove", "clear"} => \A i : ~Empties(Tail(pending), i)
      /\ \A i : ~Awaits(Tail(pending), "update", i)
  BY <1>1, HeadAwaits
<1>3. PICK op \in {"insert", "update", "remove", "clear"}, k \in Ids \cup {NoItem} :
        Head(pending) = [op |-> op, id |-> k] /\ (op = "clear" <=> k = NoItem)
  BY <1>2, Items DEF Ops
<1>4. \A o, j : Awaits(pending, o, j) <=> (o = op /\ j = k) \/ Awaits(pending', o, j)
  <2>1. \A o, j : Head(pending) = [op |-> o, id |-> j] <=> o = op /\ j = k
    BY <1>3
  <2> QED BY <1>1, <1>2, <2>1
<1>5. Once(pending) => Once(pending') /\ ~Awaits(pending', op, k)
  BY <1>1, <1>3, OnceTail
<1>6. op \notin {"remove", "clear"} => \A j : ~Awaits(pending, "remove", j) /\ ~Awaits(pending, "clear", NoItem)
  BY <1>1, <1>2, <1>3, <1>4 DEF Empties
<1>7. op \in {"insert", "update"} => rows[k] # NoItem
  BY <1>3, <1>4 DEF IInv, HandlerInv, Fills
<1>8. op = "update" => \A j : ~Awaits(pending', "insert", j)
  <2>1. op = "update" => Tail(pending) = <<>>
    BY <1>2, <1>3
  <2> QED BY <1>1, <2>1, EmptyAwaits
<1> QED BY <1>1, <1>2, <1>3, <1>4, <1>5, <1>6, <1>7, <1>8

LEMMA HandleHierarchy ==
  ASSUME IInv, HierarchyOK, Handle
  PROVE  HierarchyOK'
<1>1. PICK op \in {"insert", "update", "remove", "clear"}, k \in Ids \cup {NoItem} :
        /\ Head(pending) = [op |-> op, id |-> k] /\ (op = "clear" <=> k = NoItem)
        /\ op \in {"insert", "update"} => rows[k] # NoItem
  BY HeadStep
<1>2. rows \in RowsType /\ MapsOK /\ SourceOK /\ Hierarchies
  BY DEF IInv, SourceOK, HierarchyOK, Hierarchies
<1>3. CASE op = "insert"
  <2>1. InternalInsert(k) /\ deleted' = deleted \ {k} /\ k \in Ids
    BY <1>1, <1>3 DEF Handle
  <2>2. Hierarchies' /\ untaken' \subseteq untaken \cup {k}
    BY <1>1, <1>2, <1>3, <2>1, InsertParents
  <2> QED BY <2>1, <2>2 DEF HierarchyOK, Hierarchies
<1>4. CASE op = "update"
  <2>1. Update(k) /\ deleted' = deleted /\ k \in Ids /\ rows[k] # NoItem
    BY <1>1, <1>4 DEF Handle
  <2>2. rows[k] \in Incidence /\ rows[k].uid \in Uids
    BY <1>2, <2>1, RowFacts
  <2>3. CASE UNCHANGED hierarchy /\ untaken' \in {untaken \cup {k}, untaken \ {k}}
    BY <2>1, <2>3 DEF HierarchyOK, hierarchy
  <2>4. CASE HandleParentChanged(rows[k]) /\ untaken' = untaken \ {k}
    <3>1. Hierarchies'
      BY <1>2, <2>2, <2>4, ParentChanged
    <3> QED BY <2>1, <2>4, <3>1 DEF HierarchyOK, Hierarchies
  <2>5. CASE /\ mItemById[k] # NoItem /\ mItemById[k].uid # rows[k].uid
             /\ HandleUidChange(k, mItemById[k].uid, rows[k].uid) /\ untaken' = untaken \ {k}
    <3>1. mItemById[k].uid \in Uids
      BY <1>2, <2>1, <2>5, UidFacts
    <3>2. Hierarchies'
      BY <1>2, <2>2, <2>5, <3>1, UidChanged
    <3> QED BY <2>1, <2>5, <3>2 DEF HierarchyOK, Hierarchies
  <2> QED BY <1>2, <2>1, <2>3, <2>4, <2>5, UpdateCases
<1>5. CASE op = "remove"
  <2>1. InternalRemove(k) /\ UNCHANGED <<untaken, deleted>> /\ k \in Ids
    BY <1>1, <1>5 DEF Handle
  <2>2. Hierarchies'
    <3>1. CASE mItemById[k] = NoItem
      BY <1>2, <2>1, <3>1 DEF InternalRemove, hierarchy, Hierarchies
    <3>2. CASE mItemById[k] # NoItem
      BY <1>2, <2>1, <3>2, RemoveParents
    <3> QED BY <3>1, <3>2
  <2> QED BY <2>1, <2>2 DEF HierarchyOK, Hierarchies
<1>6. CASE op = "clear"
  <2>1. ClearAll /\ UNCHANGED <<untaken, deleted>>
    BY <1>1, <1>6 DEF Handle
  <2>2. Hierarchies'
    BY <1>2, <2>1, ClearParents
  <2> QED BY <2>1, <2>2 DEF HierarchyOK, Hierarchies
<1> QED BY <1>3, <1>4, <1>5, <1>6

\* What an item that is shown, and not about to be changed, has.
LEMMA ToldFacts ==
  ASSUME IInv, Kin, NEW i \in Ids, mItemById[i] # NoItem, ~Removing(i), ~Updating(i)
  PROVE  /\ rows[i] # NoItem /\ mItemById[i].uid = rows[i].uid
         /\ mUidToParent[rows[i].uid] = rows[i].relatedTo
BY DEF Kin, RowsAreTold, Told

LEMMA InsertKin ==
  ASSUME IInv, HierarchyOK, Orderly, Kin, Handle, NEW k \in Ids, Head(pending) = [op |-> "insert", id |-> k]
  PROVE  Kin'
<1>1. /\ \A o, j : Awaits(pending, o, j) <=> (o = "insert" /\ j = k) \/ Awaits(pending', o, j)
      /\ \A j : ~Awaits(pending', "update", j)
      /\ Once(pending') /\ ~Awaits(pending', "insert", k)
      /\ \A j : ~Awaits(pending, "remove", j) /\ ~Awaits(pending, "clear", NoItem)
      /\ rows[k] # NoItem /\ UNCHANGED <<rows, scenario>>
  BY HeadStep DEF Kin, HandlesOnce
<1>2. /\ InternalInsert(k) /\ deleted' = deleted \ {k} /\ MapsOK /\ rows \in RowsType /\ Hierarchies
  BY DEF Handle, IInv, SourceOK, HierarchyOK, Hierarchies
<1>3. /\ \A j : ~Removing(j) /\ ~Removing(j)' /\ ~Updating(j) /\ ~Updating(j)'
      /\ \A j : Inserting(j) <=> j = k \/ Inserting(j)'
      /\ ~Resetting /\ ~Resetting' /\ ~Inserting(k)' /\ Inserting(k)
  BY <1>1 DEF Removing, Updating, Inserting, Resetting
<1>4. PICK u \in Uids, p \in Uids \cup {NoUid} : u = rows[k].uid /\ p = rows[k].relatedTo
  BY <1>1, <1>2, RowFacts
<1>5. mItemById[k] = NoItem
  BY <1>3 DEF Kin, HandlesOnce
<1>6. mItemIdByUid[u] = NoItem
  <2> SUFFICES ASSUME mItemIdByUid[u] # NoItem PROVE FALSE
    OBVIOUS
  <2>1. PICK j \in Ids : j = mItemIdByUid[u] /\ mItemById[j] # NoItem /\ mItemById[j].uid = u
    BY <1>2, UidFacts
  <2>2. rows[j] # NoItem /\ rows[j].uid = u
    BY <1>3, <2>1, ToldFacts
  <2>3. j = k
    BY <1>1, <1>4, <2>2 DEF Kin, UniqueUids, Shown
  <2> QED BY <1>5, <2>1, <2>3
<1>7. /\ mItemById' = [mItemById EXCEPT ![k] = rows[k]]
      /\ mItemIdByUid' = [mItemIdByUid EXCEPT ![u] = k] /\ untaken' = untaken \ {k}
  BY <1>2, <1>4, <1>6 DEF InternalInsert
<1>8. /\ \A q, v \in Uids : InList(q, v)' = IF q = p /\ v = u THEN InList(q, v) + 1 ELSE InList(q, v)
      /\ \A v \in Uids : mUidToParent'[v] = IF v = u /\ p # NoUid THEN p ELSE mUidToParent[v]
  BY <1>1, <1>2, <1>4, <1>6, InsertParents
<1>9. /\ mItemById'[k] = rows[k] /\ \A j \in Ids : j # k => mItemById'[j] = mItemById[j]
      /\ mItemIdByUid'[u] = k /\ \A v \in Uids : v # u => mItemIdByUid'[v] = mItemIdByUid[v]
      /\ k # NoItem /\ NoUid \notin Uids
  BY <1>2, <1>7, IdsAssumption DEF MapsOK, RowsType
<1>10. mUidToParent'[u] = p /\ \A v \in Uids : v # u => mUidToParent'[v] = mUidToParent[v]
  <2>1. p = NoUid => mUidToParent[u] = NoUid
    <3> SUFFICES ASSUME mUidToParent[u] # NoUid PROVE p # NoUid
      OBVIOUS
    <3>1. PICK j \in Ids : Inserting(j) /\ rows[j].uid = u /\ rows[j].relatedTo = mUidToParent[u]
      BY <1>6 DEF Kin, ParentsOfShown
    <3>2. rows[j] # NoItem
      BY <3>1 DEF Inserting, IInv, HandlerInv, Fills
    <3>3. j = k
      BY <1>1, <1>4, <3>1, <3>2 DEF Kin, UniqueUids, Shown
    <3> QED BY <1>4, <3>1, <3>3
  <2> QED BY <1>8, <2>1
<1>11. UniqueUids(rows)'
  BY <1>1 DEF Kin, UniqueUids, Shown
<1>12. HandlesOnce'
  BY <1>1, <1>3, <1>9 DEF Kin, HandlesOnce
<1>13. LeavesOutDeleted'
  BY <1>2, <1>3, <1>7, <1>9 DEF Kin, LeavesOutDeleted, HierarchyOK
<1>14. RowsAreTold'
  <2> SUFFICES ASSUME NEW j \in Ids, mItemById'[j] # NoItem PROVE Told(j)'
    BY DEF RowsAreTold
  <2>1. CASE j = k
    BY <1>1, <1>4, <1>9, <1>10, <2>1 DEF Told
  <2>2. CASE j # k
    <3>1. mItemById[j] # NoItem /\ mItemById'[j] = mItemById[j]
      BY <1>9, <2>2
    <3>2. /\ rows[j] # NoItem /\ mItemById[j].uid = rows[j].uid
          /\ mUidToParent[rows[j].uid] = rows[j].relatedTo
      BY <1>3, <3>1, ToldFacts
    <3>3. rows[j].uid \in Uids /\ mItemIdByUid[rows[j].uid] = j /\ j # NoItem
      BY <1>2, <3>1, <3>2, UidFacts
    <3> QED BY <1>1, <1>6, <1>10, <3>1, <3>2, <3>3 DEF Told
  <2> QED BY <2>1, <2>2
<1>15. RemovesFamilies' /\ MovesAlone'
  BY <1>3 DEF RemovesFamilies, MovesAlone
<1>16. ListsTell'
  <2> SUFFICES ASSUME NEW q \in Uids, NEW v \in Uids
               PROVE  InList(q, v)' = IF mItemIdByUid'[v] # NoItem /\ mUidToParent'[v] = q THEN 1 ELSE 0
    BY <1>3 DEF ListsTell
  <2>1. InList(q, v) = IF mItemIdByUid[v] # NoItem /\ mUidToParent[v] = q THEN 1 ELSE 0
    BY <1>3 DEF Kin, ListsTell
  <2>2. CASE v = u
    BY <1>6, <1>8, <1>9, <1>10, <2>1, <2>2
  <2>3. CASE v # u
    BY <1>8, <1>9, <1>10, <2>1, <2>3
  <2> QED BY <2>2, <2>3
<1>17. ParentsOfShown'
  <2> SUFFICES ASSUME NEW v \in Uids, mUidToParent'[v] # NoUid, mItemIdByUid'[v] = NoItem
               PROVE  \E i \in Ids : Inserting(i)' /\ rows'[i].uid = v /\ rows'[i].relatedTo = mUidToParent'[v]
    BY DEF ParentsOfShown
  <2>1. v # u /\ mUidToParent'[v] = mUidToParent[v] /\ mItemIdByUid[v] = NoItem
    BY <1>9, <1>10
  <2>2. PICK i \in Ids : Inserting(i) /\ rows[i].uid = v /\ rows[i].relatedTo = mUidToParent[v]
    BY <2>1 DEF Kin, ParentsOfShown
  <2>3. i # k
    BY <1>4, <2>1, <2>2
  <2> QED BY <1>1, <1>3, <2>1, <2>2, <2>3
<1> QED BY <1>11, <1>12, <1>13, <1>14, <1>15, <1>16, <1>17 DEF Kin

\* The row of a handler that removes, or of a deletion.
LEMMA RemoveKin ==
  ASSUME IInv, HierarchyOK, Kin, NEW k \in Ids, InternalRemove(k), mItemById[k] # NoItem,
         mItemById[k].relatedTo = mUidToParent[mItemById[k].uid],
         \A j \in Ids : j # k /\ mItemById[j] # NoItem /\ mUidToParent[mItemById[j].uid] = mItemById[k].uid
                          => Removing(j),
         UNCHANGED <<rows, scenario>>,
         \A j \in Ids : j # k => (Removing(j)' <=> Removing(j)),
         \A j \in Ids : (Updating(j)' <=> Updating(j)) /\ (Inserting(j)' <=> Inserting(j)),
         Resetting' <=> Resetting, Once(pending'), ~Resetting, ~Updating(k), ~Removing(k)',
         untaken' = untaken, deleted' \in {deleted, deleted \cup {k}}
  PROVE  Kin'
<1>1. MapsOK /\ Hierarchies
  BY DEF IInv, HierarchyOK, Hierarchies
<1>2. PICK u \in Uids, p \in Uids \cup {NoUid} : u = mItemById[k].uid /\ p = mItemById[k].relatedTo
  BY <1>1, UidFacts
<1>3. mUidToParent[u] = p /\ mItemIdByUid[u] = k
  BY <1>1, <1>2, UidFacts
<1>4. /\ mItemIdByUid' = [mItemIdByUid EXCEPT ![u] = NoItem]
      /\ \A q, v \in Uids : InList(q, v)' = IF q = u \/ (q = p /\ v = u) THEN 0 ELSE InList(q, v)
      /\ \A v \in Uids : mUidToParent'[v] = IF v = u /\ p # NoUid THEN NoUid ELSE mUidToParent[v]
  BY <1>1, <1>2, RemoveParents
<1>5. /\ mItemById'[k] = NoItem /\ \A j \in Ids : j # k => mItemById'[j] = mItemById[j]
      /\ mItemIdByUid'[u] = NoItem /\ \A v \in Uids : v # u => mItemIdByUid'[v] = mItemIdByUid[v]
      /\ mUidToParent'[u] = NoUid /\ \A v \in Uids : v # u => mUidToParent'[v] = mUidToParent[v]
  BY <1>1, <1>3, <1>4, RemoveFollows DEF MapsOK
<1>6. \A j \in Ids : j # k /\ mItemById[j] # NoItem => mItemById[j].uid \in Uids /\ mItemById[j].uid # u
  BY <1>1, <1>2, <1>3, UidFacts
<1>7. UniqueUids(rows)'
  BY DEF Kin, UniqueUids, Shown
<1>8. HandlesOnce'
  BY <1>5 DEF Kin, HandlesOnce
<1>9. LeavesOutDeleted'
  BY <1>5 DEF Kin, LeavesOutDeleted, HierarchyOK
<1>10. RowsAreTold'
  <2> SUFFICES ASSUME NEW j \in Ids, mItemById'[j] # NoItem
               PROVE  Told(j)' \/ Removing(j)' \/ Updating(j)'
    BY DEF RowsAreTold
  <2>1. j # k /\ mItemById'[j] = mItemById[j] /\ mItemById[j] # NoItem
    BY <1>5
  <2>2. Told(j) \/ Removing(j) \/ Updating(j)
    BY <2>1 DEF Kin, RowsAreTold
  <2>3. Told(j) => Told(j)'
    BY <1>5, <1>6, <2>1 DEF Told
  <2> QED BY <2>1, <2>2, <2>3
<1>11. RemovesFamilies'
  <2> SUFFICES ASSUME NEW i \in Ids, Removing(i)', mItemById'[i] # NoItem
               PROVE  /\ mItemById'[i].relatedTo = mUidToParent'[mItemById'[i].uid]
                      /\ \A j \in Ids : mItemById'[j] # NoItem
                             /\ mUidToParent'[mItemById'[j].uid] = mItemById'[i].uid => Removing(j)'
    BY DEF RemovesFamilies
  <2>1. i # k /\ Removing(i) /\ mItemById'[i] = mItemById[i]
    BY <1>5
  <2>2. /\ mItemById[i].relatedTo = mUidToParent[mItemById[i].uid]
        /\ \A j \in Ids : mItemById[j] # NoItem /\ mUidToParent[mItemById[j].uid] = mItemById[i].uid => Removing(j)
    BY <2>1 DEF Kin, RemovesFamilies
  <2>3. mItemById'[i].relatedTo = mUidToParent'[mItemById'[i].uid]
    BY <1>5, <1>6, <2>1, <2>2
  <2>4. ASSUME NEW j \in Ids, mItemById'[j] # NoItem, mUidToParent'[mItemById'[j].uid] = mItemById'[i].uid
        PROVE  Removing(j)'
    BY <1>5, <1>6, <2>1, <2>2, <2>4
  <2> QED BY <2>3, <2>4
<1>12. MovesAlone'
  <2> SUFFICES ASSUME NEW i \in Ids, Updating(i)', mItemById'[i] # NoItem, mItemById'[i].uid # rows[i].uid
               PROVE  /\ rows[i].relatedTo = NoUid /\ mUidToParent'[mItemById'[i].uid] = NoUid
                      /\ mItemIdByUid'[rows[i].uid] = NoItem
                      /\ \A v \in Uids : mUidToParent'[v] \notin {mItemById'[i].uid, rows[i].uid}
    BY DEF MovesAlone
  <2>1. i # k /\ Updating(i) /\ mItemById'[i] = mItemById[i]
    BY <1>5
  <2>2. /\ rows[i].relatedTo = NoUid /\ mUidToParent[mItemById[i].uid] = NoUid
        /\ mItemIdByUid[rows[i].uid] = NoItem
        /\ \A v \in Uids : mUidToParent[v] \notin {mItemById[i].uid, rows[i].uid}
    BY <2>1 DEF Kin, MovesAlone
  <2>3. rows[i].uid \in Uids /\ mItemById[i].uid \in Uids
    <3>1. rows[i] # NoItem
      BY <2>1 DEF Updating, IInv, HandlerInv, Fills
    <3> QED BY <1>6, <2>1, <3>1, RowFacts DEF IInv, SourceOK
  <2>4. NoUid \notin {mItemById[i].uid, rows[i].uid}
    BY <2>3, IdsAssumption
  <2> QED BY <1>5, <1>6, <2>1, <2>2, <2>3, <2>4
<1>13. ListsTell'
  <2> SUFFICES ASSUME NEW q \in Uids, NEW v \in Uids
               PROVE  IF mItemIdByUid'[v] # NoItem /\ mUidToParent'[v] = q
                      THEN InList(q, v)' = 1 \/ (InList(q, v)' = 0 /\ Removing(mItemIdByUid[v])')
                      ELSE InList(q, v)' = 0
    BY DEF ListsTell
  <2>1. IF mItemIdByUid[v] # NoItem /\ mUidToParent[v] = q
        THEN InList(q, v) = 1 \/ (InList(q, v) = 0 /\ Removing(mItemIdByUid[v]))
        ELSE InList(q, v) = 0
    BY DEF Kin, ListsTell
  <2>2. CASE v = u
    BY <1>3, <1>4, <1>5, <2>1, <2>2
  <2>3. CASE v # u
    <3>1. mItemIdByUid'[v] = mItemIdByUid[v] /\ mUidToParent'[v] = mUidToParent[v]
      BY <1>5, <2>3
    <3>2. CASE mItemIdByUid[v] # NoItem /\ mUidToParent[v] = q
      <4>1. PICK j \in Ids : j = mItemIdByUid[v] /\ mItemById[j] # NoItem /\ mItemById[j].uid = v
        BY <1>1, <3>2, UidFacts
      <4>2. j # k
        BY <1>2, <2>3, <4>1
      <4>3. Removing(mItemIdByUid[v])' <=> Removing(mItemIdByUid[v])
        BY <3>1, <4>1, <4>2 DEF Removing
      <4>4. CASE q = u
        <5>1. Removing(j)
          BY <1>2, <3>2, <4>1, <4>2, <4>4
        <5> QED BY <1>4, <3>1, <3>2, <4>1, <4>3, <4>4, <5>1
      <4>5. CASE q # u
        BY <1>4, <2>1, <2>3, <3>1, <3>2, <4>3, <4>5
      <4> QED BY <4>4, <4>5
    <3>3. CASE ~(mItemIdByUid[v] # NoItem /\ mUidToParent[v] = q)
      BY <1>4, <2>1, <3>1, <3>3
    <3> QED BY <3>2, <3>3
  <2> QED BY <2>2, <2>3
<1>14. ParentsOfShown'
  <2> SUFFICES ASSUME NEW v \in Uids, mUidToParent'[v] # NoUid, mItemIdByUid'[v] = NoItem
               PROVE  \E i \in Ids : Inserting(i)' /\ rows'[i].uid = v /\ rows'[i].relatedTo = mUidToParent'[v]
    BY DEF ParentsOfShown
  <2>1. mUidToParent'[v] = mUidToParent[v] /\ mItemIdByUid[v] = NoItem
    BY <1>5
  <2>2. PICK i \in Ids : Inserting(i) /\ rows[i].uid = v /\ rows[i].relatedTo = mUidToParent[v]
    BY <2>1 DEF Kin, ParentsOfShown
  <2> QED BY <2>1, <2>2
<1> QED BY <1>7, <1>8, <1>9, <1>10, <1>11, <1>12, <1>13, <1>14 DEF Kin

\* An update leaves out only what was deleted.
LEMMA LeftOutIsDeleted ==
  ASSUME IInv, Kin, NEW k \in Ids, rows[k] # NoItem, IsLeftOut(k), Updating(k),
         \A j \in Ids : j # k => ~Removing(j) /\ ~Updating(j)
  PROVE  mItemById[k] = NoItem /\ k \in deleted
<1>1. MapsOK /\ rows[k].uid \in Uids
  BY RowFacts DEF IInv, SourceOK
<1>2. \A j \in Ids : mItemById[j] # NoItem /\ mItemById[j].uid = rows[k].uid => j = k
  <2> SUFFICES ASSUME NEW j \in Ids, mItemById[j] # NoItem, mItemById[j].uid = rows[k].uid, j # k
               PROVE  FALSE
    OBVIOUS
  <2>1. rows[j] # NoItem /\ rows[j].uid = rows[k].uid
    BY ToldFacts
  <2> QED BY <2>1 DEF Kin, UniqueUids, Shown
<1>3. mItemById[k] = NoItem
  <2>1. CASE Existing(rows[k].uid) = {}
    BY <2>1 DEF IsLeftOut
  <2>2. CASE Existing(rows[k].uid) # {}
    <3>1. mItemIdByUid[rows[k].uid] # NoItem /\ mItemIdByUid[rows[k].uid] # k
      BY <1>1, <2>2, ExistingIs DEF IsLeftOut
    <3> QED BY <1>1, <1>2, <3>1, UidFacts
  <2> QED BY <2>1, <2>2
<1> QED BY <1>3 DEF Kin, LeavesOutDeleted

LEMMA UpdateKin ==
  ASSUME IInv, HierarchyOK, Orderly, Kin, Handle, NEW k \in Ids, Head(pending) = [op |-> "update", id |-> k]
  PROVE  Kin'
<1>1. /\ \A o, j : Awaits(pending, o, j) <=> (o = "update" /\ j = k) \/ Awaits(pending', o, j)
      /\ \A j : ~Awaits(pending', "update", j) /\ ~Awaits(pending', "insert", j)
      /\ Once(pending')
      /\ \A j : ~Awaits(pending, "remove", j) /\ ~Awaits(pending, "clear", NoItem)
      /\ rows[k] # NoItem /\ UNCHANGED <<rows, scenario>>
  BY HeadStep DEF Kin, HandlesOnce
<1>2. Update(k) /\ deleted' = deleted /\ MapsOK /\ SourceOK /\ rows \in RowsType /\ Hierarchies
  BY DEF Handle, IInv, SourceOK, HierarchyOK, Hierarchies
<1>3. /\ \A j : ~Removing(j) /\ ~Removing(j)' /\ ~Updating(j)' /\ (Updating(j) <=> j = k)
      /\ \A j : ~Inserting(j) /\ ~Inserting(j)'
      /\ ~Resetting /\ ~Resetting'
  BY <1>1 DEF Removing, Updating, Inserting, Resetting
<1>4. PICK u \in Uids, p \in Uids \cup {NoUid} : u = rows[k].uid /\ p = rows[k].relatedTo
  BY <1>1, <1>2, RowFacts
<1>5. /\ UniqueUids(rows)' /\ HandlesOnce' /\ RemovesFamilies' /\ MovesAlone'
  BY <1>1, <1>3 DEF Kin, UniqueUids, Shown, HandlesOnce, RemovesFamilies, MovesAlone
<1>6. \A v \in Uids : mItemIdByUid[v] = NoItem => mUidToParent[v] = NoUid
  BY <1>3 DEF Kin, ParentsOfShown
<1>7. \A q, v \in Uids : InList(q, v) = IF mItemIdByUid[v] # NoItem /\ mUidToParent[v] = q THEN 1 ELSE 0
  BY <1>3 DEF Kin, ListsTell
<1>8. CASE IsLeftOut(k) /\ UNCHANGED <<maps, hierarchy>> /\ untaken' = untaken \cup {k}
  <2>1. mItemById[k] = NoItem /\ k \in deleted
    BY <1>1, <1>3, <1>8, LeftOutIsDeleted
  <2>2. UNCHANGED <<mItemById, mItemIdByUid, mParentUidToChildrenUid, mUidToParent>>
    BY <1>8 DEF maps, hierarchy
  <2>3. LeavesOutDeleted'
    BY <1>2, <1>3, <1>8, <2>1, <2>2 DEF Kin, LeavesOutDeleted
  <2>4. RowsAreTold'
    BY <1>1, <1>3, <2>1, <2>2 DEF Kin, RowsAreTold, Told
  <2>5. ListsTell'
    BY <1>3, <1>7, <2>2 DEF ListsTell, InList
  <2>6. ParentsOfShown'
    BY <1>6, <2>2 DEF ParentsOfShown
  <2> QED BY <1>5, <2>3, <2>4, <2>5, <2>6 DEF Kin
<1>9. ASSUME mItemById[k] # NoItem, mItemById' = [mItemById EXCEPT ![k] = rows[k]], untaken' = untaken \ {k}
      PROVE  /\ mItemById'[k] = rows[k] /\ \A j \in Ids : j # k => mItemById'[j] = mItemById[j]
             /\ LeavesOutDeleted'
             /\ k \notin deleted /\ k # NoItem
             /\ mItemById[k].uid \in Uids /\ mItemIdByUid[mItemById[k].uid] = k
  <2>1. mItemById'[k] = rows[k] /\ \A j \in Ids : j # k => mItemById'[j] = mItemById[j]
    BY <1>2, <1>9 DEF MapsOK, RowsType
  <2>2. k \notin deleted /\ LeavesOutDeleted'
    BY <1>2, <1>3, <1>9, <2>1 DEF Kin, LeavesOutDeleted, HierarchyOK
  <2> QED BY <1>2, <1>9, <2>1, <2>2, UidFacts
<1>10. CASE /\ mItemById[k] # NoItem /\ mItemById' = [mItemById EXCEPT ![k] = rows[k]] /\ untaken' = untaken \ {k}
            /\ mItemById[k].uid = rows[k].uid /\ UNCHANGED mItemIdByUid /\ HandleParentChanged(rows[k])
  <2>1. /\ mItemById'[k] = rows[k] /\ \A j \in Ids : j # k => mItemById'[j] = mItemById[j]
        /\ LeavesOutDeleted' /\ mItemIdByUid[u] = k /\ k # NoItem /\ mItemIdByUid' = mItemIdByUid
    BY <1>4, <1>9, <1>10
  <2>2. /\ \A v \in Uids : mUidToParent'[v] = IF v = u THEN p ELSE mUidToParent[v]
        /\ \A q, v \in Uids : v # u \/ mUidToParent[u] = p => InList(q, v)' = InList(q, v)
        /\ mUidToParent[u] # p =>
             \A q \in Uids : InList(q, u)' = IF q = mUidToParent[u] THEN 0
                                             ELSE IF q = p THEN InList(q, u) + 1 ELSE InList(q, u)
    <3>1. rows[k] \in Incidence
      BY <1>1, <1>2, RowFacts
    <3> QED BY <1>2, <1>4, <1>10, <3>1, ParentChanged
  <2>3. RowsAreTold'
    <3> SUFFICES ASSUME NEW j \in Ids, mItemById'[j] # NoItem PROVE Told(j)'
      BY DEF RowsAreTold
    <3>1. CASE j = k
      BY <1>1, <1>4, <2>1, <2>2, <3>1 DEF Told
    <3>2. CASE j # k
      <4>1. mItemById[j] # NoItem /\ mItemById'[j] = mItemById[j]
        BY <2>1, <3>2
      <4>2. /\ rows[j] # NoItem /\ mItemById[j].uid = rows[j].uid
            /\ mUidToParent[rows[j].uid] = rows[j].relatedTo
        BY <1>3, <3>2, <4>1, ToldFacts
      <4>3. rows[j].uid \in Uids /\ mItemIdByUid[rows[j].uid] = j
        BY <1>2, <4>1, <4>2, UidFacts
      <4> QED BY <1>1, <2>1, <2>2, <3>2, <4>1, <4>2, <4>3 DEF Told
    <3> QED BY <3>1, <3>2
  <2>4. ListsTell'
    <3> SUFFICES ASSUME NEW q \in Uids, NEW v \in Uids
                 PROVE  InList(q, v)' = IF mItemIdByUid'[v] # NoItem /\ mUidToParent'[v] = q THEN 1 ELSE 0
      BY <1>3 DEF ListsTell
    <3>1. InList(q, v) = IF mItemIdByUid[v] # NoItem /\ mUidToParent[v] = q THEN 1 ELSE 0
      BY <1>7
    <3>2. CASE v # u \/ mUidToParent[u] = p
      BY <2>1, <2>2, <3>1, <3>2
    <3>3. CASE v = u /\ mUidToParent[u] # p
      BY <2>1, <2>2, <3>1, <3>3
    <3> QED BY <3>2, <3>3
  <2>5. ParentsOfShown'
    BY <1>6, <2>1, <2>2 DEF ParentsOfShown
  <2> QED BY <1>5, <2>1, <2>3, <2>4, <2>5 DEF Kin
<1>11. CASE /\ mItemById[k] # NoItem /\ mItemById' = [mItemById EXCEPT ![k] = rows[k]] /\ untaken' = untaken \ {k}
            /\ mItemById[k].uid # rows[k].uid /\ mItemIdByUid[rows[k].uid] = NoItem
            /\ HandleUidChange(k, mItemById[k].uid, rows[k].uid)
            /\ mItemIdByUid' = [mItemIdByUid EXCEPT ![rows[k].uid] = k, ![mItemById[k].uid] = NoItem]
  <2>1. PICK old \in Uids : old = mItemById[k].uid
    BY <1>9, <1>11
  <2>2. /\ mItemById'[k] = rows[k] /\ \A j \in Ids : j # k => mItemById'[j] = mItemById[j]
        /\ LeavesOutDeleted' /\ mItemIdByUid[old] = k /\ k # NoItem /\ old # u
    BY <1>4, <1>9, <1>11, <2>1
  <2>3. /\ mItemIdByUid'[u] = k /\ mItemIdByUid'[old] = NoItem
        /\ \A v \in Uids : v \notin {u, old} => mItemIdByUid'[v] = mItemIdByUid[v]
    BY <1>2, <1>4, <1>11, <2>1, <2>2 DEF MapsOK
  <2>4. /\ p = NoUid /\ mUidToParent[old] = NoUid /\ mUidToParent[u] = NoUid
        /\ \A v \in Uids : mUidToParent[v] \notin {old, u}
    BY <1>3, <1>4, <1>6, <1>11, <2>1 DEF Kin, MovesAlone
  <2>5. /\ mUidToParent' = mUidToParent
        /\ \A q, v \in Uids : \/ InList(q, v)' = InList(q, v)
                              \/ q = old /\ InList(q, v)' = 0
                              \/ q = u /\ InList(q, v)' = InList(old, v)
    BY <1>2, <1>4, <1>11, <2>1, <2>2, UidChanged
  <2>6. RowsAreTold'
    <3> SUFFICES ASSUME NEW j \in Ids, mItemById'[j] # NoItem PROVE Told(j)'
      BY DEF RowsAreTold
    <3>1. CASE j = k
      BY <1>1, <1>4, <2>2, <2>4, <2>5, <3>1 DEF Told
    <3>2. CASE j # k
      <4>1. mItemById[j] # NoItem /\ mItemById'[j] = mItemById[j]
        BY <2>2, <3>2
      <4>2. /\ rows[j] # NoItem /\ mItemById[j].uid = rows[j].uid
            /\ mUidToParent[rows[j].uid] = rows[j].relatedTo
        BY <1>3, <3>2, <4>1, ToldFacts
      <4> QED BY <1>1, <2>5, <4>1, <4>2 DEF Told
    <3> QED BY <3>1, <3>2
  <2>7. ListsTell'
    <3> SUFFICES ASSUME NEW q \in Uids, NEW v \in Uids
                 PROVE  InList(q, v)' = IF mItemIdByUid'[v] # NoItem /\ mUidToParent'[v] = q THEN 1 ELSE 0
      BY <1>3 DEF ListsTell
    <3>1. /\ InList(q, v) = IF mItemIdByUid[v] # NoItem /\ mUidToParent[v] = q THEN 1 ELSE 0
          /\ InList(old, v) = 0 /\ InList(u, v) = 0
      BY <1>7, <2>4
    <3>2. InList(q, v)' = InList(q, v)
      BY <2>5, <3>1
    <3>3. mUidToParent[v] = q => v \notin {u, old}
      BY <2>4, IdsAssumption
    <3> QED BY <2>3, <2>5, <3>1, <3>2, <3>3
  <2>8. ParentsOfShown'
    BY <1>6, <2>3, <2>4, <2>5 DEF ParentsOfShown
  <2> QED BY <1>5, <2>2, <2>6, <2>7, <2>8 DEF Kin
<1>12. ~IsCollection
  BY DEF Orderly, IsCollection
<1> QED BY <1>1, <1>2, <1>8, <1>10, <1>11, <1>12, UpdateCases

LEMMA ClearKin ==
  ASSUME IInv, HierarchyOK, Orderly, Kin, Handle, Head(pending) = [op |-> "clear", id |-> NoItem]
  PROVE  Kin'
<1>1. /\ \A o, j : Awaits(pending, o, j) <=> (o = "clear" /\ j = NoItem) \/ Awaits(pending', o, j)
      /\ \A j : ~Awaits(pending', "update", j)
      /\ Once(pending') /\ ~Awaits(pending', "clear", NoItem)
      /\ UNCHANGED <<rows, scenario>>
  BY HeadStep DEF Kin, HandlesOnce
<1>2. ClearAll /\ UNCHANGED <<untaken, deleted>> /\ MapsOK /\ rows \in RowsType /\ Hierarchies
  BY DEF Handle, IInv, SourceOK, HierarchyOK, Hierarchies
<1>3. /\ Resetting /\ ~Resetting' /\ \A j : Inserting(j)' <=> Inserting(j)
      /\ \A j : (Removing(j)' <=> Removing(j)) /\ (Updating(j)' <=> Updating(j))
  BY <1>1 DEF Removing, Updating, Inserting, Resetting
<1>4. /\ mItemIdByUid' = [u \in Uids |-> NoItem]
      /\ \A q, v \in Uids : InList(q, v)' = 0
      /\ \A v \in Uids : mUidToParent'[v] = IF \E i \in Ids : /\ mItemById[i] # NoItem /\ mItemById[i].uid = v
                                                             /\ mItemById[i].relatedTo # NoUid
                                           THEN NoUid ELSE mUidToParent[v]
  BY <1>2, ClearParents
<1>5. \A j \in Ids : mItemById'[j] = NoItem
  BY <1>1, <1>2, ClearFollows
<1>6. \A j \in Ids : ~Removing(j) /\ ~Updating(j) /\ (rows[j] # NoItem => Inserting(j))
  BY <1>3 DEF Kin, HandlesOnce
<1>7. UniqueUids(rows)' /\ HandlesOnce'
  BY <1>1, <1>3, <1>5 DEF Kin, UniqueUids, Shown, HandlesOnce
<1>8. LeavesOutDeleted'
  BY <1>2, <1>3, <1>5, <1>6 DEF Kin, LeavesOutDeleted, HierarchyOK
<1>9. RowsAreTold' /\ RemovesFamilies' /\ MovesAlone'
  BY <1>5 DEF RowsAreTold, RemovesFamilies, MovesAlone
<1>10. ListsTell'
  BY <1>4 DEF ListsTell
<1>11. ParentsOfShown'
  <2> SUFFICES ASSUME NEW v \in Uids, mUidToParent'[v] # NoUid
               PROVE  \E i \in Ids : Inserting(i)' /\ rows'[i].uid = v /\ rows'[i].relatedTo = mUidToParent'[v]
    BY DEF ParentsOfShown
  <2>1. mUidToParent'[v] = mUidToParent[v]
    BY <1>4
  <2>2. CASE mItemIdByUid[v] = NoItem
    BY <1>1, <1>3, <2>1, <2>2 DEF Kin, ParentsOfShown
  <2>3. CASE mItemIdByUid[v] # NoItem
    <3>1. PICK i \in Ids : i = mItemIdByUid[v] /\ mItemById[i] # NoItem /\ mItemById[i].uid = v
      BY <1>2, <2>3, UidFacts
    <3>2. rows[i] # NoItem /\ rows[i].uid = v /\ mUidToParent[v] = rows[i].relatedTo
      BY <1>6, <3>1, ToldFacts
    <3> QED BY <1>1, <1>3, <1>6, <2>1, <3>2
  <2> QED BY <2>2, <2>3
<1> QED BY <1>7, <1>8, <1>9, <1>10, <1>11 DEF Kin

LEMMA HandleKin ==
  ASSUME IInv, HierarchyOK, Orderly, Kin, Handle
  PROVE  Kin'
<1>1. PICK op \in {"insert", "update", "remove", "clear"}, k \in Ids \cup {NoItem} :
        /\ Head(pending) = [op |-> op, id |-> k]
        /\ op = "clear" <=> k = NoItem
        /\ \A o, j : Awaits(pending, o, j) <=> (o = op /\ j = k) \/ Awaits(pending', o, j)
        /\ Once(pending) => Once(pending') /\ ~Awaits(pending', op, k)
        /\ UNCHANGED <<rows, scenario>>
  BY HeadStep
<1>2. CASE op = "insert"
  BY <1>1, <1>2, InsertKin
<1>3. CASE op = "update"
  BY <1>1, <1>3, UpdateKin
<1>4. CASE op = "clear"
  BY <1>1, <1>4, ClearKin
<1>5. CASE op = "remove"
  <2>1. k \in Ids /\ InternalRemove(k) /\ UNCHANGED <<untaken, deleted>>
    BY <1>1, <1>5 DEF Handle
  <2>2. /\ Once(pending') /\ Removing(k) /\ ~Removing(k)'
        /\ \A j \in Ids : j # k => (Removing(j)' <=> Removing(j))
        /\ \A j \in Ids : (Updating(j)' <=> Updating(j)) /\ (Inserting(j)' <=> Inserting(j))
        /\ Resetting' <=> Resetting
    BY <1>1, <1>5 DEF Kin, HandlesOnce, Removing, Updating, Inserting, Resetting
  <2>3. ~Resetting /\ ~Updating(k)
    <3>1. ~Resetting
      BY <2>1, <2>2 DEF Kin, HandlesOnce
    <3>2. ~Updating(k)
      <4>1. \A j : ~Awaits(pending', "update", j)
        BY HeadStep
      <4> QED BY <1>1, <1>5, <4>1 DEF Updating
    <3> QED BY <3>1, <3>2
  <2>4. CASE mItemById[k] = NoItem
    <3>1. UNCHANGED <<mItemById, mItemIdByUid, mParentUidToChildrenUid, mUidToParent>>
      BY <2>1, <2>4 DEF InternalRemove, maps, hierarchy
    <3>2. UniqueUids(rows)' /\ HandlesOnce' /\ LeavesOutDeleted'
      BY <1>1, <2>1, <2>2, <2>3, <2>4, <3>1
      DEF Kin, UniqueUids, Shown, HandlesOnce, LeavesOutDeleted, HierarchyOK
    <3>3. RowsAreTold' /\ MovesAlone' /\ ParentsOfShown'
      BY <1>1, <2>2, <2>4, <3>1 DEF Kin, RowsAreTold, Told, MovesAlone, ParentsOfShown
    <3>4. RemovesFamilies'
      BY <2>2, <2>4, <3>1 DEF Kin, RemovesFamilies
    <3>5. ListsTell'
      <4> SUFFICES ASSUME NEW q \in Uids, NEW v \in Uids, mItemIdByUid[v] # NoItem
                   PROVE  Removing(mItemIdByUid[v])' <=> Removing(mItemIdByUid[v])
        BY <3>1 DEF Kin, ListsTell, InList
      <4>1. mItemIdByUid[v] \in Ids /\ mItemIdByUid[v] # k
        BY <2>4, UidFacts DEF IInv
      <4> QED BY <2>2, <3>1, <4>1 DEF Removing
    <3> QED BY <3>2, <3>3, <3>4, <3>5 DEF Kin
  <2>5. CASE mItemById[k] # NoItem
    <3>1. /\ mItemById[k].relatedTo = mUidToParent[mItemById[k].uid]
          /\ \A j \in Ids : j # k /\ mItemById[j] # NoItem /\ mUidToParent[mItemById[j].uid] = mItemById[k].uid
                              => Removing(j)
      BY <2>1, <2>2, <2>5 DEF Kin, RemovesFamilies
    <3> QED BY <1>1, <2>1, <2>2, <2>3, <2>5, <3>1, RemoveKin
  <2> QED BY <2>4, <2>5
<1> QED BY <1>2, <1>3, <1>4, <1>5

-----------------------------------------------------------------------------
(* The signals, and the hierarchy.                                         *)

\* A handler goes through each row once.
LEMMA OrdersOnce ==
  ASSUME NEW S \in SUBSET Ids, NEW order \in Orders(S)
  PROVE  Once(Loads(order)) /\ Once(Removals(order)) /\ Once(Clearing \o Loads(order))
<1>1. \A m, n \in DOMAIN order : order[m] = order[n] => m = n
  BY DEF Orders, SetToSeqs
<1>2. Once(Loads(order)) /\ Once(Removals(order))
  BY <1>1 DEF Once, Loads, Removals
<1>3. PICK t \in Seq(Ops) : t = Loads(order)
  BY LoadsAwait
<1>4. Once(t) /\ \A n \in DOMAIN t : t[n].op = "insert"
  BY <1>2, <1>3, LoadsAwait
<1>5. PICK s \in Seq(Ops) : s = Clearing
  BY ClearingAwaits
<1>6. Len(s) = 1 /\ s[1].op = "clear"
  BY <1>5 DEF Clearing
<1>7. /\ Len(t) \in Nat /\ DOMAIN t = 1 .. Len(t) /\ Len(s \o t) = 1 + Len(t)
      /\ DOMAIN (s \o t) = 1 .. 1 + Len(t)
      /\ \A n \in 1 .. 1 + Len(t) : (s \o t)[n] = IF n <= 1 THEN s[n] ELSE t[n - 1]
  <2>1. Len(s) \in Nat /\ Len(t) \in Nat /\ DOMAIN t = 1 .. Len(t)
    BY LenProperties
  <2>2. /\ s \o t \in Seq(Ops) /\ Len(s \o t) = Len(s) + Len(t)
        /\ \A n \in 1 .. Len(s) + Len(t) : (s \o t)[n] = IF n <= Len(s) THEN s[n] ELSE t[n - Len(s)]
    BY ConcatProperties
  <2>3. DOMAIN (s \o t) = 1 .. Len(s \o t)
    BY <2>2, LenProperties
  <2> QED BY <1>6, <2>1, <2>2, <2>3
<1>8. ASSUME NEW m \in 1 .. 1 + Len(t), NEW n \in 1 .. 1 + Len(t), (s \o t)[m] = (s \o t)[n]
      PROVE  m = n
  <2>1. CASE m = 1 /\ n # 1
    <3>1. (s \o t)[m].op = "clear" /\ (s \o t)[n].op = "insert"
      BY <1>4, <1>6, <1>7, <2>1
    <3> QED BY <1>8, <3>1
  <2>2. CASE m # 1 /\ n = 1
    <3>1. (s \o t)[n].op = "clear" /\ (s \o t)[m].op = "insert"
      BY <1>4, <1>6, <1>7, <2>2
    <3> QED BY <1>8, <3>1
  <2>3. CASE m # 1 /\ n # 1
    <3>1. /\ m - 1 \in DOMAIN t /\ n - 1 \in DOMAIN t
          /\ t[m - 1] = (s \o t)[m] /\ t[n - 1] = (s \o t)[n]
      BY <1>7, <2>3
    <3>2. m - 1 = n - 1
      BY <1>4, <1>8, <3>1 DEF Once
    <3> QED BY <3>2
  <2> QED BY <2>1, <2>2, <2>3
<1> QED BY <1>2, <1>3, <1>5, <1>7, <1>8 DEF Once

\* When no handler runs, the hierarchy is that of the rows.
LEMMA IdleKin ==
  ASSUME IInv, Kin, Idle
  PROVE  /\ \A i : ~Removing(i) /\ ~Updating(i) /\ ~Inserting(i)
         /\ ~Resetting
         /\ \A i \in Ids : mItemById[i] # NoItem =>
              /\ rows[i] # NoItem /\ mItemById[i].uid = rows[i].uid
              /\ mUidToParent[rows[i].uid] = rows[i].relatedTo
         /\ \A p, u \in Uids : InList(p, u) = IF mItemIdByUid[u] # NoItem /\ mUidToParent[u] = p THEN 1 ELSE 0
         /\ \A u \in Uids : mItemIdByUid[u] = NoItem => mUidToParent[u] = NoUid
         /\ untaken \subseteq deleted /\ \A i \in deleted : mItemById[i] = NoItem
         /\ ~IsTree => \A i \in Ids \ deleted : rows[i] # NoItem =>
              mItemById[i] # NoItem /\ mItemById[i].uid = rows[i].uid
<1>1. /\ \A i : ~Removing(i) /\ ~Updating(i) /\ ~Inserting(i)
      /\ ~Resetting
  BY DEF Idle, Removing, Updating, Inserting, Resetting, Awaits
<1>2. untaken \subseteq deleted /\ \A i \in deleted : mItemById[i] = NoItem
  BY DEF Kin, LeavesOutDeleted
<1>3. ~IsTree => \A i \in Ids \ deleted : rows[i] # NoItem =>
        mItemById[i] # NoItem /\ mItemById[i].uid = rows[i].uid
  BY <1>2, WhenIdle
<1>4. \A i \in Ids : mItemById[i] # NoItem => Told(i)
  BY <1>1 DEF Kin, RowsAreTold
<1>5. \A p, u \in Uids : InList(p, u) = IF mItemIdByUid[u] # NoItem /\ mUidToParent[u] = p THEN 1 ELSE 0
  BY <1>1 DEF Kin, ListsTell
<1>6. \A u \in Uids : mItemIdByUid[u] = NoItem => mUidToParent[u] = NoUid
  BY <1>1 DEF Kin, ParentsOfShown
<1> QED BY <1>1, <1>2, <1>3, <1>4, <1>5, <1>6 DEF Told

\* A signal changes the rows and starts a handler; the maps are changed by the handler.
LEMMA SignalKin ==
  ASSUME IInv, Kin, Idle, UNCHANGED <<maps, hierarchy>>
  PROVE  ListsTell' /\ ParentsOfShown'
<1>1. UNCHANGED <<mItemById, mItemIdByUid, mParentUidToChildrenUid, mUidToParent>>
  BY DEF maps, hierarchy
<1>2. ListsTell'
  BY <1>1, IdleKin DEF ListsTell, InList
<1>3. ParentsOfShown'
  BY <1>1, IdleKin DEF ParentsOfShown
<1> QED BY <1>2, <1>3

LEMMA InsertedKin ==
  ASSUME IInv, Orderly, Kin, NEW batch \in SUBSET Ids, NEW order \in Orders(batch),
         NEW new \in [batch -> UsedIncidences], RowsInserted(order, new)
  PROVE  Kin'
<1>1. /\ Idle /\ Insertion(new) /\ pending' = Loads(order)
      /\ UNCHANGED <<maps, hierarchy, untaken, deleted>> /\ UNCHANGED <<mItemById, mUidToParent>>
  BY DEF RowsInserted, maps, hierarchy
<1>2. /\ \A i : ~Removing(i)' /\ ~Updating(i)' /\ (Inserting(i)' <=> i \in batch)
      /\ ~Resetting'
  BY <1>1, LoadsAwait DEF Removing, Updating, Inserting, Resetting
<1>3. /\ \A i \in batch : rows[i] = NoItem
      /\ \A i \in Ids \ batch : rows'[i] = rows[i]
      /\ UniqueUids(rows)'
  BY <1>1 DEF Insertion, Orderly, UniqueUids, Shown
<1>4. \A i \in Ids : mItemById[i] # NoItem =>
        /\ rows[i] # NoItem /\ mItemById[i].uid = rows[i].uid
        /\ mUidToParent[rows[i].uid] = rows[i].relatedTo
  BY <1>1, IdleKin
<1>5. HandlesOnce'
  BY <1>1, <1>2, <1>3, <1>4, OrdersOnce DEF HandlesOnce
<1>6. LeavesOutDeleted'
  BY <1>1, <1>2 DEF Kin, LeavesOutDeleted
<1>7. RowsAreTold'
  BY <1>1, <1>3, <1>4 DEF RowsAreTold, Told
<1>8. RemovesFamilies' /\ MovesAlone'
  BY <1>2 DEF RemovesFamilies, MovesAlone
<1> QED BY <1>1, <1>3, <1>5, <1>6, <1>7, <1>8, SignalKin DEF Kin

LEMMA RemovedKin ==
  ASSUME IInv, Orderly, Kin, NEW batch \in SUBSET Ids, NEW order \in Orders(batch), RowsRemoved(order)
  PROVE  Kin'
<1>1. /\ Idle /\ Removal(batch) /\ pending' = Removals(order)
      /\ \A i \in batch : mItemById[i] \in {rows[i], NoItem}
      /\ untaken' = untaken \ batch /\ deleted' = deleted \ batch
      /\ UNCHANGED <<maps, hierarchy>> /\ UNCHANGED <<mItemById, mUidToParent>>
  BY OrderNames DEF RowsRemoved, maps, hierarchy, Orderly
<1>2. /\ \A i : ~Inserting(i)' /\ ~Updating(i)' /\ (Removing(i)' <=> i \in batch)
      /\ ~Resetting'
  BY <1>1, RemovalsAwait DEF Removing, Updating, Inserting, Resetting
<1>3. /\ \A i \in Ids \ batch : rows'[i] = rows[i]
      /\ \A i \in batch : rows'[i] = NoItem
      /\ OrderlyRemoval(rows, batch) /\ UniqueUids(rows)'
  BY <1>1 DEF Removal, Without, Orderly, Kin, UniqueUids, Shown
<1>4. \A i \in Ids : mItemById[i] # NoItem =>
        /\ rows[i] # NoItem /\ mItemById[i].uid = rows[i].uid
        /\ mUidToParent[rows[i].uid] = rows[i].relatedTo
  BY <1>1, IdleKin
<1>5. HandlesOnce'
  BY <1>1, <1>2, OrdersOnce DEF HandlesOnce
<1>6. LeavesOutDeleted'
  BY <1>1, <1>2 DEF Kin, LeavesOutDeleted
<1>7. RowsAreTold'
  BY <1>1, <1>2, <1>3, <1>4 DEF RowsAreTold, Told
<1>8. RemovesFamilies'
  <2> SUFFICES ASSUME NEW i \in batch, mItemById[i] # NoItem
               PROVE  /\ mItemById[i].relatedTo = mUidToParent[mItemById[i].uid]
                      /\ \A j \in Ids : mItemById[j] # NoItem /\ mUidToParent[mItemById[j].uid] = mItemById[i].uid
                                          => j \in batch
    BY <1>1, <1>2 DEF RemovesFamilies
  <2>1. mItemById[i] = rows[i] /\ mUidToParent[rows[i].uid] = rows[i].relatedTo /\ rows[i] # NoItem
    BY <1>1, <1>4
  <2>2. ASSUME NEW j \in Ids, mItemById[j] # NoItem, mUidToParent[mItemById[j].uid] = rows[i].uid
        PROVE  j \in batch
    <3>1. rows[j] # NoItem /\ rows[j].relatedTo = rows[i].uid
      BY <1>4, <2>2
    <3> QED BY <1>3, <2>1, <3>1 DEF OrderlyRemoval, Shown
  <2> QED BY <2>1, <2>2
<1>9. MovesAlone'
  BY <1>2 DEF MovesAlone
<1> QED BY <1>1, <1>3, <1>5, <1>6, <1>7, <1>8, <1>9, SignalKin DEF Kin

LEMMA ChangedKin ==
  ASSUME IInv, Orderly, Kin, NEW i \in Ids, NEW inc \in UsedIncidences, DataChanged(i, inc)
  PROVE  Kin'
<1>1. /\ Idle /\ Change(i, inc) /\ pending' = <<[op |-> "update", id |-> i]>>
      /\ UNCHANGED <<maps, hierarchy, untaken, deleted>>
      /\ UNCHANGED <<mItemById, mItemIdByUid, mUidToParent>>
  BY DEF DataChanged, maps, hierarchy
<1>2. /\ \A j : ~Inserting(j)' /\ ~Removing(j)' /\ (Updating(j)' <=> j = i)
      /\ ~Resetting' /\ Once(pending')
  BY <1>1 DEF Removing, Updating, Inserting, Resetting, Awaits, Once
<1>3. /\ rows[i] # NoItem /\ rows'[i] = inc /\ \A j \in Ids : j # i => rows'[j] = rows[j]
      /\ OrderlyChange(rows, i, inc)
  BY <1>1 DEF Change, With, Orderly, IInv, SourceOK, RowsType
<1>4. \A j \in Ids : mItemById[j] # NoItem =>
        /\ rows[j] # NoItem /\ mItemById[j].uid = rows[j].uid
        /\ mUidToParent[rows[j].uid] = rows[j].relatedTo
  BY <1>1, IdleKin
<1>5. UniqueUids(rows)'
  <2>1. \A j \in Ids : j # i /\ rows[j] # NoItem => rows[j].uid # inc.uid
    BY <1>3 DEF OrderlyChange, HasUid, Shown, Kin, UniqueUids
  <2> QED BY <1>3, <2>1 DEF Kin, UniqueUids, Shown
<1>6. HandlesOnce'
  BY <1>2 DEF HandlesOnce
<1>7. LeavesOutDeleted'
  <2>1. mItemById[i] # NoItem \/ i \in deleted
    BY <1>1, <1>3, IdleKin DEF Orderly, IsTree
  <2> QED BY <1>1, <1>2, <2>1 DEF Kin, LeavesOutDeleted
<1>8. RowsAreTold'
  BY <1>1, <1>2, <1>3, <1>4 DEF RowsAreTold, Told
<1>9. RemovesFamilies'
  BY <1>2 DEF RemovesFamilies
<1>10. MovesAlone'
  <2> SUFFICES ASSUME mItemById[i] # NoItem, mItemById[i].uid # inc.uid
               PROVE  /\ inc.relatedTo = NoUid /\ mUidToParent[mItemById[i].uid] = NoUid
                      /\ mItemIdByUid[inc.uid] = NoItem
                      /\ \A u \in Uids : mUidToParent[u] \notin {mItemById[i].uid, inc.uid}
    BY <1>1, <1>2, <1>3 DEF MovesAlone
  <2>1. /\ mItemById[i].uid = rows[i].uid /\ inc.relatedTo = NoUid /\ rows[i].relatedTo = NoUid
        /\ ~HasUid(rows, inc.uid)
        /\ \A j \in Shown(rows) : rows[j].relatedTo \notin {rows[i].uid, inc.uid}
    BY <1>3, <1>4 DEF OrderlyChange
  <2>2. MapsOK /\ inc.uid \in Uids /\ mItemById[i].uid \in Uids
    BY UidFacts, BoundsAssumption DEF IInv, UsedIncidences, Incidence
  <2>3. mUidToParent[mItemById[i].uid] = NoUid
    BY <1>4, <2>1
  <2>4. mItemIdByUid[inc.uid] = NoItem
    <3> SUFFICES ASSUME mItemIdByUid[inc.uid] # NoItem PROVE FALSE
      OBVIOUS
    <3>1. PICK j \in Ids : mItemById[j] # NoItem /\ mItemById[j].uid = inc.uid
      BY <2>2, UidFacts
    <3> QED BY <1>4, <2>1, <3>1 DEF HasUid, Shown
  <2>5. ASSUME NEW u \in Uids, mUidToParent[u] \in {mItemById[i].uid, inc.uid}
        PROVE  FALSE
    <3>1. mUidToParent[u] # NoUid
      BY <2>2, <2>5, IdsAssumption
    <3>2. mItemIdByUid[u] # NoItem
      BY <1>1, <3>1, IdleKin
    <3>3. PICK j \in Ids : mItemById[j] # NoItem /\ mItemById[j].uid = u
      BY <2>2, <3>2, UidFacts
    <3>4. rows[j] # NoItem /\ rows[j].relatedTo = mUidToParent[u]
      BY <1>4, <3>3
    <3> QED BY <2>1, <2>5, <3>4 DEF Shown
  <2> QED BY <2>1, <2>3, <2>4, <2>5
<1> QED BY <1>1, <1>5, <1>6, <1>7, <1>8, <1>9, <1>10, SignalKin DEF Kin

LEMMA ResetKin ==
  ASSUME IInv, Orderly, Kin, NEW load \in Orders(Shown(rows)), ModelReset(load)
  PROVE  Kin'
<1>1. /\ Idle /\ pending' = Clearing \o Loads(load)
      /\ UNCHANGED <<maps, hierarchy, untaken, deleted>>
      /\ UNCHANGED <<rows, mItemById, mUidToParent>>
  BY DEF ModelReset, maps, hierarchy, source
<1>2. \A op, i : Awaits(pending', op, i) <=>
        \/ op = "clear" /\ i = NoItem
        \/ op = "insert" /\ i \in Shown(rows)
  <2> DEFINE s == Clearing
             t == Loads(load)
  <2>1. /\ s \in Seq(Ops) /\ \A n \in DOMAIN s : s[n].op \in {"remove", "clear"}
        /\ t \in Seq(Ops) /\ \A n \in DOMAIN t : t[n].op = "insert"
        /\ \A op, i : Awaits(s, op, i) <=> op = "clear" /\ i = NoItem
        /\ \A op, i : Awaits(t, op, i) <=> op = "insert" /\ i \in Shown(rows)
        /\ pending' = s \o t
    BY <1>1, ClearingAwaits, LoadsAwait, ShownAreIds
  <2> HIDE DEF s, t
  <2>2. \A op, i : Awaits(pending', op, i) <=> Awaits(s, op, i) \/ Awaits(t, op, i)
    BY <2>1, ConcatAwaits
  <2> QED BY <2>1, <2>2
<1>3. /\ \A i : ~Removing(i)' /\ ~Updating(i)' /\ (Inserting(i)' <=> i \in Shown(rows))
      /\ Resetting'
  BY <1>2 DEF Removing, Updating, Inserting, Resetting
<1>4. \A i \in Ids : mItemById[i] # NoItem => Told(i)
  BY <1>1, IdleKin DEF Told
<1>5. UniqueUids(rows)'
  BY <1>1 DEF Kin, UniqueUids, Shown
<1>6. HandlesOnce'
  <2>1. Once(pending')
    BY <1>1, OrdersOnce, ShownAreIds
  <2> QED BY <1>1, <1>3, <2>1 DEF HandlesOnce, Shown
<1>7. LeavesOutDeleted'
  BY <1>1, <1>3 DEF Kin, LeavesOutDeleted
<1>8. RowsAreTold'
  BY <1>1, <1>4 DEF RowsAreTold, Told
<1>9. RemovesFamilies' /\ MovesAlone'
  BY <1>3 DEF RemovesFamilies, MovesAlone
<1> QED BY <1>1, <1>5, <1>6, <1>7, <1>8, <1>9, SignalKin DEF Kin

LEMMA EditKin ==
  ASSUME IInv, HierarchyOK, Kin, NEW i \in Ids, NEW parent \in Uids \cup {NoUid}, LocalEdit(i, parent)
  PROVE  Kin'
<1>1. /\ Idle /\ pending' = pending
      /\ UNCHANGED <<rows, mItemIdByUid, mParentUidToChildrenUid, mUidToParent, untaken, deleted>>
  BY DEF LocalEdit, source, hierarchy
<1>2. \A j \in Ids : /\ mItemById'[j] # NoItem <=> mItemById[j] # NoItem
                     /\ mItemById[j] # NoItem => mItemById'[j].uid = mItemById[j].uid
  BY EditFollows DEF IInv
<1>3. /\ \A j : ~Removing(j)' /\ ~Updating(j)' /\ ~Inserting(j)'
      /\ ~Resetting' /\ Once(pending')
  BY <1>1, IdleKin DEF Removing, Updating, Inserting, Resetting, Kin, HandlesOnce
<1>4. UniqueUids(rows)' /\ HandlesOnce'
  BY <1>1, <1>3 DEF Kin, UniqueUids, Shown, HandlesOnce
<1>5. LeavesOutDeleted'
  <2>1. untaken \subseteq deleted /\ \A j \in deleted : mItemById[j] = NoItem
    BY <1>1, IdleKin
  <2>2. \A j \in deleted : mItemById'[j] = NoItem
    BY <1>2, <2>1 DEF HierarchyOK
  <2> QED BY <1>1, <1>3, <2>1, <2>2 DEF LeavesOutDeleted
<1>6. RowsAreTold'
  BY <1>1, <1>2, IdleKin DEF RowsAreTold, Told
<1>7. RemovesFamilies' /\ MovesAlone'
  BY <1>3 DEF RemovesFamilies, MovesAlone
<1>8. ListsTell' /\ ParentsOfShown'
  BY <1>1, IdleKin DEF ListsTell, InList, ParentsOfShown
<1> QED BY <1>4, <1>5, <1>6, <1>7, <1>8 DEF Kin

LEMMA DeleteKin ==
  ASSUME IInv, HierarchyOK, Orderly, Kin, NEW k \in Ids, DeleteFinished(k)
  PROVE  Kin'
<1>1. /\ Idle /\ InternalRemove(k) /\ pending' = pending /\ untaken' = untaken
      /\ deleted' = deleted \cup {k} /\ UNCHANGED <<rows, scenario>>
      /\ rows[k] # NoItem /\ mItemById[k] = rows[k] /\ OrderlyRemoval(rows, {k} \cup deleted)
  BY DEF DeleteFinished, Orderly, source
<1>2. /\ \A j : ~Removing(j) /\ ~Updating(j) /\ ~Inserting(j)
      /\ ~Resetting
      /\ \A i \in Ids : mItemById[i] # NoItem =>
           /\ rows[i] # NoItem /\ mItemById[i].uid = rows[i].uid
           /\ mUidToParent[rows[i].uid] = rows[i].relatedTo
      /\ \A i \in deleted : mItemById[i] = NoItem
  BY <1>1, IdleKin
<1>3. /\ \A j : ~Removing(j)' /\ ~Updating(j)' /\ ~Inserting(j)'
      /\ ~Resetting' /\ Once(pending')
  BY <1>1, <1>2 DEF Removing, Updating, Inserting, Resetting, Kin, HandlesOnce
<1>4. ASSUME NEW j \in Ids, j # k, mItemById[j] # NoItem, mUidToParent[mItemById[j].uid] = mItemById[k].uid
      PROVE  FALSE
  <2>1. rows[j] # NoItem /\ rows[j].relatedTo = rows[k].uid /\ j \notin deleted
    BY <1>1, <1>2, <1>4
  <2> QED BY <1>1, <1>4, <2>1 DEF OrderlyRemoval, Shown
<1>5. mItemById[k].relatedTo = mUidToParent[mItemById[k].uid]
  BY <1>1, <1>2
<1> QED BY <1>1, <1>2, <1>3, <1>4, <1>5, RemoveKin

-----------------------------------------------------------------------------
(* The theorems about the hierarchy.                                       *)

LEMMA InitKin == Init => KinInv
<1> SUFFICES ASSUME Init PROVE KinInv
  OBVIOUS
<1>1. PICK order \in Orders(Shown(rows)) :
        IF IsTree THEN CalendarInit(<<>>) /\ etmPopulated ELSE CalendarInit(order)
  BY DEF Init
<1>2. /\ mItemById = NoRows /\ mItemIdByUid = [u \in Uids |-> NoItem] /\ deleted = {}
      /\ mParentUidToChildrenUid = [u \in Uids |-> NoList] /\ mUidToParent = [u \in Uids |-> NoUid]
      /\ untaken \subseteq Ids
  BY <1>1 DEF CalendarInit, EtmInit, CollectionInit, Shown
<1>3. HierarchyOK
  BY <1>2 DEF HierarchyOK, ListsType
<1>4. ASSUME Orderly PROVE Kin
  <2>1. pending = Loads(order) /\ untaken = {} /\ UniqueUids(rows)
    BY <1>1, <1>4 DEF Orderly, IsTree, IsCollection, Init, CalendarInit, EtmInit, CollectionInit
  <2>2. /\ \A i : ~Removing(i) /\ ~Updating(i)
        /\ ~Resetting /\ Once(pending)
    BY <2>1, LoadsAwait, OrdersOnce, ShownAreIds DEF Removing, Updating, Resetting
  <2>3. \A i \in Ids : mItemById[i] = NoItem
    BY <1>2 DEF NoRows
  <2>4. HandlesOnce /\ LeavesOutDeleted
    BY <1>2, <2>1, <2>2, <2>3 DEF HandlesOnce, LeavesOutDeleted
  <2>5. RowsAreTold /\ RemovesFamilies /\ MovesAlone
    BY <2>3 DEF RowsAreTold, RemovesFamilies, MovesAlone
  <2>6. ListsTell /\ ParentsOfShown
    BY <1>2 DEF ListsTell, ParentsOfShown, InList, Listed
  <2> QED BY <2>1, <2>4, <2>5, <2>6 DEF Kin
<1> QED BY <1>3, <1>4 DEF KinInv

\* The hierarchy keeps its type.
LEMMA NextHierarchy == IInv /\ HierarchyOK /\ [Next]_vars => HierarchyOK'
<1> SUFFICES ASSUME IInv, HierarchyOK, [Next]_vars PROVE HierarchyOK'
  OBVIOUS
<1>1. CASE UNCHANGED vars
  BY <1>1 DEF vars, calVars, hierarchy, HierarchyOK
<1>2. CASE TreeNext
  BY <1>2 DEF TreeNext, hierarchy, HierarchyOK
<1>3. CASE CalendarNext
  <2>1. ASSUME NEW batch \in Batches, NEW order \in Orders(batch), NEW new \in [batch -> UsedIncidences],
               RowsInserted(order, new)
        PROVE  HierarchyOK'
    BY <2>1 DEF RowsInserted, hierarchy, HierarchyOK
  <2>2. ASSUME NEW batch \in Batches, NEW order \in Orders(batch), RowsRemoved(order)
        PROVE  HierarchyOK'
    BY <2>2 DEF RowsRemoved, hierarchy, HierarchyOK
  <2>3. ASSUME NEW i \in Ids, NEW inc \in UsedIncidences, DataChanged(i, inc)
        PROVE  HierarchyOK'
    BY <2>3 DEF DataChanged, hierarchy, HierarchyOK
  <2>4. ASSUME NEW load \in Orders(Shown(rows)), ModelReset(load)
        PROVE  HierarchyOK'
    BY <2>4 DEF ModelReset, hierarchy, HierarchyOK
  <2>5. ASSUME NEW order \in Orders(Shown(mItemsByCollection)), NEW load \in Orders(Shown(rows)),
               CollectionModelReset(order, load)
        PROVE  HierarchyOK'
    BY <2>5, ShownAreIds DEF CollectionModelReset, hierarchy, HierarchyOK
  <2>6. ASSUME CollectionPopulated PROVE HierarchyOK'
    BY <2>6 DEF CollectionPopulated, hierarchy, HierarchyOK
  <2>7. ASSUME NEW i \in Ids, DeleteFinished(i) PROVE HierarchyOK'
    <3>1. InternalRemove(i) /\ deleted' = deleted \cup {i} /\ untaken' = untaken /\ MapsOK /\ Hierarchies
      BY <2>7 DEF DeleteFinished, IInv, HierarchyOK, Hierarchies
    <3>2. Hierarchies'
      <4>1. CASE mItemById[i] = NoItem
        BY <3>1, <4>1 DEF InternalRemove, hierarchy, Hierarchies
      <4>2. CASE mItemById[i] # NoItem
        BY <3>1, <4>2, RemoveParents
      <4> QED BY <4>1, <4>2
    <3> QED BY <3>1, <3>2 DEF HierarchyOK, Hierarchies
  <2>8. ASSUME NEW i \in Ids, NEW parent, LocalEdit(i, parent) PROVE HierarchyOK'
    BY <2>8 DEF LocalEdit, hierarchy, HierarchyOK
  <2>9. ASSUME Handle PROVE HierarchyOK'
    BY <2>9, HandleHierarchy
  <2> QED BY <1>3, <2>1, <2>2, <2>3, <2>4, <2>5, <2>6, <2>7, <2>8, <2>9 DEF CalendarNext
<1> QED BY <1>1, <1>2, <1>3 DEF Next

LEMMA NextKin == IInv /\ KinInv /\ [Next]_vars => KinInv'
<1> SUFFICES ASSUME IInv, KinInv, [Next]_vars PROVE KinInv'
  OBVIOUS
<1>1. HierarchyOK /\ HierarchyOK'
  BY NextHierarchy DEF KinInv
<1>2. ASSUME Orderly' PROVE Kin'
  <2>1. CASE UNCHANGED vars
    <3>1. /\ UNCHANGED <<rows, scenario, pending, mItemById, mItemIdByUid, untaken, deleted>>
          /\ UNCHANGED <<mParentUidToChildrenUid, mUidToParent>>
      BY <2>1 DEF vars, calVars, source, maps, hierarchy
    <3>2. Kin
      BY <1>2, <3>1 DEF KinInv, Orderly
    <3>3. (UniqueUids(rows) /\ HandlesOnce /\ LeavesOutDeleted)'
      BY <3>1, <3>2
      DEF Kin, UniqueUids, Shown, HandlesOnce, LeavesOutDeleted, Removing, Updating, Inserting, Resetting
    <3>4. (RowsAreTold /\ RemovesFamilies /\ MovesAlone)'
      BY <3>1, <3>2 DEF Kin, RowsAreTold, Told, RemovesFamilies, MovesAlone, Removing, Updating
    <3>5. (ListsTell /\ ParentsOfShown)'
      BY <3>1, <3>2 DEF Kin, ListsTell, InList, ParentsOfShown, Removing, Inserting
    <3> QED BY <3>3, <3>4, <3>5 DEF Kin
  <2>2. CASE IsTree /\ TreeNext
    <3>1. IsTree'
      BY <2>2, TreeStep DEF TreeNext, IsTree, Insertion, Removal, Change
    <3> QED BY <1>2, <3>1 DEF Orderly, IsTree
  <2>3. CASE ~IsTree /\ CalendarNext
    <3>1. UNCHANGED scenario
      BY <2>3 DEF CalendarNext, RowsInserted, RowsRemoved, DataChanged, ModelReset, CollectionModelReset,
                  CollectionPopulated, DeleteFinished, LocalEdit, Handle, source, Insertion, Removal, Change
    <3>2. Orderly /\ Kin /\ ~IsCollection
      BY <1>2, <3>1 DEF KinInv, Orderly, IsCollection
    <3>3. Batches \subseteq SUBSET Ids /\ FewUids \cup {NoUid} \subseteq Uids \cup {NoUid}
      BY BoundsAssumption DEF Batches, UsedIds
    <3>4. ASSUME CollectionPopulated PROVE Kin'
      <4>1. /\ UNCHANGED <<rows, scenario, pending, mItemById, mItemIdByUid, untaken, deleted>>
            /\ UNCHANGED <<mParentUidToChildrenUid, mUidToParent>>
        BY <3>4 DEF CollectionPopulated, maps, hierarchy
      <4>2. (UniqueUids(rows) /\ HandlesOnce /\ LeavesOutDeleted)'
        BY <3>2, <4>1
        DEF Kin, UniqueUids, Shown, HandlesOnce, LeavesOutDeleted, Removing, Updating, Inserting, Resetting
      <4>3. (RowsAreTold /\ RemovesFamilies /\ MovesAlone)'
        BY <3>2, <4>1 DEF Kin, RowsAreTold, Told, RemovesFamilies, MovesAlone, Removing, Updating
      <4>4. (ListsTell /\ ParentsOfShown)'
        BY <3>2, <4>1 DEF Kin, ListsTell, InList, ParentsOfShown, Removing, Inserting
      <4> QED BY <4>2, <4>3, <4>4 DEF Kin
    <3>5. ~ \E order, load : CollectionModelReset(order, load)
      BY <3>2 DEF CollectionModelReset
    <3> QED BY <1>1, <2>3, <3>2, <3>3, <3>4, <3>5, InsertedKin, RemovedKin, ChangedKin, ResetKin,
               EditKin, DeleteKin, HandleKin DEF CalendarNext
  <2> QED BY <2>1, <2>2, <2>3 DEF Next
<1> QED BY <1>1, <1>2 DEF KinInv

\* The inductive invariant of an ETMCalendar whose source is orderly: after every row of every
\* handler, an item that the handler is not about to change has the parent of its row, an item
\* about to be removed takes its children along, one whose uid changes has no relatives, and
\* every list of children names exactly the items of that parent.
THEOREM HierarchyInvariance == Spec => []KinInv
<1>1. Init => IInv /\ KinInv
  BY InitInv, InitKin
<1>2. (IInv /\ KinInv) /\ [Next]_vars => (IInv /\ KinInv)'
  BY NextInv, NextKin
<1> QED BY <1>1, <1>2, PTL DEF Spec

\* Between signals, an ETMCalendar whose source is orderly (one item per uid, parents leave after
\* their children) knows the parent of each incidence, and childItems() and childIncidences()
\* name each incidence once among the children of its parent and nowhere else, for every set of
\* items and uids, whatever the user edits or deletes before the model hears of it.
THEOREM ParentsAndChildrenAgree == Spec => []ParentsAgree
<1>1. IInv /\ KinInv => ParentsAgree
  <2> SUFFICES ASSUME IInv, KinInv PROVE ParentsAgree
    OBVIOUS
  <2>1. CalendarTypeOK
    BY DEF CalendarTypeOK, IInv, SourceOK, MapsOK, KinInv, HierarchyOK, ListsType
  <2>2. ASSUME scenario.orderly, scenario.view = "ETMCalendar", pending = <<>>
        PROVE  LET known == Shown(rows) \ deleted
               IN /\ \A i \in known : /\ ItemOf(rows[i].uid) # NoItem /\ mItemIdByUid[rows[i].uid] = i
                                      /\ mUidToParent[rows[i].uid] = rows[i].relatedTo
                  /\ \A p \in Uids : \A u \in DOMAIN ChildItems(p) :
                       ChildItems(p)[u] =
                         IF \E i \in known : rows[i].uid = u /\ rows[i].relatedTo = p THEN 1 ELSE 0
    <3> DEFINE known == Shown(rows) \ deleted
    <3>1. Kin /\ Idle /\ MapsOK /\ ~IsTree
      BY <2>2 DEF KinInv, Orderly, Idle, IInv, IsTree
    <3>2. /\ \A i \in Ids : mItemById[i] # NoItem =>
               /\ rows[i] # NoItem /\ mItemById[i].uid = rows[i].uid
               /\ mUidToParent[rows[i].uid] = rows[i].relatedTo
          /\ \A p, u \in Uids : InList(p, u) = IF mItemIdByUid[u] # NoItem /\ mUidToParent[u] = p THEN 1 ELSE 0
          /\ \A i \in deleted : mItemById[i] = NoItem
          /\ \A i \in Ids \ deleted : rows[i] # NoItem => mItemById[i] # NoItem /\ mItemById[i].uid = rows[i].uid
      BY <3>1, IdleKin
    <3>3. \A i \in Ids : i \in known <=> mItemById[i] # NoItem
      BY <3>2 DEF Shown
    <3>4. \A i \in known : /\ i \in Ids /\ rows[i].uid \in Uids
                           /\ mItemIdByUid[rows[i].uid] = i /\ ItemOf(rows[i].uid) # NoItem
                           /\ mUidToParent[rows[i].uid] = rows[i].relatedTo
      <4> SUFFICES ASSUME NEW i \in known
                   PROVE  /\ i \in Ids /\ rows[i].uid \in Uids
                          /\ mItemIdByUid[rows[i].uid] = i /\ ItemOf(rows[i].uid) # NoItem
                          /\ mUidToParent[rows[i].uid] = rows[i].relatedTo
        OBVIOUS
      <4>1. i \in Ids /\ mItemById[i] # NoItem
        BY <3>3 DEF Shown
      <4> QED BY <3>1, <3>2, <4>1, UidFacts DEF ItemOf
    <3>5. ASSUME NEW p \in Uids, NEW u \in DOMAIN ChildItems(p)
          PROVE  ChildItems(p)[u] = IF \E i \in known : rows[i].uid = u /\ rows[i].relatedTo = p THEN 1 ELSE 0
      <4>1. u \in Uids /\ mItemIdByUid[u] # NoItem /\ ChildItems(p)[u] = InList(p, u)
        BY DEF ChildItems, ItemOf, InList
      <4>2. PICK j \in Ids : j = mItemIdByUid[u] /\ mItemById[j] # NoItem /\ mItemById[j].uid = u
        BY <3>1, <4>1, UidFacts
      <4>3. j \in known /\ rows[j].uid = u /\ mUidToParent[u] = rows[j].relatedTo
        BY <3>2, <3>3, <4>2
      <4>4. \A i \in known : rows[i].uid = u => i = j
        BY <3>4, <4>2
      <4>5. (\E i \in known : rows[i].uid = u /\ rows[i].relatedTo = p) <=> mUidToParent[u] = p
        BY <4>3, <4>4
      <4> QED BY <3>2, <4>1, <4>5
    <3> QED BY <3>4, <3>5
  <2> QED BY <2>1, <2>2 DEF ParentsAgree
<1> QED BY <1>1, Invariance, HierarchyInvariance, PTL

\* What handleParentChanged() asserts at lines 385 and 393 of an update that gives an item
\* another parent: the parent it leaves has a list, the one it comes to does not name it yet.
AssertsHold ==
  Orderly /\ pending # <<>> /\ Head(pending).op = "update" =>
    LET inc      == rows[Head(pending).id]
        original == mUidToParent[inc.uid]
    IN ~IsLeftOut(Head(pending).id) /\ Existing(inc.uid) # {} /\ original # inc.relatedTo =>
         /\ original # NoUid => mParentUidToChildrenUid[original] # NoList
         /\ inc.relatedTo # NoUid => InList(inc.relatedTo, inc.uid) = 0

\* The assertions of CalendarBasePrivate::handleParentChanged() (calendarbase.cpp:385, :393)
\* hold whenever an orderly source changes an item, also after resets and deletions the model
\* had not heard of.
THEOREM AssertionsOfTheParents == Spec => []AssertsHold
<1>1. IInv /\ KinInv => AssertsHold
  <2> SUFFICES ASSUME IInv, KinInv, Orderly, pending # <<>>, Head(pending).op = "update",
                      NEW k, k = Head(pending).id, NEW inc, inc = rows[k],
                      Existing(inc.uid) # {}, mUidToParent[inc.uid] # inc.relatedTo
               PROVE  /\ mUidToParent[inc.uid] # NoUid => mParentUidToChildrenUid[mUidToParent[inc.uid]] # NoList
                      /\ inc.relatedTo # NoUid => InList(inc.relatedTo, inc.uid) = 0
    BY DEF AssertsHold
  <2>1. /\ Head(pending) \in Ops /\ Head(pending) = [op |-> "update", id |-> k] /\ k \in Ids
        /\ Awaits(pending, "update", k) /\ \A i : ~Removing(i)
    <3>1. /\ Head(pending) \in Ops
          /\ \A op, i : Awaits(pending, op, i) <=> Head(pending) = [op |-> op, id |-> i] \/ Awaits(Tail(pending), op, i)
          /\ \A i : ~Empties(Tail(pending), i)
      BY HeadAwaits DEF IInv, SourceOK, HandlerInv
    <3>2. Head(pending) = [op |-> "update", id |-> k] /\ k \in Ids
      BY <3>1 DEF Ops
    <3> QED BY <3>1, <3>2 DEF Empties, Removing
  <2>2. rows[k] # NoItem /\ MapsOK /\ Kin /\ HierarchyOK
    BY <2>1 DEF IInv, HandlerInv, Fills, KinInv
  <2>3. inc.uid \in Uids /\ inc.relatedTo \in Uids \cup {NoUid} /\ mItemIdByUid[inc.uid] # NoItem
    BY <2>1, <2>2, RowFacts, ExistingIs DEF IInv, SourceOK
  <2>4. \A p \in Uids : InList(p, inc.uid) = IF mUidToParent[inc.uid] = p THEN 1 ELSE 0
    BY <2>1, <2>2, <2>3 DEF Kin, ListsTell
  <2>5. ASSUME mUidToParent[inc.uid] # NoUid
        PROVE  mParentUidToChildrenUid[mUidToParent[inc.uid]] # NoList
    <3>1. mUidToParent[inc.uid] \in Uids
      BY <2>2, <2>3, <2>5 DEF HierarchyOK
    <3>2. InList(mUidToParent[inc.uid], inc.uid) = 1
      BY <2>4, <3>1
    <3> QED BY <2>3, <3>2 DEF InList, Listed
  <2> QED BY <2>3, <2>4, <2>5
<1> QED BY <1>1, Invariance, HierarchyInvariance, PTL
=============================================================================
