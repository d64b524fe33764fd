---------------------------- MODULE CalendarBase ----------------------------
(***************************************************************************)
(* Akonadi::CalendarBase with the two calendars that follow a model,       *)
(* ETMCalendar and CollectionCalendar (src/src/calendarbase.cpp,           *)
(* etmcalendar.cpp, collectioncalendar.cpp): the maps by id, by uid and by *)
(* parent of the items they hold.                                          *)
(*                                                                         *)
(* A signal of the model is one action of the source; the calendar's       *)
(* handler goes through its rows one by one (Handle), and nothing else     *)
(* runs before it is done.                                                 *)
(***************************************************************************)
EXTENDS ItemRows, SequencesExt

CONSTANT NoList   \* a key that mParentUidToChildrenUid does not contain

ASSUME NoListAssumption == NoList \notin [Uids -> Nat]

VARIABLES
  etmPopulated,            \* external: isCollectionTreeFetched() and isCollectionPopulated()
  pending,                 \* what is left of the handler that runs
  mItemById, mItemIdByUid,
  mItemsByCollection,      \* the payload of the item in the list of its collection
  mParentUidToChildrenUid, \* how often each uid is in the list of a parent
  mUidToParent,
  incidences,              \* MemoryCalendar: the items whose payload it has
  untaken,                 \* the rows the calendar left out
  deleted                  \* deleted by the user, the model has not heard of it yet

source    == <<rows, scenario, etmPopulated>>
maps      == <<mItemById, mItemIdByUid, mItemsByCollection, incidences>>
hierarchy == <<mParentUidToChildrenUid, mUidToParent>>
calVars  == <<source, pending, maps, hierarchy, untaken, deleted>>

IsCollection == scenario.view = "CollectionCalendar"

Ops == [op : {"insert", "update", "remove"}, id : Ids] \cup [op : {"clear"}, id : {NoItem}]

CalendarTypeOK ==
  /\ rows \in RowsType /\ scenario \in Scenarios
  /\ etmPopulated \in BOOLEAN
  /\ pending \in Seq(Ops)
  /\ mItemById \in RowsType /\ mItemsByCollection \in RowsType
  /\ mItemIdByUid \in [Uids -> Ids \cup {NoItem}]
  /\ mParentUidToChildrenUid \in [Uids -> [Uids -> Nat] \cup {NoList}]
  /\ mUidToParent \in [Uids -> Uids \cup {NoUid}]
  /\ incidences \subseteq Ids /\ untaken \subseteq Ids /\ deleted \subseteq Ids

-----------------------------------------------------------------------------
(* QHash and QStringList; the order of the children of a parent is left out. *)

Listed(list) == IF list = NoList THEN [u \in Uids |-> 0] ELSE list   \* operator[]

Appended(list, u) == [list EXCEPT ![u] = @ + 1]

RemoveAll(list, u) == [list EXCEPT ![u] = 0]

Loads(order) == [n \in DOMAIN order |-> [op |-> "insert", id |-> order[n]]]

Removals(order) == [n \in DOMAIN order |-> [op |-> "remove", id |-> order[n]]]

Clearing == <<[op |-> "clear", id |-> NoItem]>>

-----------------------------------------------------------------------------
(* The handlers, one row at a time *)

\* MemoryCalendar::incidence(uid): the item whose payload it finds.
Existing(u) == {j \in incidences : mItemById[j].uid = u}

AddToParent(lists, u, p) == [lists EXCEPT ![p] = Appended(Listed(@), u)]

InternalInsert(i) ==
  LET inc == rows[i]
  IN IF mItemIdByUid[inc.uid] \notin {NoItem, i}
     THEN /\ untaken' = untaken \cup {i}
          /\ UNCHANGED <<maps, hierarchy>>
     ELSE /\ mItemById' = [mItemById EXCEPT ![i] = inc]
          /\ mItemIdByUid' = [mItemIdByUid EXCEPT ![inc.uid] = i]
          /\ mItemsByCollection' = [mItemsByCollection EXCEPT ![i] = inc]
          /\ incidences' = incidences \cup {i}
          /\ IF inc.relatedTo = NoUid
             THEN UNCHANGED hierarchy
             ELSE /\ mParentUidToChildrenUid' = AddToParent(mParentUidToChildrenUid, inc.uid, inc.relatedTo)
                  /\ mUidToParent' = [mUidToParent EXCEPT ![inc.uid] = inc.relatedTo]
          /\ untaken' = untaken \ {i}

\* Mutant of HandleParentChanged: the child stays in the list of the parent it leaves.
HandleParentChangedTwice(inc) ==
  LET original == mUidToParent[inc.uid]
  IN IF original = inc.relatedTo
     THEN UNCHANGED hierarchy
     ELSE /\ mUidToParent' = [mUidToParent EXCEPT ![inc.uid] = inc.relatedTo]
          /\ mParentUidToChildrenUid' = IF inc.relatedTo = NoUid THEN mParentUidToChildrenUid
                                        ELSE AddToParent(mParentUidToChildrenUid, inc.uid, inc.relatedTo)

HandleParentChanged(inc) ==
  LET original == mUidToParent[inc.uid]
      taken    == IF original = NoUid THEN mParentUidToChildrenUid
                  ELSE [mParentUidToChildrenUid EXCEPT ![original] = RemoveAll(Listed(@), inc.uid)]
  IN IF original = inc.relatedTo
     THEN UNCHANGED hierarchy
     ELSE /\ mUidToParent' = [mUidToParent EXCEPT ![inc.uid] = inc.relatedTo]
          /\ mParentUidToChildrenUid' = IF inc.relatedTo = NoUid THEN taken
                                        ELSE AddToParent(taken, inc.uid, inc.relatedTo)

\* Mutant of IdMoved: the old uid is left in the map.
IdCopied(i, old, new) == [mItemIdByUid EXCEPT ![new] = i]

\* The id of the item moves from the old uid to the new one.
IdMoved(i, old, new) == [mItemIdByUid EXCEPT ![new] = i, ![old] = NoItem]

\* MemoryCalendar drops the old incidence for the new one, both of the same item.
HandleUidChange(i, old, new) ==
  /\ IF mItemIdByUid[new] # NoItem \/ Existing(old) = {}
     THEN /\ mItemIdByUid' = [mItemIdByUid EXCEPT ![new] = IF @ = NoItem THEN i ELSE @]
          /\ UNCHANGED mParentUidToChildrenUid
     ELSE /\ mItemIdByUid' = IdMoved(i, old, new)
          /\ mParentUidToChildrenUid' =
               IF mParentUidToChildrenUid[old] = NoList THEN mParentUidToChildrenUid
               ELSE [mParentUidToChildrenUid EXCEPT ![new] = mParentUidToChildrenUid[old], ![old] = NoList]
  /\ UNCHANGED <<incidences, mUidToParent>>

\* The list of the collection points to the calendar's incidence, so far.
SamePayload(i) == mItemsByCollection[i] = mItemById[i]

\* Updates of items the calendar left out are left out.
IsLeftOut(i) ==
  LET inc == rows[i]
  IN \/ Existing(inc.uid) = {} /\ mItemById[i] = NoItem
     \/ Existing(inc.uid) # {} /\ mItemIdByUid[inc.uid] # i

LeaveOut(i) == untaken' = untaken \cup {i} /\ UNCHANGED <<maps, hierarchy>>

\* The calendar keeps its incidence and copies the new one into it, unless the uid is new.
InternalUpdate(i) ==
  LET inc == rows[i]
  IN /\ mItemById' = [mItemById EXCEPT ![i] = inc]
     /\ mItemsByCollection' = [mItemsByCollection EXCEPT ![i] = inc]
     /\ IF Existing(inc.uid) # {}
        THEN HandleParentChanged(inc) /\ UNCHANGED <<mItemIdByUid, incidences>>
        ELSE HandleUidChange(i, mItemById[i].uid, inc.uid)

\* CollectionCalendar has its own, without the parents and the list of the collection.
UpdateItem(i) ==
  LET inc == rows[i]
  IN /\ mItemById' = [mItemById EXCEPT ![i] = inc]
     /\ IF Existing(inc.uid) # {}
        THEN /\ mItemsByCollection' = IF SamePayload(i) THEN [mItemsByCollection EXCEPT ![i] = inc]
                                       ELSE mItemsByCollection
             /\ UNCHANGED <<mItemIdByUid, incidences, hierarchy>>
        ELSE /\ HandleUidChange(i, mItemById[i].uid, inc.uid)
             /\ UNCHANGED mItemsByCollection

Update(i) ==
  IF IsLeftOut(i) THEN LeaveOut(i)
  ELSE /\ IF IsCollection THEN UpdateItem(i) ELSE InternalUpdate(i)
       /\ untaken' = untaken \ {i}

InternalRemove(i) ==
  LET inc == mItemById[i]
      forgotten == [mParentUidToChildrenUid EXCEPT ![inc.uid] = NoList]
  IN IF inc = NoItem
     THEN UNCHANGED <<maps, hierarchy>>
     ELSE /\ mItemById' = [mItemById EXCEPT ![i] = NoItem]
          /\ mItemIdByUid' = [mItemIdByUid EXCEPT ![inc.uid] = NoItem]
          /\ mItemsByCollection' = [mItemsByCollection EXCEPT ![i] = NoItem]
          /\ incidences' = incidences \ {i}
          /\ IF inc.relatedTo = NoUid
             THEN /\ mParentUidToChildrenUid' = forgotten
                  /\ UNCHANGED mUidToParent
             ELSE /\ mParentUidToChildrenUid' =
                       [forgotten EXCEPT ![inc.relatedTo] = RemoveAll(Listed(@), inc.uid)]
                  /\ mUidToParent' = [mUidToParent EXCEPT ![inc.uid] = NoUid]

\* ETMCalendarPrivate::clear(): internalRemove() of every item, and the maps emptied after it.
ClearAll ==
  /\ mItemById' = NoRows /\ mItemsByCollection' = NoRows
  /\ mItemIdByUid' = [u \in Uids |-> NoItem]
  /\ incidences' = incidences \ Shown(mItemById)
  /\ mParentUidToChildrenUid' = [u \in Uids |-> NoList]
  /\ mUidToParent' = [u \in Uids |->
        IF \E i \in Shown(mItemById) : mItemById[i].uid = u /\ mItemById[i].relatedTo # NoUid
        THEN NoUid ELSE mUidToParent[u]]

Handle ==
  /\ pending # <<>>
  /\ pending' = Tail(pending)
  /\ LET step == Head(pending)
     IN \/ step.op = "insert" /\ InternalInsert(step.id) /\ deleted' = deleted \ {step.id}
        \/ step.op = "update" /\ Update(step.id) /\ UNCHANGED deleted
        \/ step.op = "remove" /\ InternalRemove(step.id) /\ UNCHANGED <<untaken, deleted>>
        \/ step.op = "clear"  /\ ClearAll /\ UNCHANGED <<untaken, deleted>>
  /\ UNCHANGED source

-----------------------------------------------------------------------------
(* What the calendar answers *)

\* item(uid)
ItemOf(u) == IF mItemIdByUid[u] = NoItem THEN NoItem ELSE mItemById[mItemIdByUid[u]]

\* childItems(parentUid), childIncidences(parentUid): how often the item of each uid is among
\* the children.
ChildItems(p) ==
  [u \in {v \in Uids : ItemOf(v) # NoItem} |-> Listed(mParentUidToChildrenUid[p])[u]]

-----------------------------------------------------------------------------
(* The signals of the model *)

Orders(S) == SetToSeqs(S)

Idle == pending = <<>>

\* onRowsInsertedInFilteredModel(), handleRowsInsertedUnchecked()
RowsInserted(order, new) ==
  /\ Idle /\ Insertion(new)
  /\ order \in Orders(DOMAIN new)
  /\ pending' = Loads(order)
  /\ UNCHANGED <<etmPopulated, maps, hierarchy, untaken, deleted>>

\* onRowsAboutToBeRemovedInFilteredModel(), handleRowsRemovedUnchecked()
RowsRemoved(order) ==
  /\ Idle /\ Removal(Range(order))
  /\ scenario.orderly => \A i \in Range(order) : mItemById[i] \in {rows[i], NoItem}
  /\ pending' = Removals(order)
  /\ untaken' = untaken \ Range(order) /\ deleted' = deleted \ Range(order)
  /\ UNCHANGED <<etmPopulated, maps, hierarchy>>

\* onDataChangedInFilteredModel()
DataChanged(i, inc) ==
  /\ Idle /\ Change(i, inc)
  /\ pending' = <<[op |-> "update", id |-> i]>>
  /\ UNCHANGED <<etmPopulated, maps, hierarchy, untaken, deleted>>

\* ETMCalendar: onModelResetInFilteredModel(), onLayoutChangedInFilteredModel()
ModelReset(load) ==
  /\ Idle /\ ~IsCollection
  /\ load \in Orders(Shown(rows))
  /\ pending' = Clearing \o Loads(load)
  /\ UNCHANGED <<source, maps, hierarchy, untaken, deleted>>

\* populateFromETM()
Populated(load) == IF etmPopulated THEN Loads(load) ELSE <<>>

\* CollectionCalendar loads the rows of a reset only if its collection is populated by then,
\* and nothing on layoutChanged: m_populatedFromEtm is true ever since init().
CollectionModelReset(order, load) ==
  /\ Idle /\ IsCollection
  /\ order \in Orders(Shown(mItemsByCollection)) /\ load \in Orders(Shown(rows))
  /\ pending' = Removals(order) \o Populated(load)
  /\ untaken' = IF etmPopulated THEN untaken ELSE Shown(rows)
  /\ UNCHANGED <<source, maps, hierarchy, deleted>>

\* EntityTreeModel::collectionPopulated(); the rows were inserted before.
CollectionPopulated ==
  /\ Idle /\ ~etmPopulated
  /\ etmPopulated' = TRUE
  /\ UNCHANGED <<rows, scenario, pending, maps, hierarchy, untaken, deleted>>

-----------------------------------------------------------------------------
(* The user and the changer *)

\* The user sets RELATED-TO of the calendar's own incidence and asks for the change
\* (mUidToParent keeps the old parent for it), or slotModifyFinished() copies the answer.
LocalEdit(i, parent) ==
  /\ Idle
  /\ mItemById[i] # NoItem
  /\ Acyclic(With(rows, i, [mItemById[i] EXCEPT !.relatedTo = parent]))
  /\ mItemById' = [mItemById EXCEPT ![i].relatedTo = parent]
  /\ mItemsByCollection' = IF SamePayload(i) THEN [mItemsByCollection EXCEPT ![i].relatedTo = parent]
                           ELSE mItemsByCollection
  /\ UNCHANGED <<source, pending, mItemIdByUid, incidences, hierarchy, untaken, deleted>>

\* slotDeleteFinished(), before the model hears of it.
DeleteFinished(i) ==
  /\ Idle
  /\ rows[i] # NoItem /\ i \notin deleted
  /\ scenario.orderly => OrderlyRemoval(rows, {i} \cup deleted) /\ mItemById[i] = rows[i]
  /\ InternalRemove(i)
  /\ deleted' = deleted \cup {i}
  /\ UNCHANGED <<source, pending, untaken>>

-----------------------------------------------------------------------------

EtmInit(load) == ~IsCollection /\ untaken = {} /\ pending = Loads(load)

CollectionInit(load) ==
  /\ IsCollection
  /\ untaken = (IF etmPopulated THEN {} ELSE Shown(rows)) /\ pending = Populated(load)

CalendarInit(load) ==
  /\ etmPopulated \in BOOLEAN
  /\ EtmInit(load) \/ CollectionInit(load)
  /\ mItemById = NoRows /\ mItemsByCollection = NoRows
  /\ mItemIdByUid = [u \in Uids |-> NoItem]
  /\ mParentUidToChildrenUid = [u \in Uids |-> NoList]
  /\ mUidToParent = [u \in Uids |-> NoUid]
  /\ incidences = {} /\ deleted = {}

-----------------------------------------------------------------------------
(* Properties *)

\* Between signals the calendar has the items the model shows, under their uids, but for
\* those it left out (a uid another item has, rows older than a CollectionCalendar whose
\* collection was not populated) and those the user deleted.
ShowsTheRows ==
  pending = <<>> /\ scenario.view # "IncidenceTreeModel" =>
    /\ Shown(mItemById) \subseteq Shown(rows)
    /\ \A i \in Shown(rows) \ (untaken \cup deleted) :
          mItemById[i] # NoItem /\ mItemById[i].uid = rows[i].uid

\* The maps by id and by uid, the lists of the collections and MemoryCalendar describe the
\* same items, after every row of every signal: what item(uid) asserts at line 453;
\* and between signals they are those of the model.
MapsAgree ==
  /\ ShowsTheRows
  /\ \A u \in Uids : mItemIdByUid[u] # NoItem => ItemOf(u) # NoItem /\ ItemOf(u).uid = u
  /\ \A i \in Shown(mItemById) : mItemIdByUid[mItemById[i].uid] = i
  /\ incidences = Shown(mItemById)
  /\ Shown(mItemsByCollection) = Shown(mItemById)
  /\ ~IsCollection => mItemsByCollection = mItemById

\* With an orderly source, ETMCalendar knows the parent of each incidence, and names each
\* incidence once among the children of its parent and nowhere else.
ParentsAgree ==
  /\ CalendarTypeOK
  /\ scenario.orderly /\ scenario.view = "ETMCalendar" /\ pending = <<>> =>
       LET known == Shown(rows) \ deleted
       IN /\ \A i \in known : /\ ItemOf(rows[i].uid) # NoItem /\ mItemIdByUid[rows[i].uid] = i
                              /\ mUidToParent[rows[i].uid] = rows[i].relatedTo
          /\ \A p \in Uids : \A u \in DOMAIN ChildItems(p) :
               ChildItems(p)[u] =
                 IF \E i \in known : rows[i].uid = u /\ rows[i].relatedTo = p THEN 1 ELSE 0
=============================================================================
