--------------------------- MODULE CalendarViews ---------------------------
(***************************************************************************)
(* A calendar or a tree model that follows the rows of a model, as in an   *)
(* application that shows to-dos.  The views share nothing but the rows.   *)
(***************************************************************************)
EXTENDS CalendarBase, IncidenceTree

CONSTANTS
  MaxBatch,   \* bound on the rows of one signal
  FewIds, FewUids,   \* the ids and uids a calendar and a disorderly source use
  MaxList     \* bound on the lists a disorderly source makes grow: children, nodes that wait

vars == <<calVars, tree>>

ASSUME BoundsAssumption ==
  {MaxBatch, MaxList} \subseteq Nat /\ FewIds \subseteq Ids /\ FewUids \subseteq Uids

IsTree == scenario.view = "IncidenceTreeModel"

UsedIds == IF IsTree /\ scenario.orderly THEN Ids ELSE FewIds

UsedIncidences ==
  IF IsTree /\ scenario.orderly THEN Incidence ELSE [uid : FewUids, relatedTo : FewUids \cup {NoUid}]

Batches == {S \in SUBSET UsedIds : S # {} /\ Cardinality(S) <= MaxBatch}

Init ==
  /\ rows \in RowsType /\ Acyclic(rows)
  /\ scenario \in Scenarios /\ (scenario.orderly => UniqueUids(rows))
  /\ Shown(rows) \subseteq UsedIds /\ \A i \in Shown(rows) : rows[i] \in UsedIncidences
  /\ \E order \in Orders(Shown(rows)) :
        IF IsTree THEN CalendarInit(<<>>) /\ etmPopulated /\ TreeInit(order)
        ELSE CalendarInit(order) /\ tree = EmptyTree

-----------------------------------------------------------------------------
(* A calendar follows *)

CalendarNext ==
  \/ \E batch \in Batches : \E order \in Orders(batch), new \in [batch -> UsedIncidences] :
       RowsInserted(order, new)
  \/ \E batch \in Batches : \E order \in Orders(batch) : RowsRemoved(order)
  \/ \E i \in Ids, inc \in UsedIncidences : DataChanged(i, inc)
  \/ \E load \in Orders(Shown(rows)) : ModelReset(load)
  \/ \E order \in Orders(Shown(mItemsByCollection)), load \in Orders(Shown(rows)) : CollectionModelReset(order, load)
  \/ CollectionPopulated
  \/ \E i \in Ids : DeleteFinished(i)
  \/ \E i \in Ids, parent \in FewUids \cup {NoUid} : LocalEdit(i, parent)
  \/ Handle

-----------------------------------------------------------------------------
(* A tree follows *)

TreeNext ==
  /\ ~tree.failed
  /\ \/ \E batch \in Batches : \E new \in [batch -> UsedIncidences] : Insertion(new) /\ TreeInserted(batch)
     \/ \E batch \in Batches : Removal(batch) /\ TreeRemoved(batch)
     \/ \E i \in Ids, inc \in UsedIncidences : Change(i, inc) /\ TreeDataChanged(i)
     \/ \E load \in Orders(Shown(rows)) : TreeReset(load) /\ UNCHANGED <<rows, scenario>>
  /\ UNCHANGED <<etmPopulated, pending, maps, hierarchy, untaken, deleted>>

Next ==
  \/ ~IsTree /\ (\A u \in Uids : SumFunction(Listed(mParentUidToChildrenUid[u])) <= MaxList)
     /\ CalendarNext /\ UNCHANGED tree
  \/ IsTree /\ Len(tree.m_waitingForParent) <= MaxList /\ TreeNext

Spec == Init /\ [][Next]_vars
=============================================================================
