--------------------------- MODULE IncidenceTree ---------------------------
(***************************************************************************)
(* Akonadi::IncidenceTreeModel (src/src/incidencetreemodel.cpp): a proxy   *)
(* that shows flat rows as a tree, each incidence below the one its        *)
(* RELATED-TO names, wherever parent and child arrive, change and leave.   *)
(*                                                                         *)
(* A node is named by the id of its item.  A node that was removed and is  *)
(* still in m_waitingForParent has lost its name: it is NoItem there.      *)
(***************************************************************************)
EXTENDS ItemRows, SequencesExt

VARIABLE tree   \* the members of IncidenceTreeModelPrivate

Node == [uid : Uids, parentUid : Uids \cup {NoUid}, parentNode : Ids \cup {NoItem}, directChilds : Seq(Ids)]

TreeType ==
  [m_nodeMap : [Ids -> Node \cup {NoItem}],
   m_toplevelNodeList : Seq(Ids),
   m_uidMap : [Uids -> Ids \cup {NoItem}],
   m_itemByUid : [Uids -> Ids \cup {NoItem}],
   m_waitingForParent : Seq([uid : Uids, node : Ids \cup {NoItem}]),
   failed : BOOLEAN, orphanChanged : BOOLEAN]   \* did an assertion fail, and that of UnknownParent()

EmptyTree ==
  [m_nodeMap |-> NoRows, m_toplevelNodeList |-> <<>>,
   m_uidMap |-> [u \in Uids |-> NoItem], m_itemByUid |-> [u \in Uids |-> NoItem],
   m_waitingForParent |-> <<>>, failed |-> FALSE, orphanChanged |-> FALSE]

Nodes(t) == Shown(t.m_nodeMap)

\* Children of the root have no parent node.
Siblings(t, parent) ==
  IF parent = NoItem THEN t.m_toplevelNodeList ELSE t.m_nodeMap[parent].directChilds

AppendChild(t, parent, i) ==
  IF parent = NoItem THEN [t EXCEPT !.m_toplevelNodeList = Append(@, i)]
  ELSE [t EXCEPT !.m_nodeMap[parent].directChilds = Append(@, i)]

RemoveChild(t, parent, i) ==
  IF parent = NoItem THEN [t EXCEPT !.m_toplevelNodeList = Remove(@, i)]
  ELSE [t EXCEPT !.m_nodeMap[parent].directChilds = Remove(@, i)]

SetParent(t, i, parent) == [t EXCEPT !.m_nodeMap[i].parentNode = parent]

Fail(t, condition) == [t EXCEPT !.failed = @ \/ condition]

-----------------------------------------------------------------------------
(* insertNode() *)

\* Mutant of WaitingFor: only the latest, as value() returns it.
WaitingForLatest(t, u) ==
  LET pairs == SelectSeq(Reverse(t.m_waitingForParent), LAMBDA w : w.uid = u)
  IN IF pairs = <<>> THEN <<>> ELSE <<pairs[1].node>>

\* QMultiHash::values(): the latest first.
WaitingFor(t, u) ==
  LET pairs == SelectSeq(Reverse(t.m_waitingForParent), LAMBDA w : w.uid = u)
  IN [n \in DOMAIN pairs |-> pairs[n].node]

Waits(waiting, i, parentUid, parent) ==
  IF parentUid # NoUid /\ parent = NoItem THEN Append(waiting, [uid |-> parentUid, node |-> i]) ELSE waiting

\* A child that waited comes from the top level.
AdoptChild(t, parent, i) ==
  IF i = NoItem \/ ~Contains(t.m_toplevelNodeList, i) THEN Fail(t, TRUE)
  ELSE SetParent(AppendChild(RemoveChild(t, NoItem, i), parent, i), i, parent)

InsertNode(shown, t, i) ==
  LET inc == shown[i]
      parentUid == IF inc.relatedTo = inc.uid THEN NoUid ELSE inc.relatedTo
      parent == IF parentUid = NoUid THEN NoItem ELSE t.m_uidMap[parentUid]
      node == [uid |-> inc.uid, parentUid |-> parentUid, parentNode |-> parent, directChilds |-> <<>>]
      known == [t EXCEPT !.m_itemByUid[inc.uid] = i]
      mapped == [known EXCEPT !.m_nodeMap[i] = node, !.m_uidMap[inc.uid] = i,
                          !.m_waitingForParent = Waits(@, i, parentUid, parent)]
      inserted == AppendChild(mapped, parent, i)
      served == [inserted EXCEPT !.m_waitingForParent = SelectSeq(@, LAMBDA w : w.uid # inc.uid)]
  IN IF t.m_uidMap[inc.uid] # NoItem THEN known
     ELSE FoldLeft(LAMBDA r, child : AdoptChild(r, i, child), served, WaitingFor(inserted, inc.uid))

\* sortedPrenodes(): how far a prenode is below the root within its batch; the others,
\* whose parents are not in it, come last.
PreDepths(r, batch) ==
  LET upTo[n \in 0 .. Cardinality(batch)] ==
        {i \in batch : r[i].relatedTo = NoUid
                       \/ (n > 0 /\ \E j \in upTo[n - 1] : r[j].uid = r[i].relatedTo)}
      last == Cardinality(batch)
  IN [i \in batch |-> IF i \in upTo[last] THEN Min({n \in 0 .. last : i \in upTo[n]}) ELSE last + 1]

InsertionOrders(r, batch) ==
  LET depth == PreDepths(r, batch)
  IN {order \in SetToSeqs(batch) : \A m, n \in DOMAIN order : m < n => depth[order[m]] <= depth[order[n]]}

-----------------------------------------------------------------------------
(* removeNode() *)

\* Its children become top-level nodes that wait for it.
Unparent(t, i) ==
  LET node == t.m_nodeMap[i]
      freed == FoldLeft(LAMBDA r, child : SetParent(AppendChild(r, NoItem, child), child, NoItem),
                        [t EXCEPT !.m_nodeMap[i].directChilds = <<>>], node.directChilds)
  IN [freed EXCEPT !.m_waitingForParent =
        @ \o [n \in DOMAIN node.directChilds |-> [uid |-> node.uid, node |-> node.directChilds[n]]]]

RemoveNode(t, i) ==
  LET node == t.m_nodeMap[i]
      r == RemoveChild(Unparent(t, i), node.parentNode, i)
      waiting == SelectSeq(r.m_waitingForParent,
                           LAMBDA w : ~(node.parentUid # NoUid /\ w.uid = node.parentUid /\ w.node = i))
  IN [r EXCEPT !.m_itemByUid[node.uid] = NoItem, !.m_uidMap[node.uid] = NoItem,
               !.m_nodeMap[i] = NoItem,
               !.m_waitingForParent =
                  [n \in DOMAIN waiting |-> IF waiting[n].node = i THEN [waiting[n] EXCEPT !.node = NoItem]
                                            ELSE waiting[n]]]

\* A node and those above it.
Lineage(t, i) ==
  LET up[n \in 0 .. Cardinality(Ids)] ==
        IF n = 0 THEN {i} \ {NoItem} ELSE up[n - 1] \cup ({t.m_nodeMap[j].parentNode : j \in up[n - 1]} \ {NoItem})
  IN up[Cardinality(Ids)]

\* sorted(): children first, parents last.
RemovalOrders(t, batch) ==
  {order \in SetToSeqs(batch \cap Nodes(t)) :
     \A m, n \in DOMAIN order : m < n =>
        Cardinality(Lineage(t, order[m])) >= Cardinality(Lineage(t, order[n]))}

-----------------------------------------------------------------------------
(* onDataChanged() *)

Renamed(t, n, u) ==
  LET old == t.m_nodeMap[n].uid
  IN IF old = u THEN t
     ELSE [t EXCEPT !.m_itemByUid[old] = NoItem, !.m_uidMap = [@ EXCEPT ![old] = NoItem, ![u] = n],
                    !.m_nodeMap[n].uid = u]

\* beginMoveRows() refuses a node below itself, or next to where it is; `at` is the row of
\* `from`'s children that moves.
MoveRefused(t, from, at, parent) ==
  \/ parent = from /\ Len(Siblings(t, parent)) \in {at - 1, at}
  \/ \E a \in Lineage(t, parent) : /\ t.m_nodeMap[a].parentNode = from
                                   /\ at \in DOMAIN Siblings(t, from) /\ Siblings(t, from)[at] = a

\* The parentUid of the node and m_waitingForParent stay as they are.
Moved(t, n, changed, parent) ==
  LET old == t.m_nodeMap[n].parentNode
      at == CHOOSE k \in DOMAIN Siblings(t, old) : Siblings(t, old)[k] = n
  IN IF parent = old THEN t
     ELSE IF MoveRefused(t, t.m_nodeMap[changed].parentNode, at, parent) THEN Fail(t, TRUE)
     ELSE SetParent(AppendChild(RemoveChild(t, old, n), parent, n), n, parent)

\* A changed incidence is asserted to have its parent in the model.
UnknownParent(t, inc) == inc.relatedTo # NoUid /\ t.m_uidMap[inc.relatedTo] = NoItem

Orphaned(t, inc) == [Fail(t, UnknownParent(t, inc)) EXCEPT !.orphanChanged = @ \/ UnknownParent(t, inc)]

\* Without assertions the change goes on, below no parent.
Changed(shown, t, i) ==
  LET inc == shown[i]
      n == t.m_uidMap[t.m_nodeMap[i].uid]     \* the node of the index's uid
      r == [Renamed(t, n, inc.uid) EXCEPT !.m_itemByUid[inc.uid] = i]
      parent == IF inc.relatedTo = NoUid THEN NoItem ELSE r.m_uidMap[inc.relatedTo]
  IN IF t.m_nodeMap[i] = NoItem THEN t
     ELSE IF n = NoItem THEN Fail(t, TRUE)
     ELSE Moved(Orphaned(r, inc), n, i, parent)

-----------------------------------------------------------------------------
(* The signals of the model *)

TreeInserted(batch) ==
  \E order \in InsertionOrders(rows', batch) :
     tree' = FoldLeft(LAMBDA t, i : InsertNode(rows', t, i), tree, order)

TreeRemoved(batch) ==
  \E order \in RemovalOrders(tree, batch) : tree' = FoldLeft(RemoveNode, tree, order)

TreeDataChanged(i) == tree' = Changed(rows', tree, i)

Filled(order) == FoldLeft(LAMBDA t, i : InsertNode(rows, t, i), EmptyTree, order)

TreeReset(order) == tree' = Filled(order)

TreeInit(order) == tree = Filled(order)

-----------------------------------------------------------------------------
(* What a view sees: an index is a node and its row, counted from 1. *)

NoIndex == [node |-> NoItem, row |-> 0]

RowCount(t, parent) == Len(Siblings(t, parent))

\* index(), below `parent` or at the top level.
Index(t, row, parent) ==
  IF row \in 1 .. RowCount(t, parent) THEN [node |-> Siblings(t, parent)[row], row |-> row] ELSE NoIndex

\* indexForNode(): the first row of its parent that has it.
IndexForNode(t, i) ==
  [node |-> i, row |-> SelectInSeq(Siblings(t, t.m_nodeMap[i].parentNode), LAMBDA x : x = i)]

\* parent(), by its node.
ParentOf(t, i) == t.m_nodeMap[i].parentNode

MapFromSource(t, i) == IF t.m_nodeMap[i] = NoItem THEN NoIndex ELSE IndexForNode(t, i)

-----------------------------------------------------------------------------
(* Properties *)

TreeTypeOK == tree \in TreeType

\* Each node is in the tree once, at its row below its parent node, however parents and
\* children came, changed and left.
ShownOnce ==
  ~tree.failed =>
    /\ \A i \in Nodes(tree) :
         LET at == MapFromSource(tree, i)
         IN /\ ParentOf(tree, i) \in Nodes(tree) \cup {NoItem}
            /\ at.row \in 1 .. RowCount(tree, ParentOf(tree, i))
            /\ Index(tree, at.row, ParentOf(tree, i)) = at
    /\ \A parent \in Nodes(tree) \cup {NoItem} : \A row \in 1 .. RowCount(tree, parent) :
         LET at == Index(tree, row, parent)
         IN /\ at.node \in Nodes(tree) /\ ParentOf(tree, at.node) = parent
            /\ MapFromSource(tree, at.node) = at

\* Where an incidence belongs: below the one its RELATED-TO names if that is there, and at
\* the top level, waiting for it, if not.
Placed(i) ==
  LET parents == {j \in Shown(rows) : rows[j].uid = rows[i].relatedTo}
  IN /\ tree.m_itemByUid[rows[i].uid] = i
     /\ IF rows[i].relatedTo = NoUid \/ parents # {}
        THEN tree.m_nodeMap[i].parentNode \in (IF parents = {} THEN {NoItem} ELSE parents)
        ELSE /\ tree.m_nodeMap[i].parentNode = NoItem
             /\ Contains(tree.m_waitingForParent, [uid |-> rows[i].relatedTo, node |-> i])

\* With an orderly source the tree has the rows, each where it belongs, and one assertion
\* only can fail, that a changed incidence has its parent in the model (the named exception:
\* insertNode() takes an incidence without, onDataChanged() does not); with any source each
\* node is in the tree once (insertNode(), onRowsAboutToBeRemoved(), onDataChanged()).
UnderItsParent ==
  /\ TreeTypeOK /\ ShownOnce
  /\ scenario.orderly /\ scenario.view = "IncidenceTreeModel" =>
       /\ Nodes(tree) = Shown(rows) /\ (tree.failed <=> tree.orphanChanged)
       /\ \A i \in Shown(rows) : Placed(i)
=============================================================================
