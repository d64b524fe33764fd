------------------------------ MODULE ItemRows ------------------------------
(***************************************************************************)
(* What Akonadi's EntityTreeModel shows to a calendar and to a tree model: *)
(* rows of items with an incidence each.  External: the model gets them    *)
(* from the server, in whatever order other programs write them.           *)
(***************************************************************************)
EXTENDS Integers, FiniteSets

CONSTANTS
  Ids,     \* ids of items
  Uids,    \* uids of incidences
  NoUid,   \* the empty string
  NoItem   \* no row, or no item in a map

ASSUME IdsAssumption ==
  /\ IsFiniteSet(Ids) /\ NoItem \notin Ids
  /\ NoUid \notin Uids /\ NoItem \notin [uid : Uids, relatedTo : Uids \cup {NoUid}]

VARIABLES
  rows,      \* external: the rows of the model
  scenario   \* does the source keep the order below, and who follows the model

Views == {"ETMCalendar", "CollectionCalendar", "IncidenceTreeModel"}

Scenarios == [orderly : BOOLEAN, view : Views]

Incidence == [uid : Uids, relatedTo : Uids \cup {NoUid}]

RowsType == [Ids -> Incidence \cup {NoItem}]

NoRows == [i \in Ids |-> NoItem]

Shown(r) == {i \in Ids : r[i] # NoItem}

HasUid(r, u) == \E i \in Shown(r) : r[i].uid = u

\* RELATED-TO leads from child to parent, never around.
Acyclic(r) ==
  \E rank \in [Uids -> 1 .. Cardinality(Uids)] :
     \A i \in Shown(r) : r[i].relatedTo # NoUid => rank[r[i].relatedTo] < rank[r[i].uid]

With(r, i, inc) == [r EXCEPT ![i] = inc]

Without(r, S) == [i \in Ids |-> IF i \in S THEN NoItem ELSE r[i]]

-----------------------------------------------------------------------------
(* An orderly source: one item per uid, parents leave after their children, an     *)
(* incidence moves from one present parent to another, and a resource that gives   *)
(* an incidence a new uid does so before it has relatives.                         *)

UniqueUids(r) == \A i, j \in Shown(r) : r[i].uid = r[j].uid => i = j

PresentOrNone(r, u) == u = NoUid \/ HasUid(r, u)

OrderlyRemoval(r, S) ==
  \A i \in S, j \in Shown(r) \ S : r[i] = NoItem \/ r[j].relatedTo # r[i].uid

OrderlyChange(r, i, inc) ==
  LET old == r[i]
  IN \/ /\ inc.uid = old.uid
        /\ inc.relatedTo = old.relatedTo \/ (PresentOrNone(r, old.relatedTo) /\ PresentOrNone(r, inc.relatedTo))
     \/ /\ inc.relatedTo = NoUid /\ old.relatedTo = NoUid
        /\ ~HasUid(r, inc.uid)
        /\ \A j \in Shown(r) : r[j].relatedTo \notin {old.uid, inc.uid}
-----------------------------------------------------------------------------
(* What the source may do *)

Insertion(new) ==   \* new: the incidences of the items that appear
  /\ DOMAIN new # {} /\ \A i \in DOMAIN new : rows[i] = NoItem
  /\ rows' = [i \in Ids |-> IF i \in DOMAIN new THEN new[i] ELSE rows[i]]
  /\ Acyclic(rows') /\ (scenario.orderly => UniqueUids(rows'))
  /\ UNCHANGED scenario

Removal(S) ==
  /\ S # {} /\ S \subseteq Shown(rows)
  /\ scenario.orderly => OrderlyRemoval(rows, S)
  /\ rows' = Without(rows, S)
  /\ UNCHANGED scenario

Change(i, inc) ==
  /\ rows[i] # NoItem /\ (scenario.orderly => OrderlyChange(rows, i, inc))
  /\ rows' = With(rows, i, inc) /\ Acyclic(rows')
  /\ UNCHANGED scenario
=============================================================================
