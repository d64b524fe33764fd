--------------------------- MODULE ETMCollections ---------------------------
(***************************************************************************)
(* The collections of Akonadi::ETMCalendar (src/src/etmcalendar.cpp): the  *)
(* rows of its EntityTreeModel that are collections, mCollectionMap, which *)
(* hasRight() and alarms() read, the loading state, and the read-only flag *)
(* of the incidences.                                                      *)
(*                                                                         *)
(* The operators work on a record: `rows` are the collections of the model *)
(* in their order, `writable` their rights, `map` is mCollectionMap with   *)
(* the rights it remembers, `filled` the collections that are populated,   *)
(* `here` those whose incidences are in the calendar and `readOnly` those  *)
(* whose incidences are read-only.  `own` tells whether the calendar hears *)
(* the monitor; one made to share the model of another does not.           *)
(***************************************************************************)
EXTENDS Integers, FiniteSets, SequencesExt

CONSTANT Collections  \* the calendars there may be

Unknown == "unknown"
Rights(s, c) == IF c \in s.writable THEN "write" ELSE "read"

\* updateLoadingState(): the collections of the map have to be populated.
UpdateLoadingState(s) ==
  [s EXCEPT !.isLoading = ~s.fetched \/ \E c \in Collections : s.map[c] # Unknown /\ c \notin s.filled]

\* init() with a model that has just been made, and with one that another calendar has
\* filled: its items are loaded, its collections are not.
NewCalendar(writable) ==
  [rows |-> <<>>, writable |-> writable, map |-> [c \in Collections |-> Unknown],
   filled |-> {}, here |-> {}, readOnly |-> {}, fetched |-> FALSE, isLoading |-> TRUE, own |-> TRUE]
SharingCalendar(writable) ==
  [rows |-> SetToSeq(Collections), writable |-> writable, map |-> [c \in Collections |-> Unknown],
   filled |-> Collections, here |-> Collections, readOnly |-> Collections \ writable, fetched |-> TRUE,
   isLoading |-> FALSE, own |-> FALSE]

Listed(s) == ToSet(s.rows)

\* The model gets the rows cs at place n; onRowsInserted() reads them.
RowsInserted(s, n, cs) ==
  [s EXCEPT !.rows = SubSeq(@, 1, n) \o cs \o SubSeq(@, n + 1, Len(@)),
            !.map = [c \in Collections |-> IF c \in ToSet(cs) THEN Rights(s, c) ELSE @[c]]]

\* The model loses the rows from `first` to `last`, and the incidences of them.
\* onRowsRemoved() comes when they are gone and reads what is in their place.
RowsRemoved(s, first, last) ==
  LET rows == SubSeq(s.rows, 1, first - 1) \o SubSeq(s.rows, last + 1, Len(s.rows))
      gone == ToSet(SubSeq(s.rows, first, last))
      read == ToSet(SubSeq(rows, first, IF last < Len(rows) THEN last ELSE Len(rows)))
  IN  [s EXCEPT !.rows = rows, !.here = @ \ gone, !.filled = @ \ gone, !.readOnly = @ \ gone,
                !.map = [c \in Collections |-> IF c \in read THEN Unknown ELSE @[c]]]

\* onCollectionChanged(): the read-only flag of the incidences of the collection.
OnCollectionChanged(s, c) ==
  IF ~s.own \/ c \notin s.here THEN s
  ELSE [s EXCEPT !.readOnly = IF c \in s.writable THEN @ \ {c} ELSE @ \cup {c}]

\* Mutant: rights that change are taken for the incidences only.
DataIgnored(s, c) == s

\* onDataChanged()
OnDataChanged(s, c) == [s EXCEPT !.map[c] = Rights(s, c)]

\* The rights of a collection of the model change: the monitor tells, then the model.
RightsChanged(s, c) ==
  LET t == [s EXCEPT !.writable = IF c \in @ THEN @ \ {c} ELSE @ \cup {c}]
  IN  OnDataChanged(OnCollectionChanged(t, c), c)

\* itemsAdded(): internalInsert() takes the rights from the collection above the item;
\* those seen later come from `collections` too, so a collection is added as a whole.
ItemsAdded(s, c) ==
  [s EXCEPT !.here = @ \cup {c}, !.readOnly = IF c \in s.writable THEN @ \ {c} ELSE @ \cup {c}]

\* onCollectionPopulated()
OnCollectionPopulated(s, c) == UpdateLoadingState([s EXCEPT !.filled = @ \cup {c}])

\* hasRight(): the rights the map remembers.
HasRight(s, c) == s.map[c] = "write"
=============================================================================
