----------------------------- MODULE TodoModel -----------------------------
(***************************************************************************)
(* Akonadi::TodoModel (src/src/todomodel.cpp): the columns of the to-do    *)
(* list, edited in place and rearranged by dragging.  `rows` are the items *)
(* of the model, `cal` those of the ETMCalendar beside it and `idOf` its   *)
(* mItemIdByUid.  An edit changes the payload of the row before the        *)
(* changer has agreed; as long as the item was never updated the calendar  *)
(* holds the same payload object (`shared`).                               *)
(***************************************************************************)
EXTENDS ChangerService

\* The to-do with uid u in the calendar, None if there is none.
ItemOf(s, u) == IF u = None THEN None ELSE s.idOf[u]

\* CalendarBase::childIncidences() in calendar c.
ChildrenIn(c, idOf, u) == {x \in Items : idOf[x] # None /\ c[idOf[x]].live /\ c[idOf[x]].todo.related = u}

\* The payload of row i becomes t, and so does the calendar's if it is the same object.
InPlace(s, i, t) ==
  [s EXCEPT !.rows[i].todo = t, !.cal[i].todo = IF i \in s.shared THEN t ELSE @]

Changed(s, i, t) == Modify(InPlace(s, i, t), "app", i, t, s.rows[i].rev)

\* setData() needs the right to change the item; a value that is not new is no change.
SetData(s, i, t) == IF i \in Locked \/ t = s.rows[i].todo THEN s ELSE Changed(s, i, t)

\* dropMimeData(): the loop over the ancestors compares the target only.
DropOnSelf(s, i, target) == target # None /\ s.rows[target].todo.uid = s.rows[i].todo.uid
DropMimeData(s, i, target) ==
  IF DropOnSelf(s, i, target) THEN s
  ELSE Changed(s, i, [s.rows[i].todo EXCEPT !.related = IF target = None THEN None ELSE s.rows[target].todo.uid])

\* The notification about item i: the row gets a new payload, the calendar copies it
\* into its own, follows a new uid, and ignores an item whose uid is another item's.
Seen(s, i) ==
  LET item == s.store[i]
      old  == s.cal[i].todo.uid
      uid  == item.todo.uid
      row  == [s EXCEPT !.notified = Tail(@), !.rows[i] = item, !.shared = @ \ {i}]
  IN  CASE ~item.live -> IF s.cal[i].live THEN [row EXCEPT !.cal[i] = item, !.idOf[old] = None] ELSE row
        [] item.live /\ s.idOf[uid] = i -> [row EXCEPT !.cal[i] = item]
        [] item.live /\ s.idOf[uid] = None /\ s.cal[i].live ->
             [row EXCEPT !.cal[i] = item, !.idOf = [@ EXCEPT ![uid] = i, ![old] = None]]
        [] OTHER -> row
=============================================================================
