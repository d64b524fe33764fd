----------------------------- MODULE TodoPurger -----------------------------
(***************************************************************************)
(* Akonadi::TodoPurger (src/src/todopurger.cpp): deletes the to-dos that   *)
(* are completed together with all that is below them, in one batch of its *)
(* own IncidenceChanger.  Its calendar is one that was given to it, or a   *)
(* FetchJobCalendar it makes and drops for each purge; `purger` holds      *)
(* where that is, its items, and m_currentChangeId.  `purging` tells       *)
(* whether a purge waits for todosPurged().                                *)
(***************************************************************************)
EXTENDS CalendarClipboard

NoChangeId == 0

TodosPurged(s) == [s EXCEPT !.purging = FALSE]

\* m_calendar.clear(), if the calendar is the purger's own.
Dropped(s) == IF s.purger.calendar = "given" THEN s ELSE [s EXCEPT !.purger.calendar = "none"]

\* The items the purger sees and the relation between them.
Shown(s) ==
  LET p == s.purger.calendar
  IN  [i \in Items |-> CASE p = "given"  -> s.cal[i]
                         [] p = "loaded" -> s.purger.items[i]
                         [] OTHER        -> [s.cal[i] EXCEPT !.live = FALSE]]
Lower(shown) ==
  [x \in Items |-> {y \in Items : shown[x].live /\ shown[y].live /\ shown[y].todo.related = shown[x].todo.uid}]

Completed(item) == item.live /\ item.todo.done

\* Mutant: the children of the children are not looked at.
ChildrenAreDeletable(shown, i) == \A x \in {i} \cup Lower(shown)[i] : Completed(shown[x]) /\ x \notin Locked

\* treeIsDeletable(): completed, not read-only, and so is everything below; it descends
\* without end where such a to-do is below itself.
TreeIsDeletable(shown, i) == \A x \in Reached({i}, Lower(shown)) : Completed(shown[x]) /\ x \notin Locked
Endless(shown) ==
  \E i \in Items : TreeIsDeletable(shown, i) /\ HasLoop(Reached({i}, Lower(shown)), Lower(shown))

\* deleteTodos(): an empty batch stays open until the next purge.
DeleteTodos(s) ==
  LET shown == Shown(s)
      toDelete == {i \in Items : Completed(shown[i]) /\ TreeIsDeletable(shown, i)}
  IN  IF Endless(shown) THEN Crashed(s)
      ELSE IF toDelete = {} THEN TodosPurged(Dropped(s))
      ELSE [Delete(s, "purger", toDelete, TRUE) EXCEPT !.purger.current = NextId(s)]

\* purgeCompletedTodos(): a calendar that is still loading is taken as it is.
PurgeCompletedTodos(s) ==
  LET t == [s EXCEPT !.purging = TRUE]
  IN  IF s.purger.calendar = "none" THEN [t EXCEPT !.purger.calendar = "loading"] ELSE DeleteTodos(t)

\* onCalendarLoaded()
OnCalendarLoaded(s, success) ==
  IF success THEN DeleteTodos([s EXCEPT !.purger.calendar = "loaded", !.purger.items = s.store])
  ELSE TodosPurged(Dropped(s))

\* onItemsDeleted()
OnItemsDeleted(s, answer) ==
  IF answer.id # s.purger.current THEN s ELSE TodosPurged(Dropped(s))
=============================================================================
