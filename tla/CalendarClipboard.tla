-------------------------- MODULE CalendarClipboard --------------------------
(***************************************************************************)
(* Akonadi::CalendarClipboard (src/src/calendarclipboard.cpp): a to-do is  *)
(* cut alone, its children made independent first, or with all that is     *)
(* below it.  `clip` holds m_pendingChangeIds, and the to-do the question  *)
(* of AskMode is about; the question has an event loop of its own.  For    *)
(* the properties: `cutting` tells whether a cut waits for cutFinished(),  *)
(* `copied` what was ever copied to the clipboard, and `single` whether a  *)
(* to-do with children was to be cut alone.                                *)
(***************************************************************************)
EXTENDS TodoModel, FiniteSets

ASSUME ItemsAssumption == IsFiniteSet(Items) /\ None \notin Items /\ {"app", "purger"} \subseteq Changers

Children(s, u) == ChildrenIn(s.cal, s.idOf, u)

\* All that is reached from S by `below`.
Reached(S, below) ==
  LET within[n \in 0 .. Cardinality(Items)] ==
        IF n = 0 THEN S ELSE LET nearer == within[n - 1] IN nearer \cup UNION {below[x] : x \in nearer}
  IN  within[Cardinality(Items)]

\* Something of S is below itself.
HasLoop(S, below) == \E x \in S : x \in Reached(below[x], below)

\* getIncidenceHierarchy(): a to-do is listed after its children, too late to stop at
\* one that is below itself.
Below(s) == [u \in Items |-> Children(s, u)]
Hierarchy(s, u) == Reached({u}, Below(s))
IsLoop(s, u) == HasLoop(Hierarchy(s, u), Below(s))

Crashed(s) == [s EXCEPT !.crashed = TRUE]
CutFinished(s) == [s EXCEPT !.cutting = FALSE]

\* cut(): the payloads go to the clipboard, then the items are deleted that the
\* calendar has for their uids.
Cut(s, payloads) ==
  LET t == [s EXCEPT !.clip.pending = {}, !.copied = @ \cup payloads]
      items == {ItemOf(s, p.uid) : p \in payloads}
  IN  IF None \in items THEN CutFinished(t)
      ELSE [Delete(t, "app", items, FALSE) EXCEPT !.clip.pending = {NextId(s)}]

PayloadOf(s, u) == s.cal[ItemOf(s, u)].todo

\* makeChildsIndependent(): the item that gets the payload of a child is the one of
\* the parent.
Independent(s, p, c) ==
  LET t == Modify(s, "app", p, [PayloadOf(s, c) EXCEPT !.related = None], s.cal[p].rev)
  IN  [t EXCEPT !.clip.pending = @ \cup {NextId(s)}, !.single = TRUE]

MakeChildsIndependent(s, incidence) ==
  LET u == incidence.uid
      children == SetToSeq(Children(s, u))
      emptied == [s EXCEPT !.clip.pending = {}, !.clip.abort = FALSE]
  IN  IF children = <<>> THEN Cut(s, {incidence})
      ELSE IF ItemOf(s, u) = None THEN CutFinished(emptied)
      ELSE FoldLeft(LAMBDA t, c : Independent(t, ItemOf(s, u), c), emptied, children)

CutSingle(s, incidence) == MakeChildsIndependent([s EXCEPT !.cutting = TRUE], incidence)

\* Mutant: only the to-do itself is copied, all that is below it is deleted.
CutCopiesOne(s, incidence) ==
  LET below == {ItemOf(s, x) : x \in Hierarchy(s, incidence.uid)} \ {None}
  IN  IF IsLoop(s, incidence.uid) THEN Crashed(s)
      ELSE [Delete([s EXCEPT !.cutting = TRUE, !.copied = @ \cup {incidence}], "app", below, FALSE)
            EXCEPT !.clip.pending = {NextId(s)}]

CutRecursively(s, incidence) ==
  LET u == incidence.uid
      t == [s EXCEPT !.cutting = TRUE]
  IN  IF IsLoop(s, u) THEN Crashed(s)
      ELSE Cut(t, {PayloadOf(s, x) : x \in {x \in Hierarchy(s, u) : ItemOf(s, x) # None}})

\* cutIncidence(): without children nobody is asked.
CutIncidence(s, u, mode) ==
  LET incidence == PayloadOf(s, u)
  IN  CASE mode = "Recursive" -> CutRecursively(s, incidence)
        [] mode = "Single" \/ (mode # "Recursive" /\ Children(s, u) = {}) -> CutSingle(s, incidence)
        [] OTHER -> [s EXCEPT !.clip.asked = incidence, !.cutting = TRUE]

\* The question is about the calendar's own incidence: a notification changes it in place.
Noticed(s, i) ==
  LET asked == s.clip.asked
      seen  == Seen(s, i)
  IN  IF asked # None /\ s.idOf[asked.uid] = i /\ s.store[i].todo.uid = asked.uid
      THEN [seen EXCEPT !.clip.asked = s.store[i].todo] ELSE seen

\* The answer to the question.
CutAnswered(s, answer) ==
  LET t == [s EXCEPT !.clip.asked = None]
  IN  CASE answer = "Cut Only This" -> CutSingle(t, s.clip.asked)
        [] answer = "Cut All"       -> CutRecursively(t, s.clip.asked)
        [] answer = "Cancel"        -> CutFinished(t)

\* slotModifyFinished(): after the last child, what was written is cut.
SlotModifyFinished(s, answer, written) ==
  LET t == [s EXCEPT !.clip.pending = @ \ {answer.id}]
      last == t.clip.pending = {}
  IN  CASE answer.id \notin s.clip.pending -> s
        [] answer.id \in s.clip.pending /\ s.clip.abort -> IF last THEN CutFinished(t) ELSE t
        [] answer.id \in s.clip.pending /\ ~s.clip.abort ->
             IF ~answer.ok THEN [t EXCEPT !.clip.abort = TRUE]
             ELSE IF last THEN Cut(t, {written}) ELSE t

\* slotDeleteFinished()
SlotDeleteFinished(s, answer) ==
  IF answer.id \notin s.clip.pending THEN s
  ELSE CutFinished([s EXCEPT !.clip.pending = @ \ {answer.id}])
=============================================================================
