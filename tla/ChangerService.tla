--------------------------- MODULE ChangerService ---------------------------
(***************************************************************************)
(* Akonadi::IncidenceChanger and the Akonadi server as the other classes   *)
(* of the library use them: a call returns a change id, its job waits in   *)
(* the session, and its answer is posted to the event loop.  Modules       *)
(* IncidenceChanger and AtomicOperation hold the changer in full; here a   *)
(* job's result, its handler and performNextModification() are one step,   *)
(* and a batch is a deletion that can still be rolled back.                *)
(*                                                                         *)
(* The operators work on a record `s`: `store` is what the server keeps,   *)
(* `session` the jobs in the order they are carried out, `waiting` and     *)
(* `deleted` are mQueuedModifications and mDeletedItemIds of each changer, *)
(* `latest` is s_latestRevisionByItemId, `posted` are the queued answers   *)
(* and `notified` the notifications of the server that are under way.      *)
(***************************************************************************)
EXTENDS Integers, SequencesExt

CONSTANTS
  Items,      \* to-dos, and the items that hold them at first
  Changers,   \* the IncidenceChanger objects of the program
  None,       \* no item, no parent
  Locked      \* the items of a collection that may not be changed

\* To-dos: the text is counted by its versions.
Todos == [uid : Items, related : Items \cup {None}, done : BOOLEAN, text : Nat]

\* No modification waits.
NoModification == [id |-> 0]

Deletable(items) == items \cap Locked = {}

Posted(s, k, kind, id, ok, items, todo) ==
  [s EXCEPT !.posted = Append(@, [by |-> k, kind |-> kind, id |-> id, ok |-> ok, items |-> items, todo |-> todo])]
Refused(s, k, change) == Posted(s, k, "modify", change.id, FALSE, {change.item}, change.todo)

JobsOf(s, k) == {n \in DOMAIN s.session : s.session[n].by = k}
IsWriting(s, k, i) == \E n \in JobsOf(s, k) : s.session[n].kind = "modify" /\ i \in s.session[n].items
RolledBack(s, k) == \E n \in JobsOf(s, k) : s.session[n].cancelled

\* The revision is the newest that any changer of the program has seen.
Sent(s, k, change) ==
  [s EXCEPT !.session = Append(@, [kind |-> "modify", by |-> k, id |-> change.id, items |-> {change.item},
                                   todo |-> change.todo, cancelled |-> FALSE,
                                   rev |-> IF s.latest[change.item] > change.rev THEN s.latest[change.item]
                                           ELSE change.rev])]

\* performModification(): of the modifications that wait only the newest stays.
Performed(s, k, change) ==
  LET i == change.item
      older == s.waiting[k][i]
  IN  IF i \in s.deleted[k] THEN Refused(s, k, change)
      ELSE IF ~IsWriting(s, k, i) THEN Sent(s, k, change)
      ELSE [IF older = NoModification THEN s ELSE Refused(s, k, older)
            EXCEPT !.waiting[k][i] = change]

\* The id the next call returns.
NextId(s) == s.next
Numbered(s) == [s EXCEPT !.next = @ + 1]

\* modifyIncidence()
Modify(s, k, i, todo, rev) ==
  LET change == [id |-> s.next, item |-> i, todo |-> todo, rev |-> rev]
  IN  IF i \in Locked THEN Refused(Numbered(s), k, change) ELSE Performed(Numbered(s), k, change)

\* cancelTransaction(): nothing happens outside of a batch.
Cancelled(s, k, inBatch) ==
  IF ~inBatch THEN s
  ELSE [s EXCEPT !.session = [n \in DOMAIN @ |-> IF @[n].by = k THEN [@[n] EXCEPT !.cancelled = TRUE] ELSE @[n]]]

\* deleteIncidences() of items that are all valid.
Delete(s, k, items, inBatch) ==
  LET left == items \ s.deleted[k]
      refused == Posted(Numbered(s), k, "delete", s.next, FALSE, items, None)
  IN  IF ~Deletable(items) \/ (~RolledBack(s, k) /\ left = {}) THEN Cancelled(refused, k, inBatch)
      ELSE IF inBatch /\ RolledBack(s, k) THEN refused
      ELSE [Numbered(s) EXCEPT
              !.deleted[k] = @ \cup left,
              !.session = Append(@, [kind |-> "delete", by |-> k, id |-> s.next, items |-> left,
                                     todo |-> None, rev |-> 0, cancelled |-> FALSE])]

\* What the server can do with the job whose turn it is: a modification of an old
\* revision is a conflict.
CanSucceed(s) ==
  LET job == Head(s.session)
  IN  /\ ~job.cancelled
      /\ IF job.kind = "modify" THEN \A i \in job.items : s.store[i].live /\ s.store[i].rev = job.rev
         ELSE \E i \in job.items : s.store[i].live

Notified(s, items) == [s EXCEPT !.notified = @ \o SetToSeq(items)]

Answered(s, job, ok) == Posted(s, job.by, job.kind, job.id, ok, job.items, job.todo)

\* performNextModification()
Continued(s, k, i) ==
  LET next == s.waiting[k][i]
  IN  IF next = NoModification THEN s ELSE Performed([s EXCEPT !.waiting[k][i] = NoModification], k, next)

Written(s, job) ==
  LET i == CHOOSE i \in job.items : TRUE
      r == s.store[i].rev + 1
      written == [s EXCEPT !.store[i] = [live |-> TRUE, rev |-> r, todo |-> job.todo], !.latest[i] = r]
  IN  Continued(Answered(Notified(written, {i}), job, TRUE), job.by, i)

Removed(s, job) ==
  LET gone == {i \in job.items : s.store[i].live}
  IN  Answered(Notified([s EXCEPT !.store = [i \in Items |-> [s.store[i] EXCEPT !.live = @ /\ i \notin gone]]], gone),
               job, TRUE)

\* A deletion that failed is answered twice, by its handler and its destructor.
Failed(s, job) ==
  LET told == Answered(s, job, FALSE)
  IN  IF job.kind = "modify" THEN Continued(told, job.by, CHOOSE i \in job.items : TRUE)
      ELSE Answered([told EXCEPT !.deleted[job.by] = @ \ job.items], job, FALSE)

\* The job whose turn it is ends.
JobEnds(s, ok) ==
  LET job == Head(s.session)
      t == [s EXCEPT !.session = Tail(@)]
  IN  IF ~ok THEN Failed(t, job) ELSE IF job.kind = "modify" THEN Written(t, job) ELSE Removed(t, job)
=============================================================================
