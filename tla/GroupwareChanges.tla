-------------------------- MODULE GroupwareChanges --------------------------
(***************************************************************************)
(* Akonadi::IncidenceChanger (src/src/incidencechanger.cpp and             *)
(* incidencechanger_p.cpp) with groupware communication switched on: where *)
(* a new incidence goes, which questions are asked before and after a      *)
(* change, which mails follow, and what the signals of the helper that     *)
(* asks do to the change.                                                  *)
(*                                                                         *)
(* A handler is an operator on the state of the changer and runs to its    *)
(* end, except that a question stops it: the event loop of the modal box   *)
(* runs the other handlers, and those stopped later go on first.  `frames` *)
(* is the stack of the stopped handlers.  Akonadi's jobs of one change run *)
(* in order; their results, like posted calls, come in any order.          *)
(*                                                                         *)
(* What IncidenceChanger.tla and AtomicOperation.tla say of revisions, the *)
(* undo history, refusals and rolling back is not repeated: the jobs of an *)
(* atomic operation succeed here, and error boxes are switched off.        *)
(***************************************************************************)
EXTENDS ITIPHandlerHelper, SequencesExt

CONSTANTS
  Items,        \* incidences and the items they are stored in
  Scenarios,    \* the settings considered, with the items that exist at first
  MaxChanges,   \* bound on mLatestChangeId
  MaxFrames     \* bound on the questions open at a time

ASSUME BoundsAssumption == MaxChanges \in Nat /\ MaxFrames \in Nat \ {0}

VARIABLES
  incidence,    \* what each item is about
  setting,      \* policies, privacy, calendars, and which calls are made
  d,            \* the state of IncidenceChangerPrivate
  store,        \* external: the items the server holds
  written,      \* external: how often each change was written
  told,         \* history: the mails handed to MailScheduler, in order
  refused       \* history: the changes the user said no to

vars == <<incidence, setting, d, store, written, told, refused, mails>>

Changes   == 1 .. MaxChanges
NoChange  == 0
Kinds     == {"create", "modify", "delete"}
Codes     == {"Success", "JobError", "AlreadyDeleted", "UserCanceled", "Permissions",
              "InvalidUserCollection", "InvalidDefaultCollection", "ModificationDiscarded"}

\* A Change: `before` counts what is connected to dialogClosedBeforeChange (of a deletion:
\* the signals it still waits for), `after` what is connected to dialogClosedAfterChange.
Change(kind, items, batch, quiet) ==
  [kind |-> kind, items |-> items, batch |-> batch, quiet |-> quiet, code |-> "Success",
   before |-> 0, after |-> 0]
NotConstructed == Change("none", <<>>, FALSE, FALSE)

Settings ==
  [policy : {"Ask", "Send", "DontSend"}, sign : BOOLEAN, destination : {"Default", "Ask", "NeverAsk"},
   usable : BOOLEAN, calls : SUBSET Kinds, batch : BOOLEAN, failures : BOOLEAN,
   limit : Changes]

ASSUME ScenariosAssumption == 
  Scenarios \subseteq [setting : Settings, incidence : [Items -> Incidences], live : SUBSET Items]

NoOperation == [open |-> FALSE, ended |-> FALSE, changes |-> {}, completed |-> {},
                status |-> "none", transactionCompleted |-> FALSE]

InitialD ==
  [latest |-> 0, changes |-> [c \in Changes |-> NotConstructed], byId |-> {},
   pending |-> <<>>, fetching |-> "no", jobs |-> [c \in Changes |-> <<>>],
   inProgress |-> [i \in Items |-> NoChange], queued |-> [i \in Items |-> NoChange],
   posted |-> {}, deleted |-> [i \in Items |-> 0], operation |-> NoOperation,
   local |-> NoChange, frames |-> <<>>, transactions |-> {}, sending |-> {}, crashed |-> FALSE,
   answers |-> [c \in Changes |-> <<>>]]

Frames == [kind : {"collection", "created", "modified", "deleted", "warning", "failed"},
           change : Changes, rest : Seq(Items \cup Changes), phase : {"before", "after"}]

TypeOK ==
  /\ incidence \in [Items -> Incidences]
  /\ setting \in Settings
  /\ d.latest \in 0 .. MaxChanges
  /\ \A c \in Changes :
       /\ d.changes[c].kind \in Kinds \cup {"none"}
       /\ d.changes[c].items \in Seq(Items)
       /\ d.changes[c].before \in Nat /\ d.changes[c].after \in Nat
       /\ d.jobs[c] \in Seq({"running", "succeeded", "failed"})
       /\ d.answers[c] \in Seq(Codes)
  /\ d.byId \subseteq Changes
  /\ d.pending \in Seq(Changes)
  /\ d.fetching \in {"no", "running", "failed"}
  /\ d.inProgress \in [Items -> Changes \cup {NoChange}]
  /\ d.queued \in [Items -> Changes \cup {NoChange}]
  /\ d.posted \subseteq Items
  /\ d.deleted \in [Items -> Nat]
  /\ d.frames \in Seq(Frames)
  /\ store \in [Items -> {"unborn", "live", "gone"}]
  /\ written \in [Changes -> Nat]
  /\ \A m \in mails : m.composers \in Nat /\ m.queued \in Nat

-----------------------------------------------------------------------------
(* Who holds a change, and what its destructor emits.                      *)

Held(s, c) ==
  \/ c = s.local \/ c \in s.byId \cup s.operation.changes
  \/ s.jobs[c] # <<>>
  \/ c \in ToSet(s.pending)
  \/ \E i \in Items : c \in {s.inProgress[i], s.queued[i]}
  \/ \E k \in DOMAIN s.frames : /\ s.frames[k].kind # "failed"
                                /\ s.frames[k].change = c \/ (s.frames[k].kind = "collection" /\ c \in ToSet(s.frames[k].rest))

\* The signals of the changes that nobody holds any more after the handler.
Settled(s) ==
  [s EXCEPT !.answers =
     [c \in Changes |->
        IF /\ s.changes[c].kind # "none" /\ ~Held(s, c)
           /\ Held(d, c) \/ d.changes[c].kind = "none"
        THEN s.answers[c] \o <<s.changes[c].code>>
        ELSE s.answers[c]]]

\* A handler of change c runs, whose stack holds a pointer to it.
By(c) == [d EXCEPT !.local = c]

\* The handler has run, unless the program has crashed before.
Becomes(s) == ~d.crashed /\ d' = Settled([s EXCEPT !.local = NoChange])

Emitted(s, c, code)  == [s EXCEPT !.answers[c] = @ \o <<code>>]
Crash(s)             == [s EXCEPT !.crashed = TRUE]
Item(s, c)           == Head(s.changes[c].items)
DeleteAlreadyCalled(s, i) == s.deleted[i] > 0
Push(s, kind, c, rest, phase) ==
  [s EXCEPT !.frames = Append(@, [kind |-> kind, change |-> c, rest |-> rest, phase |-> phase])]

\* Times(n): the slots connected n times to one signal are called n times.
Times(Slot(_), s, n) == FoldLeft(LAMBDA r, k : Slot(r), s, [k \in 1 .. n |-> k])

\* parentJob() and AtomicOperation::addChange(): no operation of that id is a null pointer,
\* and a transaction that has ended is gone.
AddChange(s, c) ==
  IF ~s.changes[c].batch THEN s
  ELSE IF s.operation.open /\ ~s.operation.transactionCompleted
  THEN [s EXCEPT !.operation.changes = @ \cup {c}]
  ELSE Crash(s)

-----------------------------------------------------------------------------
(* Where a new incidence goes: step1DetermineDestinationCollection(),      *)
(* loadCollections(), onCollectionsLoaded().                               *)

\* Mutant of Step2CreateIncidence: the change is not kept for its result.
Step2Unrecorded(s, c) ==
  AddChange([s EXCEPT !.jobs[c] = Append(@, "running")], c)

\* step2CreateIncidence().
Step2CreateIncidence(s, c) ==
  AddChange([s EXCEPT !.jobs[c] = Append(@, "running"), !.byId = @ \cup {c}], c)

\* A listing that failed counts as under way for ever.
LoadCollections(s) == [s EXCEPT !.fetching = IF @ = "no" THEN "running" ELSE @]

Step1DetermineDestinationCollection(s, c, passed) ==
  LET use == setting.destination # "Ask" /\ setting.usable
  IN  IF passed \/ use THEN Step2CreateIncidence(s, c)
      ELSE IF setting.destination = "NeverAsk"
           THEN [s EXCEPT !.changes[c].code = "InvalidDefaultCollection"]
           ELSE LoadCollections([s EXCEPT !.pending = Append(@, c)])

Unpended(s, waiting) == [s EXCEPT !.pending = SelectSeq(@, LAMBDA c : c \notin ToSet(waiting))]

\* The rest of the loop over the pending creations, once a collection is chosen.
CreateAll(s, waiting) ==
  FoldLeft(LAMBDA r, c : Step2CreateIncidence(r, c), Unpended(s, waiting), waiting)

\* ... once the user has cancelled, or chosen a collection that cannot be used.
RefuseAll(s, waiting, code) ==
  FoldLeft(LAMBDA r, c : [r EXCEPT !.changes[c].code = code], Unpended(s, waiting), waiting)

\* The listing ends; the error path leaves m_collectionFetchJob and the creations alone.
OnCollectionsLoaded ==
  /\ d.fetching = "running"
  /\ UNCHANGED <<incidence, setting, store, written, told, refused, mails>>
  /\ LET loaded == [d EXCEPT !.fetching = "no"]
         first  == Head(d.pending)
     IN  \/ Becomes([d EXCEPT !.fetching = "failed"])
         \/ d.pending # <<>> /\ Becomes(CreateAll(loaded, d.pending))  \* one candidate
         \/ /\ d.pending # <<>> /\ Len(d.frames) < MaxFrames
            /\ Becomes(Push(Unpended(loaded, <<first>>), "collection", first, Tail(d.pending), "before"))
         \/ d.pending = <<>> /\ Becomes(loaded)

-----------------------------------------------------------------------------
(* Before a change: handleInvitationsBeforeChange(), and what is connected *)
(* to dialogClosedBeforeChange.                                            *)

\* deleteIncidences2(): it does not look at the status, nor if it was called before.
DeleteIncidences2(s, c) ==
  IF c \notin s.byId THEN Crash(s)
  ELSE AddChange([s EXCEPT !.jobs[c] = Append(@, "running"),
                           !.deleted = [i \in Items |-> @[i] + (IF i \in ToSet(s.changes[c].items) THEN 1 ELSE 0)]], c)

\* queueModification(): what waited for the item is discarded.
QueueModification(s, c) ==
  LET i   == Item(s, c)
      old == s.queued[i]
      r   == [s EXCEPT !.queued[i] = c, !.byId = @ \ {old}]
  IN  IF old = NoChange THEN r ELSE [r EXCEPT !.changes[old].code = "ModificationDiscarded"]

\* performModification2(): mChangeById[] of an unknown id is a null pointer.
PerformModification2(s, c, status) ==
  LET i == Item(s, c)
  IN  CASE c \notin s.byId -> Crash(s)
        [] c \in s.byId /\ status = "Canceled" -> Emitted(s, c, "UserCanceled")
        [] c \in s.byId /\ status # "Canceled" /\ s.inProgress[i] # NoChange -> QueueModification(s, c)
        [] OTHER -> AddChange([s EXCEPT !.jobs[c] = Append(@, "running"), !.inProgress[i] = c], c)

\* Mutant of ClosedBefore: one signal more is waited for.
ClosedBeforeOneMore(s, c, status) ==
  CASE s.crashed \/ ~Held(s, c) -> s
    [] ~s.crashed /\ Held(s, c) /\ s.changes[c].kind = "delete" ->
         IF s.changes[c].before > 0 THEN [s EXCEPT !.changes[c].before = @ - 1]
         ELSE DeleteIncidences2(s, c)
    [] OTHER -> Times(LAMBDA r : IF r.crashed THEN r ELSE PerformModification2(r, c, status), s, s.changes[c].before)

\* Change::emitUserDialogClosedBeforeChange(), a slot of the helper's finished().
ClosedBefore(s, c, status) ==
  CASE s.crashed \/ ~Held(s, c) -> s
    [] ~s.crashed /\ Held(s, c) /\ s.changes[c].kind = "delete" ->
         IF s.changes[c].before > 1 THEN [s EXCEPT !.changes[c].before = @ - 1]
         ELSE DeleteIncidences2(s, c)
    [] OTHER -> Times(LAMBDA r : IF r.crashed THEN r ELSE PerformModification2(r, c, status), s, s.changes[c].before)

\* A status is kept for the rest of the atomic operation.
KeepStatus(s, c, status) ==
  IF s.changes[c].batch THEN [s EXCEPT !.operation.status = status] ELSE s

\* The question about item i of deletion c has been answered.
DeletedAnswered(s, c, i, answer) ==
  KeepStatus(ClosedBefore(SentInvitation(s, Helper(c, "before"), i, "Cancel", answer), c, StatusOf(answer)),
             c, "Canceled")

\* The loop over the items of deletion c, in handleInvitationsBeforeChange() and
\* sendIncidenceDeletedMessage(); `asked` is ~sendOk.
RECURSIVE AskDeleted(_, _, _, _, _)
AskDeleted(s, c, rest, action, asked) ==
  IF rest = <<>> THEN IF asked THEN s ELSE ClosedBefore(s, c, "Success")
  ELSE LET i == Head(rest)
       IN  CASE ~SupportsGroupware(incidence[i]) \/ ~ThatIsMe(incidence[i]) ->
                  AskDeleted(s, c, Tail(rest), action, asked)
             [] SupportsGroupware(incidence[i]) /\ ThatIsMe(incidence[i]) /\ ~AsksAboutDeletion(incidence[i]) ->
                  AskDeleted(KeepStatus(ClosedBefore(s, c, "NoSendingNeeded"), c, "Canceled"),
                             c, Tail(rest), action, TRUE)
             [] OTHER ->
                  IF action = "Ask" THEN Push(s, "deleted", c, rest, "before")
                  ELSE AskDeleted(DeletedAnswered(s, c, i, CHOOSE a \in AnswersTo(action) : TRUE),
                                  c, Tail(rest), action, TRUE)

\* handleInvitationsBeforeChange() of a modification: nobody has to be asked.
Unasked(s, c, i) == ~SupportsGroupware(incidence[i]) \/ s.changes[c].quiet \/ ~WarnsOfModification(incidence[i])

\* performModification(), each time one more connection, and the questions before it.
PerformModification(s, c) ==
  LET i == Item(s, c)
      r == [s EXCEPT !.changes[c].before = @ + 1]
  IN  CASE DeleteAlreadyCalled(s, i) -> Emitted(s, c, "AlreadyDeleted")
        [] ~DeleteAlreadyCalled(s, i) /\ Unasked(s, c, i) -> ClosedBefore(r, c, "Success")
        [] OTHER -> Push(r, "warning", c, <<>>, "before")

-----------------------------------------------------------------------------
(* The calls of the application.                                           *)

\* What a call in an operation that has ended does is in AtomicOperation.tla.
Callable == ~(d.operation.ended /\ d.operation.open)

Constructed(c, change) == [By(c) EXCEPT !.latest = c, !.changes[c] = change]

\* createIncidence(), of an incidence in a calendar named by the caller or not.
CreateIncidence(c) ==
  /\ c = d.latest + 1 /\ c \in 1 .. setting.limit /\ "create" \in setting.calls /\ Callable
  /\ \E i \in Items, passed \in BOOLEAN :
       /\ store[i] = "unborn"
       /\ \A x \in Changes : d.changes[x].kind = "create" => i # Item(d, x)
       /\ Becomes(Step1DetermineDestinationCollection(
                    Constructed(c, Change("create", <<i>>, d.operation.open, FALSE)), c, passed))
  /\ UNCHANGED <<incidence, setting, store, written, told, refused, mails>>

\* modifyIncidence(); `quiet` changes only alarms, which needs no new revision.
ModifyIncidence(c) ==
  /\ c = d.latest + 1 /\ c \in 1 .. setting.limit /\ "modify" \in setting.calls /\ Callable
  /\ Len(d.frames) < MaxFrames
  /\ \E i \in Items, quiet \in BOOLEAN :
       /\ store[i] # "unborn"
       /\ \A x \in d.operation.changes : i \notin ToSet(d.changes[x].items)
       /\ LET s == Constructed(c, Change("modify", <<i>>, d.operation.open, quiet))
          IN  Becomes(PerformModification([s EXCEPT !.byId = @ \cup {c}], c))
  /\ UNCHANGED <<incidence, setting, store, written, told, refused, mails>>

\* deleteIncidences(): what is being deleted already is taken off the list.
DeleteIncidences(c) ==
  /\ c = d.latest + 1 /\ c \in 1 .. setting.limit /\ "delete" \in setting.calls /\ Callable
  /\ Len(d.frames) < MaxFrames
  /\ \E list \in SetToSeqs({i \in Items : store[i] # "unborn"})
                   \cup {<<i>> : i \in {j \in Items : store[j] # "unborn"}} :
       LET rest == SelectSeq(list, LAMBDA i : ~DeleteAlreadyCalled(d, i))
           s    == Constructed(c, [Change("delete", rest, d.operation.open, FALSE)
                                     EXCEPT !.code = IF rest = <<>> THEN "AlreadyDeleted" ELSE "Success",
                                            !.before = Len(rest)])
       IN  /\ list # <<>>
           /\ IF rest = <<>> THEN Becomes(s)
              ELSE Becomes(AskDeleted([s EXCEPT !.byId = @ \cup {c}], c, rest,
                                      DefaultAction(setting.policy, IF s.changes[c].batch THEN s.operation.status ELSE "none"),
                                      FALSE))
  /\ UNCHANGED <<incidence, setting, store, written, told, refused, mails>>

\* startAtomicOperation(), endAtomicOperation(), which the caller comes to when the
\* questions of its calls are answered.
StartAtomicOperation ==
  /\ setting.batch /\ ~d.operation.open /\ d.latest < setting.limit
  /\ Becomes([d EXCEPT !.operation = [NoOperation EXCEPT !.open = TRUE]])
  /\ UNCHANGED <<incidence, setting, store, written, told, refused, mails>>

EndAtomicOperation ==
  /\ d.operation.open /\ ~d.operation.ended
  /\ \A k \in DOMAIN d.frames : d.frames[k].phase = "before" => ~d.changes[d.frames[k].change].batch
  /\ Becomes([d EXCEPT !.operation.ended = TRUE])
  /\ UNCHANGED <<incidence, setting, store, written, told, refused, mails>>

-----------------------------------------------------------------------------
(* After a change: the results of the jobs, handleInvitationsAfterChange() *)
(* and what is connected to dialogClosedAfterChange.                       *)

\* handleCreateJobResult2(), handleModifyJobResult2(), handleDeleteJobResult2().
JobResult2(s, c, status) ==
  LET kind == s.changes[c].kind
      ok   == kind # "delete" \/ status = "Success"
      r == [s EXCEPT !.byId = @ \ {c}, !.changes[c].code = IF ok THEN "Success" ELSE "JobError",
                     !.posted = IF kind = "modify" THEN @ \cup {Item(s, c)} ELSE @,
                     !.operation.completed = IF s.changes[c].batch THEN @ \cup {c} ELSE @]
  IN  IF c \notin s.byId THEN Crash(s)
      ELSE IF kind = "delete" THEN r ELSE KeepStatus(r, c, status)

\* Change::emitUserDialogClosedAfterChange().
ClosedAfter(s, c, status) ==
  IF s.crashed \/ ~Held(s, c) THEN s
  ELSE Times(LAMBDA r : IF r.crashed THEN r ELSE JobResult2(r, c, status), s, s.changes[c].after)

\* A question after the change, or its answer if the default action has one.
AskAfter(s, kind, c, action) ==
  LET answer == CHOOSE a \in AnswersTo(action) : TRUE
  IN  IF action = "Ask" THEN Push(s, kind, c, <<Item(s, c)>>, "after")
      ELSE ClosedAfter(SentInvitation(s, Helper(c, "after"), Item(s, c), "Request", answer), c, StatusOf(answer))

\* sendIncidenceCreatedMessage().
AskCreated(s, c) ==
  LET about == incidence[Item(s, c)]
  IN  CASE ~SupportsGroupware(about) -> ClosedAfter(s, c, "Success")
        [] SupportsGroupware(about) /\ ~WeAreOrganizerOf(about) -> ClosedAfter(s, c, "FailAbortUpdate")
        [] SupportsGroupware(about) /\ WeAreOrganizerOf(about) /\ ~WeNeedToSendMailFor(about) ->
             ClosedAfter(s, c, "NoSendingNeeded")
        [] OTHER -> AskAfter(s, "created", c, DefaultAction(setting.policy, "none"))

\* sendIncidenceModifiedMessage(), called for our own incidences only.
AskModified(s, c) ==
  LET about == incidence[Item(s, c)]
  IN  CASE ~SupportsGroupware(about) \/ ~ThatIsMe(about) \/ s.changes[c].quiet -> ClosedAfter(s, c, "Success")
        [] SupportsGroupware(about) /\ ThatIsMe(about) /\ ~s.changes[c].quiet /\ ~WeNeedToSendMailFor(about) ->
             ClosedAfter(s, c, "NoSendingNeeded")
        [] OTHER -> AskAfter(s, "modified", c,
                             DefaultAction(setting.policy, IF s.changes[c].batch THEN s.operation.status ELSE "none"))

\* An invitation that was accepted is declined when it is deleted.
Declines(i) ==
  SupportsGroupware(incidence[i]) /\ ~ThatIsMe(incidence[i]) /\ incidence[i].accepted

\* The job has ended; a creation is completed by handleCreateJobResult2() only.
JobEnded(s, c) ==
  [s EXCEPT !.jobs[c] = Tail(@),
            !.operation.completed = IF s.changes[c].batch /\ s.changes[c].kind # "create" THEN @ \cup {c} ELSE @]

\* handle*JobResult() of a job that succeeded: one more slot is connected.
HandleJobSuccess(s, c) ==
  LET r == [JobEnded(s, c) EXCEPT !.changes[c].after = @ + 1]
  IN  CASE s.changes[c].kind = "create" -> AskCreated(r, c)
        [] s.changes[c].kind = "modify" -> AskModified(r, c)
        [] s.changes[c].kind = "delete" -> ClosedAfter(r, c, "Success")

\* Mutant of HandleJobFailure: the question is asked all the same.
FailureAnnounced(s, c) ==
  HandleJobSuccess(s, c)

\* ... that failed.  A deletion is answered here, and again by the destructor.
HandleJobFailure(s, c) ==
  LET i == Item(s, c)
      r == [JobEnded(s, c) EXCEPT !.byId = @ \ {c}, !.changes[c].code =
              IF s.changes[c].kind = "modify" /\ DeleteAlreadyCalled(s, i) THEN "AlreadyDeleted" ELSE "JobError"]
      items == ToSet(s.changes[c].items)
  IN  CASE s.changes[c].kind = "create" -> r
        [] s.changes[c].kind = "modify" -> [r EXCEPT !.posted = @ \cup {i}]
        [] s.changes[c].kind = "delete" ->
             IF \E j \in items : s.deleted[j] = 0 THEN Crash(r)
             ELSE Emitted([r EXCEPT !.deleted = [j \in Items |-> @[j] - (IF j \in items THEN 1 ELSE 0)]], c, "JobError")

\* The decline is sent by a MailScheduler on the stack: it goes while the message is
\* being composed, and with it its MailClient, which listens to the composer.
TheReply(c) == {}

DeclinedItems(c) == SelectSeq(d.changes[c].items, LAMBDA i : Declines(i))

HandleJobResult(c) ==
  /\ Len(d.frames) < MaxFrames
  /\ d.jobs[c] # <<>> /\ Head(d.jobs[c]) # "running"
  /\ UNCHANGED <<incidence, setting, store, written, refused>>
  /\ \/ /\ Head(d.jobs[c]) = "failed"
        /\ Becomes(HandleJobFailure(By(c), c))
        /\ UNCHANGED <<told, mails>>
     \/ /\ Head(d.jobs[c]) = "succeeded"
        /\ Becomes(HandleJobSuccess(By(c), c))
        /\ LET declined == IF d.changes[c].kind = "delete" THEN DeclinedItems(c) ELSE <<>>
           IN  /\ told' = told \o [k \in DOMAIN declined |->
                                     [change |-> c, item |-> declined[k], method |-> "Reply", composers |-> 1]]
               /\ mails' = mails \cup UNION {TheReply(c) : k \in DOMAIN declined}

\* performNextModification(), called from the event loop.
PerformNextModification(i) ==
  LET c == d.queued[i]
      s == [By(c) EXCEPT !.posted = @ \ {i}, !.inProgress[i] = NoChange, !.queued[i] = NoChange]
  IN  /\ i \in d.posted /\ Len(d.frames) < MaxFrames
      /\ Becomes(IF c = NoChange THEN s ELSE PerformModification(s, c))
      /\ UNCHANGED <<incidence, setting, store, written, told, refused, mails>>

-----------------------------------------------------------------------------
(* The questions: the handler stopped last goes on when the user answers.  *)

CollectionChosen(s, f) ==
  LET waiting == <<f.change>> \o f.rest
  IN  \/ Becomes(CreateAll(s, waiting)) /\ UNCHANGED refused
      \/ \E code \in {"UserCanceled", "Permissions", "InvalidUserCollection"} :
           Becomes(RefuseAll(s, waiting, code)) /\ refused' = refused \cup ToSet(waiting)

\* "You are not the organizer ... Do you really want to edit it?"
WarningAnswered(s, c) ==
  \/ Becomes(ClosedBefore(s, c, "Success")) /\ UNCHANGED refused
  \/ Becomes(ClosedBefore(s, c, "Canceled")) /\ refused' = refused \cup {c}

\* Shall the others be told?  The answer to the mail's failure is passed on only.
MailAnswered(s, f) ==
  LET c == f.change
  IN  CASE f.kind = "deleted" ->
             \E answer \in AnswersTo("Ask") :
               Becomes(AskDeleted(DeletedAnswered(s, c, Head(f.rest), answer), c, Tail(f.rest), "Ask", TRUE))
        [] f.kind \in {"created", "modified"} ->
             \E answer \in AnswersTo("Ask") :
               Becomes(ClosedAfter(SentInvitation(s, Helper(c, "after"), Head(f.rest), "Request", answer),
                                   c, StatusOf(answer)))
        [] f.kind = "failed" ->
             \E status \in {"FailAbortUpdate", "FailKeepUpdate"} :
               Becomes(IF f.phase = "before" THEN ClosedBefore(s, c, status) ELSE ClosedAfter(s, c, status))

Answer ==
  /\ d.frames # <<>>
  /\ UNCHANGED <<incidence, setting, store, written, told, mails>>
  /\ LET f == Last(d.frames)
         s == [(IF f.kind = "failed" THEN d ELSE By(f.change)) EXCEPT !.frames = Front(@)]
     IN  CASE f.kind = "collection" -> CollectionChosen(s, f)
           [] f.kind = "warning" -> WarningAnswered(s, f.change)
           [] OTHER -> MailAnswered(s, f) /\ UNCHANGED refused

-----------------------------------------------------------------------------
(* The mails: performTransaction() called from the event loop, the         *)
(* composing and queueing, onSchedulerFinished().                          *)

Finished(s, h, status) ==
  IF h.phase = "before" THEN ClosedBefore(s, h.change, status) ELSE ClosedAfter(s, h.change, status)

\* onSchedulerFinished(); the second end of a helper's mails is passed on as it is.
OnSchedulerFinished(s, h, success) ==
  LET r == [s EXCEPT !.sending = @ \ {h}]
  IN  IF h \in s.sending /\ ~success THEN Push(r, "failed", h.change, <<>>, h.phase)
      ELSE Finished(r, h, IF success THEN "Success" ELSE "Error")

\* updateHandlerPrivacyPolicy(): signing is asked for or not (encrypting is treated alike).
PrivacyAsked == [sign |-> setting.sign, encrypt |-> FALSE]

\* A refusal, for want of a transport, is told at once.
PerformTransaction(t) ==
  /\ ~d.crashed /\ Len(d.frames) < MaxFrames
  /\ UNCHANGED <<incidence, setting, store, written, refused>>
  /\ LET s == [d EXCEPT !.transactions = @ \ {t}]
         tell(n) == told' = Append(told, [change |-> t.helper.change, item |-> t.item, method |-> t.method,
                                          composers |-> n])
     IN  \/ \E x \in Composed(PrivacyAsked) : Sent(Mail("helper", t.helper, x)) /\ tell(x.composers) /\ Becomes(s)
         \/ Becomes(OnSchedulerFinished(s, t.helper, FALSE)) /\ tell(0) /\ UNCHANGED mails

ComposerFinished(m) ==
  /\ Compose(m)
  /\ UNCHANGED <<incidence, setting, d, store, written, told, refused>>

QueueJobFinished(m) ==
  /\ Queued(m) /\ Len(d.frames) < MaxFrames
  /\ \E success \in BOOLEAN :
       Becomes(IF m.owner = "helper" THEN OnSchedulerFinished(d, m.call, success) ELSE d)
  /\ UNCHANGED <<incidence, setting, store, written, told, refused>>

-----------------------------------------------------------------------------
(* External: the Akonadi server carries out the jobs of a change in order. *)

Possible(c) ==
  LET items == ToSet(d.changes[c].items)
  IN  d.changes[c].kind = "create" \/ \A i \in items : store[i] = "live"

ServerRuns(c) ==
  LET running == {k \in DOMAIN d.jobs[c] : d.jobs[c][k] = "running"}
      k       == CHOOSE x \in running : \A y \in running : x <= y
      items   == ToSet(d.changes[c].items)
      new     == IF d.changes[c].kind = "delete" THEN "gone" ELSE "live"
      done(outcome) == Becomes([d EXCEPT !.jobs[c][k] = outcome])
  IN  /\ running # {}
          /\ UNCHANGED <<incidence, setting, told, refused, mails>>
      /\ \/ /\ Possible(c)
            /\ done("succeeded")
            /\ store' = [i \in Items |-> IF i \in items THEN new ELSE store[i]]
            /\ written' = [written EXCEPT ![c] = @ + 1]
         \/ /\ ~Possible(c) \/ setting.failures
            /\ done("failed")
            /\ UNCHANGED <<store, written>>

\* handleTransactionJobResult(), once the jobs have ended, also before the operation has:
\* a question lets it.  With changes that are not completed the operation stays for ever.
TransactionResult ==
  /\ d.operation.changes # {} /\ ~d.operation.transactionCompleted
  /\ \A c \in d.operation.changes : d.jobs[c] = <<>>
  /\ Becomes(IF d.operation.ended /\ d.operation.changes \subseteq d.operation.completed
             THEN [d EXCEPT !.operation = NoOperation]
             ELSE [d EXCEPT !.operation.transactionCompleted = TRUE])
  /\ UNCHANGED <<incidence, setting, store, written, told, refused, mails>>

-----------------------------------------------------------------------------
Init ==
  /\ \E x \in Scenarios :
       /\ setting = x.setting
       /\ incidence = x.incidence
       /\ store = [i \in Items |-> IF i \in x.live THEN "live" ELSE "unborn"]
  /\ d = InitialD
  /\ written = [c \in Changes |-> 0]
  /\ told = <<>>
  /\ refused = {}
  /\ mails = {}

Call ==
  \/ \E c \in Changes : CreateIncidence(c) \/ ModifyIncidence(c) \/ DeleteIncidences(c)
  \/ StartAtomicOperation
  \/ EndAtomicOperation

\* The calls of an atomic operation are made in one turn: until its end the event loop
\* runs only within a question.
EventLoop == d.operation.open => d.operation.ended \/ d.frames # <<>>

Deliver ==
  /\ EventLoop
  /\ \/ \E c \in Changes : HandleJobResult(c)
     \/ \E i \in Items : PerformNextModification(i)
     \/ \E t \in d.transactions : PerformTransaction(t)
     \/ \E m \in mails : ComposerFinished(m) \/ QueueJobFinished(m)
     \/ OnCollectionsLoaded
     \/ TransactionResult

Server == \E c \in Changes : ServerRuns(c)

Next == Call \/ Deliver \/ Server \/ Answer

Spec == Init /\ [][Next]_vars
-----------------------------------------------------------------------------
(* Properties.                                                             *)

Asked(c) == d.changes[c].kind # "none"
Answered(c) == d.answers[c] # <<>>

\* A deletion of several items waits for as many signals; an item that is not ours gives none.
WaitsInVain(c) ==
  /\ d.changes[c].kind = "delete"
  /\ Len(d.changes[c].items) > 1
  /\ \E i \in ToSet(d.changes[c].items) : ~(SupportsGroupware(incidence[i]) /\ ThatIsMe(incidence[i]))

\* What keeps a change for ever: a listing that failed (incidencechanger_p.cpp:60), an
\* atomic operation whose transaction ended before its caller has ended it or the question
\* after a creation was answered (incidencechanger.cpp:241), a deletion that waits in vain,
\* and a crash.
Kept(c) ==
  \/ d.crashed \/ WaitsInVain(c)
  \/ c \in ToSet(d.pending) /\ d.fetching = "failed"
  \/ c \in d.operation.changes

\* Nothing is under way: no question, job, mail, listing, posted call or transaction.
AtRest ==
  /\ d.frames = <<>> /\ d.fetching # "running" /\ d.posted = {}
  /\ d.transactions = {} /\ mails = {}
  /\ \A c \in Changes : d.jobs[c] = <<>>
  /\ d.operation.changes # {} => d.operation.transactionCompleted

\* A modification that waited for another one is performed once per pass of
\* performModification(), and so written twice or lost: a lambda is
\* connected to its dialogClosedBeforeChange in each pass (incidencechanger.cpp:962).
PassedTwice(c) == d.changes[c].kind = "modify" /\ d.changes[c].before > 1

\* A change is answered once.  Twice if its deletion fails, which is so of a second job
\* started by the end of its mail, and if a modification that had to wait is refused.
AnsweredOnce ==
  \A c \in Changes :
    Len(d.answers[c]) > 1 =>
      \/ d.changes[c].kind = "delete" /\ ToSet(d.answers[c]) = {"JobError"}
      \/ PassedTwice(c)

\* A change is answered once, and when nothing is under way every one is, whatever was
\* asked on the way and in which order the questions were answered and the results came,
\* but for those kept for ever (resultCode and emitCompletionSignal() of ~Change).
AnsweredAtRest ==
  /\ AnsweredOnce
  /\ AtRest => \A c \in Changes : Asked(c) => Answered(c) \/ Kept(c)

\* What the user said no to, in the collection dialog or to the warning of not being the
\* organizer, is not done (performModification2(), onCollectionsLoaded()).
RefusedIsNotDone == \A c \in refused : ~PassedTwice(c) => written[c] = 0

\* No question about a deletion is open while its job runs, unless one of its mails has
\* ended, whose signal counts like that of a question (the count of incidencechanger.cpp:883).
DeletedWhenAllClosed ==
  \A k \in DOMAIN d.frames :
    LET c == d.frames[k].change
    IN  d.frames[k].kind = "deleted" /\ d.jobs[c] # <<>> => \E j \in DOMAIN told : told[j].change = c

\* The code a change is answered with tells what was stored: a success was written, what
\* was refused, discarded or came too late was not, and nothing is done that the user said
\* no to or is still asked about (resultCode of ~Change).
AnswerIsTrue ==
  /\ RefusedIsNotDone /\ DeletedWhenAllClosed
  /\ \A c \in {x \in Changes : ~PassedTwice(x)} : \A k \in DOMAIN d.answers[c] :
       CASE d.answers[c][k] = "Success" -> written[c] > 0
         [] d.answers[c][k] = "JobError" -> written[c] = 0 \/ d.changes[c].kind = "delete"
         [] OTHER -> written[c] = 0

\* The others hear of a change once, in a mail of the kind the change calls for, and of a
\* creation or a modification only when it is stored (handleInvitationsBeforeChange(),
\* handleInvitationsAfterChange()).
ToldOnce ==
  /\ \A j, k \in DOMAIN told : j # k => <<told[j].change, told[j].item>> # <<told[k].change, told[k].item>>
  /\ \A k \in DOMAIN told : told[k].method = "Request" => written[told[k].change] > 0

\* With InvitationPolicySend the others are told of each change of a meeting of ours that
\* was answered with success; with InvitationPolicyDontSend only the decline of an
\* invitation is sent (incidencechanger.h:114-118).
PolicyKept ==
  /\ setting.policy = "Send" =>
       \A c \in Changes : \A i \in ToSet(d.changes[c].items) :
         /\ "Success" \in ToSet(d.answers[c]) /\ ~d.changes[c].quiet
         /\ ThatIsMe(incidence[i]) /\ WeNeedToSendMailFor(incidence[i])
         => \/ \E k \in DOMAIN told : told[k].change = c /\ told[k].item = i
            \/ \E t \in d.transactions : t.helper.change = c /\ t.item = i
  /\ setting.policy = "DontSend" => \A k \in DOMAIN told : told[k].method = "Reply"

\* Nobody is told twice or in vain, and the policy and the privacy settings of the changer
\* hold for all that goes out, whoever of the helper, the user and the mail client decides
\* (sendMail(), MailClient::send()).
MailsAreTrue == ToldOnce /\ PolicyKept /\ PrivacyKept

\* No pointer to a change or an operation that is gone is used, unless a mail was sent,
\* whose end is reported like the closing of a question (itiphandlerhelper_p.cpp:159), a
\* modification had waited, or the jobs of an atomic operation ended during a question of
\* its calls (mChangeById[] of an unknown id, a transaction that is gone).
NothingDangles ==
  /\ TypeOK
  /\ d.crashed => \/ told # <<>>
                  \/ \E c \in Changes : PassedTwice(c)
                  \/ d.operation.transactionCompleted /\ ~d.operation.ended
=============================================================================
