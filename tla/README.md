# Verification of akonadi-calendar

TLA+ modules, TLC configurations and TLAPS proofs for the code under `src/`: the
library that lets a KDE application change calendar items held by the Akonadi server
(`src/src`), the reminder daemon (`src/reminder-daemon`), and two plug-ins.

## The system

| Component | State it keeps | Operations | Depends on |
|---|---|---|---|
| `IncidenceChanger` (`incidencechanger.cpp`, `_p.h`, `_p.cpp`) | changes by id and by job, the modification in progress and the one waiting per item, ids of deleted items, newest revisions, atomic operations, creations waiting for the collections | `createIncidence`, `modifyIncidence`, `deleteIncidences`, `startAtomicOperation`, `endAtomicOperation`, the handlers of job results, dialogs and transactions | Akonadi jobs, `ITIPHandlerHelper`, `History` |
| `History` (`history.cpp`, `history_p.cpp`) | undo and redo stacks, the entry in progress, entries recorded meanwhile | `record*`, `undo`, `redo`, `undoAll`, `clear` | a private `IncidenceChanger` |
| `ITIPHandlerHelper`, `ITIPHandler`, `Scheduler`, `MailScheduler`, `MailClient` | the operation in progress, dialogs open, jobs of a mail | ask the user, send and process iTIP messages | mail transport, a `FetchJobCalendar`, `IncidenceChanger` |
| `CalendarBase`, `ETMCalendar`, `CollectionCalendar` | items by id, uid, collection and parent; collections and their rights | insert, update, remove an item as the model reports it | Akonadi models |
| `IncidenceTreeModel` | nodes by uid, children waiting for a parent | rows inserted, changed, removed below | `EntityTreeModel` |
| `FreeBusyManager` | retrieval queue, requests to providers, upload timer | retrieve and publish free/busy lists | D-Bus providers, KIO |
| `KalendarAlarmClient` | notifications, suspended alarms, time of the last check | check, dismiss, suspend, restore after a restart | its configuration, `ETMCalendar` |
| `TodoPurger`, `ICalImporter`, `FetchJobCalendar`, `IncidenceFetchJob`, `SearchCollectionHelper` | one operation each | chains of asynchronous jobs | `IncidenceChanger`, Akonadi |
| `TodoModel`, `CalendarClipboard` | what waits for an answer | edit and drag to-dos, cut and copy | `ETMCalendar`, `IncidenceChanger` |
| the rest (proxies for views, dialogs, text, serializer, bindings) | no state over time | | |

Everything runs in the thread of one event loop.  What makes it hard is what runs later
or in the middle: Akonadi jobs whose results are queued, calls posted to the event
loop, signals emitted by destructors when the last shared pointer to a change goes away,
modal dialogs that run every other handler inside the one that opened them, a server
other programs write to, and a calendar that hears of a change only some time after the
changer has answered it.  `PROJECT.json` lists the hazards at their lines.

What makes each part correct, in short:

- **IncidenceChanger**: every call is answered, once and truthfully; a newer change of an
  item is never overwritten by an older one; at most one write of an item is under way;
  a batch succeeds or fails as a whole.
- **Groupware**: nothing the user declined is done, nobody is told of a change that was not
  made, nor twice.
- **History**: undo and redo move along one line of states; no entry is lost or
  duplicated; entries follow the ids of items that are created again.
- **Calendars and tree model**: the maps by id, uid and parent describe the same items,
  whatever the order in which items and parents come and go.
- **iTIP, FreeBusyManager, importer, purger, clipboard**: an operation that starts ends,
  and takes only its own answers.
- **Alarm client**: an alarm is neither missed nor shown before its time, across checks,
  suspension and restarts.

## Modules

| Module | Models | Uses |
|---|---|---|
| `IncidenceChanger`, `IncidenceChangerInductive`, `IncidenceChanger_proofs` | the life of a change | `ChangeRequests` (abstract) |
| `AtomicOperation`, `AtomicOperation_proofs` | batches | |
| `GroupwareChanges` | changes with questions and mails; where creations go | `ITIPHandlerHelper` < `MailClient` |
| `History`, `History_proofs` | undo and redo | |
| `CalendarViews`, `CalendarViews_proofs` | composes `CalendarBase` and `IncidenceTree` | both over `ItemRows` (the model's rows) |
| `ITIPHandler`, `ITIPHandler_proofs` | iTIP messages | `Scheduler`, `MailClient`, `FetchJobCalendar` |
| `FreeBusyManager`, `FreeBusyManager_proofs` | retrieval of free/busy lists | |
| `KalendarAlarmClient`, `KalendarAlarmClient_proofs` | the reminder daemon | |
| `Application`, `Application_proofs` | what an application does around the changes | `TodoPurger` < `CalendarClipboard` < `TodoModel` < `ChangerService`; `ICalImporter`, `SearchCollectionHelper`, `ETMCollections`, `FreeBusyPublishing` |

(`A < B`: A extends B.)  Each has a module `MC...` that gives TLC its instance.  Modules
whose handlers run one another within a step, or are interrupted by dialogs, keep their
state in a record and their handlers are operators from record to record; the others have
one variable per member and one action per handler.

### `IncidenceChanger`: the life of a change

One action per handler; the state is that of `IncidenceChangerPrivate` under its own
names, with `changes` for the `Change` objects themselves.  The correspondence:

| Code | Model |
|---|---|
| `QSharedPointer<Change>` in `mChangeById`, `mChangeForJob`, `mQueuedModifications`, `mModificationsInProgress`, or in a local variable of an interrupted handler | `Held(c)` |
| `~ModificationChange()` and its siblings emit the completion signal | `Destroyed`, `Signals`: every action appends to `answers` what its handler emits and then what the destructors emit |
| `QMetaObject::invokeMethod(..., "performNextModification", Qt::QueuedConnection)` | `ScheduleNext`, the set `nextPosted`, the action `PerformNextModification` |
| a running `ItemCreateJob`, `ItemModifyJob`, `ItemDeleteJob`; its queued result | `mChangeForJob[c]` is `running`; `succeeded` or `failed` |
| `KMessageBox::error()` in a handler | `HandleJobFailure` pushes on `dialogs`, `CloseErrorDialog` runs the rest of the handler; boxes return in reverse order |
| `QList::remove(indexOf(id))` with an id that is not in the list | `crashed`, after which nothing happens |

The code calls `createFromItem()` -> `step1DetermineDestinationCollection()` ->
`step2CreateIncidence()`, and `modifyIncidence()` -> `performModification()` ->
`performModification2()`, without returning to the event loop when groupware
communication is off; each chain is one action.  The data kept of an incidence is its
revision on the server, how often its SEQUENCE was raised, and which change wrote it last.
The server (`Server`, `ForeignWrite`) is external: it refuses a modification that does
not carry the current revision, may fail any job for other reasons, and its items may be
written or deleted by another program.

Not in this module: atomic operations (`mBatchOperationInProgress` is false;
`AtomicOperation` has them), groupware dialogs, the collection dialog and the loading of
collections (a creation has a writable default collection or is refused;
`GroupwareChanges` has them), the history (recording does not change the changer), calls
with invalid arguments (answered -1 without any change of state), and a list with the same
item twice given to `deleteIncidences()`.

### `ChangeRequests`: what the changer promises

The abstract specification: ids in order; a change is applied or refused, its answer says
which and is never taken back; an item is only overwritten by a newer change.  No jobs,
queues, boxes or objects.  `IncidenceChanger!KeepsRequests` is the refinement: `state` is
computed from `answers` and from what the server applied, `newest` is the change each item
was written by.

### `IncidenceChangerInductive`, `IncidenceChanger_proofs`

The inductive invariant, and the theorems about the pipeline, answers, revisions, the list
of deletions and the refinement.  `MCIncidenceChanger` gives TLC its instances.

### `History`: undo and redo

The stacks, the queue of entries recorded during an operation, the operation in progress,
and the `Entry` objects in the order of their construction (`entries`; a stack is a
sequence of their numbers).

| Code | Model |
|---|---|
| `recordCreation()`, `recordModification()`, `recordDeletions()`, `stackEntry()` | `Record`: alone, joined to the `MultiEntry` on top, or in a new one |
| `undo()`, `redo()`, `undoAll()`, `clear()` | `UndoOrRedo`, `UndoAll`, `Clear`; `DoIt` asks for all changes of the entry at once, as nothing returns to the event loop in between |
| `onCreateFinished()`, `onModifyFinished()`, `onDeleteFinished()`, `onEntryFinished()`, `handleFinished()` | `Deliver`, one posted answer at a time; the signal `finished` is a direct call |
| `updateIds()` | `UpdateIds`, over the entry in progress and both stacks, but not the queue |

External: the user's changes (on the server first, recorded when the result of the job
is handled).  The history's own `IncidenceChanger` carries out what an entry asks
for together, since a `MultiEntry`, and the undo of a deletion of several items, open an
atomic operation (`Atomic`).  It answers each change, a failed deletion twice, but for those
of an atomic operation with a failed creation (`stranded`, the finding of `AtomicOperation`);
the operation stays in progress, and later changes are refused (`ChangerRefuses`).
An item's contents are one of `Payloads`, and each user's change makes a new one.
`before` and `after` of an entry remember the contents of the calendar around its change
for the properties.  Left out: `setEnabled()`, revisions and conflicts other than as a job
that fails, and an atomic operation of the user with the same item in it twice.

### `AtomicOperation`: batches

The calls between `startAtomicOperation()` and `endAtomicOperation()`, and those between
two batches; the `TransactionSequence` of a batch; the `AtomicOperation` object.

| Code | Model |
|---|---|
| `m_changes`, `m_itemIdsInOperation`, `m_numCompletedChanges`, the flags of an `AtomicOperation` | the record `mAtomicOperations[o]`; `alive` while the object exists |
| `parentJob()`, `transaction()`, `addChange()` | `JoinOperation` |
| `cancelTransaction()`, `setRolledback()` | `CancelTransaction`; a transaction without jobs returns inside `rollback()` |
| `cleanupTransaction()`, `handleTransactionJobResult()`, `endAtomicOperation()` | `CleanupTransaction`, `HandleTransactionJobResult`, `EndAtomicOperation`: the places that delete the object |
| `~AtomicOperation()` rewriting the results of a batch that was rolled back | `DeleteOperation`, `Outcome` |
| refusals in `createFromItem()`, `modifyIncidence()`, `deleteIncidences()` | `CallInvalid`, `CallRolledBack`, `CallRefused`, `ModifyRefused`, `ModifyDuplicate`, `ModifyRolledBack`, `ModifyDeleted` |
| `Change::Ptr` in `m_changes` and in the hashes; the destructors' signals | `Held`, `Destroyed`, `Signals` as above, with `answers` a set of codes per change |

External, after how the source uses them: a `TransactionSequence` commits by itself when
its jobs are done and the caller has returned to the event loop; it fails with any of its
jobs or on `rollback()`, killing those that have not run ("Unknown error.", which
`~AtomicOperation()` looks for); the results of its jobs are handled before its own; it is
freed when the event loop runs after its end.  `applied` is the set of changes the server
kept.

Left out, beside what `IncidenceChanger` models (revisions, message boxes, the clean-up of
`mDeletedItemIds`): a batch that spans several turns of the event loop, calls that join a
transaction that is committing or rolling back (what Akonadi does with the job is not to
be read from this source), several items in one deletion.  `AtomicOperation_proofs`
has the theorems: what operations there are, what keeps them alive, and what becomes of
their changes.
`MCAtomicOperation` has the instances.

### `GroupwareChanges`, `ITIPHandlerHelper`: changes others are told of

`IncidenceChanger` with groupware communication switched on.  A handler runs to its end
unless it asks a question: then the event loop of the modal box runs the other handlers.
`frames` is the stack of the handlers stopped that way, with what each has left to do;
only the last one opened goes on first.

| Code | Model |
|---|---|
| `createFromItem()`, `step1DetermineDestinationCollection()`, `loadCollections()`, `onCollectionsLoaded()`, `step2CreateIncidence()` | `CreateIncidence`, `Step1DetermineDestinationCollection`, `LoadCollections`, `OnCollectionsLoaded` with `CreateAll` and `RefuseAll`, `Step2CreateIncidence` |
| the lambdas connected to `dialogClosedBeforeChange` | `ClosedBefore`, which counts the connections of a modification that went through `performModification()` more than once (`PassedTwice`) |
| the count of dialogs of a deletion | `DeletedAnswered`, `DeleteIncidences2` |
| `handleInvitationsAfterChange()`, the lambdas of `dialogClosedAfterChange` | `HandleJobSuccess`, `AskCreated`, `AskModified`, `ClosedAfter` |
| `sendIncidenceCreatedMessage()` and its siblings, `sentInvitation()` | `SupportsGroupware`, `WeNeedToSendMailFor`, `AsksAboutDeletion`, `WarnsOfModification`, `DefaultAction`, `SentInvitation` |
| `onSchedulerFinished()` of the helper | `Finished`, `OnSchedulerFinished`: the end of a mail is reported like the end of a question |
| the reply that tells of a declined invitation | `TheReply`, lost when its scheduler is destroyed at the end of the handler |

The data of an incidence is what the questions depend on: its organizer, whether it has
other attendees, whether the user accepted it, its type.  An instance is a set of
`Scenarios`: the policy, what the user calls and the incidences there are.

### `CalendarViews`: `CalendarBase`, `IncidenceTree` over `ItemRows`

`ItemRows` is the model they follow: rows that come, change and leave in batches.  An
`orderly` source has unique uids, no cycles, and removes children before their parents or
with them; a disorderly one does what a server that others write to may do.

| Code | Model |
|---|---|
| `rowsInserted`, `rowsAboutToBeRemoved`, `dataChanged`, `modelReset` of the model | `RowsInserted`, `RowsRemoved`, `DataChanged`, `ModelReset`: the rows are put in `pending`, and `Handle` takes one after the other |
| `internalInsert()`, `internalRemove()`, `updateItem()`, `handleUidChange()`, `handleParentChanged()` | operators of the same names |
| `insertNode()`, `removeNode()`, `onRowsInserted()` with `sorted()`, `onDataChanged()`, the move with `beginMoveRows()` | `InsertNode`, `RemoveNode`, `InsertionOrders`, `Changed`, `Moved`, `MoveRefused` |
| `index()`, `parent()`, `rowCount()`, `mapFromSource()` | `Index`, `ParentOf`, `RowCount`, `MapFromSource` |
| `mParentUidToChildrenUid`, a list of uids per parent | how often each uid is in the list of a parent (`Listed`, `Appended`, `RemoveAll`), or `NoList`; the order of the children is left out |
| an assertion of the tree model; that a new parent is known, of `onDataChanged()` | `failed`; `orphanChanged` too (`Orphaned`) |

Left out: exceptions of recurring incidences, incidences without an item, virtual
collections, the filters of collections, and of the tree `mapToSource()` and `data()`.

### `KalendarAlarmClient`: reminders

A record `client` for the daemon while it runs, `config` for what it has synced.  Time is
counted in checks.  `Crash` and `KilledDuringCheck` (`KilledAfterSaving`) stop the daemon
anywhere, also between the notifications a check stores and the time of the check; `Start`
restores what was stored.  `CheckAlarms` is a whole check: alarms in the window are added
(`Added`, `Renewed`), notifications are sent (`Send`, `Executed`) or closed.  `Dismiss`,
`RemindIn5`, `RemindLater`, `SuspendRequested`, `CancelRequested` and `DialogClosed` are
what the user does.  `past` remembers the alarms dealt with, for the properties.  Left out:
texts, occurrences, and the actions that only open something.

### `FreeBusyManager`, `FreeBusyPublishing`

The manager's members in one record; a D-Bus signal of a provider names the email only and
is heard by every interface connected to it (`Hearers`), so answers meant for one retrieval
can reach another (`past.crossed`); the URL `toDisplayString()` makes of one is `Displayed`.  `RetrieveFreeBusy`, `CancelRetrieval`, `PostedCall`
(`processRetrieveQueue()`), `HandlesFreeBusy` and `FreeBusyRetrieved` (the two signals),
`ContactSearchJobFinished`, `FbCheckerJobFinished`, `ProcessFreeBusyDownloadResult`.
`FreeBusyPublishing` holds the other half, as operators that `Application` makes the steps
of its part `publish` from: timer, upload, error box, mail.

### `ITIPHandler`, `Scheduler`, `MailClient`, `FetchJobCalendar`

All messages are about one meeting; a copy of it is an incidence of the calendar with the
meeting's scheduling id.  `Scheduler` returns the outcomes an `accept*()` may have: a change
asked of the calendar, or an end at once; the changer raises SEQUENCE of what is modified
(`Raised`), also of the calendar's own payload when that is what it is given (`ModifiesOwn`).
`acceptCancel()` looks for an exception under the organizer's uid, as the code does before it
sets the scheduling id.  `ITIPHandler` carries them out: `ProcessiTIPMessage`,
`SendiTIPMessage`, `PublishInformation`, `SendAsICalendar`, the calls repeated when the
calendar is loaded (`OnLoadFinished`), the ends of its scheduler and helper.  `hasty` marks
that an operation was over while something of it was under way: what it started can then
end the next one; the assertion of a send repeated when the calendar is loaded is `crashed`
or, in a release build, passed over.  `MailClient` composes a mail once per crypto format,
makes up to `MaxResults` messages of each and ends once per queued message; whether it is signed and encrypted is `Decision`.  `FetchJobCalendar` lists
the collections and fetches each; a fetch in which no collection is wanted never ends.
Messages are already parsed, a counter proposal is one case for all attendees, and
collections refuse no modification for their rights.

### `Application` and its parts

`ChangerService` is the `IncidenceChanger` with its server as the rest of the library sees
it: ids, a session of jobs, refusals, waiting modifications, and posted answers.  What
takes `IncidenceChanger` several steps is one step here, as none of the classes that use it
can tell the difference; a batch is a deletion that can still be rolled back.

| Part | Code | Model |
|---|---|---|
| `todos` | `TodoModel::setData()`, `dropMimeData()` | `SetData`, `DropMimeData` |
| | `CalendarClipboard` | `CutIncidence`, `CutSingle`, `MakeChildsIndependent`, `CutRecursively`, `SlotModifyFinished`, `SlotDeleteFinished`; `Noticed` when a notification changes the to-do a question is about |
| | `TodoPurger` | `PurgeCompletedTodos`, `DeleteTodos`, `TreeIsDeletable`, `OnItemsDeleted`, `OnCalendarLoaded` |
| | server notifications to the model, those of the model to the calendar | `Notify` |
| `import` | `ICalImporter` | its operators; `ImportFile`, `ImportFileAsResource`, `ImportUrl` are the calls |
| `search` | `SearchCollectionHelper` | its operators, jobs in the order of their session |
| `collections` | the collections of `ETMCalendar` | `ETMCollections`, one operator per slot |
| `publish` | the upload and the mail of `FreeBusyManager` | `FreeBusyPublishing` |

The parts do not share state; `part` says which one a behaviour looks at, and each has its
own bound of calls.  They are one module because they share the harness: calls of the user,
events of the server, failures.

## Runs

| Run | Instance | What it shows |
|---|---|---|
| `changes` | 2 items, 4 changes, clean-up at 1 deletion, no boxes | the safety properties of the pipeline in every interleaving |
| `error_boxes` | 1 item, 3 changes, 2 foreign writes, nested error boxes | the changer implements `ChangeRequests`; the inductive invariant `ChangerInv` holds; every change is answered |
| `batch` | 1 item, 3 changes, 2 batches | an `AtomicOperation` lives as long as it is used, a batch shares its fate and its answers tell it; a batch whose jobs are counted ends |
| `failed_creation` | 1 item, 2 changes, 1 batch | a creation that fails is not counted and the batch never ends (finding) |
| `groupware` | 2 items, up to 3 changes, 2 questions open at a time | every change is answered truthfully, the others are told what was stored and once, and which cases are excepted |
| `history` | 4 entries, 4 ids, 3 contents, 4 changes, 1 batch | stacks tell the calendar's contents for a patient user; entries stay on one line for an eager one; every operation ends whose changes are answered |
| `calendars` | 3 ids and uids for a tree with an orderly source, 2 otherwise; signals of up to 3 rows | the maps agree after every row; children are found at their parents; one assertion only can fail |
| `alarms` | 1 incidence, clock up to 3, delays up to 2 | no reminder is lost, none is shown early, each comes up |
| `freebusy` | 2 addresses, 2 providers, 2 URLs, 3 requests, 4 interfaces | every retrieval is accounted for, the queue moves, a list is given out when all have answered |
| `itip` | 2 revisions, 1 crypto format, 2 messages of it, 2 collections, 2 calls | one answer per call, success means stored, revisions grow; every message is answered |
| `application` | 3 to-dos in 3 trees, 2 changers, 3 collections, 2 incidences per file, 1 failure; 2 calls for to-dos, 5 for publishing, 3 elsewhere | no to-do is lost, lists and collections are true, calls are answered |
| `cut_only_this` | the same to-dos, 2 calls, no failure | cutting a to-do alone loses it (finding) |

No run checks deadlock: each system stops when its calls are used up and nothing is pending.

**Bounds.**  `IncidenceChanger`: three modifications of one item are the least that fill the
queue and discard from it, and four add a deletion that races with them; two items show
that entries of different items do not mix.  `DeletedCap` stands for the constant 100 of
`deleteIncidences2()`; with 1 the clean-up happens at the second deletion.  Item symmetry is
used where no temporal property is checked under fairness.  `AtomicOperation`: three changes
are the least for one before the batch, one in it that waits and one that fails; a second
batch shows what the first leaves behind.  One item is enough for duplicates, queues and
deletions of what is being modified; creations are of no item.  `GroupwareChanges`: each
scenario of `MCGroupwareChanges` is one question asked of the code, such as three
modifications in a queue or a deletion of two incidences of which only one is a meeting; two
nested questions are the least where the inner one ends before the outer.  `History`: four
entries are a batch of two and a change beside it, or two creations, their deletion and
its undo, which needs four ids.  `patient` and eager users are both in the instance; eager
ones do not delete and jobs of deletions do not fail, because their second answer, a finding
of its own, would hide everything else.  `CalendarViews`: three ids make a chain of parent, child and
grandchild come in any order; `MaxList` stops a disorderly source from making lists grow for
ever.  `KalendarAlarmClient`: with the clock at 3 an alarm can be seen, put off, and seen
again, with another one in between; incidences do not interact.  `FreeBusyManager`: two
retrievals cross their signals, a third waits.  `ITIPHandler`: the second call meets what
the first left under way.  `Application`: three to-dos make chains and pairs; one failure
anywhere; five calls for publishing, since setting a URL, a calendar and a change are three.

**Fairness.**  `IncidenceChanger` and `AtomicOperation`: the server ends every job and
transaction; each queued result and posted call is delivered, as the event loop runs every
posted event; the user closes message boxes and the caller ends its batch.  `History`: the
jobs of its changer end and their answers are delivered.  `ITIPHandler`: posted calls run,
the calendar loads, and changes of calls are carried out.  `KalendarAlarmClient`: the check
runs again (its timer) and the clock goes on.  Nothing is assumed of callers, users who
decide otherwise, or other programs.  `GroupwareChanges`, `FreeBusyManager` and
`Application` have no fairness: what must be answered is stated of the states in which
nothing is under way (`AnsweredAtRest`, `QueueMoves`, `CallsAnswered`), which says the same
of every end and needs no assumption.

**Exceptions in the properties.**  Where the code departs from a property in a known case,
the property names the case and the list below explains it: `CountedBatchEnds` (failed
creations; modifications that came back after the transaction), `WaitsInVain`, `Kept` and
`PassedTwice` in `GroupwareChanges`, `past.crossed` and `manager.dry` in `FreeBusyManager`,
`hasty` in `ITIPHandler`, `Unanswered` in `History`, `orphanChanged` in `IncidenceTree`,
`OneUploadOnly`, `past.single`, `late`, `stuck` and `misread` in `Application`.
Everything else they forbid does not happen.

## Findings

`PROJECT.json` lists those that a run shows:

- a creation that fails in a batch is never counted, so the batch never ends, its changes
  are not answered and no further batch starts (`incidencechanger.cpp:258`); the undo of a
  deletion of several items never ends for the same reason (`history_p.cpp:241`);
- cutting a to-do only, whose children are to stay, writes the child into the to-do's item
  and then cuts that (`calendarclipboard.cpp:103`).

Also met while modelling, with no run of their own.  A line number alone is of the file named
last.

*Changes and batches* (`incidencechanger.cpp`)
- A deletion that fails is answered twice (`:353`); when it was the undo of a creation, the
  second answer puts the entry on the redo stack as well, so that it is on both.
- A modification that had to wait has its SEQUENCE raised twice (`:1013`), and with
  groupware on it is performed twice, as each pass of `performModification()` connects one
  more lambda (`:962`).
- A modification queued in a batch may outlive the batch's `AtomicOperation`, which
  `performModification()` then dereferences (`:954`, `:1047`); no property covers it, since
  the model stops there.
- A modification refused as a duplicate in a batch is never answered (`:716`).
- A deletion of several items waits for one `dialogClosedBeforeChange` per item, but an item
  nobody has to be told of emits none: it never starts and is never answered (`:883`).
- The clean-up of `mDeletedItemIds` at 100 entries forgets deletions that are running, and
  removes index -1 when one of them fails (`:917`, `:348`).
- A failed deletion blocks changes of its items while its error box is open (`:343`); one
  that was rolled back blocks them for good (`:354`).
- After a listing of collections that failed, creations wait for ever
  (`incidencechanger_p.cpp:60`); nested listings create the same change twice (`:185`).
- `undoAll()` reverts one entry only, although `history.h:134` says every, and makes later
  redos fail the assertion at `history.cpp:179`; an undo during the recording of a batch
  finishes its `MultiEntry` twice (`history_p.cpp:367`).

*Groupware* (`itiphandlerhelper_p.cpp`)
- The mail scheduler of a declining reply is on the stack and gone before it sends
  (`incidencechanger.cpp:619`), although `itiphandlertest.cpp:451` says a REPLY is
  always sent; the reply also changes the payload in place.
- The end of a mail emits `finished()` again (`:159`), so a deletion may proceed by the end
  of a mail while a question is open, and pointers to changes that are gone are used.
- "Don't send" and "Cancel" never stop a deletion; one in a batch always records "Cancel"
  for the others (`incidencechanger.cpp:499`).
- A question inside a batch lets the transaction end before `endAtomicOperation()`.
- A mail whose composing is cancelled or fails emits no `finished()`.

*iTIP* (`itiphandler.cpp`)
- A message processed during an operation resets it, and neither is answered; a
  cancellation of an unknown incidence, counter proposals and load errors leave
  `m_currentOperation` set (`:174`, `:193`-`:222`).
- `sendiTIPMessage()` while the calendar loads is lost, although the comment at `:238` says
  otherwise.
- Any `transactionFinished()` ends the operation in progress, so with a shared calendar the
  changes of others do (`itiphandler_p.cpp:33`).
- `acceptRequest()` compares revisions with whichever incidence of a series it finds first
  (`scheduler_p.cpp:209`); `acceptCounterProposal()` does not connect to the calendar
  whose signal it leaves its answer to (`mailscheduler_p.cpp:190`).
- A fetch with no wanted collection, or whose listing failed, never ends.

*Calendars and tree*
- A parent that is removed drops its list of children, who keep it in `mUidToParent`
  (`calendarbase.cpp:240`, assertion at `:385`); a changed uid leaves `mUidToParent` as it
  was (`:351`).  With an orderly source neither assertion of `handleParentChanged()` fails.
- A list of children that has become empty stays in `mParentUidToChildrenUid`
  (`calendarbase.cpp:386`), so the assertion at `:352` fails when the old and the new uid of
  an item were both once named as parents by items that are gone.
- `CollectionCalendar` updates an item without `handleParentChanged()` and without
  `mItemsByCollection` (`collectioncalendar.cpp:209`); `m_populatedFromEtm` is set before
  the early returns (`:223`).
- An incidence whose parent is not in the tree model is inserted as "orphan for now"
  (`incidencetreemodel.cpp:356`), but when it changes, or gets such a parent, `onDataChanged()`
  asserts that the parent is known (`:194`); a release build puts it at the top.
- `IncidenceTreeModel` does not update `parentUid` and the list of waiting nodes when a
  parent changes, so a node may be adopted by its old parent.
- `ETMCalendar::onRowsRemoved()` reads what took the place of the removed rows
  (`etmcalendar.cpp:307`); a calendar that shares a model never hears of rights that change;
  an empty tree is loading for ever.

*To-dos, import, search*
- The walk over the ancestors of a drop target tests the target at each level
  (`todomodel.cpp:562`): a to-do may be dropped below itself, and the recursions of the
  clipboard and the purger then never end.
- An edit changes the payload the calendar shares before the changer has agreed.
- Overlapping cuts lose an answer; cancelling the question of a cut reports success; a last
  modification that fails leaves the cut without an answer.
- A purge that begins during another, or while the calendar loads, shares its changer and
  rolls it back (`todopurger.cpp:48`).
- A remote import is never answered, each chunk is taken for the whole file, and a creation
  that fails leaves the importer working (`icalimporter.cpp:107`).
- Switching the search collections on and off before their listing came back leaves a stale
  handle (`searchcollectionhelper.cpp:117`).

*Free/busy* (`freebusymanager.cpp`)
- A retrieval that ends without a download leaves those behind it in the queue (`:911`).
- A provider that fails is not counted as done, so an empty list may be given out, although
  `freebusymanager.h:69` says that the URL is used as a fallback then (`:662`); one that
  declines after another answered leaves the retrieval open.
- Two addresses with one URL: the second download is dropped.
- `mUploadingFreeBusy` is never reset, as the connection is commented out (`:848`): one
  upload per session, and the timer later changes start fires in vain, although
  `freebusymanager.h:129` says it is for delayed uploading; the old calendar's changes still count after `setCalendar()`; the box
  about a URL marks a URL corrected meanwhile as broken (`:766`).

*Alarms* (`kalendaralarmclient.cpp`)
- Closing the window of the `SuspendDialog` emits neither signal: the reminder is not shown
  again before the daemon is restarted (`:386`; no property covers it, `SetAside` excepts
  it).
- Only top-level collections have to be populated for a check; alarms of an incidence that
  is not there yet are overlooked.

## Proofs

For every value of the constants that satisfies the modules' assumptions:

| Theorem | Statement |
|---|---|
| `IncidenceChanger_proofs!Invariance` | `Spec => [](IInv /\ StoreTypeOK)` |
| `TypeCorrectness` | the types of all variables but `mDeletedItemIds` |
| `OneWriter` | `Spec => []OneWriterPerItem` |
| `NoLostWakeup` | `Spec => []WaitingHasWaker` |
| `QueueSoundness` | `Spec => []QueueIsSound`, the conjunction the run checks |
| `NeverAnsweredTwice` | `Spec => []AnsweredOnce` |
| `PipelineInvariance` | `Spec => []PipelineInv` |
| `AnswersAreTrue` | `Spec => []AnswerIsTrue` |
| `NeverConflictsWithItself` | `Spec => []NoSelfConflict` |
| `UpdatesAreNotLost` | `Spec => NoLostUpdate`, an action property |
| `ImplementsRequests` | `Spec => KeepsRequests`: every step is one of `ChangeRequests` or a stutter |
| `ChangerInvariance` | `Spec => []ChangerInv`, the conjunction the run checks |
| `DeletionsAreListed` | `Spec => []ListedIsDeleted` |
| `AtomicOperation_proofs!BatchInvariance` | `Spec => []IInv` |
| `BatchTypes` | `Spec => []TypeOK` |
| `OneOperationAtATime` | `Spec => []OneOperation` |
| `JobsInvariance` | `Spec => []JobsInv` |
| `OperationOutlives` | `Spec => []OperationOutlivesItsJobs` |
| `FateInvariance` | `Spec => []FateInv` |
| `AnswersTell` | `Spec => []AnswersTellTheFate` |
| `History_proofs!HistoryInvariance` | `Spec => []HistoryInv` |
| `HistoryTypes` | `Spec => []TypeOK` |
| `EntriesStayOnOneLine` | `Spec /\ []AnsweredOnce => []OneLine` |
| `CalendarViews_proofs!Invariance` | `Spec => []IInv` |
| `ItemsAgree` | `Spec => []MapsAgree` |
| `HierarchyInvariance` | `Spec => []KinInv` |
| `ParentsAndChildrenAgree` | `Spec => []ParentsAgree` |
| `AssertionsOfTheParents` | `Spec => []AssertsHold` (`calendarbase.cpp:385`, `:393`) |
| `KalendarAlarmClient_proofs!Invariance` | `Spec => []IInv` |
| `RemindersAreKept` | `Spec => []NoReminderLost` |
| `ConfigKeepsUp` | `Spec => []ConfigIsCurrent` |
| `ScreenTellsTheTruth` | `Spec => []ScreenIsTrue` |
| `ITIPHandler_proofs!Invariance` | `Spec => []ITIPInv` |
| `OneAnswerPerCall` | `Spec => []AnsweredOnce` |
| `SuccessIsInTheCalendar` | `Spec => []SuccessIsStored` |
| `RevisionsOnlyGrow` | `Spec => RevisionsGrow`, an action property |
| `FreeBusyManager_proofs!RetrievalsInvariance` | `Spec => []RetrievalsInv` |
| `RetrievalsAreAccounted` | `Spec => []Accounted` |
| `QueueIsServed` | `Spec => []QueueMoves` |
| `FreeBusyInvariance` | `Spec => []FreeBusyInv` |
| `EverybodyHasAnswered` | `Spec => []AllHaveAnswered` |
| `Application_proofs!PublishInvariance` | `Spec => []PublishInv` |
| `ListIsSent` | `Spec => []ListIsPublished` |
| `CollectionsInvariance` | `Spec => []CollectionsInv` |
| `CollectionsAreTold` | `Spec => []CollectionsAreKnown` |
| `HelperInvariance` | `Spec => []HelperInv` |
| `CollectionsAreShown` | `Spec => []ShownIfEnabled` |
| `CallsInvariance` | `Spec => []CallsInv` |
| `CallsAreAnswered` | `Spec => []CallsAnswered` |
| `CutsInvariance` | `Spec => []LostInv` |
| `NothingIsEverLost` | `Spec => []NothingIsLost` |

`OneWriterPerItem` alone is not inductive: that a new job does not meet an old one depends
on the item's entry in `mModificationsInProgress` staying until the posted call, and on the
waiting change having no job of its own.  `IInv` says where a change can be:
`BusyIsInProgress` (a modification with a job or an open box is the one in progress and
its successor is not called for yet), `InProgressIsBusy` (the one in progress is busy or
its successor is called for), `QueuedIsWaiting` (what waits is newer, has no job and is
still in `mChangeById`), `ActiveIsUnanswered` (nothing in the pipeline is answered),
`FreshIds`, and their supporting facts.  The proof has one lemma per action;
`HandlerReturns` holds what the ends of all handlers have in common, `AnswersStep` and
`SignalsStep` what the destructors do to `answers`.

That answers are true is a statement about two clocks: the server applies a change when its
job runs, the changer answers when the result is handled, and with a box open much later.
`FateInv` ties the stages together: what is applied has a job that succeeded or a true answer
(`AppliedIsOver`), the job's result and then the result code tell the same
(`JobTellsFate`, `HandledTellsFate`), and a change that waits in a box will tell of its failure
(`DialogsTellOfFailure`).  The changer does not run into conflicts with itself because
the revision it knows follows the server's as long as no other program writes
(`RevisionsFollow`); that needs the case between the server's write and the handler that
reads its result.  Updates are not lost, and `ChangeRequests` only lets a newer
change overwrite an item, because what an item holds is older than the modification in
progress (`PayloadsAreOlder`).  With these, each step of `Spec` is a step of
`ChangeRequests` that starts, applies or answers a change, or one it does not see.  `ListInv`
says that `mDeletedItemIds` names each item once, only items whose deletion is under way or
done (until an index -1 was removed), and all of them as long as no more are deleted than
the clean-up tolerates.

In `AtomicOperation`, `OneOperation` is what every `mAtomicOperations[...]` of the source
relies on: the flag, the latest id and the one object agree, and only the object's own
transaction can still return.  It is inductive together with `TypeOK` (`IInv`): the id
behind the flag has to be one of an operation for the records to keep their types, and the
types are needed to follow the flags.  Its third part, that the result of a transaction
which has not ended is not yet handled, is what lets `DeleteOperation` conclude that the
object it deletes has no transaction left.  `DeleteOperationStep`,
`TransactionJobResultStep`, `RolledBackStep` and `AddedStep` hold what the actions have in
common; there is one lemma per action.

That an operation outlives its jobs is a matter of counting: it is deleted when
`m_numCompletedChanges` has caught up with `m_changes`.  `JobsInv` says that the count is
at most the number of changes of the operation without a job (`CountIsBehind`), so that the
two can only meet when no change has one (`AllHandled`, with the cardinality lemmas of the
library).  For the count to stay behind, a change whose job is handled has to be one of
the operation's (`BusyIsMember`), a new id must not be in any set yet (`FreshIsUnused`), and
what waits must be in no operation before its job starts (`WaitingIsOutside`).  Every action
is one of three kinds, with a lemma each: no job starts or ends (`KeepsStep`), one starts
(`JobStarts`), one is handled (`JobIsHandled`).  The invariant only bounds the count from
one side, as the code does: a failed creation is never counted, which is the finding about
batches that never end.

What the answers of a batch tell depends on three places that have to agree: `applied`, whether
the operation is rolled back, and the result code a `Change` is destroyed with, which
`~AtomicOperation()` may rewrite.  `FateInv` has a part for each: nothing of a batch is
kept before its transaction is over (`AppliedTogether`), an operation is rolled back when the
server can no longer commit (`OpenIsClean`), nothing has failed while it still can
(`Undecided`), and what left its operation has the code of its outcome (`ResultTells`,
`Answered`).  A step is described by what it does to one change (`SameRecord`, `Settles`,
`AnswersAreCodes`), so that the ways a change can go have one lemma each.

`OneLine` of the history holds because only the entry in progress ends an operation, and that
is nowhere checked: `handleFinished()` takes any `finished()` for it.  `LineInv` therefore says
that nothing under way can end another one (`Settled`: no answer is left for any entry of it,
or a `MultiEntry` has counted all its children and ends no more) and where the entry in
progress lies between the stacks (`InOrder`).  What keeps late answers from ending an
operation is the bookkeeping in `HistoryInv`: an entry only listens to the changes of its
last operation (`Awaited`), a deletion that is undone counts at least as many creations as it
waits for (`CountsAwaited`), any other entry waits for one change (`AsksOnce`), and a
`MultiEntry` has no changes of its own (`Family`).  Recording into a batch must not disturb an
operation of it, which is why its entries were not undone yet (`BatchInv`).  `HistoryInv` is
inductive for every behaviour.  `LineInv` needs that no two posted answers are of one change
(`AnsweredOnce` of `History_proofs`): a deletion that fails is answered twice, and TLC shows
an undo after which the entry is on both stacks.  In the instance of the run deletions
do not fail, so the hypothesis holds there.  That the changes an entry asks for are requests
of its own entries needs what `FlattenSeq` returns: `FlattenIsSeq` proves it from a least
counterexample (`LeastNumber`), the library's induction being out of reach.

`MapsAgree` of the calendars has two halves.  That the maps agree with each other after every
row (`SameItems`) needs that `internalInsert()` never meets an item that is shown under
another uid; that is a fact about what the handler has still to do: it removes before it
inserts (`RemovesFirst`), and what it inserts is not shown or still to be removed
(`HandlerInv`).  That they agree with the model between signals says, in the middle of a
handler, that every row is shown, left out, deleted or still to be filled in, and that what is
shown without a row is still to be emptied (`RowsInv`).  `HeadAwaits`, `LoadsAwait`,
`RemovalsAwait` and `ConcatAwaits` say what the rows of a handler are, `OrderNames` (the
pigeonhole principle of the library) that an order of a set names all of it;
`InsertFollows`, `UpdateFollows`, `RemoveFollows`, `ClearFollows` and `EditFollows` what
each operation does to the maps.

`ParentsAgree` says of an `ETMCalendar` with an orderly source where every row is between
signals; the handler passes through states where it is false, and `Kin` says what is true there.
An item that is shown has the uid and the parent of its row (`Told`) unless the handler is
still to remove or to update it (`RowsAreTold`).  What is still to be removed has the parent it
is known to have, although the user may edit the payload, and its children are to be removed
too (`RemovesFamilies`): a list of children that is dropped with its parent names only items
that leave (`ListsTell`).  An item whose uid is to change has no relatives, and the new uid is
free (`MovesAlone`).  A reset that finds an item the user has edited keeps its old entry in
`mUidToParent`, which is right again only because the reset inserts every row
(`ParentsOfShown`); and an insertion would name a child twice, were a row handled twice
(`HandlesOnce`).  From the invariant follow the assertions of `handleParentChanged()` as well.

Nor are the properties of `KalendarAlarmClient` inductive alone.  What the dialog does is done
to its notification, so that has to be there (`DialogHasItsNotification`); and cancelling it
shows the notification again, so what is asked about has to be due (`AskedWhenDue`, which
`ShownWhenDue` needs).  A crash drops the memory and keeps the configuration,
so the two have to agree while the daemon runs (`ConfigIsCurrent` split into `Current` and
the types), memory has to be empty while it does not (`DownIsEmpty`), and the times have to
be ordered (`Ordered`: the last check is not after now).  There is one lemma per action, and
the two forms of a check share the lemmas about the table it makes.

In `ITIPHandler` nothing but `m_currentOperation` ties a `transactionFinished()` to its call, and
what is under way may come back after the call is over.  `ITIPInv` says that this does not
happen to a handler that never was `hasty`: an operation, the one change or mail it
started, its invitation that waits for a load, and its posted answer exclude each other
(`OneAnswer`, `OneStarted`).  `SuccessIsStored` needs in addition what the pending change
will do to the calendar: its copy is at least the revision the call promises and a
creation's key is new (`Stores`; `FreshUidIsNew` shows that a new uid can be found, as there
are more candidates than ids taken).  Revisions grow because a pending modification is not
older than what it replaces (`NotOlder`), which stays true because one click finds incidences of
one series only (`OneSeries`).  `Calm` are the cases the properties are about: no shared
calendar, not `hasty`.

In `FreeBusyManager` a signal runs the handler of every interface connected to it, one after
the other, and a request asks every provider, so that a step is a fold over interfaces or
providers.  The library's induction over a fold takes the handler as a parameter, which the
provers here cannot do; instead `HearFold` and `AskFold` name the states between the calls
as a function of how many have been made, and an invariant of the fold is proved from the
least call that would break it (`UpTo`).  What every handler of a signal keeps is stated once
(`Handled`).  `RetrievalsInv` balances the books: every retrieval asked for is queued, under
way or over, and none is more than that once signals crossed (`Balance`); an interface belongs
to one request and a download to an email (`Good`); the model never runs out of interfaces
(`Room`, which counts those in use and those the queue may need against calls); and while
something is queued, something is under way that serves the queue in the end, or one of the
cases that `QueueMoves` excepts has happened (`Served`).  That a list is only given out when everybody has answered needs that the answers
which are counted are those that were asked for, which holds until signals cross:
`FreeBusyInv` says of every email that until then each provider has at most one request, which
waits for one signal (`OneRequestEach`), exactly the calls waited for are out
(`CallsAreHeard`), `mHandlersCount` counts the providers still awaited for a list, those
merged, and failures (`HandlersCounted`), and a retrieval that stays open has a request or
had a provider that knew the email (`Standing`).  `CallTaken`, `Awaiting` and `FirstAsked` are the states inside a step.

The parts of `Application` have an invariant each.  `PublishInv`: an upload begins once, and the
timer only runs after it, for what is then owed for good (`OneUploadOnly`); a URL that is valid
is only marked broken by mistake.  `ListIsPublished` excepts both.  `CollectionsInv`: a collection that is
populated is listed, and the map of the calendar holds only listed ones until one is
removed (`KnownRows`).  `HelperInv` of the search collections follows the jobs in the order
of their session.  While enabled, each collection has its handle and the query the last
modification pending gives it, or has none and is being created, or a listing is pending that
will tell (`Showing`); while disabled no handle is kept, and each folder still on the server
has its deletion pending (`Hiding`).  The lemmas `*Elsewhere` say that the steps of the other
parts leave a part alone.

`CallsInv` is about the to-do list and the importer.  What is answered in the end must be
under way now: `Requests` says that each change the clipboard counts has a job, a posted answer,
or waits behind a job of the same item (`Alive`, `Waiters`); that a cut waits for such a
change or for the user, unless it is `stuck`; and that a purge waits for its calendar or
its deletion.  A job that ends wakes what waits behind it (`EndAlive`), a delivered answer
is the only thing that takes a request away, and its slot ends the request or asks anew
(`ModifyFinishedIs`, `DeleteFinishedIs`, `ItemsDeletedIs`).  The steps fold over children and
trees of to-dos.  As above the states between are named (`SoFar`) and an invariant of the
fold is proved from the least number that would break it (`UpTo`); that `Reached` is closed, so that a purge
and a cut take whole trees, is a matter of counting: a set that grows at each of as many steps
as there are items has all of them.  `ImporterInv` says that what the importer no longer waits
for is stored and what it waits for has a creation or an answer under way, while its batch has
not failed, so that it is told of a success when all is stored, and of a failure while nothing
is (`CreationsTold`).

`NothingIsLost` speaks of the moment the server deletes, the copy is made when the user cuts,
and in between changes are queued, answered and notified.  `LostInv` therefore follows every
deletion of the clipboard through the session (`Copies`): what it will take away is copied at
least as new as the server has it, and no modification of it is queued before, so that the
server's version cannot grow.  For this to hold when the cut is made the calendar the clipboard
copies from must not be behind the server but for notifications still to come (`Fresh`), a row
and the calendar must be one payload while they share it, each uid must name its own item
(`Named`), a question must be about what the calendar still holds (`Questioned`), and numbers of
changes must be given out once, as otherwise a late answer to a modification would let a cut
delete (`Sound`).  What was on its way when a cut was made (`past.hurried`) is the exception the
property names.  A step that cuts one to-do of a family alone is excepted as a whole, as its
children are moved by changes queued after the copy (the finding about `CutKeepsWhatItDeletes`).
What a step asks of the service is told by `Taken`, `OneJobMore` and `Extends`; `LosesNothing`
draws the conclusion for the job that ends.

Assumptions: each module's named assumption on its constants only.

Only model-checked:
- liveness (`OperationEnds`, that changes and batches are answered, that reminders come up), as
  the prover has neither fairness nor ENABLED;
- `GroupwareChanges`, whose handlers that run one another are RECURSIVE operators;
- `UnderItsParent` of the tree, whose nodes are inserted by folds and whose list of waiting
  nodes `SelectSeq` filters, of which the prover has no definition;
- `ListIsTrue` of `Application`, which compares the trees of rows, calendar and server with
  what three programs have under way: of its invariant only the parts `LostInv` has are proved;
- `StacksTellTheContents` of `History`, which compares contents of the calendar at the two
  ends of a line of changes.

## Not modelled

- `Utilities`, the serializer and the calendar plug-in, the Python bindings, mail texts:
  text, encodings and adapters without state over time.
- The proxies and columns of the views, and the actions and dialogs: they display data or
  call what is modelled.
- Exceptions of recurring incidences, incidences without an item and the filtering of
  collections in the calendars; `setEnabled()` of the history; keys and their resolution in
  the mail client, of which only the decision is modelled.
- What Akonadi does with a call that joins a transaction already committing or rolling
  back: this source does not say.

## What is left of the plan

1. Theorems: `StacksTellTheContents` of `History`; `UnderItsParent` of the tree.
2. `History` as an implementation of an abstract line of calendar states with a position,
   for a user who waits.
3. Exceptions of recurring incidences in `CalendarBase` and `Scheduler`.
