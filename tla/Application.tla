---------------------------- MODULE Application ----------------------------
(***************************************************************************)
(* What an application does with the library besides changing incidences   *)
(* itself, each with calls of the user and events of the server in every   *)
(* order: the to-do list with its clipboard and its purge, the import of   *)
(* files, the virtual collections of invitations, the collections of the   *)
(* calendar and the publishing of the user's own free/busy list.  One of   *)
(* these is looked at in each behaviour (`part`).                          *)
(***************************************************************************)
EXTENDS TodoPurger, ICalImporter, SearchCollectionHelper, ETMCollections, FreeBusyPublishing

CONSTANTS
  Parts,        \* the parts looked at
  InitialTrees, \* the to-dos there may be at first
  Modes,        \* the modes of a cut
  MaxCalls,     \* bound on the calls of the user, for each part
  MaxFailures   \* bound on the jobs that fail for reasons of their own

ASSUME BoundsAssumption == MaxCalls \in [Parts -> Nat] /\ MaxFailures \in Nat
ASSUME TreesAssumption ==
  /\ None \notin Todos
  /\ InitialTrees \subseteq [Items -> Todos] /\ \A tree \in InitialTrees, i \in Items : tree[i].uid = i

VARIABLES
  part,      \* the part looked at
  todos,     \* the to-do list, the clipboard, the purger and their server
  importer,  \* the importer and its changer
  helper,    \* the SearchCollectionHelper and its server
  etm,       \* the collections of the calendar
  publisher, \* the FreeBusyManager that publishes the user's own list
  past       \* history: calls, failures and what the properties ask of the past

vars == <<part, todos, importer, helper, etm, publisher, past>>

\* A to-do list: every to-do is in the item of its name, and none was ever updated.
TodoList(tree, calendar) ==
  LET items == [i \in Items |-> [live |-> TRUE, rev |-> 0, todo |-> tree[i]]]
      nothing == [k \in Changers |-> [i \in Items |-> NoModification]]
  IN  [store |-> items, session |-> <<>>, latest |-> [i \in Items |-> 0], posted |-> <<>>, notified |-> <<>>,
       next |-> 1, waiting |-> nothing, deleted |-> [k \in Changers |-> {}], rows |-> items, cal |-> items,
       idOf |-> [i \in Items |-> i], shared |-> Items, copied |-> {}, cutting |-> FALSE,
       clip |-> [pending |-> {}, abort |-> FALSE, asked |-> None], purging |-> FALSE, single |-> FALSE,
       purger |-> [calendar |-> calendar, items |-> items, current |-> NoChangeId], crashed |-> FALSE]

Init ==
  /\ part \in Parts
  /\ IF part = "todos" THEN \E t \in InitialTrees, c \in {"none", "given"} : todos = TodoList(t, c)
     ELSE todos = TodoList(CHOOSE t \in InitialTrees : TRUE, "none")
  /\ importer = IdleImporter
  /\ \E found \in (IF part = "search" THEN SUBSET Names ELSE {{}}) :
       helper = ConstructedHelper([n \in Names |-> [id |-> IF n \in found THEN 1 ELSE NoFolder, query |-> 0]])
  /\ IF part = "collections"
     THEN \/ \E w \in SUBSET Collections : etm = NewCalendar(w)
          \/ \E w \in SUBSET Collections : etm = SharingCalendar(w)
     ELSE etm = NewCalendar({})
  /\ \E url \in (IF part = "publish" THEN UrlKinds ELSE {"empty"}), auto \in (IF part = "publish" THEN BOOLEAN ELSE {FALSE}) :
       publisher = NewPublisher(url, auto)
  /\ past = [calls |-> 0, failures |-> 0, lost |-> {}, hurried |-> {}, late |-> {}, refused |-> {},
             stuck |-> FALSE, toggled |-> FALSE, crossed |-> FALSE, misread |-> {}, removed |-> FALSE,
             owed |-> FALSE, misjudged |-> FALSE]

Call(p) == part = p /\ past.calls < MaxCalls[p]
Called  == past.calls + 1

-----------------------------------------------------------------------------
(* The to-do list *)

Active == part = "todos" /\ ~todos.crashed

\* Items whose newest state is still on its way to the server or from it.
Unsettled(s) ==
  ToSet(s.notified) \cup UNION {s.session[n].items : n \in {n \in DOMAIN s.session : s.session[n].kind = "modify"}}
  \cup {i \in Items : \E k \in Changers : s.waiting[k][i] # NoModification}

BeingDeleted(s) == UNION {s.session[n].items : n \in {n \in DOMAIN s.session : s.session[n].kind = "delete"}}
DeletionsAsked(s) == {s.session[n].id : n \in {n \in DOMAIN s.session : s.session[n].kind = "delete"}}

\* The step changes the to-do list to t; what the properties ask of the past.
Step(t, calls, failures, lost, settled, late, stuck) ==
  LET asked == DeletionsAsked(t) \ DeletionsAsked(todos) # {}
      news  == {t.posted[n] : n \in Len(todos.posted) + 1 .. Len(t.posted)}
      bad   == {a \in news : a.kind = "modify" /\ ~a.ok}
  IN  /\ todos' = t
      /\ past' = [past EXCEPT !.calls = @ + calls, !.failures = @ + failures, !.lost = @ \cup lost,
                              !.hurried = IF asked THEN @ \cup Unsettled(todos) ELSE @,
                              !.late = IF asked THEN @ \cup Unsettled(todos) \cup BeingDeleted(todos) \cup late ELSE @ \cup late,
                              !.refused = (@ \cup UNION {a.items : a \in bad}) \ settled,
                              !.stuck = @ \/ stuck]
      /\ UNCHANGED <<part, importer, helper, etm, publisher>>

\* A call of the user, who can do nothing else while a question is open.
UserStep(t, late) == Call("todos") /\ Active /\ todos.clip.asked = None /\ Step(t, 1, 0, {}, {}, late, FALSE)

Shows(i) == todos.rows[i].live

\* A change that was refused stays in the row, and goes along with the next one.
Again(i) == {i} \cap past.refused
Edit(i) == Shows(i) /\ UserStep(SetData(todos, i, [todos.rows[i].todo EXCEPT !.text = @ + 1]), Again(i))
Check(i) == Shows(i) /\ UserStep(SetData(todos, i, [todos.rows[i].todo EXCEPT !.done = ~@]), Again(i))
Drop(i, target) ==
  /\ Shows(i)
  /\ target # None => Shows(target)
  /\ UserStep(DropMimeData(todos, i, target), IF target \in UNION {todos.deleted[k] : k \in Changers} THEN {i} ELSE {})
CutTodo(u, mode) ==
  /\ ItemOf(todos, u) # None
  /\ UserStep(CutIncidence(todos, u, mode), {})

\* The to-dos that were moved since the purger listed them.
Moved == {i \in Items : todos.purger.calendar = "loaded" /\ todos.purger.items[i].todo.related # todos.store[i].todo.related}
Purge == UserStep(PurgeCompletedTodos(todos), Moved)

\* The question of AskMode is answered.
AnswerQuestion(answer) ==
  /\ Active
  /\ todos.clip.asked # None
  /\ Step(CutAnswered(todos, answer), 0, 0, {}, {}, {}, FALSE)

\* The calendar the purger made is loaded, or it is not.
CalendarLoaded(success) ==
  /\ Active
  /\ todos.purger.calendar = "loading"
  /\ success \/ past.failures < MaxFailures
  /\ Step(OnCalendarLoaded(todos, success), 0, IF success THEN 0 ELSE 1, {}, {}, {}, FALSE)

\* What a job that succeeds takes away without a copy of it in the clipboard.
Loses(job) ==
  LET gone == {i \in job.items : todos.store[i].live}
      kept(t) == \E c \in todos.copied : c.uid = t.uid /\ c.text >= t.text
      old == {todos.store[i].todo : i \in gone}
  IN  IF job.kind = "modify" THEN {t.uid : t \in {t \in old : t.uid # job.todo.uid}}
      ELSE IF job.by = "app" THEN {todos.store[i].todo.uid : i \in {i \in gone \ past.hurried : ~kept(todos.store[i].todo)}}
      ELSE {}

\* The server carries out the job whose turn it is.
Serve(ok) ==
  /\ Active
  /\ todos.session # <<>>
  /\ LET job == Head(todos.session)
     IN  /\ IF ok THEN CanSucceed(todos) ELSE ~CanSucceed(todos) \/ past.failures < MaxFailures
         /\ Step(JobEnds(todos, ok), 0, IF ok \/ ~CanSucceed(todos) THEN 0 ELSE 1,
                 IF ok THEN Loses(job) ELSE {}, IF ok /\ job.kind = "modify" THEN job.items ELSE {}, {}, FALSE)

\* An answer of a changer is delivered.
Deliver ==
  /\ Active
  /\ todos.posted # <<>>
  /\ LET a == Head(todos.posted)
         t == [todos EXCEPT !.posted = Tail(@)]
     IN  Step(CASE a.by = "purger" -> OnItemsDeleted(t, a)
                [] a.by = "app" /\ a.kind = "modify" -> SlotModifyFinished(t, a, a.todo)
                [] a.by = "app" /\ a.kind = "delete" -> SlotDeleteFinished(t, a),
              0, 0, {}, {}, {},
              todos.clip.pending = {a.id} /\ a.kind = "modify" /\ ~a.ok /\ ~todos.clip.abort)

\* A notification of the server arrives.
Notify ==
  /\ Active
  /\ todos.notified # <<>>
  /\ Step(Noticed(todos, Head(todos.notified)), 0, 0, {}, {}, {}, FALSE)

UserOfTodos ==
  \/ \E i \in Items : Edit(i) \/ Check(i) \/ \E target \in Items \cup {None} : Drop(i, target)
  \/ \E u \in Items, mode \in Modes : CutTodo(u, mode)
  \/ Purge

QuestionAnswered == \E answer \in {"Cut Only This", "Cut All", "Cancel"} : AnswerQuestion(answer)
PurgeCalendarLoaded == \E success \in BOOLEAN : CalendarLoaded(success)
Server == \E ok \in BOOLEAN : Serve(ok)

TodoNext == UserOfTodos \/ QuestionAnswered \/ PurgeCalendarLoaded \/ Server \/ Deliver \/ Notify

-----------------------------------------------------------------------------
(* Importing a file *)

ImportStep(s, calls, failures) ==
  /\ importer' = s
  /\ past' = [past EXCEPT !.calls = @ + calls, !.failures = @ + failures]
  /\ UNCHANGED <<part, todos, helper, etm, publisher>>

\* A call, while no dialog is open.
ImportCall(s) == Call("import") /\ importer.dialog = NoDialog /\ ImportStep(s, 1, 0)

ImportFile(n, given, usable) == ImportCall(ImportLocal(importer, n, given, usable))
ImportFileAsResource == ImportCall(ImportIntoNewResource(importer))
ImportUrl == ImportCall(ImportRemote(importer))

ImportDialogClosed(accepted, usable) ==
  /\ importer.dialog # NoDialog
  /\ ImportStep(CollectionSelected(importer, accepted, usable), 0, 0)

AgentCreated == importer.agents > 0 /\ ImportStep(ResourceCreated(importer), 0, 0)
DataArrives == importer.downloads > 0 /\ ImportStep(RemoteDownloadFinished(importer), 0, 0)
DownloadOver(failed) ==
  /\ importer.downloads > 0
  /\ failed => past.failures < MaxFailures
  /\ ImportStep(DownloadEnds(importer, failed), 0, IF failed THEN 1 ELSE 0)

IncidenceCreated(id, ok) ==
  /\ id \in importer.batch.jobs
  /\ ok \/ past.failures < MaxFailures
  /\ ImportStep(CreationEnds(importer, id, ok), 0, IF ok THEN 0 ELSE 1)

CreationTold == importer.posted # <<>> /\ ImportStep(CreateFinished(importer), 0, 0)

ImportEnds == \E accepted, usable \in BOOLEAN : ImportDialogClosed(accepted, usable)
CreationOver == \E id \in importer.batch.jobs, ok \in BOOLEAN : IncidenceCreated(id, ok)

ImportNext ==
  \/ \E n \in 0 .. MaxIncidences, given, usable \in BOOLEAN : ImportFile(n, given, usable)
  \/ ImportFileAsResource \/ ImportUrl \/ ImportEnds \/ AgentCreated \/ DataArrives
  \/ \E failed \in BOOLEAN : DownloadOver(failed)
  \/ CreationOver \/ CreationTold

-----------------------------------------------------------------------------
(* The virtual collections of invitations *)

HelperStep(s, p) == helper' = s /\ past' = p /\ UNCHANGED <<part, todos, importer, etm, publisher>>

Enable ==
  /\ Call("search")
  /\ HelperStep(SetEnabled(helper, ~helper.enabled),
                [past EXCEPT !.calls = @ + 1, !.toggled = TRUE,
                             !.crossed = @ \/ (past.toggled /\ helper.session # <<>>)])

ChangeIdentities ==
  Call("search") /\ HelperStep(IdentitiesChanged(helper), [past EXCEPT !.calls = @ + 1])

SearchJob(ok) ==
  /\ part = "search"
  /\ helper.session # <<>>
  /\ LET can == CanBeDone(helper, Head(helper.session))
     IN  /\ IF ok THEN can ELSE ~can \/ past.failures < MaxFailures
         /\ HelperStep(SearchJobEnds(helper, ok), [past EXCEPT !.failures = IF ok \/ ~can THEN @ ELSE @ + 1])

SearchNext == Enable \/ ChangeIdentities \/ \E ok \in BOOLEAN : SearchJob(ok)

-----------------------------------------------------------------------------
(* The collections of the calendar *)

ModelStep(s, event, misread) ==
  /\ etm' = s
  /\ past' = [past EXCEPT !.misread = misread, !.removed = @ \/ Listed(etm) \ Listed(s) # {}, !.calls = IF event THEN @ + 1 ELSE @]
  /\ UNCHANGED <<part, todos, importer, helper, publisher>>

\* Collections turn up among the others.
CollectionsInserted(n, cs) ==
  /\ ToSet(cs) \cap Listed(etm) = {} /\ Cardinality(ToSet(cs)) = Len(cs)
  /\ n <= Len(etm.rows)
  /\ ModelStep(RowsInserted(etm, n, cs), FALSE, past.misread \ ToSet(cs))

\* MaxCalls bounds the collections that leave and the rights that change.
CollectionsRemoved(first, last) ==
  /\ Call("collections")
  /\ first <= last /\ last <= Len(etm.rows)
  /\ LET t == RowsRemoved(etm, first, last)
     IN  ModelStep(t, TRUE, past.misread \cup {c \in Listed(t) : t.map[c] # etm.map[c]})

ChangeRights(c) ==
  Call("collections") /\ c \in Listed(etm) /\ ModelStep(RightsChanged(etm, c), TRUE, past.misread \ {c})
ItemsArrive(c) == c \in Listed(etm) \ etm.here /\ ModelStep(ItemsAdded(etm, c), FALSE, past.misread)
CollectionPopulated(c) ==
  /\ c \in Listed(etm) \ etm.filled /\ etm.fetched
  /\ ModelStep(OnCollectionPopulated(etm, c), FALSE, past.misread)
TreeFetched == ~etm.fetched /\ ModelStep([etm EXCEPT !.fetched = TRUE], FALSE, past.misread)

CollectionsNext ==
  /\ part = "collections"
  /\ \/ \E n \in 0 .. Cardinality(Collections), cs \in UNION {[1 .. k -> Collections] : k \in 1 .. 2} : CollectionsInserted(n, cs)
     \/ \E first, last \in 1 .. Cardinality(Collections) : CollectionsRemoved(first, last)
     \/ \E c \in Collections : ChangeRights(c) \/ ItemsArrive(c) \/ CollectionPopulated(c)
     \/ TreeFetched

-----------------------------------------------------------------------------
(* Publishing the free/busy list *)

\* An error box does not stop the rest: it runs the event loop.  The list is owed from a
\* change to the next upload that begins.
PublishStep(s, calls, failures, owed, misjudged) ==
  /\ part = "publish"
  /\ publisher' = s
  /\ past' = [past EXCEPT !.calls = @ + calls, !.failures = @ + failures,
                         !.owed = (@ \/ owed) /\ ~(s.jobs > publisher.jobs), !.misjudged = misjudged]
  /\ UNCHANGED <<part, todos, importer, helper, etm>>

\* The list has to be published, automatically and to a valid URL.
Due(s) == s.calendar # NoCalendar /\ s.auto /\ s.url = "valid"

\* A step to s in which the list may be written to a temporary file, or not.
Uploading(s, fileOpen, calls, owed) ==
  /\ fileOpen \/ past.failures < MaxFailures
  /\ PublishStep(s, calls, IF fileOpen THEN 0 ELSE 1, owed /\ ~past.misjudged, past.misjudged)

CalendarSet(c) == Call("publish") /\ PublishStep(SetCalendar(publisher, c), 1, 0, FALSE, past.misjudged)
CalendarChanged(c, fileOpen) ==
  /\ Call("publish") /\ c \in publisher.heard
  /\ Uploading(UploadFreeBusy(publisher, fileOpen), fileOpen, 1, Due(publisher))
SingleShot(fileOpen) ==
  /\ publisher.posted > 0
  /\ Uploading(UploadFreeBusy([publisher EXCEPT !.posted = @ - 1], fileOpen), fileOpen, 0, Due(publisher))
PublishNow(fileOpen) == Call("publish") /\ Uploading(PublishFreeBusy(publisher, fileOpen), fileOpen, 1, FALSE)
TimerFires(fileOpen) == publisher.timer /\ Uploading(TimerEvent(publisher, fileOpen), fileOpen, 0, FALSE)
ChangeSettings(url, auto) ==
  /\ Call("publish") /\ <<url, auto>> # <<publisher.url, publisher.auto>>
  /\ PublishStep(SettingsChanged(publisher, url, auto), 1, 0, FALSE, FALSE)
CloseUrlBox ==
  /\ publisher.boxes # <<>>
  /\ PublishStep(UrlBoxClosed(publisher), 0, 0, FALSE,
                 past.misjudged \/ (Last(publisher.boxes) = "invalid" /\ publisher.url = "valid"))
UploadEnds == publisher.jobs > 0 /\ PublishStep([publisher EXCEPT !.jobs = @ - 1], 0, 0, FALSE, past.misjudged)
MailNow == Call("publish") /\ PublishStep(MailFreeBusy(publisher), 1, 0, FALSE, past.misjudged)
ClosePublishDialog(accepted) ==
  publisher.asking > 0 /\ PublishStep(PublishDialogClosed(publisher, accepted), 0, 0, FALSE, past.misjudged)
MailSent == publisher.mails > 0 /\ PublishStep(ProcessMailSchedulerResult(publisher), 0, 0, FALSE, past.misjudged)

PublishNext ==
  \/ \E c \in Calendars \cup {NoCalendar} : CalendarSet(c)
  \/ CloseUrlBox \/ UploadEnds \/ MailNow \/ MailSent
  \/ \E fileOpen \in BOOLEAN : \/ SingleShot(fileOpen) \/ PublishNow(fileOpen) \/ TimerFires(fileOpen)
                               \/ \E c \in Calendars : CalendarChanged(c, fileOpen)
  \/ \E url \in UrlKinds, auto \in BOOLEAN : ChangeSettings(url, auto)
  \/ \E accepted \in BOOLEAN : ClosePublishDialog(accepted)

Next == TodoNext \/ ImportNext \/ SearchNext \/ CollectionsNext \/ PublishNext

Spec == Init /\ [][Next]_vars

-----------------------------------------------------------------------------
(* Properties *)

\* A cut keeps in the clipboard the newest state of all it deletes, and deletes nothing
\* else: unless the to-do was still on its way to or from the server when it was cut,
\* and but for a to-do with children that is cut alone (CutKeepsWhatItDeletes).
NothingIsLost == todos.single \/ past.lost = {}

\* The same of every cut: "Only the specified incidence is cut" (calendarclipboard.h:36),
\* which is first copied to the clipboard.
CutKeepsWhatItDeletes == past.lost = {}

AtRest ==
  /\ todos.session = <<>> /\ todos.posted = <<>> /\ todos.notified = <<>>
  /\ todos.purger.calendar # "loading" /\ todos.clip.asked = None

\* When all jobs, answers and notifications are over, no to-do is below one that was
\* purged or cut, unless its own change or deletion was under way or came after, it was
\* changed again after a change of it was refused, or it was moved after the purger listed
\* the to-dos; and the list shows what the server keeps, unless the last change of the
\* to-do was refused.
ListIsTrue ==
  part = "todos" /\ AtRest /\ ~todos.crashed =>
    /\ \A i \in Items \ (past.late \cup past.refused) :
         todos.store[i].live /\ todos.store[i].todo.related # None =>
           todos.single \/ \E j \in Items : todos.store[j].live /\ todos.store[j].todo.uid = todos.store[i].todo.related
    /\ \A i \in Items \ past.refused : todos.rows[i].live = todos.store[i].live
                                       /\ (todos.rows[i].live => todos.rows[i].todo = todos.store[i].todo)

\* When no job, answer, dialog or notification is left, every purge is answered, and
\* every cut whose children could all be made independent.
TodoCallsAnswered ==
  part = "todos" /\ AtRest /\ ~todos.crashed => ~todos.purging /\ (todos.cutting => past.stuck)

\* Every import of a local file is answered whose incidences could all be created and that
\* was not begun during another, and every import into a new resource; it is told of once,
\* as a success only if all its incidences are stored, as a failure only if none is, and
\* with their number, also after an import that failed and while pieces of a remote file
\* come in.
ImportsAnswered ==
  /\ importer.batch.jobs = {} /\ importer.posted = <<>> =>
       importer.imports = 0 \/ importer.batch.failed \/ importer.overlap
  /\ importer.agents = 0 => importer.resources = 0
  /\ importer.imports >= 0 /\ importer.resources >= 0
  /\ \A a \in importer.answers : a.stored = (IF a.success THEN a.of ELSE 0) /\ a.total = a.of

\* The user's calls are answered in the end, and by what was really done.
CallsAnswered == TodoCallsAnswered /\ ImportsAnswered

\* Once no job is left, the two collections are there while the helper is enabled, with
\* the user's addresses as they are, and gone otherwise: though they are listed twice at
\* the start and created anew meanwhile, and if no call of setEnabled() came before the
\* jobs of the one before were over.
ShownIfEnabled ==
  part = "search" /\ helper.session = <<>> /\ past.failures = 0 /\ ~past.crossed =>
    \A n \in Names : /\ helper.enabled <=> helper.folders[n].id # NoFolder
                     /\ helper.enabled => helper.folders[n].query = helper.identities
                     /\ helper.handle[n] = helper.folders[n].id

\* A calendar with a model of its own knows all the collections of the model with their
\* present rights, but for those whose rows came to the place of removed ones; the
\* incidences are read-only as the rights say, in whatever order rights and incidences
\* come; and when all is populated it is no longer loading,
\* if none ever left the model.
CollectionsAreKnown ==
  part = "collections" /\ etm.own =>
    /\ \A c \in Listed(etm) \ past.misread : HasRight(etm, c) <=> c \in etm.writable
    /\ etm.readOnly = etm.here \ etm.writable
    /\ etm.fetched /\ Listed(etm) # {} /\ Listed(etm) \subseteq etm.filled /\ ~past.removed => ~etm.isLoading

\* The named exception: once a list was uploaded no other is in this session, as
\* mUploadingFreeBusy stays set; a later change starts the timer, which fires in vain.
OneUploadOnly == publisher.uploading /\ publisher.timer

\* Each time the calendar is set, or changed, while the list is published automatically to
\* a valid URL, an upload begins after it: whatever the settings were before, the boxes
\* that were open and the calls that came meanwhile; but for the changes after the first
\* upload (OneUploadOnly), and unless the box about an earlier URL was closed after the
\* URL was corrected, or the file could not be written.  Nothing is sent to another URL,
\* and no two uploads are under way.
ListIsPublished ==
  /\ past.owed /\ past.failures = 0 => OneUploadOnly
  /\ publisher.sent \subseteq {"valid"} /\ publisher.jobs <= 1
=============================================================================
