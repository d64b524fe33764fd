------------------------------ MODULE History ------------------------------
(***************************************************************************)
(* Akonadi::History (src/src/history.cpp, history_p.cpp): the undo and the *)
(* redo stack, and the entries on them.                                    *)
(*                                                                         *)
(* The application's changer writes to the store and records what it did   *)
(* when the result of the job is handled (UserChanges, Record).  Undo and  *)
(* redo ask a second changer, owned by the history, for the changes of the *)
(* entry; it carries them out together (one change, or one atomic          *)
(* operation) and posts its answers to the event loop, which delivers them *)
(* to the entries one at a time (ChangerSucceeds, ChangerFails, Deliver).  *)
(***************************************************************************)
EXTENDS Integers, SequencesExt

CONSTANTS
  MaxEntries,      \* bound on the Entry objects
  MaxIds,          \* bound on the item ids the server gives out
  MaxPayloads,     \* bound on the payloads, that is on the user's changes
  MaxChanges,      \* bound on the change ids of the history's changer
  MaxBatches,      \* bound on the user's atomic operations
  UserKinds,       \* what a patient user does to items
  EagerKinds,      \* what an eager user does to items
  Failing          \* the jobs of the history's changer that may fail

Kinds == {"create", "modify", "delete"}

ASSUME ConstantsAssumption ==
  /\ MaxEntries \in Nat /\ MaxIds \in Nat /\ MaxPayloads \in Nat /\ MaxChanges \in Nat /\ MaxBatches \in Nat
  /\ UserKinds \subseteq Kinds /\ EagerKinds \subseteq Kinds /\ Failing \subseteq Kinds

VARIABLES
  mUndoStack, mRedoStack, mQueuedEntries, \* entries, the top at the end
  mOperationTypeInProgress,
  mEntryInProgress,    \* 0 before the first operation
  mUndoAllInProgress,
  entries,             \* the Entry objects, in the order of their construction
  latestChange,        \* mLatestChangeId of the history's changer
  running,             \* the changes it is carrying out
  stranded,            \* those of an atomic operation that never ends: they are never answered
  answers,             \* its posted createFinished(), modifyFinished(), deleteFinished()
  crashed,             \* QStack::pop() of an empty stack was reached, or a transaction that is gone
  store,               \* external: the payload of each item, 0 for none
  latestId, latestPayload,
  patient,             \* the user waits until nothing is under way; an eager one only waits
                       \* for an atomic operation, before an undo or a redo
  unrecorded,          \* the user's changes whose results are not handled yet
  batch                \* the user's atomic operation: is it open, its id, the items in it

stacks  == <<mUndoStack, mRedoStack, mQueuedEntries>>
op      == <<mOperationTypeInProgress, mEntryInProgress, mUndoAllInProgress>>
changer == <<latestChange, running, stranded>>
server  == <<store, latestId, latestPayload>>
user    == <<patient, unrecorded, batch>>
vars    == <<stacks, op, entries, changer, answers, crashed, server, user>>

Entries  == 1 .. MaxEntries
Ids      == 1 .. MaxIds
Payloads == 1 .. MaxPayloads

\* What an Entry object holds: mItems as [id, payload], mOriginalPayload, mEntries and
\* mAtomicOperationId of a MultiEntry (`parent` is the MultiEntry of an entry),
\* mChangeIds; `count` is mNumPendingCreations or mFinishedEntries, `failed` that
\* mResultCode is not success.  `before` and `after` are what the store contained
\* around the recorded change; they are only read by properties.
Entry(kind, items, original, before, after) ==
  [kind |-> kind, items |-> items, original |-> original, children |-> <<>>, batch |-> 0,
   parent |-> 0, changeIds |-> {}, count |-> 0, failed |-> FALSE,
   before |-> before, after |-> after]
NoEntry == Entry("none", <<>>, 0, {}, {})

Contents(s) == {s[i] : i \in Ids} \ {0}

TypeOK ==
  /\ \A s \in {mUndoStack, mRedoStack, mQueuedEntries} : s \in Seq(Entries)
  /\ mOperationTypeInProgress \in {"none", "undo", "redo"}
  /\ mEntryInProgress \in Entries \cup {0}
  /\ mUndoAllInProgress \in BOOLEAN
  /\ \A e \in Entries :
       /\ entries[e].kind \in Kinds \cup {"none", "multi"}
       /\ entries[e].items \in Seq([id : Ids, payload : Payloads])
       /\ entries[e].changeIds \subseteq 1 .. latestChange
       /\ entries[e].count \in Nat
       /\ entries[e].children \in Seq(Entries)
  /\ latestChange \in 0 .. MaxChanges
  /\ store \in [Ids -> Payloads \cup {0}]
  /\ latestId \in 0 .. MaxIds /\ latestPayload \in 0 .. MaxPayloads

Init ==
  /\ mUndoStack = <<>> /\ mRedoStack = <<>> /\ mQueuedEntries = <<>>
  /\ mOperationTypeInProgress = "none"
  /\ mEntryInProgress = 0
  /\ mUndoAllInProgress = FALSE
  /\ entries = [e \in Entries |-> NoEntry]
  /\ latestChange = 0 /\ running = <<>> /\ stranded = {} /\ answers = <<>>
  /\ crashed = FALSE
  /\ store = [i \in Ids |-> 0] /\ latestId = 0 /\ latestPayload = 0
  /\ patient \in BOOLEAN
  /\ unrecorded = <<>> /\ batch = [open |-> FALSE, id |-> 0, items |-> {}]

Quiet == /\ mOperationTypeInProgress = "none"
         /\ unrecorded = <<>> /\ running = <<>> /\ answers = <<>>

Live == {i \in Ids : store[i] # 0}

-----------------------------------------------------------------------------
(* External: the user, through the application's IncidenceChanger.         *)

\* The change is on the server.  While an atomic operation is open, every change is
\* part of it; it touches an item only once.
UserDid(kind, items, original, newStore) ==
  LET ids == {item.id : item \in ToSet(items)}
  IN  /\ patient => Quiet
      /\ kind \in IF patient THEN UserKinds ELSE EagerKinds
      /\ store' = newStore
      /\ ids \cap batch.items = {}
      /\ batch' = [batch EXCEPT !.items = IF batch.open THEN @ \cup ids ELSE {}]
      /\ unrecorded' = Append(unrecorded,
           [entry |-> Entry(kind, items, original, Contents(store), Contents(newStore)),
            atomicOperationId |-> IF batch.open THEN batch.id ELSE 0])
      /\ UNCHANGED <<stacks, op, entries, changer, answers, crashed, patient>>

UserCreates ==
  LET i == latestId + 1
      p == latestPayload + 1
  IN  /\ i \in Ids /\ p \in Payloads
      /\ latestId' = i /\ latestPayload' = p
      /\ UserDid("create", <<[id |-> i, payload |-> p]>>, 0, [store EXCEPT ![i] = p])

UserModifies ==
  LET p == latestPayload + 1
  IN  /\ p \in Payloads
      /\ latestPayload' = p
      /\ UNCHANGED latestId
      /\ \E i \in Live :
           UserDid("modify", <<[id |-> i, payload |-> p]>>, store[i], [store EXCEPT ![i] = p])

UserDeletes ==
  /\ UNCHANGED <<latestId, latestPayload>>
  /\ \E S \in SUBSET Live :
       /\ Cardinality(S) \in 1 .. 2
       /\ LET list == SetToSeq(S)
          IN  UserDid("delete",
                      [k \in DOMAIN list |-> [id |-> list[k], payload |-> store[list[k]]]],
                      0, [i \in Ids |-> IF i \in S THEN 0 ELSE store[i]])

UserStartsBatch ==
  /\ patient => Quiet
  /\ ~batch.open
  /\ batch.id < MaxBatches
  /\ batch' = [open |-> TRUE, id |-> batch.id + 1, items |-> {}]
  /\ UNCHANGED <<stacks, op, entries, changer, answers, crashed, server, patient, unrecorded>>

UserEndsBatch ==
  /\ batch.open
  /\ batch' = [batch EXCEPT !.open = FALSE, !.items = {}]
  /\ UNCHANGED <<stacks, op, entries, changer, answers, crashed, server, patient, unrecorded>>

-----------------------------------------------------------------------------
(* recordCreation(), recordModification(), recordDeletions().              *)

\* The entries constructed so far.
Constructed == {e \in Entries : entries[e].kind # "none"}
NextEntry   == Cardinality(Constructed) + 1

TopEntry == LET s == IF mOperationTypeInProgress = "none" THEN mUndoStack ELSE mQueuedEntries
            IN  IF s = <<>> THEN 0 ELSE Last(s)

PushIfAny(s, e) == IF e = 0 THEN s ELSE Append(s, e)

\* Mutant of StackNewEntry: a new entry leaves the redo stack alone.
StackKeepingRedo(e) ==
  IF mOperationTypeInProgress = "none"
  THEN mUndoStack' = PushIfAny(mUndoStack, e) /\ UNCHANGED <<mRedoStack, mQueuedEntries>>
  ELSE mQueuedEntries' = PushIfAny(mQueuedEntries, e) /\ UNCHANGED <<mUndoStack, mRedoStack>>

\* The end of stackEntry(): `e` is 0 if the change joined the entry on top.
StackNewEntry(e) ==
  \/ /\ mOperationTypeInProgress = "none"
     /\ mUndoStack' = PushIfAny(mUndoStack, e)
     /\ mRedoStack' = <<>>
     /\ UNCHANGED mQueuedEntries
  \/ /\ mOperationTypeInProgress # "none"
     /\ mQueuedEntries' = PushIfAny(mQueuedEntries, e)
     /\ UNCHANGED <<mUndoStack, mRedoStack>>

StackSingle(entry) ==
  LET e == NextEntry
  IN  /\ e \in Entries
      /\ entries' = [entries EXCEPT ![e] = entry]
      /\ StackNewEntry(e)

\* MultiEntry::addEntry() on the MultiEntry on top.
StackOnTop(entry) ==
  LET e == NextEntry
  IN  /\ e \in Entries
      /\ entries' = [entries EXCEPT ![e] = [entry EXCEPT !.parent = TopEntry],
                                    ![TopEntry].children = Append(@, e)]
      /\ StackNewEntry(0)

StackNewMulti(entry, b) ==
  LET e == NextEntry
      m == e + 1
  IN  /\ m \in Entries
      /\ entries' = [entries EXCEPT
           ![e] = [entry EXCEPT !.parent = m],
           ![m] = [NoEntry EXCEPT !.kind = "multi", !.batch = b, !.children = <<e>>]]
      /\ StackNewEntry(m)

TopIsBatch(b) == TopEntry # 0 /\ entries[TopEntry].kind = "multi" /\ entries[TopEntry].batch = b

\* The result of a job of the application's changer is handled.
Record ==
  /\ unrecorded # <<>>
  /\ unrecorded' = Tail(unrecorded)
  /\ LET entry == Head(unrecorded).entry
         b     == Head(unrecorded).atomicOperationId
     IN  \/ b = 0 /\ StackSingle(entry)
         \/ b > 0 /\ TopIsBatch(b) /\ StackOnTop(entry)
         \/ b > 0 /\ ~TopIsBatch(b) /\ StackNewMulti(entry, b)
  /\ UNCHANGED <<op, changer, answers, crashed, server, patient, batch>>

-----------------------------------------------------------------------------
(* undo(), redo(), undoAll(), clear().                                     *)

Asks(e, kind, ids, payload) == [entry |-> e, kind |-> kind, ids |-> ids, payload |-> payload]

\* CreationEntry::undo(), DeletionEntry::redo(): one deletion of all the items.
AsksToDelete(e) == <<Asks(e, "delete", {item.id : item \in ToSet(entries[e].items)}, 0)>>

\* CreationEntry::redo(), DeletionEntry::undo(): a creation for each item.
AsksToCreate(e) ==
  [k \in DOMAIN entries[e].items |-> Asks(e, "create", {entries[e].items[k].id}, entries[e].items[k].payload)]

\* ModificationEntry::undo(), ModificationEntry::redo().
AsksToModify(e, type) ==
  LET item == entries[e].items[1]
  IN  <<Asks(e, "modify", {item.id}, IF type = "undo" THEN entries[e].original ELSE item.payload)>>

\* The changes CreationEntry, DeletionEntry and ModificationEntry ask for.
Requests(e, type) ==
  CASE entries[e].kind = "modify" -> AsksToModify(e, type)
    [] entries[e].kind = "create" -> IF type = "undo" THEN AsksToDelete(e) ELSE AsksToCreate(e)
    [] entries[e].kind = "delete" -> IF type = "undo" THEN AsksToCreate(e) ELSE AsksToDelete(e)

\* The entries a MultiEntry undoes or redoes, in its order.
Leaves(e, type) == IF entries[e].kind # "multi" THEN <<e>>
                   ELSE IF type = "undo" THEN Reverse(entries[e].children)
                   ELSE entries[e].children

AllRequests(e, type) ==
  LET leaves == Leaves(e, type)
  IN  FlattenSeq([k \in DOMAIN leaves |-> Requests(leaves[k], type)])

\* Entry::doIt(): the change ids are those of this operation only.
Started(e, type, asked) ==
  LET leaves == ToSet(Leaves(e, type))
      idsOf(l) == {latestChange + k : k \in {n \in DOMAIN asked : asked[n].entry = l}}
  IN  [x \in Entries |->
         IF x \in leaves
         THEN [entries[x] EXCEPT !.changeIds = idsOf(x), !.failed = FALSE,
                                 !.count = Cardinality(idsOf(x))]
         ELSE IF x = e THEN [entries[x] EXCEPT !.count = 0] ELSE entries[x]]

Stack(type) == IF type = "undo" THEN mUndoStack ELSE mRedoStack

\* HistoryPrivate::doIt(): nothing returns to the event loop before all changes of
\* the entry are asked for.
DoIt(type) ==
  LET e     == Last(Stack(type))
      asked == AllRequests(e, type)
  IN  /\ latestChange + Len(asked) <= MaxChanges
      /\ mOperationTypeInProgress' = type
      /\ mEntryInProgress' = e
      /\ IF type = "undo"
         THEN mUndoStack' = Front(mUndoStack) /\ UNCHANGED <<mRedoStack, mQueuedEntries>>
         ELSE mRedoStack' = Front(mRedoStack) /\ UNCHANGED <<mUndoStack, mQueuedEntries>>
      /\ latestChange' = latestChange + Len(asked) /\ UNCHANGED stranded
      /\ running' = [k \in DOMAIN asked |-> [request |-> asked[k], id |-> latestChange + k]]
      /\ entries' = Started(e, type, asked)

Callable ==
  /\ mOperationTypeInProgress = "none"
  /\ patient => Quiet
  /\ ~batch.open
  /\ \A k \in DOMAIN unrecorded : unrecorded[k].atomicOperationId = 0

UndoOrRedo(type) ==
  /\ Callable
  /\ Stack(type) # <<>>
  /\ DoIt(type)
  /\ UNCHANGED <<mUndoAllInProgress, answers, crashed, server, user>>

\* undoAll() does not look at the stack; the flag is never reset.
UndoAll ==
  /\ Callable
  /\ mUndoAllInProgress' = TRUE
  /\ UNCHANGED <<answers, server, user>>
  /\ \/ /\ mUndoStack # <<>>
        /\ DoIt("undo")
        /\ UNCHANGED crashed
     \/ /\ mUndoStack = <<>>
        /\ crashed' = TRUE
        /\ mOperationTypeInProgress' = "undo"
        /\ UNCHANGED <<stacks, mEntryInProgress, entries, changer>>

Clear ==
  /\ Callable
  /\ mUndoStack' = <<>> /\ mRedoStack' = <<>> /\ mQueuedEntries' = <<>>
  /\ UNCHANGED <<op, entries, changer, answers, crashed, server, user>>

-----------------------------------------------------------------------------
(* External: the history's own IncidenceChanger and the server.            *)

Applicable(request) ==
  request.kind # "create" => request.ids \subseteq Live

Answer(change, item, success) ==
  [change |-> change.id, request |-> change.request, item |-> item, success |-> success]

\* The ids of the created items, by position in `running`.
NewId(k) == latestId + Cardinality({n \in 1 .. k : running[n].request.kind = "create"})

ChangerSucceeds ==
  LET all == DOMAIN running
      deleted == UNION {running[k].request.ids :
                          k \in {n \in all : running[n].request.kind = "delete"}}
      writer(i) == {k \in all : \/ running[k].request.kind = "create" /\ NewId(k) = i
                                \/ running[k].request.kind = "modify"
                                   /\ running[k].request.ids = {i}}
  IN  /\ running # <<>> /\ stranded = {}
      /\ \A k \in all : Applicable(running[k].request)
      /\ NewId(Len(running)) <= MaxIds
      /\ latestId' = NewId(Len(running))
      /\ store' = [i \in Ids |->
                     IF i \in deleted THEN 0
                     ELSE IF writer(i) # {}
                          THEN running[CHOOSE k \in writer(i) : TRUE].request.payload
                          ELSE store[i]]
      /\ answers' = answers \o [k \in all |-> Answer(running[k], NewId(k), TRUE)]
      /\ running' = <<>>
      /\ UNCHANGED <<stacks, op, entries, latestChange, stranded, crashed, latestPayload, user>>

\* The changes of a MultiEntry, or the creations of a DeletionEntry, are one atomic operation:
\* startAtomicOperation() does nothing while one is in progress.
Atomic == entries[mEntryInProgress].kind = "multi" \/ Len(running) > 1

Failed(k) == Answer(running[k], 0, FALSE)

\* The jobs in F fail or are aborted with those, the others are rolled back.
\* handleDeleteJobResult() answers a failed deletion itself, its destructor answers it again;
\* handleCreateJobResult() does not count a failed creation, whose atomic operation has then
\* a pending job for ever: it keeps its changes, none is answered by its destructor.
ChangerFails ==
  /\ running # <<>> /\ stranded = {}
  /\ \E F \in SUBSET DOMAIN running :
       /\ \E k \in F : running[k].request.kind \in Failing \/ ~Applicable(running[k].request)
       /\ \A k \in DOMAIN running \ F : Applicable(running[k].request)
       /\ LET byHand == SetToSeq({k \in F : running[k].request.kind = "delete"})
              first  == answers \o [k \in DOMAIN byHand |-> Failed(byHand[k])]
              lost   == Atomic /\ \E k \in F : running[k].request.kind = "create"
          IN  \/ ~lost /\ answers' = first \o [k \in DOMAIN running |-> Failed(k)] /\ UNCHANGED stranded
              \/ lost /\ answers' = first /\ stranded' = ToSet(running)
  /\ running' = <<>>
  /\ UNCHANGED <<stacks, op, entries, latestChange, crashed, server, user>>

\* After that mBatchOperationInProgress stays set, and the operation rolled back: each change
\* asked for is refused.  A second modification of an item in the operation is not even
\* answered, and cancelTransaction() uses the transaction, which is gone.
ChangerRefuses ==
  LET again == {k \in DOMAIN running :
                  /\ running[k].request.kind = "modify"
                  /\ \E c \in stranded : c.request.kind = "modify" /\ c.request.ids = running[k].request.ids}
      told  == SetToSeq(DOMAIN running \ again)
  IN  /\ running # <<>> /\ stranded # {}
      /\ answers' = answers \o [k \in DOMAIN told |-> Failed(told[k])]
      /\ stranded' = stranded \cup {running[k] : k \in again}
      /\ crashed' \in {FALSE, again # {}}
      /\ running' = <<>>
      /\ UNCHANGED <<stacks, op, entries, latestChange, server, user>>

-----------------------------------------------------------------------------
(* The answers reach the entries.                                          *)

\* The entries updateIds() looks at, those inside MultiEntries included.
Within(S) == S \cup UNION {ToSet(entries[e].children) : e \in S}

Updated == Within({mEntryInProgress} \cup ToSet(mUndoStack) \cup ToSet(mRedoStack))

WithId(items, oldId, newId) ==
  [k \in DOMAIN items |-> IF items[k].id = oldId THEN [items[k] EXCEPT !.id = newId] ELSE items[k]]

UpdateIds(table, oldId, newId) ==
  [e \in Entries |->
     IF e \in Updated
     THEN [table[e] EXCEPT !.items = WithId(table[e].items, oldId, newId)]
     ELSE table[e]]

\* Mutant of QueuedMoved: the redo stack survives the queued entries.
QueuedMovedKeepingRedo(undo, redo) ==
  mUndoStack' = undo \o mQueuedEntries /\ mRedoStack' = redo /\ mQueuedEntries' = <<>>

\* What was recorded during the operation is stacked when it ends.
QueuedMoved(undo, redo) ==
  /\ mUndoStack' = undo \o mQueuedEntries
  /\ mRedoStack' = IF mQueuedEntries = <<>> THEN redo ELSE <<>>
  /\ mQueuedEntries' = <<>>

\* handleFinished(): with no operation in progress both stack() and
\* destinationStack() are the redo stack.
HandleFinished(success) ==
  LET toUndo == mOperationTypeInProgress = (IF success THEN "redo" ELSE "undo")
  IN  /\ IF toUndo THEN QueuedMoved(Append(mUndoStack, mEntryInProgress), mRedoStack)
         ELSE QueuedMoved(mUndoStack, Append(mRedoStack, mEntryInProgress))
      /\ mOperationTypeInProgress' = "none"
      /\ UNCHANGED <<mEntryInProgress, mUndoAllInProgress>>

NotFinished == UNCHANGED <<stacks, op>>

\* MultiEntry::onEntryFinished(): the first failure ends it.
OnEntryFinished(table, m, success) ==
  LET finished == table[m].count + 1
      all      == Len(table[m].children)
  IN  \/ /\ finished = all \/ (finished < all /\ ~success)
         /\ entries' = [table EXCEPT ![m].count = all]
         /\ HandleFinished(success)
      \/ /\ ~(finished = all \/ (finished < all /\ ~success))
         /\ entries' = [table EXCEPT ![m].count = finished]
         /\ NotFinished

\* Entry::finished, of an entry on a stack or of one in a MultiEntry.
Finished(table, e, success) ==
  \/ /\ table[e].parent = 0
     /\ entries' = table
     /\ HandleFinished(success)
  \/ /\ table[e].parent # 0
     /\ OnEntryFinished(table, table[e].parent, success)

\* Mutant of CreationCounted: only the creations that succeeded are counted.
CreationCountedIfSuccess(entry, success) ==
  [entry EXCEPT !.count = IF success THEN @ - 1 ELSE @, !.failed = @ \/ ~success]

\* DeletionEntry::onCreateFinished(): one more of its creations is answered.
CreationCounted(entry, success) ==
  [entry EXCEPT !.count = @ - 1, !.failed = @ \/ ~success]

\* onCreateFinished(), onModifyFinished(), onDeleteFinished() of the entry.
Deliver ==
  LET a == Head(answers)
      e == a.request.entry
      restored == entries[e].kind = "delete" /\ a.request.kind = "create"
      oldId == IF entries[e].kind = "create" THEN entries[e].items[1].id
               ELSE CHOOSE i \in a.request.ids : TRUE
      counted == IF restored
                 THEN [entries EXCEPT ![e] = CreationCounted(entries[e], a.success)]
                 ELSE entries
      table == IF a.request.kind = "create" /\ a.success
               THEN UpdateIds(counted, oldId, a.item) ELSE counted
  IN  /\ answers # <<>>
      /\ answers' = Tail(answers)
      /\ \/ /\ a.change \notin entries[e].changeIds
            /\ UNCHANGED entries
            /\ NotFinished
         \/ /\ a.change \in entries[e].changeIds
            /\ restored /\ table[e].count > 0
            /\ entries' = table
            /\ NotFinished
         \/ /\ a.change \in entries[e].changeIds
            /\ ~(restored /\ table[e].count > 0)
            /\ Finished(table, e, IF restored THEN ~table[e].failed ELSE a.success)
      /\ UNCHANGED <<changer, crashed, server, user>>

-----------------------------------------------------------------------------
User    == UserCreates \/ UserModifies \/ UserDeletes \/ UserStartsBatch \/ UserEndsBatch
Calls   == UndoOrRedo("undo") \/ UndoOrRedo("redo") \/ UndoAll \/ Clear
Changer == ChangerSucceeds \/ ChangerFails \/ ChangerRefuses

Next == ~crashed /\ (User \/ Record \/ Calls \/ Changer \/ Deliver)

Spec == Init /\ [][Next]_vars

\* Every job ends, and the event loop delivers every posted answer.
FairSpec == Spec /\ WF_vars(~crashed /\ Changer) /\ WF_vars(~crashed /\ Deliver)

-----------------------------------------------------------------------------
(* Properties.                                                             *)

\* The undo stack, the entry in progress, the redo stack from its top down.
Line == mUndoStack \o (IF mOperationTypeInProgress = "none" \/ crashed THEN <<>>
                       ELSE <<mEntryInProgress>>) \o Reverse(mRedoStack)

\* What was recorded during an operation is newer than all of it.
QueueIsNewest == \A j \in DOMAIN mQueuedEntries : \A k \in DOMAIN Line :
                   Line[k] < mQueuedEntries[j]

\* The entries lie on one line, oldest first, and what was recorded during an operation is
\* newer than all of it.  None is there twice, whenever a change is recorded
\* (stackEntry(), finishOperation()).
OneLine ==
  /\ QueueIsNewest
  /\ \A j, k \in DOMAIN Line : j < k => Line[j] < Line[k]

Before(e) == IF entries[e].kind = "multi" THEN entries[Head(entries[e].children)].before
             ELSE entries[e].before
After(e)  == IF entries[e].kind = "multi" THEN entries[Last(entries[e].children)].after
             ELSE entries[e].after

\* A user who waits can always undo and redo: the items the entries on top name exist.
TopIsApplicable ==
  /\ TypeOK
  /\ patient /\ Quiet =>
       \A type \in {"undo", "redo"} :
         Stack(type) # <<>> =>
           LET asked == AllRequests(Last(Stack(type)), type)
           IN  \A k \in DOMAIN asked : Applicable(asked[k])

\* A user who waits for each operation finds the calendar as it was before the last
\* undone change and after the last one that is not undone, and can go on from there.
StacksTellTheContents ==
  /\ TopIsApplicable
  /\ patient /\ Quiet =>
    /\ mUndoStack # <<>> => Contents(store) = After(Last(mUndoStack))
    /\ mRedoStack # <<>> => Contents(store) = Before(Last(mRedoStack))

\* The named exception: a change of the operation is never answered, as a creation of its
\* atomic operation, or of an earlier one, failed.
Unanswered ==
  /\ running = <<>> /\ answers = <<>>
  /\ \E c \in stranded : \E e \in ToSet(Leaves(mEntryInProgress, mOperationTypeInProgress)) :
       c.id \in entries[e].changeIds

\* An undo or a redo ends, but for the named exception.
OperationEnds == [](mOperationTypeInProgress # "none" => <>(mOperationTypeInProgress = "none" \/ crashed \/ Unanswered))
=============================================================================
