------------------------- MODULE IncidenceChanger -------------------------
(***************************************************************************)
(* Akonadi::IncidenceChanger (src/src/incidencechanger.cpp): the life of a *)
(* change, from createIncidence(), modifyIncidence() or deleteIncidences() *)
(* to the signal that answers it, with groupware communication switched    *)
(* off (the default) and no atomic operation open.                         *)
(*                                                                         *)
(* A Change is owned by QSharedPointers.  Its destructor emits the signal  *)
(* that answers the caller, so a change is answered when the last holder   *)
(* lets go of it: Held names the holders, Signals is the destructor.       *)
(*                                                                         *)
(* Handlers run one at a time in the thread of the changer's event loop,   *)
(* and each is one action.  What they leave behind for later are the       *)
(* Akonadi jobs, whose result() is connected with Qt::QueuedConnection,    *)
(* and the queued calls of performNextModification().  Posted calls and    *)
(* running jobs are sets: the model lets any of them come next, which      *)
(* includes the order of Qt's event queue and of the Akonadi session.      *)
(*                                                                         *)
(* The handler of a failed job stops in a modal message box when           *)
(* ShowDialogsOnError is set.  The event loop of the box runs every other  *)
(* handler meanwhile, and the handlers of boxes opened later return first: *)
(* `dialogs` is the stack of the interrupted handlers.                     *)
(***************************************************************************)
EXTENDS Integers, SequencesExt

CONSTANTS
  Items,        \* Akonadi item ids
  MaxChanges,   \* bound on mLatestChangeId
  MaxForeign,   \* bound on the writes of other clients, all to one item
  DeletedCap,   \* limit of mDeletedItemIds (100 in the code)
  ShowDialogsOnError

ASSUME ConstantsAssumption ==
  /\ MaxChanges \in Nat \ {0}
  /\ MaxForeign \in Nat
  /\ DeletedCap \in Nat \ {0}
  /\ ShowDialogsOnError \in BOOLEAN

VARIABLES
  mLatestChangeId,
  changes,                  \* the Change objects ever constructed, by id
  mChangeById,              \* the ids in the hash (it maps an id to its own change)
  mChangeForJob,            \* the job of each change, and how far it is
  mQueuedModifications,     \* item -> id of the waiting change
  mModificationsInProgress, \* item -> id of the change being written
  mDeletedItemIds,
  latestRevisionByItemId,   \* s_latestRevisionByItemId, -1 for no entry
  nextPosted,               \* items with a posted performNextModification()
  dialogs,                  \* the handlers stopped in an error message box
  answers,                  \* the signals emitted for each id, in order
  crashed,                  \* an out of range QList::remove() was reached
  store                     \* external: what the Akonadi server holds

changerVars == <<mLatestChangeId, changes, mChangeById, mChangeForJob,
                 mQueuedModifications, mModificationsInProgress, mDeletedItemIds,
                 latestRevisionByItemId, nextPosted, dialogs, crashed>>
vars == <<changerVars, answers, store>>

Changes  == 1 .. MaxChanges
NoChange == 0

Codes == {"Success", "JobError", "AlreadyDeleted", "Permissions",
          "InvalidDefaultCollection", "ModificationDiscarded"}
JobStates == {"none", "running", "succeeded", "failed"}

\* The part of a Change object the pipeline depends on.  `revision` is
\* newItem.revision(), `bumps` how often the SEQUENCE of its payload was raised.
Change(type, items, revision, bumps, code) ==
  [type |-> type, items |-> items, revision |-> revision, bumps |-> bumps,
   resultCode |-> code]
NotConstructed == Change("none", {}, 0, 0, "Success")

\* The item of a modification: changedItem.id().
ItemOf(ch) == CHOOSE i \in Items : ch.items = {i}

ChangerTypeOK ==
  /\ mLatestChangeId \in 0 .. MaxChanges
  /\ changes \in [Changes -> [type : {"none", "create", "modify", "delete"},
                              items : SUBSET Items, revision : Nat,
                              bumps : Nat, resultCode : Codes]]
  /\ mChangeById \in SUBSET Changes
  /\ mChangeForJob \in [Changes -> JobStates]
  /\ mQueuedModifications \in [Items -> Changes \cup {NoChange}]
  /\ mModificationsInProgress \in [Items -> Changes \cup {NoChange}]
  /\ latestRevisionByItemId \in [Items -> Nat \cup {-1}]
  /\ nextPosted \in SUBSET Items
  /\ dialogs \in Seq([change : Changes, resultCode : Codes])
  /\ answers \in [Changes -> Seq(Codes)]
  /\ crashed \in BOOLEAN

StoreTypeOK ==
  store \in [item : [Items -> {"unborn", "live", "gone"}],
            revision : [Items -> Nat], payload : [Items -> 0 .. MaxChanges],
            foreign : [Items -> Nat], applied : SUBSET Changes]

TypeOK == ChangerTypeOK /\ StoreTypeOK /\ mDeletedItemIds \in Seq(Items)

Init ==
  /\ mLatestChangeId = 0
  /\ changes = [c \in Changes |-> NotConstructed]
  /\ mChangeById = {}
  /\ mChangeForJob = [c \in Changes |-> "none"]
  /\ mQueuedModifications = [i \in Items |-> NoChange]
  /\ mModificationsInProgress = [i \in Items |-> NoChange]
  /\ mDeletedItemIds = <<>>
  /\ latestRevisionByItemId = [i \in Items |-> -1]
  /\ nextPosted = {}
  /\ dialogs = <<>>
  /\ answers = [c \in Changes |-> <<>>]
  /\ crashed = FALSE
  /\ \E live \in SUBSET Items :
       store = [item |-> [i \in Items |-> IF i \in live THEN "live" ELSE "unborn"],
                revision |-> [i \in Items |-> 0],
                payload |-> [i \in Items |-> 0],
                foreign |-> [i \in Items |-> 0],
                applied |-> {}]

-----------------------------------------------------------------------------
(* Ownership of a change, and the signal its destructor emits.             *)

InDialog(c) == \E k \in DOMAIN dialogs : dialogs[k].change = c

Held(c) ==
  \/ c \in mChangeById
  \/ InDialog(c)
  \/ mChangeForJob[c] # "none"
  \/ \E i \in Items : c \in {mQueuedModifications[i], mModificationsInProgress[i]}

NoSignal == [c \in Changes |-> <<>>]
Signal(c, code) == [NoSignal EXCEPT ![c] = <<code>>]

\* The change is destroyed by this step: nobody holds it any more, and before
\* the step somebody did or it was not constructed yet.
Destroyed(c) ==
  /\ ~Held(c)'
  /\ Held(c) \/ (changes[c].type = "none" /\ changes'[c].type # "none")

\* Every step: `emitted` by the handler itself, then the destructors.
Signals(emitted) ==
  answers' = [c \in Changes |->
                answers[c] \o emitted[c] \o
                (IF Destroyed(c) THEN <<changes'[c].resultCode>> ELSE <<>>)]

Construct(c, ch) ==
  /\ c = mLatestChangeId + 1
  /\ c \in Changes
  /\ mLatestChangeId' = c
  /\ changes' = [changes EXCEPT ![c] = ch]

DeleteAlreadyCalled(i) == i \in ToSet(mDeletedItemIds)

-----------------------------------------------------------------------------
(* createIncidence(), createFromItem().                                    *)

\* step2CreateIncidence(): the collection is known and may be written to.
CreateIncidence(c) ==
  /\ Construct(c, Change("create", {}, 0, 0, "Success"))
  /\ mChangeForJob' = [mChangeForJob EXCEPT ![c] = "running"]
  /\ mChangeById' = mChangeById \cup {c}
  /\ UNCHANGED <<mQueuedModifications, mModificationsInProgress, mDeletedItemIds,
                 latestRevisionByItemId, nextPosted, dialogs, crashed, store>>
  /\ Signals(NoSignal)

\* DestinationPolicyNeverAsk without a usable default collection.
CreateRefused(c) ==
  /\ \E code \in {"InvalidDefaultCollection", "Permissions"} :
       Construct(c, Change("create", {}, 0, 0, code))
  /\ UNCHANGED <<mChangeById, mChangeForJob>>
  /\ UNCHANGED <<mQueuedModifications, mModificationsInProgress, mDeletedItemIds,
                 latestRevisionByItemId, nextPosted, dialogs, crashed, store>>
  /\ Signals(NoSignal)

\* handleCreateJobResult() and handleCreateJobResult2().
HandleCreateJobSuccess(c) ==
  /\ changes[c].type = "create"
  /\ mChangeForJob[c] = "succeeded"
  /\ mChangeForJob' = [mChangeForJob EXCEPT ![c] = "none"]
  /\ changes' = [changes EXCEPT ![c].resultCode = "Success"]
  /\ mChangeById' = mChangeById \ {c}
  /\ UNCHANGED <<mLatestChangeId, mQueuedModifications, mModificationsInProgress,
                 mDeletedItemIds, latestRevisionByItemId, nextPosted, dialogs,
                 crashed, store>>
  /\ Signals(NoSignal)

-----------------------------------------------------------------------------
(* modifyIncidence().                                                      *)

\* The ACL refusal: an id is used up, but no Change is constructed.
ModifyRefused(c) ==
  /\ c = mLatestChangeId + 1
  /\ c \in Changes
  /\ mLatestChangeId' = c
  /\ UNCHANGED <<changes, mChangeById, mChangeForJob>>
  /\ UNCHANGED <<mQueuedModifications, mModificationsInProgress, mDeletedItemIds,
                 latestRevisionByItemId, nextPosted, dialogs, crashed, store>>
  /\ Signals(Signal(c, "Permissions"))

\* Mutant of Prepared: the revision stays that of the caller's copy.
PreparedStale(ch) == [ch EXCEPT !.bumps = @ + 1]

\* performModification2(): the newest revision known replaces an older one, and
\* the SEQUENCE is raised, each time the change passes.
Prepared(ch) ==
  LET latest == latestRevisionByItemId[ItemOf(ch)]
  IN  [ch EXCEPT !.revision = IF latest > ch.revision THEN latest ELSE ch.revision,
                 !.bumps = @ + 1]

\* Mutant of ModificationUnderway: the item is free once the handler has run.
UnderwayUntilHandled(i) == mModificationsInProgress[i] # NoChange /\ i \notin nextPosted

\* Mutant of ModificationUnderway: only the queue is looked at.
UnderwayIfQueued(i) == mQueuedModifications[i] # NoChange

ModificationUnderway(i) == mModificationsInProgress[i] # NoChange

\* Mutant of QueueModification: the discarded change stays in mChangeById.
QueueAndKeep(c, ch, i) ==
  /\ mQueuedModifications' = [mQueuedModifications EXCEPT ![i] = c]
  /\ mChangeById' = mChangeById \cup {c}
  /\ changes' = [changes EXCEPT ![c] = ch]

\* queueModification(): the change that was waiting is discarded.
QueueModification(c, ch, i) ==
  LET discarded == mQueuedModifications[i]
  IN  /\ mQueuedModifications' = [mQueuedModifications EXCEPT ![i] = c]
      /\ mChangeById' = (mChangeById \cup {c}) \ {discarded}
      /\ changes' = [x \in Changes |->
                       IF x = c THEN ch
                       ELSE IF x = discarded
                            THEN [changes[x] EXCEPT !.resultCode = "ModificationDiscarded"]
                            ELSE changes[x]]

\* Mutant of ModifyDeleted: the change is dropped at once.
ModifyDeletedDropped(c, i, r) ==
  /\ DeleteAlreadyCalled(i)
  /\ Construct(c, Change("modify", {i}, r, 0, "Success"))
  /\ UNCHANGED <<mChangeById, mChangeForJob, mQueuedModifications, mModificationsInProgress>>
  /\ Signals(Signal(c, "AlreadyDeleted"))

\* modifyIncidence(), its item deleted or being deleted already: the caller is
\* answered, the change stays in mChangeById.
ModifyDeleted(c, i, r) ==
  /\ DeleteAlreadyCalled(i)
  /\ Construct(c, Change("modify", {i}, r, 0, "Success"))
  /\ mChangeById' = mChangeById \cup {c}
  /\ UNCHANGED <<mChangeForJob, mQueuedModifications, mModificationsInProgress>>
  /\ Signals(Signal(c, "AlreadyDeleted"))

\* ... an ItemModifyJob of the item is under way: wait for it to end.
ModifyQueued(c, i, r) ==
  /\ ~DeleteAlreadyCalled(i)
  /\ ModificationUnderway(i)
  /\ c = mLatestChangeId + 1
  /\ c \in Changes
  /\ mLatestChangeId' = c
  /\ QueueModification(c, Prepared(Change("modify", {i}, r, 0, "Success")), i)
  /\ UNCHANGED <<mChangeForJob, mModificationsInProgress>>
  /\ Signals(NoSignal)

\* ... otherwise its ItemModifyJob starts.
ModifyStarted(c, i, r) ==
  /\ ~DeleteAlreadyCalled(i)
  /\ ~ModificationUnderway(i)
  /\ Construct(c, Prepared(Change("modify", {i}, r, 0, "Success")))
  /\ mChangeById' = mChangeById \cup {c}
  /\ mChangeForJob' = [mChangeForJob EXCEPT ![c] = "running"]
  /\ mModificationsInProgress' = [mModificationsInProgress EXCEPT ![i] = c]
  /\ UNCHANGED mQueuedModifications
  /\ Signals(NoSignal)

\* The caller may hold any revision of the item that existed so far.
ModifyIncidence(c) ==
  /\ UNCHANGED <<mDeletedItemIds, latestRevisionByItemId, nextPosted, dialogs,
                 crashed, store>>
  /\ \E i \in Items : \E r \in 0 .. store.revision[i] :
       /\ store.item[i] # "unborn"
       /\ ModifyDeleted(c, i, r) \/ ModifyQueued(c, i, r) \/ ModifyStarted(c, i, r)

\* Mutant of ScheduleNext: the call is only posted if something waits.
ScheduleNextIfAny(i) ==
  nextPosted' = IF mQueuedModifications[i] = NoChange THEN nextPosted ELSE nextPosted \cup {i}

\* The queued invocation of performNextModification().
ScheduleNext(i) == nextPosted' = nextPosted \cup {i}

\* handleModifyJobResult() of a job that succeeded, and handleModifyJobResult2().
HandleModifyJobSuccess(c) ==
  LET i == ItemOf(changes[c])
      stored == changes[c].revision + 1  \* the revision the server gave the item
  IN  /\ changes[c].type = "modify"
      /\ mChangeForJob[c] = "succeeded"
      /\ mChangeForJob' = [mChangeForJob EXCEPT ![c] = "none"]
      /\ latestRevisionByItemId' = [latestRevisionByItemId EXCEPT ![i] = stored]
      /\ changes' = [changes EXCEPT ![c].revision = stored, ![c].resultCode = "Success"]
      /\ mChangeById' = mChangeById \ {c}
      /\ ScheduleNext(i)
      /\ UNCHANGED <<mLatestChangeId, mQueuedModifications, mModificationsInProgress,
                     mDeletedItemIds, dialogs, crashed, store>>
      /\ Signals(NoSignal)

\* performNextModification(), called from the event loop: the finished change is
\* dropped, the waiting one goes through performModification() again.
PerformNextModification(i) ==
  LET c == mQueuedModifications[i]
  IN  /\ i \in nextPosted
      /\ nextPosted' = nextPosted \ {i}
      /\ mQueuedModifications' = [mQueuedModifications EXCEPT ![i] = NoChange]
      /\ UNCHANGED <<mLatestChangeId, mChangeById, mDeletedItemIds,
                     latestRevisionByItemId, dialogs, crashed, store>>
      /\ \/ /\ c = NoChange
            /\ mModificationsInProgress' = [mModificationsInProgress EXCEPT ![i] = NoChange]
            /\ UNCHANGED <<changes, mChangeForJob>>
            /\ Signals(NoSignal)
         \/ /\ c # NoChange
            /\ DeleteAlreadyCalled(i)
            /\ mModificationsInProgress' = [mModificationsInProgress EXCEPT ![i] = NoChange]
            /\ UNCHANGED <<changes, mChangeForJob>>
            /\ Signals(Signal(c, "AlreadyDeleted"))
         \/ /\ c # NoChange
            /\ ~DeleteAlreadyCalled(i)
            /\ mModificationsInProgress' = [mModificationsInProgress EXCEPT ![i] = c]
            /\ changes' = [changes EXCEPT ![c] = Prepared(changes[c])]
            /\ mChangeForJob' = [mChangeForJob EXCEPT ![c] = "running"]
            /\ Signals(NoSignal)

-----------------------------------------------------------------------------
(* deleteIncidence(), deleteIncidences().                                  *)

\* A call that is answered at once: no permission, or all deleted already.
DeleteRefused(c) ==
  /\ \/ Construct(c, Change("delete", {}, 0, 0, "Permissions"))
     \/ /\ \E i \in Items : DeleteAlreadyCalled(i)
        /\ Construct(c, Change("delete", {}, 0, 0, "AlreadyDeleted"))
  /\ UNCHANGED <<mChangeById, mChangeForJob>>
  /\ UNCHANGED <<mQueuedModifications, mModificationsInProgress, mDeletedItemIds,
                 latestRevisionByItemId, nextPosted, dialogs, crashed, store>>
  /\ Signals(NoSignal)

\* The lists without repetition of items the caller can know.
ItemLists == {s \in UNION {[1 .. n -> Items] : n \in 1 .. Cardinality(Items)} :
                /\ IsInjective(s)
                /\ \A k \in DOMAIN s : store.item[s[k]] # "unborn"}

\* deleteIncidences2(), the clean-up of mDeletedItemIds included.
Cleaned(s) == IF Len(s) > DeletedCap
              THEN SubSeq(s, (DeletedCap + 1) \div 2 + 1, Len(s))
              ELSE s

\* `itemsToDelete` is what is left of the caller's list.
DeleteIncidences(c) ==
  /\ \E itemsToDelete \in ItemLists :
       /\ \A k \in DOMAIN itemsToDelete : ~DeleteAlreadyCalled(itemsToDelete[k])
       /\ Construct(c, Change("delete", ToSet(itemsToDelete), 0, 0, "Success"))
       /\ mDeletedItemIds' = Cleaned(mDeletedItemIds \o itemsToDelete)
  /\ mChangeById' = mChangeById \cup {c}
  /\ mChangeForJob' = [mChangeForJob EXCEPT ![c] = "running"]
  /\ UNCHANGED <<mQueuedModifications, mModificationsInProgress,
                 latestRevisionByItemId, nextPosted, dialogs, crashed, store>>
  /\ Signals(NoSignal)

\* handleDeleteJobResult() of a job that succeeded, and handleDeleteJobResult2().
HandleDeleteJobSuccess(c) ==
  /\ changes[c].type = "delete"
  /\ mChangeForJob[c] = "succeeded"
  /\ mChangeForJob' = [mChangeForJob EXCEPT ![c] = "none"]
  /\ changes' = [changes EXCEPT ![c].resultCode = "Success"]
  /\ mChangeById' = mChangeById \ {c}
  /\ UNCHANGED <<mLatestChangeId, mQueuedModifications, mModificationsInProgress,
                 mDeletedItemIds, latestRevisionByItemId, nextPosted, dialogs,
                 crashed, store>>
  /\ Signals(NoSignal)

-----------------------------------------------------------------------------
(* The handlers of a job that failed.                                      *)

\* Mutant of FailureCode: the result code is left as it is.
FailureCodeKept(c) == changes[c].resultCode

FailureCode(c) ==
  IF changes[c].type = "modify" /\ DeleteAlreadyCalled(ItemOf(changes[c]))
  THEN "AlreadyDeleted" ELSE "JobError"

\* Mutant of Without: nothing is removed.
WithoutNone(s, S) == s

\* The list without the items of S, each of which it holds once.
Without(s, S) ==
  LET kept     == {k \in DOMAIN s : s[k] \notin S}
      place(k) == Cardinality({j \in kept : j <= k})
  IN  [n \in 1 .. Cardinality(kept) |-> s[CHOOSE k \in kept : place(k) = n]]

\* What the handlers do once the message box is closed.  That of a deletion takes
\* the items out of mDeletedItemIds again, and emits the signal the destructor
\* then emits again.  The index of an item the clean-up dropped is -1.
EndFailure(c, code) ==
  /\ UNCHANGED <<mLatestChangeId, mQueuedModifications, mModificationsInProgress,
                 latestRevisionByItemId, store>>
  /\ changes' = [changes EXCEPT ![c].resultCode = code]
  /\ mChangeById' = mChangeById \ {c}
  /\ \/ /\ changes[c].type = "create"
        /\ UNCHANGED <<mDeletedItemIds, nextPosted, crashed>>
        /\ Signals(NoSignal)
     \/ /\ changes[c].type = "modify"
        /\ ScheduleNext(ItemOf(changes[c]))
        /\ UNCHANGED <<mDeletedItemIds, crashed>>
        /\ Signals(NoSignal)
     \/ /\ changes[c].type = "delete"
        /\ \A i \in changes[c].items : DeleteAlreadyCalled(i)
        /\ mDeletedItemIds' = Without(mDeletedItemIds, changes[c].items)
        /\ UNCHANGED <<nextPosted, crashed>>
        /\ Signals(Signal(c, code))
     \/ /\ changes[c].type = "delete"
        /\ \E i \in changes[c].items : ~DeleteAlreadyCalled(i)
        /\ crashed' = TRUE
        /\ UNCHANGED <<mDeletedItemIds, nextPosted, answers>>

\* The error branch of handleCreateJobResult(), handleModifyJobResult() and
\* handleDeleteJobResult(), up to the message box if there is one.
HandleJobFailure(c) ==
  /\ mChangeForJob[c] = "failed"
  /\ mChangeForJob' = [mChangeForJob EXCEPT ![c] = "none"]
  /\ \/ /\ ShowDialogsOnError
        /\ dialogs' = Append(dialogs, [change |-> c, resultCode |-> FailureCode(c)])
        /\ UNCHANGED <<mLatestChangeId, changes, mChangeById, mQueuedModifications,
                       mModificationsInProgress, mDeletedItemIds,
                       latestRevisionByItemId, nextPosted, crashed, answers, store>>
     \/ /\ ~ShowDialogsOnError
        /\ UNCHANGED dialogs
        /\ EndFailure(c, FailureCode(c))

\* The user closes the message box on top.
CloseErrorDialog ==
  /\ dialogs # <<>>
  /\ dialogs' = Front(dialogs)
  /\ UNCHANGED mChangeForJob
  /\ EndFailure(Last(dialogs).change, Last(dialogs).resultCode)

-----------------------------------------------------------------------------
(* External: the Akonadi server.                                           *)

Finish(c, result) ==
  /\ mChangeForJob[c] = "running"
  /\ mChangeForJob' = [mChangeForJob EXCEPT ![c] = result]
  /\ UNCHANGED <<mLatestChangeId, changes, mChangeById, mQueuedModifications,
                 mModificationsInProgress, mDeletedItemIds, latestRevisionByItemId,
                 nextPosted, dialogs, crashed, answers>>

CreateStored(c) ==
  /\ changes[c].type = "create"
  /\ Finish(c, "succeeded")
  /\ \E i \in Items :
       /\ store.item[i] = "unborn"
       /\ store' = [store EXCEPT !.item[i] = "live", !.payload[i] = c,
                                 !.applied = @ \cup {c}]

\* An ItemModifyJob is refused unless it carries the item's current revision.
NoConflict(c, i) == changes[c].revision = store.revision[i]

ModifyStored(c) ==
  LET i == ItemOf(changes[c])
  IN  /\ changes[c].type = "modify"
      /\ store.item[i] = "live"
      /\ NoConflict(c, i)
      /\ Finish(c, "succeeded")
      /\ store' = [store EXCEPT !.revision[i] = @ + 1, !.payload[i] = c,
                                !.applied = @ \cup {c}]

DeleteStored(c) ==
  /\ changes[c].type = "delete"
  /\ \A i \in changes[c].items : store.item[i] = "live"
  /\ Finish(c, "succeeded")
  /\ store' = [store EXCEPT
                 !.item = [i \in Items |-> IF i \in changes[c].items THEN "gone" ELSE @[i]],
                 !.applied = @ \cup {c}]

\* Any job may fail: a conflict, a missing item, a resource that is offline.
JobFails(c) == Finish(c, "failed") /\ UNCHANGED store

\* Another program writes or deletes an item.
ForeignWrite(i) ==
  /\ store.item[i] = "live"
  /\ store.foreign[i] < MaxForeign /\ \A j \in Items \ {i} : store.foreign[j] = 0
  /\ \/ store' = [store EXCEPT !.revision[i] = @ + 1, !.foreign[i] = @ + 1]
     \/ store' = [store EXCEPT !.item[i] = "gone", !.foreign[i] = @ + 1]
  /\ UNCHANGED <<changerVars, answers>>

-----------------------------------------------------------------------------
Caller(c) == \/ CreateIncidence(c) \/ CreateRefused(c)
             \/ ModifyIncidence(c) \/ ModifyRefused(c)
             \/ DeleteIncidences(c) \/ DeleteRefused(c)

HandleJobResult(c) == \/ HandleCreateJobSuccess(c) \/ HandleModifyJobSuccess(c)
                      \/ HandleDeleteJobSuccess(c) \/ HandleJobFailure(c)

Server(c) == CreateStored(c) \/ ModifyStored(c) \/ DeleteStored(c) \/ JobFails(c)

Next ==
  /\ ~crashed
  /\ \/ \E c \in Changes : Caller(c) \/ HandleJobResult(c) \/ Server(c)
     \/ \E i \in Items : PerformNextModification(i) \/ ForeignWrite(i)
     \/ CloseErrorDialog

Spec == Init /\ [][Next]_vars

\* The server ends every job, the event loop delivers every posted call, and the
\* user closes every message box.
Fairness ==
  /\ \A c \in Changes : WF_vars(~crashed /\ Server(c))
  /\ \A c \in Changes : WF_vars(~crashed /\ HandleJobResult(c))
  /\ \A i \in Items : WF_vars(~crashed /\ PerformNextModification(i))
  /\ WF_vars(~crashed /\ CloseErrorDialog)

FairSpec == Spec /\ Fairness

-----------------------------------------------------------------------------
(* Properties.                                                             *)

WritesItem(c, i) == /\ changes[c].type = "modify"
                    /\ changes[c].items = {i}
                    /\ mChangeForJob[c] # "none"

\* "We can only send a modification to akonadi when the previous one ended":
\* there is at most one ItemModifyJob per item, and it is that of the change in
\* progress.
OneWriterPerItem ==
  \A i \in Items : \A c \in Changes :
    WritesItem(c, i) => mModificationsInProgress[i] = c

\* A waiting modification always has something that will wake it: the job or the
\* message box or the posted call of the modification in progress.
WaitingHasWaker ==
  \A i \in Items :
    mQueuedModifications[i] # NoChange =>
      /\ mModificationsInProgress[i] # NoChange
      /\ mQueuedModifications[i] > mModificationsInProgress[i]
      /\ \/ i \in nextPosted
         \/ InDialog(mModificationsInProgress[i])
         \/ WritesItem(mModificationsInProgress[i], i)

\* The queue of modifications is sound: one writer per item, and nobody waits for nothing
\* (performModification(), performNextModification()).
QueueIsSound == OneWriterPerItem /\ WaitingHasWaker

\* A creation or a modification is answered by one signal, never two.
AnsweredOnce ==
  \A c \in Changes : changes[c].type # "delete" => Len(answers[c]) <= 1

\* A modification is only discarded for a newer one of the same item.
DiscardedForNewer ==
  \A c \in Changes :
    answers[c] # <<>> /\ answers[c][1] = "ModificationDiscarded" =>
      \E d \in Changes : d > c /\ changes[d].items = changes[c].items
                              /\ changes[d].type = "modify"

\* The answer tells the truth: success if and only if the server did it, and a
\* modification is only discarded for a newer one of the same item (resultCode of ~Change,
\* the queue of performModification2()).
AnswerIsTrue ==
  /\ DiscardedForNewer
  /\ \A c \in Changes :
       answers[c] # <<>> => (answers[c][1] = "Success" <=> c \in store.applied)

\* Its own writes never make a modification fail with a revision conflict: the
\* job under way carries the server's revision unless another program wrote the
\* item.
NoSelfConflict ==
  \A i \in Items : \A c \in Changes :
    WritesItem(c, i) /\ mChangeForJob[c] = "running" /\ store.foreign[i] = 0
      => changes[c].revision = store.revision[i]

\* An older modification never overwrites a newer one.
NoLostUpdate == [][\A i \in Items : store'.payload[i] >= store.payload[i]]_vars

\* incidencechanger_p.h: deleteAlreadyCalled() "Returns true if, for a specific
\* item, an ItemDeleteJob is already running, or if one already run successfully".
DeletionUnderway(i) ==
  \E c \in Changes : /\ changes[c].type = "delete" /\ i \in changes[c].items
                     /\ mChangeForJob[c] # "none" \/ c \in store.applied

\* "If": an item being deleted, or deleted, is known to be, as long as the list had no
\* reason to be cleaned.
DeletedIsListed ==
  Cardinality(UNION {changes[c].items : c \in {x \in Changes : changes[x].type = "delete"}}) <= DeletedCap
    => \A i \in Items : DeletionUnderway(i) => DeleteAlreadyCalled(i)

\* ... and "only if": an item whose deletion failed may be modified again, once its error
\* box is closed (unless the handler of the failed job crashed the program).
ListedIsDeleted ==
  /\ TypeOK
  /\ DeletedIsListed
  /\ ~crashed => \A i \in Items : DeleteAlreadyCalled(i) =>
                    \/ DeletionUnderway(i)
                    \/ \E c \in Changes : /\ changes[c].type = "delete" /\ InDialog(c)
                                          /\ i \in changes[c].items

\* What a caller sees of a change, and the change each item was last written by.
StateOf(c) ==
  IF answers[c] # <<>>
  THEN IF answers[c][1] = "Success" THEN "succeeded" ELSE "refused"
  ELSE IF c > mLatestChangeId THEN "idle"
       ELSE IF c \in store.applied THEN "applied" ELSE "pending"

Requests == INSTANCE ChangeRequests
              WITH state <- [c \in Changes |-> StateOf(c)], newest <- store.payload

\* The changer keeps the promises of ChangeRequests: answers are true, given once
\* and never taken back, and an item is only overwritten by a newer change.
KeepsRequests == Requests!Spec

\* Every change is answered in the end, if the program has not crashed before.
EveryChangeAnswered ==
  \A c \in Changes : c <= mLatestChangeId ~> answers[c] # <<>> \/ crashed
=============================================================================
