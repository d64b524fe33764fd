--------------------- MODULE IncidenceChangerInductive ---------------------
(***************************************************************************)
(* The inductive invariant of IncidenceChanger: where a change can be in   *)
(* the pipeline, for every number of items, changes and writes.            *)
(***************************************************************************)
EXTENDS IncidenceChanger

\* A modification of item i.
OfItem(c, i) == changes[c].type = "modify" /\ changes[c].items = {i}

\* The change has a job, or the handler of its job has not returned.
Busy(c) == mChangeForJob[c] # "none" \/ InDialog(c)

\* The change is somewhere in the pipeline.
Active(c) == \/ Busy(c)
             \/ \E i \in Items : c \in {mQueuedModifications[i], mModificationsInProgress[i]}

\* An id that was not given out yet is unused.
FreshIds ==
  \A c \in Changes : c > mLatestChangeId =>
    changes[c].type = "none" /\ c \notin mChangeById /\ ~Busy(c) /\ answers[c] = <<>>

ModifiesOneItem ==
  \A c \in Changes : changes[c].type = "modify" => \E i \in Items : changes[c].items = {i}

\* A busy change is in mChangeById, and its handler runs after its job.
BusyIsKnown ==
  \A c \in Changes : Busy(c) =>
    /\ changes[c].type # "none"
    /\ c \in mChangeById
    /\ InDialog(c) => mChangeForJob[c] = "none"

\* A busy modification is the one in progress, its successor not called for yet.
BusyIsInProgress ==
  \A c \in Changes : \A i \in Items :
    Busy(c) /\ OfItem(c, i) => mModificationsInProgress[i] = c /\ i \notin nextPosted

\* The modification in progress is busy, or its successor is called for.
InProgressIsBusy ==
  \A i \in Items :
    /\ \A c \in Changes : mModificationsInProgress[i] = c =>
         OfItem(c, i) /\ (Busy(c) \/ i \in nextPosted)
    /\ i \in nextPosted => mModificationsInProgress[i] # NoChange

\* The waiting modification has no job and is newer than the one in progress.
QueuedIsWaiting ==
  \A i \in Items : \A c \in Changes : mQueuedModifications[i] = c =>
    /\ OfItem(c, i)
    /\ c \in mChangeById
    /\ ~Busy(c)
    /\ mModificationsInProgress[i] # NoChange
    /\ mModificationsInProgress[i] < c

\* A handler is interrupted once.
OneDialogPerChange ==
  \A j, k \in DOMAIN dialogs : dialogs[j].change = dialogs[k].change => j = k

\* Nothing in the pipeline is answered yet, and nothing is answered twice.
ActiveIsUnanswered ==
  \A c \in Changes : changes[c].type # "delete" =>
    /\ Len(answers[c]) <= 1
    /\ Active(c) => answers[c] = <<>>

IInv == /\ ChangerTypeOK /\ FreshIds /\ ModifiesOneItem /\ BusyIsKnown
        /\ BusyIsInProgress /\ InProgressIsBusy /\ QueuedIsWaiting
        /\ OneDialogPerChange /\ ActiveIsUnanswered

-----------------------------------------------------------------------------
(* The pipeline and the server: what the answers rest on.                  *)

\* What the server did has left the queue, is in no error box, and its job did not fail.
AppliedIsOver ==
  \A c \in Changes : c \in store.applied =>
    /\ changes[c].type # "none"
    /\ mChangeForJob[c] \in {"none", "succeeded"} /\ ~InDialog(c)
    /\ \A i \in Items : mQueuedModifications[i] # c

JobTellsFate == \A c \in Changes : mChangeForJob[c] = "succeeded" => c \in store.applied

\* A change that was handled and is not answered yet holds the answer it will give.
HandledTellsFate ==
  \A c \in Changes : changes[c].type # "none" /\ c \notin mChangeById /\ answers[c] = <<>> =>
    (changes[c].resultCode = "Success" <=> c \in store.applied)

\* Unlike ActiveIsUnanswered, also of deletions.
BusyIsUnanswered == \A c \in Changes : Busy(c) => answers[c] = <<>>

DialogsTellOfFailure ==
  \A k \in DOMAIN dialogs : dialogs[k].resultCode \in {"AlreadyDeleted", "JobError"}

\* The code of a modification discarded is only given for a newer one.
DiscardedHasNewer ==
  \A c \in Changes : changes[c].resultCode = "ModificationDiscarded" =>
    \E d \in Changes : d > c /\ changes[d].type = "modify" /\ changes[d].items = changes[c].items

FateInv == /\ AppliedIsOver /\ JobTellsFate /\ HandledTellsFate /\ BusyIsUnanswered
           /\ DialogsTellOfFailure /\ DiscardedHasNewer /\ AnswerIsTrue

Succeeded(c, i) == WritesItem(c, i) /\ mChangeForJob[c] = "succeeded"

\* As long as no other program writes an item, its latest revision is known once the
\* handler of the last job has run, and no revision in use is ahead of the server's.
RevisionsFollow ==
  \A i \in Items : store.foreign[i] = 0 =>
    /\ latestRevisionByItemId[i] <= store.revision[i]
    /\ \A c \in Changes : Succeeded(c, i) => changes[c].revision + 1 = store.revision[i]
    /\ (\A c \in Changes : ~Succeeded(c, i)) =>
         latestRevisionByItemId[i] = store.revision[i] \/ store.revision[i] = 0
    /\ \A c \in Changes : mQueuedModifications[i] = c => changes[c].revision <= store.revision[i]

\* What an item holds was written by a change no newer than the one in progress.
PayloadsAreOlder ==
  \A i \in Items :
    /\ store.payload[i] <= mLatestChangeId
    /\ store.item[i] = "unborn" => store.payload[i] = 0 /\ mModificationsInProgress[i] = NoChange
    /\ \A c \in Changes : mModificationsInProgress[i] = c =>
         /\ store.payload[i] <= c
         /\ mChangeForJob[c] = "running" => store.payload[i] < c

ServerInv == FateInv /\ RevisionsFollow /\ NoSelfConflict /\ PayloadsAreOlder

\* Both together are inductive.
PipelineInv == IInv /\ StoreTypeOK /\ ServerInv

-----------------------------------------------------------------------------
(* The list of deleted items.                                              *)

Deletion(c) == changes[c].type = "delete"

\* A deletion that is under way, in an error box, or done.
Deleting(c) == Deletion(c) /\ (Busy(c) \/ c \in store.applied)

DeletedItems == UNION {changes[c].items : c \in {x \in Changes : Deletion(x)}}

ListIsSimple ==
  /\ mDeletedItemIds \in Seq(Items)
  /\ IsInjective(mDeletedItemIds)
  /\ ToSet(mDeletedItemIds) \subseteq DeletedItems
  /\ \A c \in Changes : Deletion(c) => IsFiniteSet(changes[c].items)

\* As long as nothing was dropped from the list, it holds all that is being deleted, and
\* no two deletions share an item.
DeletingIsListed ==
  Cardinality(DeletedItems) <= DeletedCap =>
    /\ \A c \in Changes : Deleting(c) => \A i \in changes[c].items : DeleteAlreadyCalled(i)
    /\ \A c, d \in Changes : Deleting(c) /\ Deleting(d) /\ c # d
         => changes[c].items \cap changes[d].items = {}

\* What is listed is being deleted.
ListedIsDeleting ==
  ~crashed => \A i \in Items : DeleteAlreadyCalled(i) =>
                \E c \in Changes : Deleting(c) /\ i \in changes[c].items

ListInv == ListIsSimple /\ DeletingIsListed /\ ListedIsDeleting

\* The changer's invariant, also while the handlers of failed jobs wait in error boxes: its
\* pipeline, what the server did of it, and the list of what is being deleted.
ChangerInv == PipelineInv /\ ListInv
=============================================================================
