-------------------------- MODULE AtomicOperation --------------------------
(***************************************************************************)
(* Batches of changes: startAtomicOperation(), the changes made before     *)
(* endAtomicOperation(), the TransactionSequence their jobs belong to, and *)
(* the AtomicOperation object that lives until its jobs and the            *)
(* transaction have returned (src/src/incidencechanger.cpp, _p.h, _p.cpp). *)
(* IncidenceChanger models changes one by one; here they share their fate, *)
(* and what it models beside that (revisions, lists of deletions, message  *)
(* boxes) is left out.                                                     *)
(*                                                                         *)
(* A batch is filled in one turn of the event loop, as History, TodoPurger *)
(* and ICalImporter do: while `calling` no handler runs.  A transaction is *)
(* created with the first job, or by the first roll-back, and commits by   *)
(* itself.  When a job fails, or on rollback(), the jobs that have not run *)
(* are aborted ("Unknown error.").  Job results are posted before the      *)
(* transaction asks the server for its own, so their handlers run first.   *)
(***************************************************************************)
EXTENDS Integers, FiniteSets

CONSTANTS
  Items,          \* Akonadi item ids
  MaxChanges,     \* bound on mLatestChangeId
  MaxOperations   \* bound on mLatestAtomicOperationId

ASSUME ConstantsAssumption ==
  /\ MaxChanges \in Nat \ {0}
  /\ MaxOperations \in Nat \ {0}

VARIABLES
  mLatestChangeId, changes, mChangeById, mChangeForJob,
  mQueuedModifications, mModificationsInProgress,
  mDeletedItemIds,           \* as a set: an item is listed once
  nextPosted,                \* items with a posted performNextModification()
  mLatestAtomicOperationId,
  mBatchOperationInProgress,
  mAtomicOperations,         \* the AtomicOperation objects
  transaction,               \* external: the TransactionSequence of each
  calling,                   \* the caller is between start and end
  answers,                   \* the signals emitted for each change, a set
  applied,                   \* external: the changes the server has kept
  crashed                    \* a dangling or null pointer was used

pipelineVars  == <<mLatestChangeId, mChangeById, mQueuedModifications,
                   mModificationsInProgress, mDeletedItemIds, nextPosted>>
operationVars == <<mLatestAtomicOperationId, mBatchOperationInProgress,
                   mAtomicOperations, transaction>>
vars == <<pipelineVars, changes, mChangeForJob, operationVars, calling, answers,
          applied, crashed>>

Changes     == 1 .. MaxChanges
Operations  == 1 .. MaxOperations
NoChange    == 0
NoOperation == 0
NoItem      == "no item"

Codes == {"Success", "JobError", "AlreadyDeleted", "Permissions", "DuplicateId",
          "Rolledback", "ModificationDiscarded"}

\* A Change object.  `aborted` says that errorString is "Unknown error.".
Change(type, item, operation, code) ==
  [type |-> type, item |-> item, atomicOperationId |-> operation,
   queuedModification |-> FALSE, completed |-> FALSE, aborted |-> FALSE,
   resultCode |-> code]
NotConstructed == Change("none", NoItem, NoOperation, "Success")

\* An AtomicOperation object, and the state of an id without one.
Operation == [alive |-> TRUE, endCalled |-> FALSE, changes |-> {}, itemIds |-> {},
              numCompletedChanges |-> 0, rolledback |-> FALSE,
              transactionCompleted |-> FALSE]
Deleted   == [Operation EXCEPT !.alive = FALSE]

ChangeTypes ==
  [type : {"none", "refused", "create", "modify", "delete"},
   item : Items \cup {NoItem}, atomicOperationId : 0 .. MaxOperations,
   queuedModification : BOOLEAN, completed : BOOLEAN, aborted : BOOLEAN,
   resultCode : Codes]
OperationTypes ==
  [alive : BOOLEAN, endCalled : BOOLEAN, changes : SUBSET Changes,
   itemIds : SUBSET Items, numCompletedChanges : Nat, rolledback : BOOLEAN,
   transactionCompleted : BOOLEAN]
JobStates == {"none", "running", "succeeded", "failed", "aborted"}

OperationsTypeOK ==
  /\ mLatestAtomicOperationId \in 0 .. MaxOperations
  /\ mBatchOperationInProgress \in BOOLEAN
  /\ mAtomicOperations \in [Operations -> OperationTypes]
  /\ transaction \in
       [Operations -> {"none", "running", "failing", "finished", "freed"}]

TypeOK ==
  /\ OperationsTypeOK
  /\ mLatestChangeId \in 0 .. MaxChanges
  /\ changes \in [Changes -> ChangeTypes]
  /\ \A c \in Changes : changes[c].type = "modify" => changes[c].item \in Items
  /\ mChangeById \in SUBSET Changes
  /\ mChangeForJob \in [Changes -> JobStates]
  /\ mQueuedModifications \in [Items -> Changes \cup {NoChange}]
  /\ mModificationsInProgress \in [Items -> Changes \cup {NoChange}]
  /\ mDeletedItemIds \in SUBSET Items
  /\ nextPosted \in SUBSET Items
  /\ calling \in BOOLEAN
  /\ answers \in [Changes -> SUBSET Codes]
  /\ applied \in SUBSET Changes
  /\ crashed \in BOOLEAN

Init ==
  /\ mLatestChangeId = 0
  /\ changes = [c \in Changes |-> NotConstructed]
  /\ mChangeById = {}
  /\ mChangeForJob = [c \in Changes |-> "none"]
  /\ mQueuedModifications = [i \in Items |-> NoChange]
  /\ mModificationsInProgress = [i \in Items |-> NoChange]
  /\ mDeletedItemIds = {}
  /\ nextPosted = {}
  /\ mLatestAtomicOperationId = 0
  /\ mBatchOperationInProgress = FALSE
  /\ mAtomicOperations = [o \in Operations |-> Deleted]
  /\ transaction = [o \in Operations |-> "none"]
  /\ calling = FALSE
  /\ answers = [c \in Changes |-> {}]
  /\ applied = {}
  /\ crashed = FALSE

-----------------------------------------------------------------------------
(* Ownership of a change, and the signal of its destructor.                *)

Held(c) ==
  \/ c \in mChangeById
  \/ mChangeForJob[c] # "none"
  \/ \E i \in Items : c \in {mQueuedModifications[i], mModificationsInProgress[i]}
  \/ \E o \in Operations : c \in mAtomicOperations[o].changes

Destroyed(c) ==
  /\ ~Held(c)'
  /\ Held(c) \/ (changes[c].type = "none" /\ changes'[c].type # "none")

\* Every step: the signals its handler emits by hand, a set of <<change, code>>,
\* and those of the destructors.
Signals(emitted) ==
  answers' = [c \in Changes |->
                answers[c] \cup {code \in Codes : <<c, code>> \in emitted}
                \cup (IF Destroyed(c) THEN {changes'[c].resultCode} ELSE {})]

-----------------------------------------------------------------------------
(* The AtomicOperation object.                                             *)

Latest == mAtomicOperations[mLatestAtomicOperationId]

\* Mutant of PendingJobs: one job too few is waited for.
PendingJobsButOne(op) == Cardinality(op.changes) > op.numCompletedChanges + 1

PendingJobs(op) == Cardinality(op.changes) > op.numCompletedChanges

\* Mutant of Outcome: the results stay as the jobs gave them.
OutcomeKept(ch) == ch

\* ~AtomicOperation() of an operation that was rolled back.
Outcome(ch) ==
  IF ch.completed /\ (ch.resultCode = "Success" \/ (ch.resultCode = "JobError" /\ ch.aborted))
  THEN [ch EXCEPT !.resultCode = "Rolledback"] ELSE ch

\* Mutant of DeleteOperation: the batch stays in progress.
DeleteOperationOnly(o, chs, rolledback) ==
  /\ mAtomicOperations' = [mAtomicOperations EXCEPT ![o] = Deleted]
  /\ UNCHANGED mBatchOperationInProgress
  /\ changes' = [c \in Changes |->
                   IF rolledback /\ c \in mAtomicOperations[o].changes
                   THEN Outcome(chs[c]) ELSE chs[c]]

\* delete mAtomicOperations.take(o).  `chs` are the changes as the handler left them.
DeleteOperation(o, chs, rolledback) ==
  /\ mAtomicOperations' = [mAtomicOperations EXCEPT ![o] = Deleted]
  /\ mBatchOperationInProgress' = FALSE
  /\ changes' = [c \in Changes |->
                   IF rolledback /\ c \in mAtomicOperations[o].changes
                   THEN Outcome(chs[c]) ELSE chs[c]]

\* handleTransactionJobResult().
HandleTransactionJobResult(o, error, chs) ==
  LET op == [mAtomicOperations[o] EXCEPT !.rolledback = @ \/ error]
  IN  \/ /\ ~PendingJobs(op) /\ op.endCalled
         /\ DeleteOperation(o, chs, op.rolledback)
      \/ /\ PendingJobs(op) \/ ~op.endCalled
         /\ mAtomicOperations' =
              [mAtomicOperations EXCEPT ![o] = [op EXCEPT !.transactionCompleted = TRUE]]
         /\ UNCHANGED mBatchOperationInProgress
         /\ changes' = chs

\* A change whose job belongs to the transaction of o.
InTransaction(c, o) ==
  c \in mAtomicOperations[o].changes /\ ~changes[c].queuedModification

\* External: the jobs of a transaction that have not run are killed.
Aborted(o) ==
  [c \in Changes |-> IF InTransaction(c, o) /\ mChangeForJob[c] = "running"
                     THEN "aborted" ELSE mChangeForJob[c]]

\* cancelTransaction(), that is AtomicOperation::setRolledback().  A transaction
\* without jobs ends at once, its result handled before rollback() returns; one
\* with jobs takes its time; one that ended in an earlier turn was freed.
CancelTransaction(chs) ==
  LET o == mLatestAtomicOperationId
      rolledBack == [mAtomicOperations EXCEPT ![o].rolledback = TRUE]
  IN  /\ UNCHANGED mLatestAtomicOperationId
      /\ \/ /\ ~mBatchOperationInProgress
            /\ UNCHANGED <<mBatchOperationInProgress, mAtomicOperations, transaction,
                           mChangeForJob, crashed>>
            /\ changes' = chs
         \/ /\ mBatchOperationInProgress /\ transaction[o] = "none"
            /\ transaction' = [transaction EXCEPT ![o] = IF calling THEN "finished" ELSE "freed"]
            /\ HandleTransactionJobResult(o, TRUE, chs)
            /\ UNCHANGED <<mChangeForJob, crashed>>
         \/ /\ mBatchOperationInProgress /\ transaction[o] = "running"
            /\ transaction' = [transaction EXCEPT ![o] = "failing"]
            /\ mAtomicOperations' = rolledBack
            /\ mChangeForJob' = Aborted(o)
            /\ UNCHANGED <<mBatchOperationInProgress, crashed>>
            /\ changes' = chs
         \/ /\ mBatchOperationInProgress /\ transaction[o] \in {"failing", "finished"}
            /\ mAtomicOperations' = rolledBack
            /\ UNCHANGED <<mBatchOperationInProgress, transaction, mChangeForJob, crashed>>
            /\ changes' = chs
         \/ /\ mBatchOperationInProgress /\ transaction[o] = "freed"
            /\ mAtomicOperations' = rolledBack
            /\ crashed' = TRUE
            /\ UNCHANGED <<mBatchOperationInProgress, transaction, mChangeForJob>>
            /\ changes' = chs

\* cleanupTransaction(), called when the batch is known to be rolled back.
CleanupTransaction(chs) ==
  /\ UNCHANGED <<mLatestAtomicOperationId, transaction, mChangeForJob, crashed>>
  /\ \/ /\ ~PendingJobs(Latest) /\ Latest.endCalled /\ Latest.transactionCompleted
        /\ DeleteOperation(mLatestAtomicOperationId, chs, Latest.rolledback)
     \/ /\ PendingJobs(Latest) \/ ~Latest.endCalled \/ ~Latest.transactionCompleted
        /\ UNCHANGED <<mBatchOperationInProgress, mAtomicOperations>>
        /\ changes' = chs

-----------------------------------------------------------------------------
(* startAtomicOperation(), endAtomicOperation().                           *)

\* A batch that is still in progress, an empty one that was ended, is joined.
StartAtomicOperation ==
  /\ ~calling
  /\ calling' = TRUE
  /\ \/ /\ mBatchOperationInProgress
        /\ UNCHANGED operationVars
     \/ /\ ~mBatchOperationInProgress
        /\ mLatestAtomicOperationId < MaxOperations
        /\ mLatestAtomicOperationId' = mLatestAtomicOperationId + 1
        /\ mBatchOperationInProgress' = TRUE
        /\ mAtomicOperations' =
             [mAtomicOperations EXCEPT ![mLatestAtomicOperationId + 1] = Operation]
        /\ UNCHANGED transaction
  /\ UNCHANGED <<pipelineVars, changes, mChangeForJob, answers, applied, crashed>>

\* What was deleted later is freed when the caller returns to the event loop.
Freed == [o \in Operations |-> IF transaction[o] = "finished" THEN "freed" ELSE transaction[o]]

EndAtomicOperation ==
  /\ calling
  /\ calling' = FALSE
  /\ transaction' = Freed
  /\ \/ /\ ~mBatchOperationInProgress
        /\ UNCHANGED <<mBatchOperationInProgress, mAtomicOperations, changes>>
     \/ /\ mBatchOperationInProgress
        /\ ~PendingJobs(Latest) /\ Latest.rolledback /\ Latest.transactionCompleted
        /\ DeleteOperation(mLatestAtomicOperationId, changes, TRUE)
     \/ /\ mBatchOperationInProgress
        /\ PendingJobs(Latest) \/ ~Latest.rolledback \/ ~Latest.transactionCompleted
        /\ mAtomicOperations' =
             [mAtomicOperations EXCEPT ![mLatestAtomicOperationId].endCalled = TRUE]
        /\ UNCHANGED <<mBatchOperationInProgress, changes>>
  /\ UNCHANGED <<pipelineVars, mLatestAtomicOperationId, mChangeForJob, applied, crashed>>
  /\ Signals({})

-----------------------------------------------------------------------------
(* The calls that make changes.                                            *)

CurrentOperation ==
  IF mBatchOperationInProgress THEN mLatestAtomicOperationId ELSE NoOperation

RolledBack == mBatchOperationInProgress /\ Latest.rolledback

\* The next change id.
NewId(c) == c = mLatestChangeId + 1 /\ c \in Changes /\ mLatestChangeId' = c

With(c, ch) == [changes EXCEPT ![c] = ch]

DeleteAlreadyCalled(i) == i \in mDeletedItemIds

\* AtomicOperation::addChange().
AddChange(op, c, items) == [op EXCEPT !.changes = @ \cup {c}, !.itemIds = @ \cup items]
Added(o, c, items) ==
  [p \in Operations |-> IF p = o THEN AddChange(mAtomicOperations[o], c, items)
                        ELSE mAtomicOperations[p]]

\* parentJob() and addChange(): the job of c becomes one of the transaction's.
JoinOperation(c, items) ==
  LET o == mLatestAtomicOperationId
  IN  /\ UNCHANGED <<mLatestAtomicOperationId, mBatchOperationInProgress>>
      /\ \/ /\ ~mBatchOperationInProgress
            /\ UNCHANGED <<mAtomicOperations, transaction, crashed>>
         \/ /\ mBatchOperationInProgress /\ transaction[o] \in {"none", "running"}
            /\ transaction' = [transaction EXCEPT ![o] = "running"]
            /\ mAtomicOperations' = Added(o, c, items)
            /\ UNCHANGED crashed
         \/ /\ mBatchOperationInProgress /\ transaction[o] = "freed"
            /\ crashed' = TRUE
            /\ UNCHANGED <<mAtomicOperations, transaction>>

\* Invalid arguments: the call returns -1.
CallInvalid ==
  /\ CancelTransaction(changes)
  /\ UNCHANGED pipelineVars
  /\ Signals({})

\* A creation or a deletion that is refused: the Change is destroyed, and answered,
\* when the call returns.
Refused(code) == Change("refused", NoItem, CurrentOperation, code)

\* createFromItem(), deleteIncidences() in a batch that was rolled back.
CallRolledBack(c) ==
  /\ RolledBack
  /\ NewId(c)
  /\ CleanupTransaction(With(c, Refused("Rolledback")))
  /\ UNCHANGED <<mChangeById, mQueuedModifications, mModificationsInProgress,
                 mDeletedItemIds, nextPosted>>
  /\ Signals({})

\* A creation (not in a batch that was rolled back) or a deletion without the
\* rights, a deletion of what was deleted already.
CallRefused(c) ==
  /\ NewId(c)
  /\ \/ CancelTransaction(With(c, Refused("Permissions")))
     \/ /\ ~RolledBack /\ mDeletedItemIds # {}
        /\ CancelTransaction(With(c, Refused("AlreadyDeleted")))
  /\ UNCHANGED <<mChangeById, mQueuedModifications, mModificationsInProgress,
                 mDeletedItemIds, nextPosted>>
  /\ Signals({})

\* step2CreateIncidence().
Create(c) ==
  /\ ~RolledBack
  /\ NewId(c)
  /\ changes' = With(c, Change("create", NoItem, CurrentOperation, "Success"))
  /\ mChangeForJob' = [mChangeForJob EXCEPT ![c] = "running"]
  /\ JoinOperation(c, {})
  /\ mChangeById' = mChangeById \cup {c}
  /\ UNCHANGED <<mQueuedModifications, mModificationsInProgress, mDeletedItemIds, nextPosted>>
  /\ Signals({})

\* deleteIncidences() of one item, and deleteIncidences2().  The items of a
\* deletion are known to no AtomicOperation: mItemIds is filled by its job's handler.
Delete(c) ==
  \E i \in Items :
    /\ ~RolledBack
    /\ ~DeleteAlreadyCalled(i)
    /\ NewId(c)
    /\ changes' = With(c, Change("delete", i, CurrentOperation, "Success"))
    /\ mChangeForJob' = [mChangeForJob EXCEPT ![c] = "running"]
    /\ JoinOperation(c, {})
    /\ mChangeById' = mChangeById \cup {c}
    /\ mDeletedItemIds' = mDeletedItemIds \cup {i}
    /\ UNCHANGED <<mQueuedModifications, mModificationsInProgress, nextPosted>>
    /\ Signals({})

\* modifyIncidence() without the rights: no Change is constructed.
ModifyRefused(c) ==
  /\ NewId(c)
  /\ CancelTransaction(changes)
  /\ UNCHANGED <<mChangeById, mQueuedModifications, mModificationsInProgress,
                 mDeletedItemIds, nextPosted>>
  /\ Signals({<<c, "Permissions">>})

Duplicate(i) == mBatchOperationInProgress /\ i \in Latest.itemIds

\* ... an item that is in the batch: nobody answers, the change stays in mChangeById.
ModifyDuplicate(c, i) ==
  /\ Duplicate(i)
  /\ CancelTransaction(With(c, Change("modify", i, CurrentOperation, "DuplicateId")))
  /\ UNCHANGED <<mQueuedModifications, mModificationsInProgress>>
  /\ mChangeById' = mChangeById \cup {c}
  /\ Signals({})

\* ... in a batch that was rolled back.
ModifyRolledBack(c, i) ==
  /\ ~Duplicate(i) /\ RolledBack
  /\ CleanupTransaction(With(c, Change("modify", i, CurrentOperation, "Success")))
  /\ UNCHANGED <<mQueuedModifications, mModificationsInProgress>>
  /\ mChangeById' = mChangeById \cup {c}
  /\ Signals({<<c, "Rolledback">>})

\* ... performModification() of an item deleted already: the batch goes on.
ModifyDeleted(c, i) ==
  /\ ~Duplicate(i) /\ ~RolledBack
  /\ DeleteAlreadyCalled(i)
  /\ changes' = With(c, Change("modify", i, CurrentOperation, "Success"))
  /\ UNCHANGED <<mChangeForJob, mQueuedModifications, mModificationsInProgress,
                 operationVars, crashed>>
  /\ mChangeById' = mChangeById \cup {c}
  /\ Signals({<<c, "AlreadyDeleted">>})

\* ... with an ItemModifyJob of the item under way: queueModification().
ModifyQueued(c, i) ==
  LET discarded == mQueuedModifications[i]
  IN  /\ ~Duplicate(i) /\ ~RolledBack
      /\ ~DeleteAlreadyCalled(i)
      /\ mModificationsInProgress[i] # NoChange
      /\ mQueuedModifications' = [mQueuedModifications EXCEPT ![i] = c]
      /\ changes' =
           [x \in Changes |->
              IF x = c THEN [Change("modify", i, CurrentOperation, "Success")
                               EXCEPT !.queuedModification = TRUE]
              ELSE IF x = discarded
                   THEN [changes[x] EXCEPT !.resultCode = "ModificationDiscarded",
                                           !.completed = TRUE]
                   ELSE changes[x]]
      /\ UNCHANGED <<mChangeForJob, mModificationsInProgress, operationVars, crashed>>
      /\ mChangeById' = (mChangeById \cup {c}) \ {discarded}
      /\ Signals({})

\* ... and otherwise: its ItemModifyJob starts.
ModifyStarted(c, i) ==
  /\ ~Duplicate(i) /\ ~RolledBack
  /\ ~DeleteAlreadyCalled(i)
  /\ mModificationsInProgress[i] = NoChange
  /\ changes' = With(c, Change("modify", i, CurrentOperation, "Success"))
  /\ mChangeForJob' = [mChangeForJob EXCEPT ![c] = "running"]
  /\ JoinOperation(c, {i})
  /\ mModificationsInProgress' = [mModificationsInProgress EXCEPT ![i] = c]
  /\ UNCHANGED mQueuedModifications
  /\ mChangeById' = mChangeById \cup {c}
  /\ Signals({})

Modify(c) ==
  /\ NewId(c)
  /\ UNCHANGED <<mDeletedItemIds, nextPosted>>
  /\ \E i \in Items :
       /\ \/ ModifyDuplicate(c, i) \/ ModifyRolledBack(c, i) \/ ModifyDeleted(c, i)
          \/ ModifyQueued(c, i) \/ ModifyStarted(c, i)

-----------------------------------------------------------------------------
(* The handlers of job results, and what they post.                        *)

\* Mutant of Counted: only a success is counted.
CountedIfSuccess(c) ==
  [o \in Operations |->
     IF o = changes[c].atomicOperationId /\ mChangeForJob[c] = "succeeded"
     THEN [mAtomicOperations[o] EXCEPT !.numCompletedChanges = @ + 1]
     ELSE mAtomicOperations[o]]

\* ++m_numCompletedChanges of the operation of c.
Counted(c) ==
  [o \in Operations |->
     IF o = changes[c].atomicOperationId
     THEN [mAtomicOperations[o] EXCEPT !.numCompletedChanges = @ + 1]
     ELSE mAtomicOperations[o]]

\* The change with what the handler stores in it.
Result(c, code) ==
  [changes[c] EXCEPT !.resultCode = code,
                     !.completed = @ \/ changes[c].atomicOperationId # NoOperation,
                     !.aborted = mChangeForJob[c] = "aborted"]

Take(c) == mChangeForJob' = [mChangeForJob EXCEPT ![c] = "none"]
Failed(c) == mChangeForJob[c] \in {"failed", "aborted"}

\* handleCreateJobResult().  The error branch neither counts nor completes.
HandleCreateJobResult(c) ==
  /\ changes[c].type = "create"
  /\ Take(c)
  /\ mChangeById' = mChangeById \ {c}
  /\ \/ /\ mChangeForJob[c] = "succeeded"
        /\ mAtomicOperations' = Counted(c)
        /\ changes' = With(c, Result(c, "Success"))
     \/ /\ Failed(c)
        /\ UNCHANGED mAtomicOperations
        /\ changes' = With(c, [changes[c] EXCEPT !.resultCode = "JobError",
                                                 !.aborted = mChangeForJob[c] = "aborted"])
  /\ UNCHANGED <<mDeletedItemIds, nextPosted>>
  /\ Signals({})

\* handleModifyJobResult(), with the posted call of performNextModification().
HandleModifyJobResult(c) ==
  /\ changes[c].type = "modify"
  /\ Take(c)
  /\ mChangeById' = mChangeById \ {c}
  /\ mAtomicOperations' = Counted(c)
  /\ \/ /\ mChangeForJob[c] = "succeeded"
        /\ changes' = With(c, Result(c, "Success"))
     \/ /\ Failed(c) /\ DeleteAlreadyCalled(changes[c].item)
        /\ changes' = With(c, Result(c, "AlreadyDeleted"))
     \/ /\ Failed(c) /\ ~DeleteAlreadyCalled(changes[c].item)
        /\ changes' = With(c, Result(c, "JobError"))
  /\ nextPosted' = nextPosted \cup {changes[c].item}
  /\ UNCHANGED mDeletedItemIds
  /\ Signals({})

\* handleDeleteJobResult().  A failure is answered by hand.
HandleDeleteJobResult(c) ==
  /\ changes[c].type = "delete"
  /\ Take(c)
  /\ mChangeById' = mChangeById \ {c}
  /\ mAtomicOperations' = Counted(c)
  /\ UNCHANGED nextPosted
  /\ \/ /\ mChangeForJob[c] = "succeeded"
        /\ changes' = With(c, Result(c, "Success"))
        /\ UNCHANGED mDeletedItemIds
        /\ Signals({})
     \/ /\ Failed(c)
        /\ changes' = With(c, Result(c, "JobError"))
        /\ mDeletedItemIds' = mDeletedItemIds \ {changes[c].item}
        /\ Signals({<<c, "JobError">>})

HandleJobResult(c) ==
  /\ mChangeForJob[c] \in {"succeeded", "failed", "aborted"}
  /\ UNCHANGED <<mLatestChangeId, mQueuedModifications, mModificationsInProgress,
                 mLatestAtomicOperationId, mBatchOperationInProgress, transaction,
                 calling, applied, crashed>>
  /\ HandleCreateJobResult(c) \/ HandleModifyJobResult(c) \/ HandleDeleteJobResult(c)

\* performNextModification() and performModification() of a change that waited.
\* Its job has no parent: it is not part of the transaction.
PerformNextModification(i) ==
  LET c == mQueuedModifications[i]
      o == changes[c].atomicOperationId
      Answered(code) ==
        /\ mModificationsInProgress' = [mModificationsInProgress EXCEPT ![i] = NoChange]
        /\ UNCHANGED <<mChangeForJob, mAtomicOperations, crashed>>
        /\ Signals({<<c, code>>})
      Started ==
        /\ mModificationsInProgress' = [mModificationsInProgress EXCEPT ![i] = c]
        /\ mChangeForJob' = [mChangeForJob EXCEPT ![c] = "running"]
        /\ UNCHANGED crashed
        /\ Signals({})
  IN  /\ i \in nextPosted
      /\ nextPosted' = nextPosted \ {i}
      /\ mQueuedModifications' = [mQueuedModifications EXCEPT ![i] = NoChange]
      /\ UNCHANGED <<mLatestChangeId, mChangeById, mDeletedItemIds, changes,
                     mLatestAtomicOperationId, mBatchOperationInProgress, transaction,
                     calling, applied>>
      /\ \/ /\ c = NoChange
            /\ mModificationsInProgress' = [mModificationsInProgress EXCEPT ![i] = NoChange]
            /\ UNCHANGED <<mChangeForJob, mAtomicOperations, crashed>>
            /\ Signals({})
         \/ /\ c # NoChange
            /\ DeleteAlreadyCalled(i)
            /\ Answered("AlreadyDeleted")
         \/ /\ c # NoChange
            /\ ~DeleteAlreadyCalled(i)
            /\ \/ o = NoOperation /\ UNCHANGED mAtomicOperations /\ Started
               \/ /\ o # NoOperation /\ mAtomicOperations[o].rolledback
                  /\ Answered("Rolledback")
               \/ /\ o # NoOperation
                  /\ mAtomicOperations[o].alive /\ ~mAtomicOperations[o].rolledback
                  /\ mAtomicOperations' = Added(o, c, {i})
                  /\ Started
               \/ /\ o # NoOperation /\ ~mAtomicOperations[o].alive
                  /\ crashed' = TRUE
                  /\ UNCHANGED <<mModificationsInProgress, mChangeForJob,
                                 mAtomicOperations, answers>>

-----------------------------------------------------------------------------
(* External: the Akonadi server and the transactions.                      *)

\* A job that fails takes its transaction with it.
JobEnds(c) ==
  /\ mChangeForJob[c] = "running"
  /\ UNCHANGED <<pipelineVars, changes, mLatestAtomicOperationId,
                 mBatchOperationInProgress, mAtomicOperations, calling, answers, crashed>>
  /\ \/ /\ mChangeForJob' = [mChangeForJob EXCEPT ![c] = "succeeded"]
        /\ applied' = IF \E o \in Operations : InTransaction(c, o) THEN applied
                      ELSE applied \cup {c}
        /\ UNCHANGED transaction
     \/ /\ ~\E o \in Operations : InTransaction(c, o)
        /\ mChangeForJob' = [mChangeForJob EXCEPT ![c] = "failed"]
        /\ UNCHANGED <<transaction, applied>>
     \/ \E o \in Operations :
          /\ InTransaction(c, o)
          /\ mChangeForJob' = [Aborted(o) EXCEPT ![c] = "failed"]
          /\ transaction' = [transaction EXCEPT ![o] = IF @ = "running" THEN "failing" ELSE @]
          /\ UNCHANGED applied

JobsHandled(o) == \A c \in Changes : InTransaction(c, o) => mChangeForJob[c] = "none"

\* The result of the transaction, its handler called directly.
TransactionEnds(o) ==
  /\ JobsHandled(o)
  /\ transaction' = [transaction EXCEPT ![o] = "freed"]
  /\ \/ /\ transaction[o] = "running"
        /\ applied' = applied \cup {c \in Changes : InTransaction(c, o)}
        /\ HandleTransactionJobResult(o, FALSE, changes)
     \/ /\ transaction[o] \in {"running", "failing"}
        /\ UNCHANGED applied
        /\ HandleTransactionJobResult(o, TRUE, changes)
  /\ UNCHANGED <<pipelineVars, mLatestAtomicOperationId, mChangeForJob, calling, crashed>>
  /\ Signals({})

-----------------------------------------------------------------------------
\* What Akonadi does with a job that joins a transaction already committing or
\* rolling back is not known here: such calls are left out.
Caller ==
  /\ mBatchOperationInProgress /\ ~calling =>
       transaction[mLatestAtomicOperationId] \in {"none", "freed"}
  /\ \/ StartAtomicOperation
     \/ /\ UNCHANGED <<calling, applied>>
        /\ \/ CallInvalid
           \/ \E c \in Changes :
                \/ CallRolledBack(c) \/ CallRefused(c) \/ Create(c) \/ Delete(c)
                \/ ModifyRefused(c) \/ Modify(c)

EventLoop ==
  /\ ~calling
  /\ \/ \E c \in Changes : HandleJobResult(c) \/ JobEnds(c)
     \/ \E i \in Items : PerformNextModification(i)
     \/ \E o \in Operations : TransactionEnds(o)

Next == ~crashed /\ (Caller \/ EndAtomicOperation \/ EventLoop)

Spec == Init /\ [][Next]_vars

\* The caller returns; the server ends every job and transaction; the event loop
\* delivers every result and posted call.
Fairness ==
  /\ WF_vars(~crashed /\ EndAtomicOperation)
  /\ \A c \in Changes : WF_vars(~crashed /\ ~calling /\ JobEnds(c))
  /\ \A c \in Changes : WF_vars(~crashed /\ ~calling /\ HandleJobResult(c))
  /\ \A i \in Items : WF_vars(~crashed /\ ~calling /\ PerformNextModification(i))
  /\ \A o \in Operations : WF_vars(~crashed /\ ~calling /\ TransactionEnds(o))

FairSpec == Spec /\ Fairness

-----------------------------------------------------------------------------
(* Properties.                                                             *)

\* mBatchOperationInProgress tells that there is an AtomicOperation object, and it
\* is the latest: every `mAtomicOperations[mLatestAtomicOperationId]` behind that
\* flag finds one.  A transaction that can still return belongs to that object, and
\* its result has not been handled.
OneOperation ==
  /\ mBatchOperationInProgress => mLatestAtomicOperationId \in Operations
  /\ \A o \in Operations :
       /\ mAtomicOperations[o].alive <=>
            mBatchOperationInProgress /\ o = mLatestAtomicOperationId
       /\ transaction[o] \in {"running", "failing"} => mAtomicOperations[o].alive
       /\ transaction[o] \in {"none", "running", "failing"} =>
            ~mAtomicOperations[o].transactionCompleted

\* The handler of a job result dereferences the operation of its change: the
\* object lives until all its jobs have been handled.
OperationOutlivesItsJobs ==
  /\ TypeOK
  /\ \A c \in Changes :
       mChangeForJob[c] # "none" /\ changes[c].atomicOperationId # NoOperation =>
         mAtomicOperations[changes[c].atomicOperationId].alive

\* incidencechanger.h: "If one change belonging to a batch operation fails, all
\* other changes are rolled back", for the failures that the code takes for one.
Fails(c) == changes[c].resultCode \in {"JobError", "Permissions", "DuplicateId", "Rolledback"}
AllOrNothing ==
  ~crashed => \A c, d \in Changes :
    /\ changes[c].atomicOperationId # NoOperation
    /\ changes[c].atomicOperationId = changes[d].atomicOperationId
    /\ ~changes[c].queuedModification /\ ~changes[d].queuedModification
    /\ Fails(c)
    => d \notin applied

\* The answers of a batch are only given when its fate is known, and tell it: a
\* success was kept by the server, anything else was not.  (A modification that
\* waited is not part of the transaction.)  And it is the same for all of them.
AnswersTellTheFate ==
  /\ AllOrNothing
  /\ \A c \in Changes : \A code \in answers[c] :
    ~changes[c].queuedModification => (code = "Success" <=> c \in applied)

\* An ended batch that has a transaction goes away, and with it its changes are
\* answered.
BatchUnderWay(o) == mAtomicOperations[o].endCalled /\ transaction[o] # "none"
EveryBatchEnds ==
  \A o \in Operations :
    BatchUnderWay(o) ~> ~mAtomicOperations[o].alive \/ crashed

\* ... unless it holds a change that nobody counts: a creation that failed, or a
\* modification that waited and came back after the transaction.
Uncounted(o) ==
  \E c \in mAtomicOperations[o].changes :
    \/ changes[c].queuedModification
    \/ changes[c].type = "create" /\ mChangeForJob[c] = "none" /\ ~changes[c].completed
CountedBatchEnds ==
  \A o \in Operations :
    BatchUnderWay(o) ~> ~mAtomicOperations[o].alive \/ Uncounted(o) \/ crashed
=============================================================================
