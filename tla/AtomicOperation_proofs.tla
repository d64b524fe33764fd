----------------------- MODULE AtomicOperation_proofs -----------------------
(***************************************************************************)
(* Proofs about AtomicOperation, for every set of items and every bound:   *)
(* its types, that there is one operation at a time, that an               *)
(* AtomicOperation lives until its jobs have been handled, and that the    *)
(* finished signals of a batch tell its fate.                              *)
(***************************************************************************)
EXTENDS AtomicOperation, FiniteSetTheorems, TLAPS

\* Changes as the handlers leave them: modifications name an item.
ChangesTypeOK(chs) ==
  /\ chs \in [Changes -> ChangeTypes]
  /\ \A c \in Changes : chs[c].type = "modify" => chs[c].item \in Items

\* The part of the invariant that the operation's operators disturb.
OperationsInv == OperationsTypeOK /\ OneOperation

\* The types of what is left.
PipelineTypeOK ==
  /\ mLatestChangeId \in 0 .. MaxChanges
  /\ mChangeById \in SUBSET Changes
  /\ mQueuedModifications \in [Items -> Changes \cup {NoChange}]
  /\ mModificationsInProgress \in [Items -> Changes \cup {NoChange}]
  /\ mDeletedItemIds \in SUBSET Items
  /\ nextPosted \in SUBSET Items
RestTypeOK ==
  /\ mChangeForJob \in [Changes -> JobStates]
  /\ calling \in BOOLEAN
  /\ answers \in [Changes -> SUBSET Codes]
  /\ applied \in SUBSET Changes
  /\ crashed \in BOOLEAN

\* What the proof carries, TypeOK /\ OneOperation: neither half is inductive alone,
\* since OneOperation needs the types of the flags and TypeOK needs the latest id to
\* be one of Operations.
IInv == OperationsInv /\ ChangesTypeOK(changes) /\ PipelineTypeOK /\ RestTypeOK

LEMMA ChangeType ==
  ASSUME NEW type \in {"refused", "create", "modify", "delete"},
         NEW item \in Items \cup {NoItem}, NEW op \in 0 .. MaxOperations,
         NEW code \in Codes
  PROVE  /\ Change(type, item, op, code) \in ChangeTypes
         /\ Change(type, item, op, code).type = type
         /\ Change(type, item, op, code).item = item
BY DEF Change, ChangeTypes

LEMMA WithType ==
  ASSUME ChangesTypeOK(changes), NEW c \in Changes, NEW ch \in ChangeTypes,
         ch.type = "modify" => ch.item \in Items
  PROVE  ChangesTypeOK(With(c, ch))
BY DEF With, ChangesTypeOK

LEMMA OutcomeType ==
  ASSUME NEW ch \in ChangeTypes
  PROVE  Outcome(ch) \in ChangeTypes /\ Outcome(ch).type = ch.type /\ Outcome(ch).item = ch.item
<1>1. "Rolledback" \in Codes
  BY DEF Codes
<1> QED BY <1>1 DEF Outcome, ChangeTypes

LEMMA OutcomesType ==
  ASSUME NEW chs, ChangesTypeOK(chs), NEW S
  PROVE  ChangesTypeOK([c \in Changes |-> IF c \in S THEN Outcome(chs[c]) ELSE chs[c]])
BY OutcomeType DEF ChangesTypeOK

\* The fields of an AtomicOperation keep their types.
LEMMA OperationEdits ==
  ASSUME NEW op \in OperationTypes, NEW b \in BOOLEAN
  PROVE  /\ [op EXCEPT !.rolledback = b] \in OperationTypes
         /\ [op EXCEPT !.rolledback = b].alive = op.alive
         /\ [op EXCEPT !.rolledback = b].transactionCompleted = op.transactionCompleted
         /\ [op EXCEPT !.endCalled = b] \in OperationTypes
         /\ [op EXCEPT !.endCalled = b].alive = op.alive
         /\ [op EXCEPT !.endCalled = b].transactionCompleted = op.transactionCompleted
         /\ [op EXCEPT !.transactionCompleted = b] \in OperationTypes
         /\ [op EXCEPT !.transactionCompleted = b].alive = op.alive
BY DEF OperationTypes

LEMMA OperationCounts ==
  ASSUME NEW op \in OperationTypes
  PROVE  /\ [op EXCEPT !.numCompletedChanges = @ + 1] \in OperationTypes
         /\ [op EXCEPT !.numCompletedChanges = @ + 1].alive = op.alive
         /\ [op EXCEPT !.numCompletedChanges = @ + 1].transactionCompleted
              = op.transactionCompleted
BY DEF OperationTypes

LEMMA OperationAdds ==
  ASSUME NEW op \in OperationTypes, NEW c \in Changes, NEW items \in SUBSET Items
  PROVE  /\ AddChange(op, c, items) \in OperationTypes
         /\ AddChange(op, c, items).alive = op.alive
         /\ AddChange(op, c, items).transactionCompleted = op.transactionCompleted
<1> DEFINE with == [op EXCEPT !.changes = @ \cup {c}]
           both == [with EXCEPT !.itemIds = @ \cup items]
<1>1. /\ with \in OperationTypes /\ with.alive = op.alive
      /\ with.transactionCompleted = op.transactionCompleted
      /\ with.itemIds = op.itemIds
  BY DEF OperationTypes
<1> HIDE DEF with
<1>2. /\ both \in OperationTypes /\ both.alive = with.alive
      /\ both.transactionCompleted = with.transactionCompleted
  BY <1>1 DEF OperationTypes
<1>3. AddChange(op, c, items) = both
  BY <1>1 DEF AddChange, with
<1> QED BY <1>1, <1>2, <1>3

LEMMA NewOperations ==
  /\ Operation \in OperationTypes /\ Operation.alive /\ ~Operation.transactionCompleted
  /\ Deleted \in OperationTypes /\ ~Deleted.alive /\ ~Deleted.transactionCompleted
BY DEF Operation, Deleted, OperationTypes

\* An operation that is deleted has a transaction whose result is handled.
LEMMA DeleteOperationStep ==
  ASSUME OperationsInv, NEW chs, ChangesTypeOK(chs),
         NEW rolledback \in BOOLEAN, mBatchOperationInProgress,
         DeleteOperation(mLatestAtomicOperationId, chs, rolledback),
         UNCHANGED mLatestAtomicOperationId,
         transaction' \in [Operations -> {"none", "running", "failing", "finished", "freed"}],
         transaction'[mLatestAtomicOperationId] \in {"finished", "freed"},
         \A o \in Operations \ {mLatestAtomicOperationId} :
           transaction'[o] = transaction[o] \/ transaction'[o] = "freed"
  PROVE  OperationsInv' /\ ChangesTypeOK(changes')
<1>1. ChangesTypeOK(changes')
  <2> DEFINE S == IF rolledback THEN mAtomicOperations[mLatestAtomicOperationId].changes ELSE {}
  <2>1. changes' = [c \in Changes |-> IF c \in S THEN Outcome(chs[c]) ELSE chs[c]]
    BY DEF DeleteOperation
  <2> HIDE DEF S
  <2>2. ChangesTypeOK([c \in Changes |-> IF c \in S THEN Outcome(chs[c]) ELSE chs[c]])
    BY OutcomesType
  <2> QED BY <2>1, <2>2
<1>2. OperationsTypeOK'
  BY NewOperations DEF DeleteOperation, OperationsInv, OperationsTypeOK
<1>3. OneOperation'
  BY NewOperations DEF DeleteOperation, OperationsInv, OperationsTypeOK, OneOperation
<1> QED BY <1>1, <1>2, <1>3 DEF OperationsInv

\* The result of the transaction of the operation in progress is handled.
LEMMA TransactionJobResultStep ==
  ASSUME OperationsInv, NEW chs, ChangesTypeOK(chs),
         NEW error \in BOOLEAN, mBatchOperationInProgress,
         HandleTransactionJobResult(mLatestAtomicOperationId, error, chs),
         UNCHANGED mLatestAtomicOperationId,
         NEW status \in {"finished", "freed"},
         transaction' = [transaction EXCEPT ![mLatestAtomicOperationId] = status]
  PROVE  OperationsInv' /\ ChangesTypeOK(changes')
<1> DEFINE o == mLatestAtomicOperationId
           op == [mAtomicOperations[o] EXCEPT !.rolledback = @ \/ error]
<1>1. o \in Operations /\ mAtomicOperations[o] \in OperationTypes
  BY DEF OperationsInv, OperationsTypeOK, OneOperation
<1>2. /\ op \in OperationTypes /\ op.alive = mAtomicOperations[o].alive
      /\ op.rolledback \in BOOLEAN
  BY <1>1 DEF OperationTypes
<1>3. CASE DeleteOperation(o, chs, op.rolledback)
  BY <1>1, <1>2, <1>3, DeleteOperationStep DEF OperationsInv, OperationsTypeOK
<1>4. CASE /\ mAtomicOperations' =
                [mAtomicOperations EXCEPT ![o] = [op EXCEPT !.transactionCompleted = TRUE]]
           /\ UNCHANGED mBatchOperationInProgress
           /\ changes' = chs
  <2>1. /\ [op EXCEPT !.transactionCompleted = TRUE] \in OperationTypes
        /\ [op EXCEPT !.transactionCompleted = TRUE].alive = mAtomicOperations[o].alive
    BY <1>2, OperationEdits
  <2>2. OperationsTypeOK'
    BY <1>1, <1>4, <2>1 DEF OperationsInv, OperationsTypeOK
  <2>3. OneOperation'
    BY <1>1, <1>4, <2>1 DEF OperationsInv, OperationsTypeOK, OneOperation
  <2> QED BY <1>4, <2>2, <2>3 DEF OperationsInv
<1> QED BY <1>3, <1>4 DEF HandleTransactionJobResult

\* The operation is rolled back by one of its calls.
LEMMA RolledBackStep ==
  ASSUME OperationsInv, mBatchOperationInProgress,
         mAtomicOperations' =
           [mAtomicOperations EXCEPT ![mLatestAtomicOperationId].rolledback = TRUE],
         UNCHANGED <<mLatestAtomicOperationId, mBatchOperationInProgress>>,
         \/ UNCHANGED transaction
         \/ /\ transaction[mLatestAtomicOperationId] = "running"
            /\ transaction' = [transaction EXCEPT ![mLatestAtomicOperationId] = "failing"]
  PROVE  OperationsInv'
<1> DEFINE o == mLatestAtomicOperationId
           op == [mAtomicOperations[o] EXCEPT !.rolledback = TRUE]
<1>1. o \in Operations /\ mAtomicOperations[o] \in OperationTypes
  BY DEF OperationsInv, OperationsTypeOK, OneOperation
<1>2. /\ op \in OperationTypes /\ op.alive = mAtomicOperations[o].alive
      /\ op.transactionCompleted = mAtomicOperations[o].transactionCompleted
  BY <1>1, OperationEdits
<1>3. mAtomicOperations' = [mAtomicOperations EXCEPT ![o] = op]
  OBVIOUS
<1> HIDE DEF op
<1>4. OperationsTypeOK'
  BY <1>1, <1>2, <1>3 DEF OperationsInv, OperationsTypeOK
<1>5. OneOperation'
  BY <1>1, <1>2, <1>3 DEF OperationsInv, OperationsTypeOK, OneOperation
<1> QED BY <1>4, <1>5 DEF OperationsInv

LEMMA AbortedType ==
  ASSUME mChangeForJob \in [Changes -> JobStates], NEW o
  PROVE  Aborted(o) \in [Changes -> JobStates]
BY DEF Aborted, JobStates

LEMMA CancelTransactionStep ==
  ASSUME OperationsInv, NEW chs, ChangesTypeOK(chs), crashed \in BOOLEAN,
         mChangeForJob \in [Changes -> JobStates], CancelTransaction(chs)
  PROVE  /\ OperationsInv' /\ ChangesTypeOK(changes')
         /\ mChangeForJob' \in [Changes -> JobStates] /\ crashed' \in BOOLEAN
<1> DEFINE o == mLatestAtomicOperationId
<1>1. CASE ~mBatchOperationInProgress
  <2>1. UNCHANGED <<operationVars, mChangeForJob, crashed>> /\ changes' = chs
    BY <1>1 DEF CancelTransaction, operationVars
  <2> QED BY <2>1 DEF operationVars, OperationsInv, OperationsTypeOK, OneOperation
<1>2. CASE mBatchOperationInProgress /\ transaction[o] = "none"
  <2> DEFINE status == IF calling THEN "finished" ELSE "freed"
  <2>1. /\ transaction' = [transaction EXCEPT ![o] = status]
        /\ HandleTransactionJobResult(o, TRUE, chs)
        /\ UNCHANGED <<mLatestAtomicOperationId, mChangeForJob, crashed>>
    BY <1>2 DEF CancelTransaction
  <2>2. status \in {"finished", "freed"}
    OBVIOUS
  <2> HIDE DEF status
  <2>3. OperationsInv' /\ ChangesTypeOK(changes')
    BY <1>2, <2>1, <2>2, TransactionJobResultStep
  <2> QED BY <2>1, <2>3
<1>3. CASE mBatchOperationInProgress /\ transaction[o] # "none"
  <2>1. /\ mAtomicOperations' = [mAtomicOperations EXCEPT ![o].rolledback = TRUE]
        /\ UNCHANGED <<mLatestAtomicOperationId, mBatchOperationInProgress>>
        /\ \/ UNCHANGED transaction
           \/ /\ transaction[o] = "running"
              /\ transaction' = [transaction EXCEPT ![o] = "failing"]
        /\ changes' = chs
        /\ mChangeForJob' \in {mChangeForJob, Aborted(o)}
        /\ crashed' \in BOOLEAN
    BY <1>3 DEF CancelTransaction
  <2>2. OperationsInv'
    BY <1>3, <2>1, RolledBackStep
  <2> QED BY <2>1, <2>2, AbortedType
<1> QED BY <1>1, <1>2, <1>3

LEMMA CleanupTransactionStep ==
  ASSUME OperationsInv, NEW chs, ChangesTypeOK(chs), RolledBack, CleanupTransaction(chs)
  PROVE  OperationsInv' /\ ChangesTypeOK(changes')
<1> DEFINE o == mLatestAtomicOperationId
<1>1. /\ mBatchOperationInProgress /\ Latest.rolledback
      /\ UNCHANGED <<mLatestAtomicOperationId, transaction>>
      /\ o \in Operations
  BY DEF RolledBack, CleanupTransaction, OperationsInv, OneOperation
<1>2. CASE Latest.transactionCompleted /\ DeleteOperation(o, chs, Latest.rolledback)
  <2>1. transaction[o] \in {"finished", "freed"}
    BY <1>1, <1>2 DEF Latest, OperationsInv, OperationsTypeOK, OneOperation
  <2>2. Latest.rolledback \in BOOLEAN
    BY <1>1 DEF Latest, OperationsInv, OperationsTypeOK, OperationTypes
  <2>3. transaction' \in [Operations -> {"none", "running", "failing", "finished", "freed"}]
    BY <1>1 DEF OperationsInv, OperationsTypeOK
  <2> QED BY <1>1, <1>2, <2>1, <2>2, <2>3, DeleteOperationStep
<1>3. CASE UNCHANGED <<mBatchOperationInProgress, mAtomicOperations>> /\ changes' = chs
  BY <1>1, <1>3 DEF OperationsInv, OperationsTypeOK, OneOperation
<1> QED BY <1>2, <1>3 DEF CleanupTransaction

\* A job joins the transaction of the operation in progress.
LEMMA AddedStep ==
  ASSUME OperationsInv, NEW o \in Operations, NEW c \in Changes, NEW items \in SUBSET Items,
         mAtomicOperations' = Added(o, c, items),
         UNCHANGED <<mLatestAtomicOperationId, mBatchOperationInProgress>>,
         \/ UNCHANGED transaction
         \/ /\ o = mLatestAtomicOperationId /\ mBatchOperationInProgress
            /\ transaction[o] \in {"none", "running"}
            /\ transaction' = [transaction EXCEPT ![o] = "running"]
  PROVE  OperationsInv'
<1>1. \A p \in Operations :
        /\ mAtomicOperations'[p] \in OperationTypes
        /\ mAtomicOperations'[p].alive = mAtomicOperations[p].alive
        /\ mAtomicOperations'[p].transactionCompleted
             = mAtomicOperations[p].transactionCompleted
  BY OperationAdds DEF Added, OperationsInv, OperationsTypeOK
<1>2. OperationsTypeOK'
  BY <1>1 DEF Added, OperationsInv, OperationsTypeOK
<1>3. OneOperation'
  BY <1>1 DEF OperationsInv, OperationsTypeOK, OneOperation
<1> QED BY <1>2, <1>3 DEF OperationsInv

LEMMA JoinOperationStep ==
  ASSUME OperationsInv, NEW c \in Changes, NEW items \in SUBSET Items,
         crashed \in BOOLEAN, JoinOperation(c, items)
  PROVE  OperationsInv' /\ crashed' \in BOOLEAN
<1> DEFINE o == mLatestAtomicOperationId
<1>1. UNCHANGED <<mLatestAtomicOperationId, mBatchOperationInProgress>>
  BY DEF JoinOperation
<1>2. CASE UNCHANGED <<mAtomicOperations, transaction>> /\ crashed' \in BOOLEAN
  BY <1>1, <1>2 DEF OperationsInv, OperationsTypeOK, OneOperation
<1>3. CASE /\ mBatchOperationInProgress /\ transaction[o] \in {"none", "running"}
           /\ transaction' = [transaction EXCEPT ![o] = "running"]
           /\ mAtomicOperations' = Added(o, c, items)
           /\ UNCHANGED crashed
  <2>1. o \in Operations
    BY <1>3 DEF OperationsInv, OneOperation
  <2> QED BY <1>1, <1>3, <2>1, AddedStep
<1> QED BY <1>2, <1>3 DEF JoinOperation

\* A job that was handled is counted.
LEMMA CountedStep ==
  ASSUME OperationsInv, NEW c,
         mAtomicOperations' \in {mAtomicOperations, Counted(c)},
         UNCHANGED <<mLatestAtomicOperationId, mBatchOperationInProgress, transaction>>
  PROVE  OperationsInv'
<1>1. \A p \in Operations :
        /\ mAtomicOperations'[p] \in OperationTypes
        /\ mAtomicOperations'[p].alive = mAtomicOperations[p].alive
        /\ mAtomicOperations'[p].transactionCompleted
             = mAtomicOperations[p].transactionCompleted
  BY OperationCounts DEF Counted, OperationsInv, OperationsTypeOK
<1>2. OperationsTypeOK'
  BY <1>1 DEF Counted, OperationsInv, OperationsTypeOK
<1>3. OneOperation'
  BY <1>1 DEF OperationsInv, OperationsTypeOK, OneOperation
<1> QED BY <1>2, <1>3 DEF OperationsInv

-----------------------------------------------------------------------------
(* The actions.                                                            *)

LEMMA SignalsType ==
  ASSUME answers \in [Changes -> SUBSET Codes], ChangesTypeOK(changes'),
         NEW emitted, Signals(emitted)
  PROVE  answers' \in [Changes -> SUBSET Codes]
<1>1. \A c \in Changes : changes'[c].resultCode \in Codes
  BY DEF ChangesTypeOK, ChangeTypes
<1> QED BY <1>1 DEF Signals

\* The new changes.
LEMMA CurrentOperationType ==
  ASSUME OperationsInv
  PROVE  CurrentOperation \in 0 .. MaxOperations
BY ConstantsAssumption
DEF CurrentOperation, NoOperation, OperationsInv, OperationsTypeOK

LEMMA RefusedStep ==
  ASSUME IInv, NEW c \in Changes, NEW code \in Codes
  PROVE  ChangesTypeOK(With(c, Refused(code)))
<1>1. Refused(code) \in ChangeTypes /\ Refused(code).type = "refused"
  BY CurrentOperationType, ChangeType DEF Refused, IInv
<1> QED BY <1>1, WithType DEF IInv

LEMMA ConstructedStep ==
  ASSUME IInv, NEW c \in Changes, NEW code \in Codes, NEW i \in Items,
         NEW type \in {"modify", "delete"}
  PROVE  ChangesTypeOK(With(c, Change(type, i, CurrentOperation, code)))
<1>1. /\ Change(type, i, CurrentOperation, code) \in ChangeTypes
      /\ Change(type, i, CurrentOperation, code).item = i
  BY CurrentOperationType, ChangeType DEF IInv
<1> QED BY <1>1, WithType DEF IInv

LEMMA StartStep ==
  ASSUME IInv, StartAtomicOperation
  PROVE  IInv'
<1>1. OperationsInv'
  <2>1. CASE UNCHANGED operationVars
    BY <2>1 DEF operationVars, IInv, OperationsInv, OperationsTypeOK, OneOperation
  <2>2. CASE /\ ~mBatchOperationInProgress
             /\ mLatestAtomicOperationId < MaxOperations
             /\ mLatestAtomicOperationId' = mLatestAtomicOperationId + 1
             /\ mBatchOperationInProgress' = TRUE
             /\ mAtomicOperations' =
                  [mAtomicOperations EXCEPT ![mLatestAtomicOperationId + 1] = Operation]
             /\ UNCHANGED transaction
    <3>1. mLatestAtomicOperationId + 1 \in Operations
      BY <2>2, ConstantsAssumption DEF IInv, OperationsInv, OperationsTypeOK, Operations
    <3>2. OperationsTypeOK'
      BY <2>2, <3>1, NewOperations DEF IInv, OperationsInv, OperationsTypeOK, Operations
    <3>3. OneOperation'
      BY <2>2, <3>1, NewOperations DEF IInv, OperationsInv, OperationsTypeOK, OneOperation
    <3> QED BY <3>2, <3>3 DEF OperationsInv
  <2> QED BY <2>1, <2>2 DEF StartAtomicOperation
<1>2. ChangesTypeOK(changes') /\ PipelineTypeOK' /\ RestTypeOK'
  BY DEF StartAtomicOperation, pipelineVars, IInv, PipelineTypeOK, RestTypeOK
<1> QED BY <1>1, <1>2 DEF IInv

LEMMA EndStep ==
  ASSUME IInv, EndAtomicOperation
  PROVE  IInv'
<1> DEFINE o == mLatestAtomicOperationId
<1>1. /\ transaction' = Freed
      /\ transaction' \in [Operations -> {"none", "running", "failing", "finished", "freed"}]
      /\ \A p \in Operations :
           transaction'[p] = transaction[p]
             \/ (transaction[p] = "finished" /\ transaction'[p] = "freed")
  BY DEF EndAtomicOperation, Freed, IInv, OperationsInv, OperationsTypeOK
<1>2. UNCHANGED <<pipelineVars, mLatestAtomicOperationId, mChangeForJob, applied, crashed>>
      /\ calling' = FALSE /\ Signals({})
  BY DEF EndAtomicOperation
<1>3. OperationsInv' /\ ChangesTypeOK(changes')
  <2>1. CASE UNCHANGED <<mBatchOperationInProgress, mAtomicOperations, changes>>
    BY <1>1, <1>2, <2>1 DEF IInv, OperationsInv, OperationsTypeOK, OneOperation
  <2>2. CASE /\ mBatchOperationInProgress /\ Latest.transactionCompleted
             /\ DeleteOperation(o, changes, TRUE)
    <3>1. o \in Operations /\ transaction[o] \in {"finished", "freed"}
      BY <2>2 DEF Latest, IInv, OperationsInv, OperationsTypeOK, OneOperation
    <3>2. transaction'[o] \in {"finished", "freed"}
      BY <1>1, <3>1
    <3> QED BY <1>1, <1>2, <2>2, <3>2, DeleteOperationStep DEF IInv
  <2>3. CASE /\ mBatchOperationInProgress
             /\ mAtomicOperations' = [mAtomicOperations EXCEPT ![o].endCalled = TRUE]
             /\ UNCHANGED <<mBatchOperationInProgress, changes>>
    <3> DEFINE op == [mAtomicOperations[o] EXCEPT !.endCalled = TRUE]
    <3>1. o \in Operations /\ mAtomicOperations[o] \in OperationTypes
      BY <2>3 DEF IInv, OperationsInv, OperationsTypeOK, OneOperation
    <3>2. /\ op \in OperationTypes /\ op.alive = mAtomicOperations[o].alive
          /\ op.transactionCompleted = mAtomicOperations[o].transactionCompleted
      BY <3>1, OperationEdits
    <3>3. mAtomicOperations' = [mAtomicOperations EXCEPT ![o] = op]
      BY <2>3
    <3> HIDE DEF op
    <3>4. OperationsTypeOK'
      BY <1>1, <1>2, <2>3, <3>1, <3>2, <3>3 DEF IInv, OperationsInv, OperationsTypeOK
    <3>5. OneOperation'
      BY <1>1, <1>2, <2>3, <3>1, <3>2, <3>3
      DEF IInv, OperationsInv, OperationsTypeOK, OneOperation
    <3> QED BY <2>3, <3>4, <3>5 DEF IInv, OperationsInv
  <2> QED BY <2>1, <2>2, <2>3 DEF EndAtomicOperation
<1>4. PipelineTypeOK'
  BY <1>2 DEF pipelineVars, IInv, PipelineTypeOK
<1>5. answers' \in [Changes -> SUBSET Codes]
  BY <1>2, <1>3, SignalsType DEF IInv, RestTypeOK
<1>6. RestTypeOK'
  BY <1>2, <1>5 DEF IInv, RestTypeOK
<1> QED BY <1>3, <1>4, <1>6 DEF IInv

\* What an action leaves behind: the answers follow.
LEMMA SignalsStep ==
  ASSUME IInv, OperationsInv', ChangesTypeOK(changes'), PipelineTypeOK',
         mChangeForJob' \in [Changes -> JobStates], calling' \in BOOLEAN,
         applied' \in SUBSET Changes, crashed' \in BOOLEAN,
         NEW emitted, Signals(emitted)
  PROVE  IInv'
<1>1. answers' \in [Changes -> SUBSET Codes]
  BY SignalsType DEF IInv, RestTypeOK
<1> QED BY <1>1 DEF IInv, RestTypeOK

LEMMA NewIdType ==
  ASSUME NEW c, NewId(c)
  PROVE  c \in Changes /\ mLatestChangeId' \in 0 .. MaxChanges
BY ConstantsAssumption DEF NewId, Changes

LEMMA CallInvalidStep ==
  ASSUME IInv, CallInvalid, UNCHANGED <<calling, applied>>
  PROVE  IInv'
<1>1. CancelTransaction(changes) /\ UNCHANGED pipelineVars /\ Signals({})
  BY DEF CallInvalid
<1>2. /\ OperationsInv' /\ ChangesTypeOK(changes')
      /\ mChangeForJob' \in [Changes -> JobStates] /\ crashed' \in BOOLEAN
  BY <1>1, CancelTransactionStep DEF IInv, RestTypeOK
<1>3. PipelineTypeOK'
  BY <1>1 DEF pipelineVars, IInv, PipelineTypeOK
<1> QED BY <1>1, <1>2, <1>3, SignalsStep DEF IInv, RestTypeOK

LEMMA CallRolledBackStep ==
  ASSUME IInv, NEW c \in Changes, CallRolledBack(c), UNCHANGED <<calling, applied>>
  PROVE  IInv'
<1>1. /\ RolledBack /\ CleanupTransaction(With(c, Refused("Rolledback"))) /\ Signals({})
      /\ mLatestChangeId' \in 0 .. MaxChanges
      /\ UNCHANGED <<mChangeById, mQueuedModifications, mModificationsInProgress,
                      mDeletedItemIds, nextPosted>>
  BY NewIdType DEF CallRolledBack
<1>2. ChangesTypeOK(With(c, Refused("Rolledback")))
  BY RefusedStep DEF Codes
<1>3. OperationsInv' /\ ChangesTypeOK(changes') /\ UNCHANGED <<mChangeForJob, crashed>>
  BY <1>1, <1>2, CleanupTransactionStep DEF IInv, CleanupTransaction
<1>4. PipelineTypeOK'
  BY <1>1 DEF IInv, PipelineTypeOK
<1> QED BY <1>1, <1>3, <1>4, SignalsStep DEF IInv, RestTypeOK

LEMMA CallRefusedStep ==
  ASSUME IInv, NEW c \in Changes, CallRefused(c), UNCHANGED <<calling, applied>>
  PROVE  IInv'
<1>1. /\ \E code \in Codes : CancelTransaction(With(c, Refused(code)))
      /\ Signals({})
      /\ mLatestChangeId' \in 0 .. MaxChanges
      /\ UNCHANGED <<mChangeById, mQueuedModifications, mModificationsInProgress,
                      mDeletedItemIds, nextPosted>>
  BY NewIdType DEF CallRefused, Codes
<1>2. PICK code \in Codes : CancelTransaction(With(c, Refused(code)))
  BY <1>1
<1>3. ChangesTypeOK(With(c, Refused(code)))
  BY RefusedStep
<1>4. /\ OperationsInv' /\ ChangesTypeOK(changes')
      /\ mChangeForJob' \in [Changes -> JobStates] /\ crashed' \in BOOLEAN
  BY <1>2, <1>3, CancelTransactionStep DEF IInv, RestTypeOK
<1>5. PipelineTypeOK'
  BY <1>1 DEF IInv, PipelineTypeOK
<1> QED BY <1>1, <1>4, <1>5, SignalsStep DEF IInv, RestTypeOK

LEMMA CreateStep ==
  ASSUME IInv, NEW c \in Changes, Create(c), UNCHANGED <<calling, applied>>
  PROVE  IInv'
<1> DEFINE ch == Change("create", NoItem, CurrentOperation, "Success")
<1>1. /\ changes' = With(c, ch) /\ JoinOperation(c, {}) /\ Signals({})
      /\ mChangeForJob' = [mChangeForJob EXCEPT ![c] = "running"]
      /\ mLatestChangeId' \in 0 .. MaxChanges
      /\ mChangeById' = mChangeById \cup {c}
      /\ UNCHANGED <<mQueuedModifications, mModificationsInProgress, mDeletedItemIds,
                      nextPosted>>
  BY NewIdType DEF Create
<1>2. ch \in ChangeTypes /\ ch.type = "create"
  BY CurrentOperationType, ChangeType DEF IInv, Codes
<1>3. ChangesTypeOK(changes')
  BY <1>1, <1>2, WithType DEF IInv
<1>4. OperationsInv' /\ crashed' \in BOOLEAN
  BY <1>1, JoinOperationStep DEF IInv, RestTypeOK
<1>5. mChangeForJob' \in [Changes -> JobStates]
  BY <1>1 DEF IInv, RestTypeOK, JobStates
<1>6. PipelineTypeOK'
  BY <1>1 DEF IInv, PipelineTypeOK
<1> QED BY <1>1, <1>3, <1>4, <1>5, <1>6, SignalsStep DEF IInv, RestTypeOK

LEMMA DeleteStep ==
  ASSUME IInv, NEW c \in Changes, Delete(c), UNCHANGED <<calling, applied>>
  PROVE  IInv'
<1>1. PICK i \in Items :
        /\ changes' = With(c, Change("delete", i, CurrentOperation, "Success"))
        /\ JoinOperation(c, {}) /\ Signals({})
        /\ mChangeForJob' = [mChangeForJob EXCEPT ![c] = "running"]
        /\ mLatestChangeId' \in 0 .. MaxChanges
        /\ mChangeById' = mChangeById \cup {c}
        /\ mDeletedItemIds' = mDeletedItemIds \cup {i}
        /\ UNCHANGED <<mQueuedModifications, mModificationsInProgress, nextPosted>>
  BY NewIdType DEF Delete
<1>2. ChangesTypeOK(changes')
  BY <1>1, ConstructedStep DEF Codes
<1>3. OperationsInv' /\ crashed' \in BOOLEAN
  BY <1>1, JoinOperationStep DEF IInv, RestTypeOK
<1>4. mChangeForJob' \in [Changes -> JobStates]
  BY <1>1 DEF IInv, RestTypeOK, JobStates
<1>5. PipelineTypeOK'
  BY <1>1 DEF IInv, PipelineTypeOK
<1> QED BY <1>1, <1>2, <1>3, <1>4, <1>5, SignalsStep DEF IInv, RestTypeOK

LEMMA ModifyRefusedStep ==
  ASSUME IInv, NEW c \in Changes, ModifyRefused(c), UNCHANGED <<calling, applied>>
  PROVE  IInv'
<1>1. /\ CancelTransaction(changes) /\ Signals({<<c, "Permissions">>})
      /\ mLatestChangeId' \in 0 .. MaxChanges
      /\ UNCHANGED <<mChangeById, mQueuedModifications, mModificationsInProgress,
                      mDeletedItemIds, nextPosted>>
  BY NewIdType DEF ModifyRefused
<1>2. /\ OperationsInv' /\ ChangesTypeOK(changes')
      /\ mChangeForJob' \in [Changes -> JobStates] /\ crashed' \in BOOLEAN
  BY <1>1, CancelTransactionStep DEF IInv, RestTypeOK
<1>3. PipelineTypeOK'
  BY <1>1 DEF IInv, PipelineTypeOK
<1> QED BY <1>1, <1>2, <1>3, SignalsStep DEF IInv, RestTypeOK

LEMMA ModifyDuplicateStep ==
  ASSUME IInv, NEW c \in Changes, NEW i \in Items, ModifyDuplicate(c, i),
         mLatestChangeId' \in 0 .. MaxChanges,
         UNCHANGED <<mDeletedItemIds, nextPosted, calling, applied>>
  PROVE  IInv'
<1> DEFINE chs == With(c, Change("modify", i, CurrentOperation, "DuplicateId"))
<1>1. /\ CancelTransaction(chs) /\ Signals({})
      /\ UNCHANGED <<mQueuedModifications, mModificationsInProgress>>
      /\ mChangeById' = mChangeById \cup {c}
  BY DEF ModifyDuplicate
<1>2. ChangesTypeOK(chs)
  BY ConstructedStep DEF Codes
<1> HIDE DEF chs
<1>3. /\ OperationsInv' /\ ChangesTypeOK(changes')
      /\ mChangeForJob' \in [Changes -> JobStates] /\ crashed' \in BOOLEAN
  BY <1>1, <1>2, CancelTransactionStep DEF IInv, RestTypeOK
<1>4. PipelineTypeOK'
  BY <1>1 DEF IInv, PipelineTypeOK
<1> QED BY <1>1, <1>3, <1>4, SignalsStep DEF IInv, RestTypeOK

LEMMA ModifyRolledBackStep ==
  ASSUME IInv, NEW c \in Changes, NEW i \in Items, ModifyRolledBack(c, i),
         mLatestChangeId' \in 0 .. MaxChanges,
         UNCHANGED <<mDeletedItemIds, nextPosted, calling, applied>>
  PROVE  IInv'
<1> DEFINE chs == With(c, Change("modify", i, CurrentOperation, "Success"))
<1>1. /\ RolledBack /\ CleanupTransaction(chs) /\ Signals({<<c, "Rolledback">>})
      /\ UNCHANGED <<mQueuedModifications, mModificationsInProgress>>
      /\ mChangeById' = mChangeById \cup {c}
  BY DEF ModifyRolledBack
<1>2. ChangesTypeOK(chs)
  BY ConstructedStep DEF Codes
<1> HIDE DEF chs
<1>3. OperationsInv' /\ ChangesTypeOK(changes') /\ UNCHANGED <<mChangeForJob, crashed>>
  BY <1>1, <1>2, CleanupTransactionStep DEF IInv, CleanupTransaction
<1>4. PipelineTypeOK'
  BY <1>1 DEF IInv, PipelineTypeOK
<1> QED BY <1>1, <1>3, <1>4, SignalsStep DEF IInv, RestTypeOK

LEMMA ModifyDeletedStep ==
  ASSUME IInv, NEW c \in Changes, NEW i \in Items, ModifyDeleted(c, i),
         mLatestChangeId' \in 0 .. MaxChanges,
         UNCHANGED <<mDeletedItemIds, nextPosted, calling, applied>>
  PROVE  IInv'
<1>1. /\ changes' = With(c, Change("modify", i, CurrentOperation, "Success"))
      /\ Signals({<<c, "AlreadyDeleted">>})
      /\ UNCHANGED <<mChangeForJob, mQueuedModifications, mModificationsInProgress,
                      operationVars, crashed>>
      /\ mChangeById' = mChangeById \cup {c}
  BY DEF ModifyDeleted
<1>2. ChangesTypeOK(changes')
  BY <1>1, ConstructedStep DEF Codes
<1>3. OperationsInv'
  BY <1>1 DEF operationVars, IInv, OperationsInv, OperationsTypeOK, OneOperation
<1>4. PipelineTypeOK'
  BY <1>1 DEF IInv, PipelineTypeOK
<1> QED BY <1>1, <1>2, <1>3, <1>4, SignalsStep DEF IInv, RestTypeOK

LEMMA ModifyQueuedStep ==
  ASSUME IInv, NEW c \in Changes, NEW i \in Items, ModifyQueued(c, i),
         mLatestChangeId' \in 0 .. MaxChanges,
         UNCHANGED <<mDeletedItemIds, nextPosted, calling, applied>>
  PROVE  IInv'
<1> DEFINE new == Change("modify", i, CurrentOperation, "Success")
           queued == [new EXCEPT !.queuedModification = TRUE]
           dropped(x) == [changes[x] EXCEPT !.resultCode = "ModificationDiscarded"]
           discarded(x) == [dropped(x) EXCEPT !.completed = TRUE]
<1>1. /\ changes' = [x \in Changes |->
                      IF x = c THEN queued
                      ELSE IF x = mQueuedModifications[i]
                           THEN [changes[x] EXCEPT !.resultCode = "ModificationDiscarded",
                                                   !.completed = TRUE]
                           ELSE changes[x]]
      /\ mQueuedModifications' = [mQueuedModifications EXCEPT ![i] = c]
      /\ mChangeById' = (mChangeById \cup {c}) \ {mQueuedModifications[i]}
      /\ UNCHANGED <<mChangeForJob, mModificationsInProgress, operationVars, crashed>>
      /\ Signals({})
  BY DEF ModifyQueued
<1>2. new \in ChangeTypes /\ new.type = "modify" /\ new.item = i
  BY CurrentOperationType, ChangeType DEF IInv, Codes
<1> HIDE DEF new
<1>3. queued \in ChangeTypes /\ queued.item = i
  BY <1>2 DEF ChangeTypes
<1> HIDE DEF queued
<1>4. ASSUME NEW x \in Changes
      PROVE  /\ discarded(x) \in ChangeTypes
             /\ discarded(x).type = changes[x].type /\ discarded(x).item = changes[x].item
             /\ discarded(x) = [changes[x] EXCEPT !.resultCode = "ModificationDiscarded",
                                                  !.completed = TRUE]
  <2>1. changes[x] \in ChangeTypes
    BY DEF IInv, ChangesTypeOK
  <2>2. /\ dropped(x) \in ChangeTypes
        /\ dropped(x).type = changes[x].type /\ dropped(x).item = changes[x].item
    BY <2>1 DEF ChangeTypes, Codes
  <2>3. discarded(x) = [changes[x] EXCEPT !.resultCode = "ModificationDiscarded",
                                          !.completed = TRUE]
    BY <2>1
  <2> HIDE DEF dropped
  <2>4. /\ discarded(x) \in ChangeTypes
        /\ discarded(x).type = dropped(x).type /\ discarded(x).item = dropped(x).item
    BY <2>2 DEF ChangeTypes
  <2> QED BY <2>2, <2>3, <2>4
<1> HIDE DEF discarded, dropped
<1>5. ChangesTypeOK(changes')
  <2>1. changes' = [x \in Changes |->
                     IF x = c THEN queued
                     ELSE IF x = mQueuedModifications[i] THEN discarded(x) ELSE changes[x]]
    BY <1>1, <1>4
  <2> QED BY <2>1, <1>3, <1>4 DEF IInv, ChangesTypeOK
<1>6. OperationsInv'
  BY <1>1 DEF operationVars, IInv, OperationsInv, OperationsTypeOK, OneOperation
<1>7. PipelineTypeOK'
  BY <1>1 DEF IInv, PipelineTypeOK
<1> QED BY <1>1, <1>5, <1>6, <1>7, SignalsStep DEF IInv, RestTypeOK

LEMMA ModifyStartedStep ==
  ASSUME IInv, NEW c \in Changes, NEW i \in Items, ModifyStarted(c, i),
         mLatestChangeId' \in 0 .. MaxChanges,
         UNCHANGED <<mDeletedItemIds, nextPosted, calling, applied>>
  PROVE  IInv'
<1>1. /\ changes' = With(c, Change("modify", i, CurrentOperation, "Success"))
      /\ JoinOperation(c, {i}) /\ Signals({})
      /\ mChangeForJob' = [mChangeForJob EXCEPT ![c] = "running"]
      /\ mModificationsInProgress' = [mModificationsInProgress EXCEPT ![i] = c]
      /\ UNCHANGED mQueuedModifications
      /\ mChangeById' = mChangeById \cup {c}
  BY DEF ModifyStarted
<1>2. ChangesTypeOK(changes')
  BY <1>1, ConstructedStep DEF Codes
<1>3. OperationsInv' /\ crashed' \in BOOLEAN
  <2>1. {i} \in SUBSET Items
    OBVIOUS
  <2> QED BY <1>1, <2>1, JoinOperationStep DEF IInv, RestTypeOK
<1>4. mChangeForJob' \in [Changes -> JobStates]
  BY <1>1 DEF IInv, RestTypeOK, JobStates
<1>5. PipelineTypeOK'
  BY <1>1 DEF IInv, PipelineTypeOK
<1> QED BY <1>1, <1>2, <1>3, <1>4, <1>5, SignalsStep DEF IInv, RestTypeOK

LEMMA ModifyStep ==
  ASSUME IInv, NEW c \in Changes, Modify(c), UNCHANGED <<calling, applied>>
  PROVE  IInv'
<1>1. /\ mLatestChangeId' \in 0 .. MaxChanges /\ UNCHANGED <<mDeletedItemIds, nextPosted>>
      /\ \E i \in Items :
           \/ ModifyDuplicate(c, i) \/ ModifyRolledBack(c, i) \/ ModifyDeleted(c, i)
           \/ ModifyQueued(c, i) \/ ModifyStarted(c, i)
  BY NewIdType DEF Modify
<1> QED BY <1>1, ModifyDuplicateStep, ModifyRolledBackStep, ModifyDeletedStep,
           ModifyQueuedStep, ModifyStartedStep

\* What the handlers store in a change.
LEMMA ResultType ==
  ASSUME ChangesTypeOK(changes), NEW c \in Changes, NEW code \in Codes
  PROVE  /\ ChangesTypeOK(With(c, Result(c, code)))
         /\ ChangesTypeOK(With(c, [changes[c] EXCEPT !.resultCode = code,
                                     !.aborted = mChangeForJob[c] = "aborted"]))
<1> DEFINE done == changes[c].completed \/ changes[c].atomicOperationId # NoOperation
           killed == mChangeForJob[c] = "aborted"
           coded == [changes[c] EXCEPT !.resultCode = code]
           completed == [coded EXCEPT !.completed = done]
           result == [completed EXCEPT !.aborted = killed]
           failure == [coded EXCEPT !.aborted = killed]
<1>1. changes[c] \in ChangeTypes /\ done \in BOOLEAN /\ killed \in BOOLEAN
  BY DEF ChangesTypeOK, ChangeTypes
<1>2. /\ coded \in ChangeTypes
      /\ coded.type = changes[c].type /\ coded.item = changes[c].item
  BY <1>1 DEF ChangeTypes
<1>3. Result(c, code) = result
  BY <1>1 DEF Result
<1>4. failure = [changes[c] EXCEPT !.resultCode = code, !.aborted = killed]
  BY <1>1
<1> HIDE DEF coded, done, killed
<1>5. /\ completed \in ChangeTypes
      /\ completed.type = coded.type /\ completed.item = coded.item
  BY <1>1, <1>2 DEF ChangeTypes
<1>6. /\ failure \in ChangeTypes
      /\ failure.type = coded.type /\ failure.item = coded.item
  BY <1>1, <1>2 DEF ChangeTypes
<1> HIDE DEF completed
<1>7. /\ result \in ChangeTypes
      /\ result.type = completed.type /\ result.item = completed.item
  BY <1>1, <1>5 DEF ChangeTypes
<1> HIDE DEF result, failure
<1>8. ChangesTypeOK(With(c, result)) /\ ChangesTypeOK(With(c, failure))
  BY <1>2, <1>5, <1>6, <1>7, WithType DEF ChangesTypeOK
<1> QED BY <1>3, <1>4, <1>8 DEF killed

LEMMA HandleJobResultStep ==
  ASSUME IInv, NEW c \in Changes, HandleJobResult(c)
  PROVE  IInv'
<1>1. /\ UNCHANGED <<mLatestChangeId, mQueuedModifications, mModificationsInProgress,
                      mLatestAtomicOperationId, mBatchOperationInProgress, transaction,
                      calling, applied, crashed>>
      /\ HandleCreateJobResult(c) \/ HandleModifyJobResult(c) \/ HandleDeleteJobResult(c)
  BY DEF HandleJobResult
<1>2. /\ mChangeForJob' = [mChangeForJob EXCEPT ![c] = "none"]
      /\ mChangeById' = mChangeById \ {c}
      /\ mAtomicOperations' \in {mAtomicOperations, Counted(c)}
      /\ \E emitted : Signals(emitted)
  BY <1>1 DEF HandleCreateJobResult, HandleModifyJobResult, HandleDeleteJobResult, Take
<1>3. ChangesTypeOK(changes')
  <2>1. \E code \in Codes :
          \/ changes' = With(c, Result(c, code))
          \/ changes' = With(c, [changes[c] EXCEPT !.resultCode = code,
                                    !.aborted = mChangeForJob[c] = "aborted"])
    BY <1>1 DEF HandleCreateJobResult, HandleModifyJobResult, HandleDeleteJobResult, Codes
  <2> QED BY <2>1, ResultType DEF IInv
<1>4. nextPosted' \in SUBSET Items /\ mDeletedItemIds' \in SUBSET Items
  BY <1>1 DEF HandleCreateJobResult, HandleModifyJobResult, HandleDeleteJobResult,
              IInv, ChangesTypeOK, PipelineTypeOK
<1>5. OperationsInv'
  BY <1>1, <1>2, CountedStep DEF IInv
<1>6. mChangeForJob' \in [Changes -> JobStates]
  BY <1>2 DEF IInv, RestTypeOK, JobStates
<1>7. PipelineTypeOK'
  BY <1>1, <1>2, <1>4 DEF IInv, PipelineTypeOK
<1> QED BY <1>1, <1>2, <1>3, <1>5, <1>6, <1>7, SignalsStep DEF IInv, RestTypeOK

LEMMA PerformNextStep ==
  ASSUME IInv, NEW i \in Items, PerformNextModification(i)
  PROVE  IInv'
<1> DEFINE c == mQueuedModifications[i]
           o == changes[c].atomicOperationId
<1>1. /\ nextPosted' = nextPosted \ {i}
      /\ mQueuedModifications' = [mQueuedModifications EXCEPT ![i] = NoChange]
      /\ UNCHANGED <<mLatestChangeId, mChangeById, mDeletedItemIds, changes,
                      mLatestAtomicOperationId, mBatchOperationInProgress, transaction,
                      calling, applied>>
      /\ crashed' \in {crashed, TRUE}
      /\ answers' = answers \/ \E emitted : Signals(emitted)
  BY DEF PerformNextModification
<1>2. \/ UNCHANGED mChangeForJob
      \/ c # NoChange /\ mChangeForJob' = [mChangeForJob EXCEPT ![c] = "running"]
  BY DEF PerformNextModification
<1>3. \/ UNCHANGED mAtomicOperations
      \/ /\ c # NoChange /\ o # NoOperation
         /\ mAtomicOperations' = Added(o, c, {i})
  BY DEF PerformNextModification
<1>4. mModificationsInProgress' \in
        {mModificationsInProgress, [mModificationsInProgress EXCEPT ![i] = NoChange],
         [mModificationsInProgress EXCEPT ![i] = c]}
  BY DEF PerformNextModification
<1>5. c # NoChange => c \in Changes /\ o \in 0 .. MaxOperations
  BY DEF IInv, PipelineTypeOK, ChangesTypeOK, ChangeTypes
<1>6. OperationsInv'
  <2>1. CASE UNCHANGED mAtomicOperations
    BY <1>1, <2>1 DEF IInv, OperationsInv, OperationsTypeOK, OneOperation
  <2>2. CASE /\ c # NoChange /\ o # NoOperation
             /\ mAtomicOperations' = Added(o, c, {i})
    <3>1. o \in Operations /\ c \in Changes /\ {i} \in SUBSET Items
      BY <1>5, <2>2, ConstantsAssumption DEF Operations, NoOperation
    <3> HIDE DEF c, o
    <3> QED BY <1>1, <2>2, <3>1, AddedStep DEF IInv
  <2> QED BY <1>3, <2>1, <2>2
<1>7. mChangeForJob' \in [Changes -> JobStates]
  BY <1>2, <1>5 DEF IInv, RestTypeOK, JobStates
<1>8. PipelineTypeOK'
  BY <1>1, <1>4, <1>5 DEF IInv, PipelineTypeOK, NoChange
<1>9. ChangesTypeOK(changes') /\ crashed' \in BOOLEAN
  BY <1>1 DEF IInv, RestTypeOK, ChangesTypeOK
<1>10. CASE answers' = answers
  BY <1>1, <1>6, <1>7, <1>8, <1>9, <1>10 DEF IInv, RestTypeOK
<1>11. CASE \E emitted : Signals(emitted)
  BY <1>1, <1>6, <1>7, <1>8, <1>9, <1>11, SignalsStep DEF IInv, RestTypeOK
<1> QED BY <1>1, <1>10, <1>11

LEMMA JobEndsStep ==
  ASSUME IInv, NEW c \in Changes, JobEnds(c)
  PROVE  IInv'
<1>1. UNCHANGED <<pipelineVars, changes, mLatestAtomicOperationId,
                  mBatchOperationInProgress, mAtomicOperations, calling, answers, crashed>>
  BY DEF JobEnds
<1>2. /\ \/ mChangeForJob' = [mChangeForJob EXCEPT ![c] = "succeeded"]
         \/ mChangeForJob' = [mChangeForJob EXCEPT ![c] = "failed"]
         \/ \E o \in Operations : mChangeForJob' = [Aborted(o) EXCEPT ![c] = "failed"]
      /\ applied' \in {applied, applied \cup {c}}
  BY DEF JobEnds
<1>3. \A p \in Operations :
        transaction'[p] = transaction[p]
          \/ (transaction[p] = "running" /\ transaction'[p] = "failing")
  BY DEF JobEnds, IInv, OperationsInv, OperationsTypeOK
<1>4. transaction' \in [Operations -> {"none", "running", "failing", "finished", "freed"}]
  BY DEF JobEnds, IInv, OperationsInv, OperationsTypeOK
<1>5. OperationsInv'
  BY <1>1, <1>3, <1>4 DEF IInv, OperationsInv, OperationsTypeOK, OneOperation
<1>6. mChangeForJob' \in [Changes -> JobStates]
  BY <1>2, AbortedType DEF IInv, RestTypeOK, JobStates
<1>7. PipelineTypeOK' /\ ChangesTypeOK(changes')
  BY <1>1 DEF pipelineVars, IInv, PipelineTypeOK
<1>8. RestTypeOK'
  BY <1>1, <1>2, <1>6 DEF IInv, RestTypeOK
<1> QED BY <1>5, <1>7, <1>8 DEF IInv

LEMMA TransactionEndsStep ==
  ASSUME IInv, NEW o \in Operations, TransactionEnds(o)
  PROVE  IInv'
<1>1. /\ transaction' = [transaction EXCEPT ![o] = "freed"]
      /\ transaction[o] \in {"running", "failing"}
      /\ applied' \in SUBSET Changes
      /\ \E error \in BOOLEAN : HandleTransactionJobResult(o, error, changes)
      /\ UNCHANGED <<pipelineVars, mLatestAtomicOperationId, mChangeForJob, calling, crashed>>
      /\ Signals({})
  BY DEF TransactionEnds, IInv, RestTypeOK
<1>2. o = mLatestAtomicOperationId /\ mBatchOperationInProgress
  BY <1>1 DEF IInv, OperationsInv, OneOperation
<1>3. OperationsInv' /\ ChangesTypeOK(changes')
  <2>1. PICK error \in BOOLEAN :
          HandleTransactionJobResult(mLatestAtomicOperationId, error, changes)
    BY <1>1, <1>2
  <2> DEFINE status == "freed"
  <2>2. transaction' = [transaction EXCEPT ![mLatestAtomicOperationId] = status]
        /\ status \in {"finished", "freed"}
    BY <1>1, <1>2
  <2> HIDE DEF status
  <2>3. OperationsInv /\ ChangesTypeOK(changes) /\ UNCHANGED mLatestAtomicOperationId
    BY <1>1 DEF IInv
  <2> QED BY <1>2, <2>1, <2>2, <2>3, TransactionJobResultStep
<1>4. PipelineTypeOK'
  BY <1>1 DEF pipelineVars, IInv, PipelineTypeOK
<1> QED BY <1>1, <1>3, <1>4, SignalsStep DEF IInv, RestTypeOK

-----------------------------------------------------------------------------
(* The theorems.                                                           *)

LEMMA InitInv == Init => IInv
<1> SUFFICES ASSUME Init PROVE IInv
  OBVIOUS
<1>1. 0 \in 0 .. MaxChanges /\ 0 \in 0 .. MaxOperations
  BY ConstantsAssumption
<1>2. OperationsTypeOK
  BY <1>1, NewOperations DEF Init, OperationsTypeOK
<1>3. OneOperation
  <2>1. \A o \in Operations : mAtomicOperations[o] = Deleted /\ transaction[o] = "none"
    BY DEF Init
  <2>2. ~mBatchOperationInProgress
    BY DEF Init
  <2> QED BY <2>1, <2>2, NewOperations DEF OneOperation
<1>4. ChangesTypeOK(changes)
  BY ConstantsAssumption DEF Init, ChangesTypeOK, NotConstructed, Change, NoOperation,
    ChangeTypes, Codes
<1>5. PipelineTypeOK
  BY <1>1, Zenon DEF Init, PipelineTypeOK
<1>6. RestTypeOK
  BY DEF Init, RestTypeOK, JobStates
<1> QED BY <1>2, <1>3, <1>4, <1>5, <1>6 DEF IInv, OperationsInv

LEMMA NextInv == IInv /\ [Next]_vars => IInv'
<1> SUFFICES ASSUME IInv, [Next]_vars PROVE IInv'
  OBVIOUS
<1>1. CASE UNCHANGED vars
  BY <1>1 DEF vars, pipelineVars, operationVars, IInv, OperationsInv, OperationsTypeOK,
    OneOperation, ChangesTypeOK, PipelineTypeOK, RestTypeOK
<1>2. CASE Caller
  BY <1>2, StartStep, CallInvalidStep, CallRolledBackStep, CallRefusedStep, CreateStep,
     DeleteStep, ModifyRefusedStep, ModifyStep
  DEF Caller
<1>3. CASE EndAtomicOperation
  BY <1>3, EndStep
<1>4. CASE EventLoop
  BY <1>4, HandleJobResultStep, JobEndsStep, PerformNextStep, TransactionEndsStep
  DEF EventLoop
<1> QED BY <1>1, <1>2, <1>3, <1>4 DEF Next

\* The inductive invariant holds in every reachable state.
THEOREM BatchInvariance == Spec => []IInv
<1> QED BY InitInv, NextInv, PTL DEF Spec

\* All variables keep their types, for every set of items, every number of changes and
\* of batches: no handler counts, cancels or deletes what is not there.
THEOREM BatchTypes == Spec => []TypeOK
<1>1. IInv => TypeOK
  BY DEF IInv, OperationsInv, ChangesTypeOK, PipelineTypeOK, RestTypeOK, TypeOK
<1> QED BY <1>1, BatchInvariance, PTL

\* mBatchOperationInProgress is true exactly while the latest AtomicOperation exists, no
\* other one exists, and a transaction that can still return belongs to it: every
\* `mAtomicOperations[mLatestAtomicOperationId]` of the source finds its object, and
\* handleTransactionJobResult() never meets an operation that was deleted.
THEOREM OneOperationAtATime == Spec => []OneOperation
<1>1. IInv => OneOperation
  BY DEF IInv, OperationsInv
<1> QED BY <1>1, BatchInvariance, PTL

-----------------------------------------------------------------------------
(* An AtomicOperation outlives its jobs.  ~AtomicOperation() is reached when *)
(* m_numCompletedChanges has caught up with m_changes.  The argument is that *)
(* it never runs ahead: it is at most the number of changes of the operation *)
(* that have no job.                                                         *)

OpOf(c)   == changes[c].atomicOperationId
Busy(c)   == mChangeForJob[c] # "none"
Idle(o)   == {c \in mAtomicOperations[o].changes : ~Busy(c)}

\* Ids that were not given out are neither busy nor in an operation.
FreshIsUnused ==
  \A c \in Changes :
    Busy(c) \/ (\E o \in Operations : c \in mAtomicOperations[o].changes) => c <= mLatestChangeId

\* What waits has an id, no job, and is in no operation yet.
WaitingIsOutside ==
  \A i \in Items :
    LET c == mQueuedModifications[i]
    IN  c # NoChange =>
          /\ c <= mLatestChangeId /\ changes[c].item = i
          /\ ~Busy(c) /\ \A o \in Operations : c \notin mAtomicOperations[o].changes

\* A change with a job is in its operation.
BusyIsMember ==
  ~crashed => \A c \in Changes :
    Busy(c) /\ OpOf(c) # NoOperation => c \in mAtomicOperations[OpOf(c)].changes

DeadIsEmpty == \A o \in Operations : ~mAtomicOperations[o].alive => mAtomicOperations[o].changes = {}

\* m_numCompletedChanges counts changes whose jobs have been handled.
CountIsBehind ==
  \A o \in Operations : mAtomicOperations[o].numCompletedChanges <= Cardinality(Idle(o))

BusyHasOperation ==
  \A c \in Changes : Busy(c) /\ OpOf(c) # NoOperation => mAtomicOperations[OpOf(c)].alive

JobsInv ==
  /\ FreshIsUnused /\ WaitingIsOutside /\ BusyIsMember
  /\ DeadIsEmpty /\ CountIsBehind /\ BusyHasOperation

\* What a step does to an operation that gets no new change: nothing, or it is replaced,
\* deleted or not yet used.
Same(o) ==
  /\ mAtomicOperations'[o].changes = mAtomicOperations[o].changes
  /\ mAtomicOperations'[o].numCompletedChanges = mAtomicOperations[o].numCompletedChanges
  /\ mAtomicOperations'[o].alive = mAtomicOperations[o].alive
Replaced(o) ==
  /\ mAtomicOperations'[o].changes = {} /\ mAtomicOperations'[o].numCompletedChanges = 0
  /\ \A c \in mAtomicOperations[o].changes : ~Busy(c)

\* c becomes a member of operation op, if that is one and the step does not crash.
Joins(c, op, joined) ==
  /\ \A o \in Operations :
       /\ mAtomicOperations'[o].changes =
            mAtomicOperations[o].changes \cup (IF joined /\ o = op THEN {c} ELSE {})
       /\ mAtomicOperations'[o].numCompletedChanges = mAtomicOperations[o].numCompletedChanges
       /\ mAtomicOperations'[o].alive = mAtomicOperations[o].alive
  /\ op # NoOperation => mAtomicOperations[op].alive /\ (joined \/ crashed')

-----------------------------------------------------------------------------
(* Counting.                                                               *)

LEMMA OperationsHave ==
  ASSUME IInv, NEW o \in Operations
  PROVE  /\ mAtomicOperations[o].changes \subseteq Changes
         /\ mAtomicOperations[o].numCompletedChanges \in Nat
         /\ mAtomicOperations[o].alive \in BOOLEAN
         /\ mAtomicOperations[o] \in OperationTypes
BY DEF IInv, OperationsInv, OperationsTypeOK, OperationTypes

LEMMA SubsetsAreFinite ==
  ASSUME NEW S \in SUBSET Changes
  PROVE  IsFiniteSet(S) /\ Cardinality(S) \in Nat
<1>1. IsFiniteSet(Changes)
  BY ConstantsAssumption, FS_Interval DEF Changes
<1> QED BY <1>1, FS_Subset, FS_CardinalityType

\* An operation that waits for no job has none.
LEMMA AllHandled ==
  ASSUME IInv, JobsInv, NEW o \in Operations, ~PendingJobs(mAtomicOperations[o])
  PROVE  \A c \in mAtomicOperations[o].changes : ~Busy(c)
<1> DEFINE S == mAtomicOperations[o].changes
<1>1. S \in SUBSET Changes /\ Idle(o) \in SUBSET S
  BY OperationsHave DEF Idle
<1>2. IsFiniteSet(S) /\ Cardinality(S) \in Nat /\ Cardinality(Idle(o)) \in Nat
  BY <1>1, SubsetsAreFinite
<1>3. Cardinality(S) <= Cardinality(Idle(o))
  BY <1>2, OperationsHave DEF PendingJobs, JobsInv, CountIsBehind
<1>4. Cardinality(S) = Cardinality(Idle(o))
  BY <1>1, <1>2, <1>3, FS_Subset
<1>5. S = Idle(o)
  BY <1>1, <1>2, <1>4, FS_Subset
<1> QED BY <1>5 DEF Idle

-----------------------------------------------------------------------------
(* The three kinds of steps: no job starts or ends, one starts, one ends.  *)

LEMMA KeepsStep ==
  ASSUME IInv, IInv', JobsInv, ~crashed, mLatestChangeId' >= mLatestChangeId,
         \A c \in Changes : Busy(c)' <=> Busy(c),
         \A c \in Changes : c <= mLatestChangeId =>
           OpOf(c)' = OpOf(c) /\ changes'[c].item = changes[c].item,
         \A i \in Items :
           \/ mQueuedModifications'[i] \in {mQueuedModifications[i], NoChange}
           \/ /\ mLatestChangeId < mQueuedModifications'[i]
              /\ mQueuedModifications'[i] <= mLatestChangeId'
              /\ changes'[mQueuedModifications'[i]].item = i,
         \A o \in Operations : Same(o) \/ Replaced(o)
  PROVE  JobsInv'
<1>1. mLatestChangeId \in Nat /\ mLatestChangeId' \in Nat /\ Changes \subseteq Nat
  BY ConstantsAssumption DEF IInv, PipelineTypeOK, Changes
<1>2. FreshIsUnused'
  <2> SUFFICES ASSUME NEW c \in Changes,
                      Busy(c)' \/ \E o \in Operations : c \in mAtomicOperations'[o].changes
               PROVE  c <= mLatestChangeId'
    BY DEF FreshIsUnused
  <2>1. Busy(c) \/ \E o \in Operations : c \in mAtomicOperations[o].changes
    BY DEF Same, Replaced
  <2> QED BY <1>1, <2>1 DEF JobsInv, FreshIsUnused
<1>3. WaitingIsOutside'
  <2> SUFFICES ASSUME NEW i \in Items, mQueuedModifications'[i] # NoChange
               PROVE  /\ mQueuedModifications'[i] <= mLatestChangeId'
                      /\ changes'[mQueuedModifications'[i]].item = i
                      /\ mChangeForJob'[mQueuedModifications'[i]] = "none"
                      /\ \A o \in Operations :
                           mQueuedModifications'[i] \notin mAtomicOperations'[o].changes
    BY DEF WaitingIsOutside, Busy
  <2>1. PICK c \in Changes : c = mQueuedModifications'[i]
    BY DEF IInv, PipelineTypeOK
  <2>2. CASE c = mQueuedModifications[i]
    <3>1. /\ c <= mLatestChangeId /\ changes[c].item = i /\ ~Busy(c)
          /\ \A o \in Operations : c \notin mAtomicOperations[o].changes
      BY <2>1, <2>2 DEF JobsInv, WaitingIsOutside
    <3>2. changes'[c].item = i /\ mChangeForJob'[c] = "none" /\ c <= mLatestChangeId'
      BY <1>1, <2>1, <3>1 DEF Busy
    <3>3. \A o \in Operations : c \notin mAtomicOperations'[o].changes
      BY <3>1 DEF Same, Replaced
    <3> QED BY <2>1, <3>2, <3>3
  <2>3. CASE mLatestChangeId < c /\ c <= mLatestChangeId' /\ changes'[c].item = i
    <3>1. ~Busy(c) /\ \A o \in Operations : c \notin mAtomicOperations[o].changes
      BY <1>1, <2>1, <2>3 DEF JobsInv, FreshIsUnused
    <3>2. mChangeForJob'[c] = "none"
      BY <2>1, <3>1 DEF Busy
    <3>3. \A o \in Operations : c \notin mAtomicOperations'[o].changes
      BY <3>1 DEF Same, Replaced
    <3> QED BY <2>1, <2>3, <3>2, <3>3
  <2> QED BY <2>1, <2>2, <2>3
<1>4. DeadIsEmpty'
  BY DEF JobsInv, DeadIsEmpty, Same, Replaced
<1>5. \A c \in Changes : Busy(c)' /\ OpOf(c)' # NoOperation =>
        OpOf(c)' \in Operations /\ c \in mAtomicOperations'[OpOf(c)'].changes
  <2> SUFFICES ASSUME NEW c \in Changes, Busy(c)', OpOf(c)' # NoOperation
               PROVE  OpOf(c)' \in Operations /\ c \in mAtomicOperations'[OpOf(c)'].changes
    OBVIOUS
  <2>1. Busy(c) /\ OpOf(c)' = OpOf(c)
    BY DEF JobsInv, FreshIsUnused
  <2>2. OpOf(c) \in Operations
    BY <2>1, ConstantsAssumption DEF OpOf, IInv, ChangesTypeOK, ChangeTypes, Operations, NoOperation
  <2>3. c \in mAtomicOperations[OpOf(c)].changes
    BY <2>1 DEF JobsInv, BusyIsMember
  <2> QED BY <2>1, <2>2, <2>3 DEF Same, Replaced
<1>6. BusyIsMember'
  BY <1>5 DEF BusyIsMember
<1>7. BusyHasOperation'
  BY <1>4, <1>5 DEF BusyHasOperation, DeadIsEmpty
<1>8. CountIsBehind'
  <2> SUFFICES ASSUME NEW o \in Operations
               PROVE  mAtomicOperations'[o].numCompletedChanges <= Cardinality(Idle(o)')
    BY DEF CountIsBehind
  <2>1. CASE Same(o)
    <3>1. Idle(o)' = Idle(o)
      BY <2>1, OperationsHave DEF Idle, Same
    <3> QED BY <2>1, <3>1 DEF Same, JobsInv, CountIsBehind
  <2>2. CASE Replaced(o)
    <3>1. Idle(o)' \in SUBSET Changes
      BY <2>2 DEF Idle, Replaced
    <3> HIDE DEF Idle
    <3> QED BY <2>2, <3>1, SubsetsAreFinite DEF Replaced
  <2> QED BY <2>1, <2>2
<1> QED BY <1>2, <1>3, <1>4, <1>6, <1>7, <1>8 DEF JobsInv

\* The job of c starts, in operation op if that is one; only a step that crashes does not
\* make c a member of it.
LEMMA JobStarts ==
  ASSUME IInv, IInv', JobsInv, ~crashed, mLatestChangeId' >= mLatestChangeId,
         NEW c \in Changes, NEW op \in 0 .. MaxOperations, NEW joined \in BOOLEAN,
         c <= mLatestChangeId', ~Busy(c),
         \A o \in Operations : c \notin mAtomicOperations[o].changes,
         mChangeForJob' = [mChangeForJob EXCEPT ![c] = "running"],
         OpOf(c)' = op,
         \A d \in Changes : d # c /\ d <= mLatestChangeId =>
           OpOf(d)' = OpOf(d) /\ changes'[d].item = changes[d].item,
         \A i \in Items :
           mQueuedModifications'[i] \in {mQueuedModifications[i], NoChange} \ {c},
         Joins(c, op, joined)
  PROVE  JobsInv'
<1>1. mLatestChangeId \in Nat /\ mLatestChangeId' \in Nat /\ Changes \subseteq Nat
  BY ConstantsAssumption DEF IInv, PipelineTypeOK, Changes
<1>2. \A d \in Changes : Busy(d)' <=> (Busy(d) \/ d = c)
  BY DEF Busy, IInv, RestTypeOK
<1>3. FreshIsUnused'
  BY <1>1, <1>2 DEF JobsInv, FreshIsUnused, Joins
<1>4. WaitingIsOutside'
  <2> SUFFICES ASSUME NEW i \in Items, mQueuedModifications'[i] # NoChange
               PROVE  /\ mQueuedModifications'[i] <= mLatestChangeId'
                      /\ changes'[mQueuedModifications'[i]].item = i
                      /\ mChangeForJob'[mQueuedModifications'[i]] = "none"
                      /\ \A o \in Operations :
                           mQueuedModifications'[i] \notin mAtomicOperations'[o].changes
    BY DEF WaitingIsOutside, Busy
  <2> DEFINE d == mQueuedModifications[i]
  <2>1. d \in Changes /\ d # c /\ mQueuedModifications'[i] = d
    BY DEF IInv, PipelineTypeOK
  <2>2. /\ d <= mLatestChangeId /\ changes[d].item = i /\ ~Busy(d)
        /\ \A o \in Operations : d \notin mAtomicOperations[o].changes
    BY <2>1 DEF JobsInv, WaitingIsOutside
  <2> HIDE DEF d
  <2>3. d <= mLatestChangeId' /\ changes'[d].item = i /\ mChangeForJob'[d] = "none"
    BY <1>1, <1>2, <2>1, <2>2 DEF Busy
  <2>4. \A o \in Operations : d \notin mAtomicOperations'[o].changes
    BY <2>1, <2>2 DEF Joins
  <2> QED BY <2>1, <2>3, <2>4
<1>5. DeadIsEmpty'
  <2>1. op # NoOperation => op \in Operations
    BY ConstantsAssumption DEF Operations, NoOperation
  <2>2. 0 \notin Operations
    BY ConstantsAssumption DEF Operations
  <2> QED BY <2>1, <2>2 DEF JobsInv, DeadIsEmpty, NoOperation, Joins
<1>6. \A d \in Changes : d # c /\ Busy(d)' /\ OpOf(d)' # NoOperation =>
        /\ OpOf(d)' \in Operations /\ d \in mAtomicOperations'[OpOf(d)'].changes
        /\ mAtomicOperations'[OpOf(d)'].alive
  <2> SUFFICES ASSUME NEW d \in Changes, d # c, Busy(d)', OpOf(d)' # NoOperation
               PROVE  /\ OpOf(d)' \in Operations /\ d \in mAtomicOperations'[OpOf(d)'].changes
                      /\ mAtomicOperations'[OpOf(d)'].alive
    OBVIOUS
  <2>1. Busy(d) /\ OpOf(d)' = OpOf(d)
    BY <1>2 DEF JobsInv, FreshIsUnused
  <2>2. OpOf(d) \in Operations
    BY <2>1, ConstantsAssumption DEF OpOf, IInv, ChangesTypeOK, ChangeTypes, Operations, NoOperation
  <2>3. d \in mAtomicOperations[OpOf(d)].changes /\ mAtomicOperations[OpOf(d)].alive
    BY <2>1 DEF JobsInv, BusyIsMember, BusyHasOperation
  <2> QED BY <2>1, <2>2, <2>3 DEF Joins
<1>7. op # NoOperation =>
        /\ op \in Operations /\ mAtomicOperations'[op].alive
        /\ crashed' \/ c \in mAtomicOperations'[op].changes
  BY ConstantsAssumption DEF Operations, NoOperation, Joins
<1>8. BusyIsMember'
  BY <1>6, <1>7 DEF BusyIsMember
<1>9. BusyHasOperation'
  BY <1>6, <1>7 DEF BusyHasOperation
<1>10. CountIsBehind'
  <2> SUFFICES ASSUME NEW o \in Operations
               PROVE  mAtomicOperations'[o].numCompletedChanges <= Cardinality(Idle(o)')
    BY DEF CountIsBehind
  <2>1. Idle(o)' = Idle(o)
    BY <1>2, OperationsHave DEF Idle, Joins
  <2> QED BY <2>1 DEF JobsInv, CountIsBehind, Joins
<1> QED BY <1>3, <1>4, <1>5, <1>8, <1>9, <1>10 DEF JobsInv

\* The result of the job of c is handled; it is counted or not.
LEMMA JobIsHandled ==
  ASSUME IInv, IInv', JobsInv, ~crashed, NEW c \in Changes, Busy(c),
         mChangeForJob' = [mChangeForJob EXCEPT ![c] = "none"],
         mAtomicOperations' \in {mAtomicOperations, Counted(c)},
         UNCHANGED <<mLatestChangeId, mQueuedModifications, crashed>>,
         \A d \in Changes : OpOf(d)' = OpOf(d) /\ changes'[d].item = changes[d].item
  PROVE  JobsInv'
<1>1. \A d \in Changes : Busy(d)' <=> (Busy(d) /\ d # c)
  BY DEF Busy, IInv, RestTypeOK
<1>2. \A o \in Operations :
        /\ mAtomicOperations'[o].changes = mAtomicOperations[o].changes
        /\ mAtomicOperations'[o].alive = mAtomicOperations[o].alive
        /\ \/ mAtomicOperations'[o].numCompletedChanges = mAtomicOperations[o].numCompletedChanges
           \/ /\ o = OpOf(c)
              /\ mAtomicOperations'[o].numCompletedChanges
                   = mAtomicOperations[o].numCompletedChanges + 1
  BY OperationsHave DEF Counted, OperationTypes, OpOf
<1>3. FreshIsUnused'
  BY <1>1, <1>2 DEF JobsInv, FreshIsUnused
<1>4. WaitingIsOutside'
  <2>1. \A i \in Items : mQueuedModifications[i] # NoChange => mQueuedModifications[i] \in Changes
    BY DEF IInv, PipelineTypeOK
  <2> QED BY <1>1, <1>2, <2>1 DEF JobsInv, WaitingIsOutside
<1>5. \A d \in Changes : OpOf(d) # NoOperation => OpOf(d) \in Operations
  BY ConstantsAssumption DEF OpOf, IInv, ChangesTypeOK, ChangeTypes, Operations, NoOperation
<1>6. DeadIsEmpty'
  BY <1>2 DEF JobsInv, DeadIsEmpty
<1>7. BusyIsMember' /\ BusyHasOperation'
  BY <1>1, <1>2, <1>5 DEF JobsInv, BusyIsMember, BusyHasOperation
<1>8. CountIsBehind'
  <2> SUFFICES ASSUME NEW o \in Operations
               PROVE  mAtomicOperations'[o].numCompletedChanges <= Cardinality(Idle(o)')
    BY DEF CountIsBehind
  <2>1. Idle(o)' = Idle(o) \cup (IF c \in mAtomicOperations[o].changes THEN {c} ELSE {})
    BY <1>1, <1>2, OperationsHave DEF Idle
  <2>2. c \notin Idle(o) /\ Idle(o) \in SUBSET Changes
    BY OperationsHave DEF Idle
  <2>3. IsFiniteSet(Idle(o)) /\ Cardinality(Idle(o)) \in Nat
    BY <2>2, SubsetsAreFinite
  <2>4. mAtomicOperations[o].numCompletedChanges <= Cardinality(Idle(o))
    BY DEF JobsInv, CountIsBehind
  <2>5. CASE c \in mAtomicOperations[o].changes
    <3>1. Cardinality(Idle(o)') = Cardinality(Idle(o)) + 1
      BY <2>1, <2>2, <2>3, <2>5, FS_AddElement
    <3> QED BY <1>2, <2>3, <2>4, <3>1, OperationsHave
  <2>6. CASE c \notin mAtomicOperations[o].changes
    <3>1. o # OpOf(c)
      BY <2>6, ConstantsAssumption DEF JobsInv, BusyIsMember, Operations, NoOperation
    <3>2. Idle(o)' = Idle(o)
      BY <2>1, <2>6
    <3> QED BY <1>2, <2>4, <3>1, <3>2
  <2> QED BY <2>5, <2>6
<1> QED BY <1>3, <1>4, <1>6, <1>7, <1>8 DEF JobsInv

-----------------------------------------------------------------------------
(* What the operations on AtomicOperation objects do.                      *)

LEMMA OutcomeKeeps ==
  ASSUME NEW ch \in ChangeTypes
  PROVE  Outcome(ch).atomicOperationId = ch.atomicOperationId /\ Outcome(ch).item = ch.item
BY DEF Outcome, ChangeTypes

LEMMA DeleteKeeps ==
  ASSUME IInv, JobsInv, NEW chs, ChangesTypeOK(chs), NEW o \in Operations, NEW rolledback,
         ~PendingJobs(mAtomicOperations[o]), DeleteOperation(o, chs, rolledback)
  PROVE  /\ \A p \in Operations : Same(p) \/ Replaced(p)
         /\ \A c \in Changes : OpOf(c)' = chs[c].atomicOperationId /\ changes'[c].item = chs[c].item
<1>1. Deleted.changes = {} /\ Deleted.numCompletedChanges = 0
  BY DEF Deleted, Operation
<1>2. \A p \in Operations : Same(p) \/ Replaced(p)
  BY <1>1, AllHandled DEF DeleteOperation, Same, Replaced, IInv, OperationsInv, OperationsTypeOK
<1>3. \A c \in Changes : OpOf(c)' = chs[c].atomicOperationId /\ changes'[c].item = chs[c].item
  BY OutcomeKeeps DEF DeleteOperation, OpOf, ChangesTypeOK
<1> QED BY <1>2, <1>3

LEMMA ResultKeeps ==
  ASSUME IInv, JobsInv, NEW chs, ChangesTypeOK(chs), NEW o \in Operations, NEW error \in BOOLEAN,
         HandleTransactionJobResult(o, error, chs)
  PROVE  /\ \A p \in Operations : Same(p) \/ Replaced(p)
         /\ \A c \in Changes : OpOf(c)' = chs[c].atomicOperationId /\ changes'[c].item = chs[c].item
<1> DEFINE op == [mAtomicOperations[o] EXCEPT !.rolledback = @ \/ error]
<1>1. /\ op.changes = mAtomicOperations[o].changes
      /\ op.numCompletedChanges = mAtomicOperations[o].numCompletedChanges
      /\ op.alive = mAtomicOperations[o].alive
      /\ op \in OperationTypes
  BY OperationsHave DEF OperationTypes
<1>2. PendingJobs(op) <=> PendingJobs(mAtomicOperations[o])
  BY <1>1 DEF PendingJobs
<1>3. CASE ~PendingJobs(op) /\ DeleteOperation(o, chs, op.rolledback)
  <2> HIDE DEF op
  <2> QED BY <1>2, <1>3, DeleteKeeps
<1>4. CASE /\ mAtomicOperations' =
                [mAtomicOperations EXCEPT ![o] = [op EXCEPT !.transactionCompleted = TRUE]]
           /\ changes' = chs
  <2> HIDE DEF op
  <2>1. LET new == [op EXCEPT !.transactionCompleted = TRUE]
        IN  /\ new.changes = op.changes /\ new.alive = op.alive
            /\ new.numCompletedChanges = op.numCompletedChanges
    BY <1>1 DEF OperationTypes
  <2>2. \A p \in Operations : Same(p)
    BY <1>1, <1>4, <2>1 DEF Same, IInv, OperationsInv, OperationsTypeOK
  <2> QED BY <1>4, <2>2 DEF OpOf
<1> QED BY <1>3, <1>4 DEF HandleTransactionJobResult

LEMMA AbortedKeeps ==
  ASSUME IInv, NEW o
  PROVE  \A c \in Changes : Aborted(o)[c] = "none" <=> ~Busy(c)
BY DEF Aborted, Busy

LEMMA CancelKeeps ==
  ASSUME IInv, JobsInv, NEW chs, ChangesTypeOK(chs), CancelTransaction(chs)
  PROVE  /\ \A p \in Operations : Same(p) \/ Replaced(p)
         /\ \A c \in Changes : Busy(c)' <=> Busy(c)
         /\ \A c \in Changes : OpOf(c)' = chs[c].atomicOperationId /\ changes'[c].item = chs[c].item
<1> DEFINE o == mLatestAtomicOperationId
<1>1. CASE UNCHANGED <<mAtomicOperations, mChangeForJob>> /\ changes' = chs
  BY <1>1 DEF Same, Busy, OpOf
<1>2. mBatchOperationInProgress => o \in Operations
  BY DEF IInv, OperationsInv, OneOperation
<1>3. CASE /\ mBatchOperationInProgress
           /\ HandleTransactionJobResult(o, TRUE, chs) /\ UNCHANGED mChangeForJob
  <2>1. \A c \in Changes : Busy(c)' <=> Busy(c)
    BY <1>3 DEF Busy
  <2> QED BY <1>2, <1>3, <2>1, ResultKeeps
<1>4. CASE /\ mBatchOperationInProgress
           /\ mAtomicOperations' = [mAtomicOperations EXCEPT ![o].rolledback = TRUE]
           /\ mChangeForJob' \in {mChangeForJob, Aborted(o)}
           /\ changes' = chs
  <2>1. \A p \in Operations : Same(p)
    BY <1>2, <1>4, OperationsHave DEF Same, OperationTypes
  <2>2. \A c \in Changes : Busy(c)' <=> Busy(c)
    BY <1>4, AbortedKeeps DEF Busy
  <2> QED BY <1>4, <2>1, <2>2 DEF OpOf
<1> QED BY <1>1, <1>3, <1>4 DEF CancelTransaction

LEMMA CleanupKeeps ==
  ASSUME IInv, JobsInv, NEW chs, ChangesTypeOK(chs), RolledBack, CleanupTransaction(chs)
  PROVE  /\ \A p \in Operations : Same(p) \/ Replaced(p)
         /\ \A c \in Changes : Busy(c)' <=> Busy(c)
         /\ \A c \in Changes : OpOf(c)' = chs[c].atomicOperationId /\ changes'[c].item = chs[c].item
<1>1. mLatestAtomicOperationId \in Operations /\ UNCHANGED mChangeForJob
  BY DEF RolledBack, CleanupTransaction, IInv, OperationsInv, OneOperation
<1>2. \A c \in Changes : Busy(c)' <=> Busy(c)
  BY <1>1 DEF Busy
<1>3. CASE /\ ~PendingJobs(Latest)
           /\ DeleteOperation(mLatestAtomicOperationId, chs, Latest.rolledback)
  BY <1>1, <1>2, <1>3, DeleteKeeps DEF Latest
<1>4. CASE UNCHANGED mAtomicOperations /\ changes' = chs
  BY <1>2, <1>4 DEF Same, OpOf
<1> QED BY <1>3, <1>4 DEF CleanupTransaction

LEMMA AddedJoins ==
  ASSUME IInv, NEW o \in Operations, NEW c \in Changes, NEW items \in SUBSET Items,
         mAtomicOperations[o].alive, mAtomicOperations' = Added(o, c, items)
  PROVE  Joins(c, o, TRUE)
<1>1. LET new == AddChange(mAtomicOperations[o], c, items)
      IN  /\ new.changes = mAtomicOperations[o].changes \cup {c}
          /\ new.numCompletedChanges = mAtomicOperations[o].numCompletedChanges
          /\ new.alive = mAtomicOperations[o].alive
  BY OperationsHave DEF AddChange, OperationTypes
<1> QED BY <1>1 DEF Joins, Added

LEMMA JoinOperationJoins ==
  ASSUME IInv, NEW c \in Changes, NEW items \in SUBSET Items, JoinOperation(c, items)
  PROVE  \E joined \in BOOLEAN : Joins(c, CurrentOperation, joined)
<1>1. mBatchOperationInProgress =>
        /\ mLatestAtomicOperationId \in Operations
        /\ mAtomicOperations[mLatestAtomicOperationId].alive
  BY DEF IInv, OperationsInv, OneOperation
<1>2. CASE ~mBatchOperationInProgress /\ UNCHANGED mAtomicOperations
  BY <1>2 DEF Joins, CurrentOperation
<1>3. CASE mBatchOperationInProgress /\ UNCHANGED mAtomicOperations /\ crashed' = TRUE
  BY <1>1, <1>3 DEF Joins, CurrentOperation
<1>4. CASE mBatchOperationInProgress /\ mAtomicOperations' = Added(mLatestAtomicOperationId, c, items)
  <2>1. Joins(c, CurrentOperation, TRUE)
    BY <1>1, <1>4, AddedJoins DEF CurrentOperation
  <2> QED BY <2>1
<1> QED BY <1>2, <1>3, <1>4 DEF JoinOperation

-----------------------------------------------------------------------------
(* The calls: the id of a new change was not used before.                  *)

LEMMA NewChange ==
  ASSUME IInv, JobsInv, NEW c \in Changes, NewId(c), NEW ch
  PROVE  /\ mLatestChangeId' >= mLatestChangeId /\ mLatestChangeId < c /\ c <= mLatestChangeId'
         /\ \A d \in Changes : d <= mLatestChangeId => d # c /\ With(c, ch)[d] = changes[d]
         /\ With(c, ch)[c] = ch
         /\ ~Busy(c) /\ \A o \in Operations : c \notin mAtomicOperations[o].changes
         /\ \A i \in Items : mQueuedModifications[i] # c
<1>1. mLatestChangeId \in Nat /\ Changes \subseteq Nat /\ 0 \notin Changes
  BY ConstantsAssumption DEF IInv, PipelineTypeOK, Changes
<1>2. mLatestChangeId' >= mLatestChangeId /\ mLatestChangeId < c /\ c <= mLatestChangeId'
  BY <1>1 DEF NewId
<1>3. \A d \in Changes : d <= mLatestChangeId => d # c /\ With(c, ch)[d] = changes[d]
  BY <1>1, <1>2 DEF With, IInv, ChangesTypeOK
<1>4. With(c, ch)[c] = ch
  BY DEF With, IInv, ChangesTypeOK
<1>5. ~Busy(c) /\ \A o \in Operations : c \notin mAtomicOperations[o].changes
  BY <1>1, <1>2 DEF JobsInv, FreshIsUnused
<1>6. \A i \in Items : mQueuedModifications[i] # c
  BY <1>1, <1>2 DEF JobsInv, WaitingIsOutside, NoChange
<1> QED BY <1>2, <1>3, <1>4, <1>5, <1>6

\* A change that is constructed and gets no job.
LEMMA NoJobStep ==
  ASSUME IInv, IInv', JobsInv, ~crashed, NEW c \in Changes, NewId(c), NEW ch,
         UNCHANGED mQueuedModifications,
         \A o \in Operations : Same(o) \/ Replaced(o),
         \A d \in Changes : Busy(d)' <=> Busy(d),
         \A d \in Changes : /\ OpOf(d)' = With(c, ch)[d].atomicOperationId
                            /\ changes'[d].item = With(c, ch)[d].item
  PROVE  JobsInv'
<1>1. \A d \in Changes : d <= mLatestChangeId =>
        OpOf(d)' = OpOf(d) /\ changes'[d].item = changes[d].item
  BY NewChange DEF OpOf
<1> QED BY <1>1, NewChange, KeepsStep

\* One whose job starts at once.
LEMMA JobStep ==
  ASSUME IInv, IInv', JobsInv, ~crashed, NEW c \in Changes, NewId(c),
         NEW type, NEW item, NEW code, NEW items \in SUBSET Items,
         UNCHANGED mQueuedModifications,
         changes' = With(c, Change(type, item, CurrentOperation, code)),
         mChangeForJob' = [mChangeForJob EXCEPT ![c] = "running"],
         JoinOperation(c, items)
  PROVE  JobsInv'
<1> DEFINE ch == Change(type, item, CurrentOperation, code)
<1>1. ch.atomicOperationId = CurrentOperation
  BY DEF Change
<1> HIDE DEF ch
<1>2. PICK joined \in BOOLEAN : Joins(c, CurrentOperation, joined)
  BY JoinOperationJoins
<1>3. \A d \in Changes : d # c /\ d <= mLatestChangeId =>
        OpOf(d)' = OpOf(d) /\ changes'[d].item = changes[d].item
  BY NewChange DEF OpOf, ch
<1>4. OpOf(c)' = CurrentOperation
  <2>1. changes'[c] = ch
    BY NewChange DEF ch
  <2> QED BY <1>1, <2>1 DEF OpOf
<1>5. \A i \in Items : mQueuedModifications'[i] \in {mQueuedModifications[i], NoChange} \ {c}
  BY NewChange
<1>6. CurrentOperation \in 0 .. MaxOperations
  BY CurrentOperationType DEF IInv
<1>7. /\ mLatestChangeId' >= mLatestChangeId /\ c <= mLatestChangeId' /\ ~Busy(c)
      /\ \A o \in Operations : c \notin mAtomicOperations[o].changes
  BY NewChange
<1> HIDE DEF CurrentOperation
<1> QED BY <1>2, <1>3, <1>4, <1>5, <1>6, <1>7, JobStarts

LEMMA CallInvalidJobs ==
  ASSUME IInv, IInv', JobsInv, ~crashed, CallInvalid
  PROVE  JobsInv'
<1>1. CancelTransaction(changes) /\ UNCHANGED pipelineVars /\ ChangesTypeOK(changes)
  BY DEF CallInvalid, IInv
<1>2. mLatestChangeId' >= mLatestChangeId
  BY <1>1 DEF pipelineVars, IInv, PipelineTypeOK
<1>3. /\ \A p \in Operations : Same(p) \/ Replaced(p)
      /\ \A c \in Changes : Busy(c)' <=> Busy(c)
      /\ \A c \in Changes : OpOf(c)' = OpOf(c) /\ changes'[c].item = changes[c].item
  BY <1>1, CancelKeeps DEF OpOf
<1>4. UNCHANGED mQueuedModifications
  BY <1>1 DEF pipelineVars
<1> QED BY <1>2, <1>3, <1>4, KeepsStep

LEMMA CallRolledBackJobs ==
  ASSUME IInv, IInv', JobsInv, ~crashed, NEW c \in Changes, CallRolledBack(c)
  PROVE  JobsInv'
<1>1. /\ RolledBack /\ NewId(c) /\ UNCHANGED mQueuedModifications
      /\ CleanupTransaction(With(c, Refused("Rolledback")))
  BY DEF CallRolledBack
<1>2. ChangesTypeOK(With(c, Refused("Rolledback")))
  BY RefusedStep DEF Codes
<1> QED BY <1>1, <1>2, CleanupKeeps, NoJobStep

LEMMA CallRefusedJobs ==
  ASSUME IInv, IInv', JobsInv, ~crashed, NEW c \in Changes, CallRefused(c)
  PROVE  JobsInv'
<1>1. PICK code \in {"Permissions", "AlreadyDeleted"} : CancelTransaction(With(c, Refused(code)))
  BY DEF CallRefused
<1>2. NewId(c) /\ UNCHANGED mQueuedModifications
  BY DEF CallRefused
<1>3. ChangesTypeOK(With(c, Refused(code)))
  BY RefusedStep DEF Codes
<1> QED BY <1>1, <1>2, <1>3, CancelKeeps, NoJobStep

LEMMA CreateJobs ==
  ASSUME IInv, IInv', JobsInv, ~crashed, NEW c \in Changes, Create(c)
  PROVE  JobsInv'
<1>1. {} \in SUBSET Items
  OBVIOUS
<1> QED BY <1>1, JobStep DEF Create

LEMMA DeleteJobs ==
  ASSUME IInv, IInv', JobsInv, ~crashed, NEW c \in Changes, Delete(c)
  PROVE  JobsInv'
<1>1. {} \in SUBSET Items
  OBVIOUS
<1> QED BY <1>1, JobStep DEF Delete

LEMMA ModifyRefusedJobs ==
  ASSUME IInv, IInv', JobsInv, ~crashed, NEW c \in Changes, ModifyRefused(c)
  PROVE  JobsInv'
<1>1. CancelTransaction(changes) /\ NewId(c) /\ UNCHANGED mQueuedModifications
  BY DEF ModifyRefused
<1>2. /\ \A p \in Operations : Same(p) \/ Replaced(p)
      /\ \A d \in Changes : Busy(d)' <=> Busy(d)
      /\ \A d \in Changes : OpOf(d)' = OpOf(d) /\ changes'[d].item = changes[d].item
  BY <1>1, CancelKeeps DEF OpOf, IInv
<1>3. mLatestChangeId' >= mLatestChangeId
  BY <1>1, NewChange
<1> QED BY <1>1, <1>2, <1>3, KeepsStep

LEMMA ModifyJobs ==
  ASSUME IInv, IInv', JobsInv, ~crashed, NEW c \in Changes, Modify(c)
  PROVE  JobsInv'
<1>1. PICK i \in Items :
        \/ ModifyDuplicate(c, i) \/ ModifyRolledBack(c, i) \/ ModifyDeleted(c, i)
        \/ ModifyQueued(c, i) \/ ModifyStarted(c, i)
  BY DEF Modify
<1> DEFINE new(code) == Change("modify", i, CurrentOperation, code)
<1>2. NewId(c)
  BY DEF Modify
<1>3. \A code \in Codes : ChangesTypeOK(With(c, new(code)))
  BY ConstructedStep
<1>4. CASE ModifyDuplicate(c, i)
  <2>1. CancelTransaction(With(c, new("DuplicateId"))) /\ UNCHANGED mQueuedModifications
    BY <1>4 DEF ModifyDuplicate
  <2>2. ChangesTypeOK(With(c, new("DuplicateId")))
    BY <1>3 DEF Codes
  <2> HIDE DEF new
  <2> QED BY <1>2, <2>1, <2>2, CancelKeeps, NoJobStep
<1>5. CASE ModifyRolledBack(c, i)
  <2>1. /\ CleanupTransaction(With(c, new("Success"))) /\ UNCHANGED mQueuedModifications
        /\ RolledBack
    BY <1>5 DEF ModifyRolledBack
  <2>2. ChangesTypeOK(With(c, new("Success")))
    BY <1>3 DEF Codes
  <2> HIDE DEF new
  <2> QED BY <1>2, <2>1, <2>2, CleanupKeeps, NoJobStep
<1>6. CASE ModifyDeleted(c, i)
  <2>1. /\ changes' = With(c, new("Success"))
        /\ UNCHANGED <<mChangeForJob, mQueuedModifications, mAtomicOperations>>
    BY <1>6 DEF ModifyDeleted, operationVars
  <2> HIDE DEF new
  <2>2. /\ \A p \in Operations : Same(p)
        /\ \A d \in Changes : Busy(d)' <=> Busy(d)
        /\ \A d \in Changes : /\ OpOf(d)' = With(c, new("Success"))[d].atomicOperationId
                              /\ changes'[d].item = With(c, new("Success"))[d].item
    BY <2>1 DEF Same, Busy, OpOf
  <2> QED BY <1>2, <2>1, <2>2, NoJobStep
<1>7. CASE ModifyQueued(c, i)
  <2>1. /\ UNCHANGED <<mChangeForJob, mAtomicOperations>>
        /\ mQueuedModifications' = [mQueuedModifications EXCEPT ![i] = c]
    BY <1>7 DEF ModifyQueued, operationVars
  <2>2. /\ \A p \in Operations : Same(p)
        /\ \A d \in Changes : Busy(d)' <=> Busy(d)
    BY <2>1 DEF Same, Busy
  <2>3. changes'[c].item = i
    <3> DEFINE queued == [new("Success") EXCEPT !.queuedModification = TRUE]
    <3>1. queued.item = i
      BY DEF Change
    <3>2. changes'[c] = queued
      BY <1>7 DEF ModifyQueued
    <3> QED BY <3>1, <3>2
  <2>4. ASSUME NEW d \in Changes, d # c
        PROVE  OpOf(d)' = OpOf(d) /\ changes'[d].item = changes[d].item
    <3> DEFINE dropped == [changes[d] EXCEPT !.resultCode = "ModificationDiscarded",
                                             !.completed = TRUE]
    <3>1. dropped.item = changes[d].item /\ dropped.atomicOperationId = changes[d].atomicOperationId
      <4>1. changes[d] \in ChangeTypes
        BY DEF IInv, ChangesTypeOK
      <4> QED BY <4>1 DEF ChangeTypes
    <3>2. changes'[d] \in {dropped, changes[d]}
      BY <1>7, <2>4 DEF ModifyQueued
    <3> QED BY <3>1, <3>2 DEF OpOf
  <2>5. mLatestChangeId' >= mLatestChangeId /\ mLatestChangeId < c /\ c <= mLatestChangeId'
    BY <1>2, NewChange
  <2>6. \A d \in Changes : d <= mLatestChangeId =>
          OpOf(d)' = OpOf(d) /\ changes'[d].item = changes[d].item
    BY <1>2, <2>4, NewChange
  <2>7. \A j \in Items :
          \/ mQueuedModifications'[j] \in {mQueuedModifications[j], NoChange}
          \/ /\ mLatestChangeId < mQueuedModifications'[j]
             /\ mQueuedModifications'[j] <= mLatestChangeId'
             /\ changes'[mQueuedModifications'[j]].item = j
    BY <2>1, <2>3, <2>5 DEF IInv, PipelineTypeOK
  <2> QED BY <2>2, <2>5, <2>6, <2>7, KeepsStep
<1>8. CASE ModifyStarted(c, i)
  <2>1. {i} \in SUBSET Items
    OBVIOUS
  <2> QED BY <1>2, <1>8, <2>1, JobStep DEF ModifyStarted
<1> QED BY <1>1, <1>4, <1>5, <1>6, <1>7, <1>8

-----------------------------------------------------------------------------
(* The start and the end of a batch.                                       *)

LEMMA StartJobs ==
  ASSUME IInv, IInv', JobsInv, ~crashed, StartAtomicOperation
  PROVE  JobsInv'
<1>1. UNCHANGED <<pipelineVars, changes, mChangeForJob>>
  BY DEF StartAtomicOperation
<1>2. \A o \in Operations : Same(o) \/ Replaced(o)
  <2>1. CASE UNCHANGED operationVars
    BY <2>1 DEF operationVars, Same
  <2>2. CASE /\ ~mBatchOperationInProgress
             /\ mLatestAtomicOperationId' = mLatestAtomicOperationId + 1
             /\ mAtomicOperations' =
                  [mAtomicOperations EXCEPT ![mLatestAtomicOperationId + 1] = Operation]
    <3>1. \A o \in Operations : mAtomicOperations[o].changes = {}
      BY <2>2 DEF JobsInv, DeadIsEmpty, IInv, OperationsInv, OneOperation
    <3>2. Operation.changes = {} /\ Operation.numCompletedChanges = 0
      BY DEF Operation
    <3> QED BY <2>2, <3>1, <3>2 DEF Same, Replaced, IInv, OperationsInv, OperationsTypeOK
  <2> QED BY <2>1, <2>2 DEF StartAtomicOperation
<1>3. mLatestChangeId' >= mLatestChangeId
  BY <1>1 DEF pipelineVars, IInv, PipelineTypeOK
<1>4. /\ \A c \in Changes : Busy(c)' <=> Busy(c)
      /\ \A c \in Changes : OpOf(c)' = OpOf(c) /\ changes'[c].item = changes[c].item
      /\ UNCHANGED mQueuedModifications
  BY <1>1 DEF Busy, OpOf, pipelineVars
<1> QED BY <1>2, <1>3, <1>4, KeepsStep

LEMMA EndJobs ==
  ASSUME IInv, IInv', JobsInv, ~crashed, EndAtomicOperation
  PROVE  JobsInv'
<1> DEFINE o == mLatestAtomicOperationId
<1>1. UNCHANGED <<pipelineVars, mChangeForJob>>
  BY DEF EndAtomicOperation
<1>2. /\ \A p \in Operations : Same(p) \/ Replaced(p)
      /\ \A c \in Changes : OpOf(c)' = OpOf(c) /\ changes'[c].item = changes[c].item
  <2>1. CASE UNCHANGED <<mAtomicOperations, changes>>
    BY <2>1 DEF Same, OpOf
  <2>2. CASE /\ mBatchOperationInProgress /\ ~PendingJobs(Latest)
             /\ DeleteOperation(o, changes, TRUE)
    <3>1. o \in Operations /\ ChangesTypeOK(changes)
      BY <2>2 DEF IInv, OperationsInv, OneOperation
    <3> QED BY <2>2, <3>1, DeleteKeeps DEF Latest, OpOf
  <2>3. CASE /\ mBatchOperationInProgress /\ UNCHANGED changes
             /\ mAtomicOperations' = [mAtomicOperations EXCEPT ![o].endCalled = TRUE]
    <3>1. o \in Operations
      BY <2>3 DEF IInv, OperationsInv, OneOperation
    <3>2. \A p \in Operations : Same(p)
      BY <2>3, <3>1, OperationsHave DEF Same, OperationTypes
    <3> QED BY <2>3, <3>2 DEF OpOf
  <2> QED BY <2>1, <2>2, <2>3 DEF EndAtomicOperation
<1>3. mLatestChangeId' >= mLatestChangeId
  BY <1>1 DEF pipelineVars, IInv, PipelineTypeOK
<1>4. (\A c \in Changes : Busy(c)' <=> Busy(c)) /\ UNCHANGED mQueuedModifications
  BY <1>1 DEF Busy, pipelineVars
<1> QED BY <1>2, <1>3, <1>4, KeepsStep

-----------------------------------------------------------------------------
(* The handlers, and the server.                                           *)

\* What a handler stores in a change is neither its operation nor its item.
LEMMA ResultKeepsChange ==
  ASSUME NEW ch \in ChangeTypes, NEW code \in Codes, NEW done \in BOOLEAN, NEW killed \in BOOLEAN
  PROVE  LET failure == [ch EXCEPT !.resultCode = code, !.aborted = killed]
             result  == [ch EXCEPT !.resultCode = code, !.completed = @ \/ done,
                                   !.aborted = killed]
         IN  /\ failure.atomicOperationId = ch.atomicOperationId /\ failure.item = ch.item
             /\ result.atomicOperationId = ch.atomicOperationId /\ result.item = ch.item
BY DEF ChangeTypes

LEMMA HandleJobResultJobs ==
  ASSUME IInv, IInv', JobsInv, ~crashed, NEW c \in Changes, HandleJobResult(c)
  PROVE  JobsInv'
<1>1. /\ Busy(c) /\ UNCHANGED <<mLatestChangeId, mQueuedModifications, crashed>>
      /\ mChangeForJob' = [mChangeForJob EXCEPT ![c] = "none"]
      /\ mAtomicOperations' \in {mAtomicOperations, Counted(c)}
  BY DEF HandleJobResult, HandleCreateJobResult, HandleModifyJobResult, HandleDeleteJobResult,
    Take, Busy
<1>2. PICK code \in {"Success", "JobError", "AlreadyDeleted"} :
        \/ changes' = With(c, Result(c, code))
        \/ changes' = With(c, [changes[c] EXCEPT !.resultCode = code,
                                                 !.aborted = mChangeForJob[c] = "aborted"])
  BY DEF HandleJobResult, HandleCreateJobResult, HandleModifyJobResult, HandleDeleteJobResult
<1>3. code \in Codes /\ changes[c] \in ChangeTypes /\ changes \in [Changes -> ChangeTypes]
  BY DEF Codes, IInv, ChangesTypeOK
<1> DEFINE killed == mChangeForJob[c] = "aborted"
           done == changes[c].atomicOperationId # NoOperation
           failure == [changes[c] EXCEPT !.resultCode = code, !.aborted = killed]
           result == [changes[c] EXCEPT !.resultCode = code, !.completed = @ \/ done,
                                        !.aborted = killed]
<1>4. /\ failure.atomicOperationId = changes[c].atomicOperationId /\ failure.item = changes[c].item
      /\ result.atomicOperationId = changes[c].atomicOperationId /\ result.item = changes[c].item
  <2>1. killed \in BOOLEAN /\ done \in BOOLEAN
    OBVIOUS
  <2> HIDE DEF killed, done
  <2> QED BY <1>3, <2>1, ResultKeepsChange
<1>5. changes' \in {With(c, result), With(c, failure)}
  BY <1>2 DEF Result
<1> HIDE DEF result, failure
<1>6. \A d \in Changes : OpOf(d)' = OpOf(d) /\ changes'[d].item = changes[d].item
  BY <1>3, <1>4, <1>5 DEF With, OpOf
<1> QED BY <1>1, <1>6, JobIsHandled

LEMMA PerformNextJobs ==
  ASSUME IInv, IInv', JobsInv, ~crashed, NEW i \in Items, PerformNextModification(i)
  PROVE  JobsInv'
<1> DEFINE c == mQueuedModifications[i]
           o == changes[c].atomicOperationId
<1>1. /\ mQueuedModifications' = [mQueuedModifications EXCEPT ![i] = NoChange]
      /\ UNCHANGED <<mLatestChangeId, changes>>
  BY DEF PerformNextModification
<1>2. mLatestChangeId' >= mLatestChangeId
  BY <1>1 DEF IInv, PipelineTypeOK
<1>3. \A d \in Changes : OpOf(d)' = OpOf(d) /\ changes'[d].item = changes[d].item
  BY <1>1 DEF OpOf
<1>4. \A j \in Items : mQueuedModifications'[j] \in {mQueuedModifications[j], NoChange}
  BY <1>1 DEF IInv, PipelineTypeOK
<1>5. CASE UNCHANGED <<mChangeForJob, mAtomicOperations>>
  <2>1. /\ \A p \in Operations : Same(p)
        /\ \A d \in Changes : Busy(d)' <=> Busy(d)
    BY <1>5 DEF Same, Busy
  <2> QED BY <1>2, <1>3, <1>4, <2>1, KeepsStep
<1>6. CASE /\ c # NoChange /\ mChangeForJob' = [mChangeForJob EXCEPT ![c] = "running"]
           /\ \/ o = NoOperation /\ UNCHANGED mAtomicOperations
              \/ /\ o # NoOperation /\ mAtomicOperations[o].alive
                 /\ mAtomicOperations' = Added(o, c, {i})
  <2>1. PICK d \in Changes : d = c
    BY <1>6 DEF IInv, PipelineTypeOK
  <2>2. PICK op \in 0 .. MaxOperations : op = changes[d].atomicOperationId
    BY DEF IInv, ChangesTypeOK, ChangeTypes
  <2>3. /\ d # NoChange /\ mChangeForJob' = [mChangeForJob EXCEPT ![d] = "running"]
        /\ \/ op = NoOperation /\ UNCHANGED mAtomicOperations
           \/ /\ op # NoOperation /\ mAtomicOperations[op].alive
              /\ mAtomicOperations' = Added(op, d, {i})
    BY <1>6, <2>1, <2>2
  <2>4. /\ d <= mLatestChangeId' /\ ~Busy(d)
        /\ \A p \in Operations : d \notin mAtomicOperations[p].changes
    BY <1>1, <2>1, <2>3 DEF JobsInv, WaitingIsOutside
  <2>5. \A j \in Items : mQueuedModifications'[j] \in {mQueuedModifications[j], NoChange} \ {d}
    <3>1. \A j \in Items : mQueuedModifications[j] = d => j = i
      BY <2>1, <2>3 DEF JobsInv, WaitingIsOutside
    <3> QED BY <1>1, <1>4, <2>3, <3>1 DEF IInv, PipelineTypeOK
  <2>6. OpOf(d)' = op
    BY <1>1, <2>2 DEF OpOf
  <2>7. PICK joined \in BOOLEAN : Joins(d, op, joined)
    <3>1. CASE op = NoOperation /\ UNCHANGED mAtomicOperations
      <4>1. Joins(d, op, FALSE)
        BY <3>1 DEF Joins
      <4> QED BY <4>1
    <3>2. CASE /\ op # NoOperation /\ mAtomicOperations[op].alive
               /\ mAtomicOperations' = Added(op, d, {i})
      <4>1. op \in Operations /\ {i} \in SUBSET Items
        BY <3>2, ConstantsAssumption DEF Operations, NoOperation
      <4>2. Joins(d, op, TRUE)
        BY <3>2, <4>1, AddedJoins
      <4> QED BY <4>2
    <3> QED BY <2>3, <3>1, <3>2
  <2> HIDE DEF c, o
  <2> QED BY <1>2, <1>3, <2>3, <2>4, <2>5, <2>6, <2>7, JobStarts
<1> QED BY <1>5, <1>6 DEF PerformNextModification

LEMMA JobEndsJobs ==
  ASSUME IInv, IInv', JobsInv, ~crashed, NEW c \in Changes, JobEnds(c)
  PROVE  JobsInv'
<1>1. UNCHANGED <<pipelineVars, changes, mAtomicOperations>> /\ mChangeForJob[c] = "running"
  BY DEF JobEnds
<1>2. \A d \in Changes : Busy(d)' <=> Busy(d)
  <2>1. CASE \E status \in {"succeeded", "failed"} :
               mChangeForJob' = [mChangeForJob EXCEPT ![c] = status]
    BY <1>1, <2>1 DEF Busy, IInv, RestTypeOK
  <2>2. CASE \E o \in Operations : mChangeForJob' = [Aborted(o) EXCEPT ![c] = "failed"]
    BY <1>1, <2>2 DEF Busy, Aborted
  <2> QED BY <2>1, <2>2 DEF JobEnds
<1>3. mLatestChangeId' >= mLatestChangeId
  BY <1>1 DEF pipelineVars, IInv, PipelineTypeOK
<1>4. /\ \A o \in Operations : Same(o)
      /\ \A d \in Changes : OpOf(d)' = OpOf(d) /\ changes'[d].item = changes[d].item
      /\ UNCHANGED mQueuedModifications
  BY <1>1 DEF Same, OpOf, pipelineVars
<1> QED BY <1>2, <1>3, <1>4, KeepsStep

LEMMA TransactionEndsJobs ==
  ASSUME IInv, IInv', JobsInv, ~crashed, NEW o \in Operations, TransactionEnds(o)
  PROVE  JobsInv'
<1>1. UNCHANGED <<pipelineVars, mChangeForJob>> /\ ChangesTypeOK(changes)
  BY DEF TransactionEnds, IInv
<1>2. PICK error \in BOOLEAN : HandleTransactionJobResult(o, error, changes)
  BY DEF TransactionEnds
<1>3. /\ \A p \in Operations : Same(p) \/ Replaced(p)
      /\ \A c \in Changes : OpOf(c)' = OpOf(c) /\ changes'[c].item = changes[c].item
  BY <1>1, <1>2, ResultKeeps DEF OpOf
<1>4. mLatestChangeId' >= mLatestChangeId
  BY <1>1 DEF pipelineVars, IInv, PipelineTypeOK
<1>5. (\A c \in Changes : Busy(c)' <=> Busy(c)) /\ UNCHANGED mQueuedModifications
  BY <1>1 DEF Busy, pipelineVars
<1> QED BY <1>3, <1>4, <1>5, KeepsStep

-----------------------------------------------------------------------------
(* The theorems.                                                           *)

LEMMA InitJobs == Init => JobsInv
<1> SUFFICES ASSUME Init PROVE JobsInv
  OBVIOUS
<1>1. IInv
  BY InitInv
<1>2. \A o \in Operations :
        mAtomicOperations[o].changes = {} /\ mAtomicOperations[o].numCompletedChanges = 0
  BY DEF Init, Deleted, Operation
<1>3. \A c \in Changes : ~Busy(c)
  BY DEF Init, Busy
<1>4. CountIsBehind
  <2> SUFFICES ASSUME NEW o \in Operations
               PROVE  0 <= Cardinality(Idle(o))
    BY <1>2 DEF CountIsBehind
  <2>1. Idle(o) \in SUBSET Changes
    BY <1>2 DEF Idle
  <2> HIDE DEF Idle
  <2> QED BY <2>1, SubsetsAreFinite
<1>5. \A i \in Items : mQueuedModifications[i] = NoChange
  BY DEF Init
<1> QED BY <1>2, <1>3, <1>4, <1>5
  DEF JobsInv, FreshIsUnused, WaitingIsOutside, BusyIsMember, DeadIsEmpty, BusyHasOperation

LEMMA NextJobs == IInv /\ IInv' /\ JobsInv /\ [Next]_vars => JobsInv'
<1> SUFFICES ASSUME IInv, IInv', JobsInv, [Next]_vars PROVE JobsInv'
  OBVIOUS
<1>1. CASE UNCHANGED vars
  BY <1>1 DEF vars, pipelineVars, operationVars, JobsInv, FreshIsUnused, WaitingIsOutside,
    BusyIsMember, DeadIsEmpty, CountIsBehind, BusyHasOperation, Busy, OpOf, Idle
<1>2. CASE ~crashed /\ Caller
  BY <1>2, StartJobs, CallInvalidJobs, CallRolledBackJobs, CallRefusedJobs, CreateJobs,
     DeleteJobs, ModifyRefusedJobs, ModifyJobs
  DEF Caller
<1>3. CASE ~crashed /\ EndAtomicOperation
  BY <1>3, EndJobs
<1>4. CASE ~crashed /\ EventLoop
  BY <1>4, HandleJobResultJobs, JobEndsJobs, PerformNextJobs, TransactionEndsJobs
  DEF EventLoop
<1> QED BY <1>1, <1>2, <1>3, <1>4 DEF Next

\* In every reachable state m_numCompletedChanges of an AtomicOperation is at most the
\* number of its changes without a job, a change with a job is in its operation, and one
\* that waits in mQueuedModifications is in none.
THEOREM JobsInvariance == Spec => []JobsInv
<1> QED BY InitInv, NextInv, InitJobs, NextJobs, PTL DEF Spec

\* The AtomicOperation that the handler of a job result dereferences (++m_numCompletedChanges)
\* exists, for every set of items, every number of changes and of batches: it is never
\* deleted, by a transaction that returns, a roll-back or endAtomicOperation(), while one
\* of its jobs has not been handled.
THEOREM OperationOutlives == Spec => []OperationOutlivesItsJobs
<1>1. JobsInv /\ TypeOK => OperationOutlivesItsJobs
  BY DEF JobsInv, BusyHasOperation, Busy, OpOf, OperationOutlivesItsJobs
<1> QED BY <1>1, JobsInvariance, BatchTypes, PTL

(***************************************************************************)
(* The finished signals of a batch tell its fate.  Three things have to    *)
(* agree: what the server keeps (`applied`), whether the operation is      *)
(* rolled back, and the result code each Change is destroyed with.  The    *)
(* argument is that nothing of a batch is kept before its transaction is   *)
(* over, that nothing has failed while it can still be committed, and that *)
(* a Change leaves its operation only with the code that the outcome gives *)
(* it.                                                                     *)
(***************************************************************************)
-----------------------------------------------------------------------------
(* The fate of the changes.                                                *)

Single(c)  == ~changes[c].queuedModification
Member(c)  == \E o \in Operations : c \in mAtomicOperations[o].changes
Open(o)    == transaction[o] \in {"none", "running"}

\* An id that was not given out has no Change, and what somebody holds is a Change.
Born(c) ==
  /\ c > mLatestChangeId =>
       /\ changes[c] = NotConstructed /\ c \notin mChangeById
       /\ answers[c] = {} /\ c \notin applied
  /\ Held(c) => changes[c].type # "none"

\* What waits is not of the transaction, and a member is one of its own operation.
Belongs(c) ==
  /\ \A i \in Items : mQueuedModifications[i] = c => ~Single(c)
  /\ \A o \in Operations : c \in mAtomicOperations[o].changes => OpOf(c) = o

\* While the server can still commit a transaction nothing of it has failed, and while
\* one of its jobs is under way it has not returned.
Undecided(c) ==
  \A o \in Operations :
    /\ Single(c) /\ OpOf(c) = o /\ Open(o) => ~Fails(c)
    /\ InTransaction(c, o) =>
         /\ transaction[o] # "none"
         /\ transaction[o] = "running" => changes[c].resultCode = "Success" /\ ~Failed(c)
         /\ Busy(c) => transaction[o] \in {"running", "failing"}
         /\ mChangeForJob[c] = "running" => transaction[o] = "running"

\* What a job, and then the result code, says of what the server has kept.
ResultTells(c) ==
  Single(c) =>
    /\ Busy(c) /\ OpOf(c) = NoOperation => (mChangeForJob[c] = "succeeded" <=> c \in applied)
    /\ Member(c) /\ ~Busy(c) =>
         /\ c \notin mChangeById
         /\ changes[c].resultCode = "Success" => changes[c].completed
         /\ c \in applied => changes[c].resultCode = "Success"
    /\ ~Member(c) /\ ~Busy(c) /\ c \notin mChangeById /\ changes[c].type # "none" =>
         (changes[c].resultCode = "Success" <=> c \in applied)

\* An answer is right, and what was answered is not applied later.
Answered(c) ==
  Single(c) =>
    /\ \A code \in answers[c] : code = "Success" <=> c \in applied
    /\ answers[c] # {} /\ c \notin applied =>
         ~Busy(c) /\ \A o \in Operations : InTransaction(c, o) => transaction[o] # "running"

FateOf(c) == Born(c) /\ Belongs(c) /\ Undecided(c) /\ ResultTells(c) /\ Answered(c)

\* An operation is rolled back when the server can no longer commit its transaction.
OpenIsClean ==
  \A o \in Operations :
    Open(o) \/ ~mAtomicOperations[o].alive => ~mAtomicOperations[o].rolledback

\* What a batch has applied is safe: its transaction is over, it is not rolled back, and
\* none of its changes has failed.
AppliedTogether ==
  ~crashed => \A d \in applied : Single(d) /\ OpOf(d) # NoOperation =>
    /\ transaction[OpOf(d)] = "freed" /\ ~mAtomicOperations[OpOf(d)].rolledback
    /\ \A c \in Changes : Single(c) /\ OpOf(c) = OpOf(d) => ~Fails(c)

FateInv == OpenIsClean /\ AppliedTogether /\ \A c \in Changes : FateOf(c)

-----------------------------------------------------------------------------
(* What a step does to one change.                                         *)

\* What a step gives as an answer of c: the code of its Change, if that is destroyed.
AnswersAreCodes(c) ==
  \A code \in answers'[c] : code \in answers[c] \/ (Destroyed(c) /\ code = changes'[c].resultCode)

SameRecord(c) ==
  /\ changes'[c].type = changes[c].type /\ OpOf(c)' = OpOf(c)
  /\ Single(c) => changes'[c].completed = changes[c].completed
  /\ changes'[c].queuedModification = changes[c].queuedModification

\* It is not touched but as a job of a transaction that goes on or is given up.
Settles(c) ==
  /\ OpOf(c) = NoOperation => mChangeForJob'[c] = mChangeForJob[c]
  /\ \A o \in Operations : OpOf(c) = o =>
       \/ /\ transaction'[o] = transaction[o] \/ (Open(o) /\ transaction'[o] = "running")
          /\ mChangeForJob'[c] = mChangeForJob[c]
       \/ /\ ~Open(o)'
          /\ InTransaction(c, o) /\ Busy(c) =>
               transaction'[o] = "failing" /\ mChangeForJob'[c] # "running"

KeptBy(c) ==
  /\ SameRecord(c)
  /\ Busy(c)' <=> Busy(c)
  /\ Held(c)' => Held(c)
  /\ c \in applied' <=> c \in applied
  /\ \A i \in Items : mQueuedModifications'[i] = c => mQueuedModifications[i] = c
  /\ AnswersAreCodes(c)

\* A change of the caller's or the server's other operations.
Untouched(c) ==
  /\ KeptBy(c) /\ Settles(c)
  /\ c > mLatestChangeId' => c > mLatestChangeId /\ changes'[c] = changes[c]
  /\ Single(c) => /\ changes'[c].resultCode = changes[c].resultCode
                  /\ c \in mChangeById' <=> c \in mChangeById
  /\ \A o \in Operations : c \in mAtomicOperations'[o].changes <=> c \in mAtomicOperations[o].changes

\* The parts of a Change.
LEMMA OperationOfChange ==
  ASSUME IInv, NEW c \in Changes
  PROVE  /\ OpOf(c) \in 0 .. MaxOperations
         /\ OpOf(c) # NoOperation => OpOf(c) \in Operations
         /\ changes[c].queuedModification \in BOOLEAN /\ changes[c].completed \in BOOLEAN
         /\ changes[c].resultCode \in Codes
         /\ NoOperation \notin Operations
<1>1. changes[c] \in ChangeTypes
  BY DEF IInv, ChangesTypeOK
<1> QED BY <1>1, ConstantsAssumption DEF OpOf, ChangeTypes, Operations, NoOperation

\* The answers are right if the results of the jobs are.
LEMMA DestroyedAnswers ==
  ASSUME NEW c \in Changes, Answered(c), Born(c), ResultTells(c)',
         changes'[c].type = changes[c].type,
         changes'[c].queuedModification = changes[c].queuedModification,
         AnswersAreCodes(c), c \in applied' <=> c \in applied,
         answers[c] # {} /\ c \notin applied /\ Single(c) =>
           ~Busy(c)' /\ \A o \in Operations : InTransaction(c, o)' => transaction'[o] # "running"
  PROVE  Answered(c)'
<1> SUFFICES ASSUME Single(c)' PROVE Answered(c)'
  BY DEF Answered
<1>1. Single(c)
  BY DEF Single
<1>2. Destroyed(c) =>
        /\ ~Busy(c)' /\ ~Member(c)' /\ c \notin mChangeById' /\ changes'[c].type # "none"
  BY DEF Destroyed, Held, Busy, Member, Born
<1>3. Destroyed(c) => (changes'[c].resultCode = "Success" <=> c \in applied')
  BY <1>2 DEF ResultTells
<1>4. \A code \in answers'[c] : code = "Success" <=> c \in applied'
  BY <1>1, <1>3 DEF Answered, AnswersAreCodes
<1>5. Destroyed(c) => ~Busy(c)' /\ \A o \in Operations : ~InTransaction(c, o)'
  BY <1>2 DEF Member, InTransaction
<1>6. answers'[c] # {} => answers[c] # {} \/ Destroyed(c)
  BY DEF AnswersAreCodes
<1>7. answers'[c] # {} /\ c \notin applied' =>
        ~Busy(c)' /\ \A o \in Operations : InTransaction(c, o)' => transaction'[o] # "running"
  BY <1>1, <1>5, <1>6
<1> QED BY <1>4, <1>7 DEF Answered

\* A change that is not touched keeps its fate.
LEMMA UntouchedFate ==
  ASSUME IInv, NEW c \in Changes, FateOf(c), Untouched(c)
  PROVE  FateOf(c)'
<1>1. Born(c) /\ Belongs(c) /\ Undecided(c) /\ ResultTells(c) /\ Answered(c) /\ KeptBy(c) /\ Settles(c)
  BY DEF FateOf, Untouched
<1>2. Single(c)' <=> Single(c)
  BY <1>1 DEF Single, KeptBy, SameRecord
<1>3. \A o \in Operations : InTransaction(c, o)' <=> InTransaction(c, o)
  BY <1>1 DEF InTransaction, Untouched, KeptBy, SameRecord
<1>4. Member(c)' <=> Member(c)
  BY DEF Member, Untouched
<1>5. Born(c)'
  <2>1. Held(c)' => changes'[c].type # "none"
    BY <1>1 DEF Born, KeptBy, SameRecord
  <2>2. ASSUME c > mLatestChangeId'
        PROVE  /\ changes'[c] = NotConstructed /\ c \notin mChangeById'
               /\ answers'[c] = {} /\ c \notin applied'
    <3>1. /\ changes'[c] = NotConstructed /\ c \notin mChangeById
          /\ answers[c] = {} /\ c \notin applied /\ Single(c)
      BY <1>1, <2>2 DEF Untouched, Born, Single, NotConstructed, Change
    <3>2. changes[c].type = "none" /\ changes'[c].type = "none"
      BY <1>1, <3>1 DEF NotConstructed, Change, KeptBy, SameRecord
    <3>3. ~Destroyed(c)
      BY <1>1, <3>2 DEF Destroyed, Born
    <3> QED BY <1>1, <3>1, <3>3 DEF Untouched, KeptBy, AnswersAreCodes
  <2> QED BY <2>1, <2>2 DEF Born
<1>6. Belongs(c)'
  BY <1>1, <1>2 DEF Belongs, KeptBy, Untouched, SameRecord
<1>7. Undecided(c)'
  <2> SUFFICES ASSUME NEW o \in Operations, OpOf(c) = o
               PROVE  /\ Single(c)' /\ Open(o)' => ~Fails(c)'
                      /\ InTransaction(c, o)' =>
                           /\ transaction'[o] # "none"
                           /\ transaction'[o] = "running" => changes'[c].resultCode = "Success" /\ ~Failed(c)'
                           /\ Busy(c)' => transaction'[o] \in {"running", "failing"}
                           /\ mChangeForJob'[c] = "running" => transaction'[o] = "running"
    <3>1. \A o \in Operations : InTransaction(c, o)' => OpOf(c) = o
      BY <1>1, <1>3 DEF InTransaction, Belongs
    <3> QED BY <1>1, <3>1 DEF Undecided, KeptBy, SameRecord
  <2>1. Single(c) => (Fails(c)' <=> Fails(c))
    BY DEF Fails, Untouched
  <2>2. InTransaction(c, o) => Single(c)
    BY DEF InTransaction, Single
  <2>3. CASE /\ transaction'[o] = transaction[o] \/ (Open(o) /\ transaction'[o] = "running")
             /\ mChangeForJob'[c] = mChangeForJob[c]
    <3>1. Failed(c)' <=> Failed(c)
      BY <2>3 DEF Failed
    <3>2. Open(o)' <=> Open(o)
      BY <2>3 DEF Open
    <3>3. InTransaction(c, o) => transaction'[o] = transaction[o]
      BY <1>1, <2>3 DEF Undecided, Open
    <3> QED BY <1>1, <1>2, <1>3, <2>1, <2>2, <2>3, <3>1, <3>2, <3>3 DEF Undecided, KeptBy, Untouched
  <2>4. CASE /\ ~Open(o)'
             /\ InTransaction(c, o) /\ Busy(c) =>
                  transaction'[o] = "failing" /\ mChangeForJob'[c] # "running"
    <3>1. transaction'[o] \notin {"none", "running"}
      BY <2>4 DEF Open
    <3>2. mChangeForJob'[c] = "running" => Busy(c)
      BY <1>1 DEF KeptBy, Busy
    <3> QED BY <1>1, <1>3, <2>4, <3>1, <3>2 DEF KeptBy
  <2> QED BY <1>1, <2>3, <2>4 DEF Settles
<1>8. ResultTells(c)'
  BY <1>1, <1>2, <1>4 DEF ResultTells, KeptBy, Settles, Untouched, SameRecord
<1>9. answers[c] # {} /\ c \notin applied /\ Single(c) =>
        ~Busy(c)' /\ \A o \in Operations : InTransaction(c, o)' => transaction'[o] # "running"
  <2> SUFFICES ASSUME answers[c] # {}, c \notin applied, Single(c), NEW o \in Operations, InTransaction(c, o)
               PROVE  transaction'[o] # "running"
    BY <1>1, <1>3 DEF Answered, KeptBy
  <2>1. transaction[o] \notin {"none", "running"} /\ OpOf(c) = o
    BY <1>1 DEF Answered, Undecided, Belongs, InTransaction
  <2> QED BY <1>1, <2>1 DEF Settles, Open
<1>10. Answered(c)'
  BY <1>1, <1>8, <1>9, DestroyedAnswers DEF KeptBy, SameRecord
<1> QED BY <1>5, <1>6, <1>7, <1>8, <1>10 DEF FateOf

\* The Outcome of a member of an operation that is deleted after a roll-back.
Forgotten(c, o) ==
  /\ KeptBy(c) /\ ~Busy(c) /\ c <= mLatestChangeId'
  /\ c \in mAtomicOperations[o].changes /\ ~Open(o)'
  /\ \A p \in Operations : c \notin mAtomicOperations'[p].changes
  /\ Single(c) => /\ changes'[c].resultCode = Outcome(changes[c]).resultCode
                  /\ c \notin applied /\ (c \in mChangeById' <=> c \in mChangeById)

\* ... and so does one whose operation is deleted, rolled back.
LEMMA ForgottenFate ==
  ASSUME IInv, IInv', NEW c \in Changes, NEW o \in Operations, FateOf(c), Forgotten(c, o)
  PROVE  FateOf(c)'
<1>1. Born(c) /\ Belongs(c) /\ Undecided(c) /\ ResultTells(c) /\ Answered(c) /\ KeptBy(c)
  BY DEF FateOf, Forgotten
<1>2. (Single(c)' <=> Single(c)) /\ ~Busy(c)' /\ ~Member(c)' /\ Member(c) /\ OpOf(c)' = o
  BY <1>1 DEF Single, KeptBy, SameRecord, Forgotten, Member, Belongs
<1>3. Born(c)'
  <2>1. c \in Nat /\ mLatestChangeId' \in Nat
    BY ConstantsAssumption DEF Changes, IInv, PipelineTypeOK
  <2>2. ~(c > mLatestChangeId')
    BY <2>1 DEF Forgotten
  <2> QED BY <1>1, <2>2 DEF Born, KeptBy, SameRecord
<1>4. Belongs(c)'
  BY <1>1, <1>2 DEF Belongs, KeptBy, Forgotten
<1>5. Undecided(c)'
  BY <1>2 DEF Undecided, InTransaction, Forgotten
<1>6. ResultTells(c)'
  <2> SUFFICES ASSUME Single(c) PROVE changes'[c].resultCode # "Success" /\ c \notin applied'
    BY <1>1, <1>2 DEF ResultTells
  <2>1. changes[c].resultCode = "Success" => changes[c].completed
    BY <1>1, <1>2 DEF ResultTells, Forgotten
  <2>2. changes[c] \in ChangeTypes
    BY DEF IInv, ChangesTypeOK
  <2>3. Outcome(changes[c]).resultCode # "Success"
    BY <2>1, <2>2 DEF Outcome, ChangeTypes
  <2> QED BY <1>1, <2>3 DEF Forgotten, KeptBy
<1>7. \A p \in Operations : ~InTransaction(c, p)'
  BY <1>2 DEF Member, InTransaction
<1>8. Answered(c)'
  BY <1>1, <1>2, <1>6, <1>7, DestroyedAnswers DEF KeptBy, SameRecord
<1> QED BY <1>3, <1>4, <1>5, <1>6, <1>8 DEF FateOf

\* A new change that gets no job: refused, answered by hand or put to wait.  (The id of a
\* modification without the rights is given out, but no Change is constructed.)
NewIdle(c) ==
  /\ c > mLatestChangeId /\ c <= mLatestChangeId' /\ ~Busy(c)' /\ ~Member(c)'
  /\ c \in applied' <=> c \in applied
  /\ Held(c)' => changes'[c].type # "none"
  /\ \A i \in Items : mQueuedModifications'[i] = c => ~Single(c)'
  /\ Single(c)' =>
       /\ \A code \in answers'[c] : code # "Success"
       /\ changes'[c].type # "none" /\ c \notin mChangeById' => changes'[c].resultCode # "Success"
       /\ \A o \in Operations : OpOf(c)' = o /\ Open(o)' => ~Fails(c)'

LEMMA NewIdleFate ==
  ASSUME IInv, IInv', NEW c \in Changes, FateOf(c), NewIdle(c)
  PROVE  FateOf(c)'
<1>1. c \notin applied'
  BY DEF NewIdle, FateOf, Born
<1>2. ~(c > mLatestChangeId')
  BY ConstantsAssumption DEF NewIdle, Changes, IInv, PipelineTypeOK
<1>3. \A o \in Operations : c \notin mAtomicOperations'[o].changes
  BY DEF NewIdle, Member
<1>4. Born(c)' /\ Belongs(c)'
  BY <1>2, <1>3 DEF NewIdle, Born, Belongs
<1>5. Undecided(c)'
  BY <1>3 DEF NewIdle, Undecided, InTransaction
<1>6. ResultTells(c)'
  BY <1>1 DEF NewIdle, ResultTells
<1>7. Answered(c)'
  BY <1>1, <1>3 DEF NewIdle, Answered, InTransaction
<1> QED BY <1>4, <1>5, <1>6, <1>7 DEF FateOf

\* One whose job starts.
NewBusy(c) ==
  /\ c > mLatestChangeId /\ c <= mLatestChangeId' /\ mChangeForJob'[c] = "running"
  /\ c \in applied' <=> c \in applied
  /\ changes'[c].type # "none" /\ changes'[c].resultCode = "Success"
  /\ answers'[c] = {}
  /\ \A i \in Items : mQueuedModifications'[i] # c
  /\ \A o \in Operations : c \in mAtomicOperations'[o].changes =>
       OpOf(c)' = o /\ transaction'[o] = "running"

LEMMA NewBusyFate ==
  ASSUME IInv, IInv', NEW c \in Changes, FateOf(c), NewBusy(c)
  PROVE  FateOf(c)'
<1>1. c \notin applied' /\ Busy(c)'
  BY DEF NewBusy, FateOf, Born, Busy
<1>2. ~(c > mLatestChangeId')
  BY ConstantsAssumption DEF NewBusy, Changes, IInv, PipelineTypeOK
<1>3. Born(c)' /\ Belongs(c)'
  BY <1>2 DEF NewBusy, Born, Belongs
<1>4. Undecided(c)'
  BY DEF NewBusy, Undecided, InTransaction, Fails, Failed
<1>5. ResultTells(c)'
  BY <1>1 DEF NewBusy, ResultTells
<1>6. Answered(c)'
  BY DEF NewBusy, Answered
<1> QED BY <1>3, <1>4, <1>5, <1>6 DEF FateOf

-----------------------------------------------------------------------------
(* What a step does to the operations.                                     *)

NothingApplied(o) == \A d \in applied : Single(d) => OpOf(d) # o

\* Nothing new has failed in o, and it is not rolled back now.
Unspoiled(o) ==
  /\ transaction'[o] = transaction[o]
  /\ mAtomicOperations'[o].rolledback = mAtomicOperations[o].rolledback
  /\ \A c \in Changes : Single(c)' /\ OpOf(c)' = o /\ Fails(c)' =>
       Single(c) /\ OpOf(c) = o /\ Fails(c)

\* The step applies nothing of a batch.
LEMMA TogetherKeeps ==
  ASSUME IInv, ~crashed, AppliedTogether,
         \A d \in applied' : Single(d)' /\ OpOf(d)' # NoOperation =>
           d \in applied /\ Single(d) /\ OpOf(d)' = OpOf(d),
         ~crashed' => \A o \in Operations : NothingApplied(o) \/ Unspoiled(o)
  PROVE  AppliedTogether'
<1> SUFFICES ASSUME ~crashed', NEW d \in applied', Single(d)', OpOf(d)' # NoOperation
             PROVE  /\ transaction'[OpOf(d)'] = "freed" /\ ~mAtomicOperations'[OpOf(d)'].rolledback
                    /\ \A c \in Changes : Single(c)' /\ OpOf(c)' = OpOf(d)' => ~Fails(c)'
  BY DEF AppliedTogether
<1>1. d \in applied /\ Single(d) /\ OpOf(d)' = OpOf(d)
  OBVIOUS
<1>2. d \in Changes
  BY <1>1 DEF IInv, RestTypeOK
<1>3. OpOf(d) \in Operations
  BY <1>1, <1>2, OperationOfChange
<1>4. Unspoiled(OpOf(d))
  BY <1>1, <1>3 DEF NothingApplied
<1> QED BY <1>1, <1>3, <1>4 DEF AppliedTogether, Unspoiled

\* A batch that is not over, or is rolled back, has applied nothing.
LEMMA NothingAppliedYet ==
  ASSUME IInv, ~crashed, AppliedTogether, NEW o \in Operations,
         transaction[o] # "freed" \/ mAtomicOperations[o].rolledback
  PROVE  NothingApplied(o)
<1>1. o # NoOperation
  BY DEF Operations, NoOperation
<1> QED BY <1>1 DEF AppliedTogether, NothingApplied

\* A call does nothing to operation o, or frees its transaction, which ended in this turn.
Stands(o) ==
  /\ mAtomicOperations'[o].changes = mAtomicOperations[o].changes
  /\ mAtomicOperations'[o].rolledback = mAtomicOperations[o].rolledback
  /\ mAtomicOperations'[o].alive = mAtomicOperations[o].alive
  /\ transaction'[o] = transaction[o] \/ (transaction[o] = "finished" /\ transaction'[o] = "freed")

\* ... cancels its transaction, or has it returned rolled back; `chs` are the changes as
\* the call leaves them.
RollsBack(o, chs) ==
  /\ mAtomicOperations'[o].changes = mAtomicOperations[o].changes
  /\ mAtomicOperations'[o].alive /\ ~Open(o)'
  /\ transaction[o] = "freed" => crashed'
  /\ \/ transaction[o] = "none" /\ UNCHANGED mChangeForJob
     \/ /\ transaction[o] = "running" /\ transaction'[o] = "failing"
        /\ mChangeForJob' = Aborted(o)
     \/ transaction'[o] = transaction[o] /\ UNCHANGED mChangeForJob
     \/ JobsHandled(o) /\ UNCHANGED mChangeForJob
  /\ changes' = chs

\* ... deletes it, rolled back.
Removes(o, chs) ==
  /\ mAtomicOperations'[o] = Deleted /\ ~Open(o)' /\ NothingApplied(o)
  /\ \A c \in mAtomicOperations[o].changes : ~Busy(c)
  /\ UNCHANGED mChangeForJob
  /\ changes' = [c \in Changes |-> IF c \in mAtomicOperations[o].changes
                                   THEN Outcome(chs[c]) ELSE chs[c]]

Leaves(chs) ==
  /\ UNCHANGED mChangeForJob /\ changes' = chs
  /\ \A o \in Operations : Stands(o)

Ends(o, chs) ==
  /\ RollsBack(o, chs) \/ Removes(o, chs)
  /\ \A p \in Operations \ {o} : Stands(p)

LEMMA StandsOperations ==
  ASSUME NEW o, UNCHANGED <<mAtomicOperations, transaction>>
  PROVE  Stands(o)
BY DEF Stands

\* The result of a transaction that is not committed.
LEMMA FailedResult ==
  ASSUME IInv, JobsInv, FateInv, ~crashed, NEW o \in Operations, NEW chs,
         transaction[o] # "freed", ~Open(o)', UNCHANGED mChangeForJob,
         \A p \in Operations \ {o} : transaction'[p] = transaction[p],
         mAtomicOperations[o].alive,
         HandleTransactionJobResult(o, TRUE, chs)
  PROVE  /\ \A p \in Operations \ {o} : Stands(p)
         /\ \/ Removes(o, chs)
            \/ /\ mAtomicOperations'[o].changes = mAtomicOperations[o].changes
               /\ mAtomicOperations'[o].alive /\ mAtomicOperations'[o].rolledback
               /\ changes' = chs
<1> DEFINE op == [mAtomicOperations[o] EXCEPT !.rolledback = TRUE]
           new == [op EXCEPT !.transactionCompleted = TRUE]
<1>1. /\ [mAtomicOperations[o] EXCEPT !.rolledback = @ \/ TRUE] = op
      /\ op \in OperationTypes /\ op.changes = mAtomicOperations[o].changes
      /\ op.numCompletedChanges = mAtomicOperations[o].numCompletedChanges
      /\ op.alive = mAtomicOperations[o].alive /\ op.rolledback = TRUE
  BY OperationsHave DEF OperationTypes
<1>2. NothingApplied(o)
  BY NothingAppliedYet DEF FateInv
<1> HIDE DEF op
<1>3. /\ new.changes = op.changes /\ new.alive = op.alive /\ new.rolledback = op.rolledback
  BY <1>1 DEF OperationTypes
<1>4. CASE ~PendingJobs(op) /\ DeleteOperation(o, chs, TRUE)
  <2>1. \A c \in mAtomicOperations[o].changes : ~Busy(c)
    BY <1>1, <1>4, AllHandled DEF PendingJobs
  <2>2. \A p \in Operations \ {o} : Stands(p)
    BY <1>4 DEF DeleteOperation, Stands
  <2>3. mAtomicOperations'[o] = Deleted
    BY <1>4 DEF DeleteOperation, IInv, OperationsInv, OperationsTypeOK
  <2>4. changes' = [c \in Changes |-> IF c \in mAtomicOperations[o].changes
                                      THEN Outcome(chs[c]) ELSE chs[c]]
    BY <1>4 DEF DeleteOperation
  <2> QED BY <1>2, <2>1, <2>2, <2>3, <2>4 DEF Removes
<1>5. CASE mAtomicOperations' = [mAtomicOperations EXCEPT ![o] = new] /\ changes' = chs
  <2>1. mAtomicOperations'[o] = new
    BY <1>5 DEF IInv, OperationsInv, OperationsTypeOK
  <2>2. \A p \in Operations \ {o} : Stands(p)
    BY <1>5 DEF Stands
  <2> HIDE DEF new
  <2> QED BY <1>1, <1>3, <1>5, <2>1, <2>2
<1> QED BY <1>1, <1>4, <1>5 DEF HandleTransactionJobResult

\* cancelTransaction().
LEMMA CancelCall ==
  ASSUME IInv, JobsInv, FateInv, ~crashed, NEW chs, CancelTransaction(chs)
  PROVE  \/ ~mBatchOperationInProgress /\ Leaves(chs)
         \/ /\ mBatchOperationInProgress
            /\ \E o \in Operations : o = mLatestAtomicOperationId /\ Ends(o, chs)
<1>1. CASE ~mBatchOperationInProgress
  BY <1>1, StandsOperations DEF CancelTransaction, Leaves
<1> SUFFICES ASSUME mBatchOperationInProgress
             PROVE  \E o \in Operations : o = mLatestAtomicOperationId /\ Ends(o, chs)
  BY <1>1
<1>2. PICK o \in Operations : o = mLatestAtomicOperationId
  BY DEF IInv, OperationsInv, OneOperation
<1>3. /\ mAtomicOperations[o].alive /\ mAtomicOperations[o] \in OperationTypes
      /\ transaction \in [Operations -> {"none", "running", "failing", "finished", "freed"}]
      /\ mAtomicOperations \in [Operations -> OperationTypes]
  BY <1>2, OperationsHave DEF IInv, OperationsInv, OneOperation, OperationsTypeOK
<1>4. CASE transaction[o] = "none"
  <2>1. /\ transaction' = [transaction EXCEPT ![o] = IF calling THEN "finished" ELSE "freed"]
        /\ HandleTransactionJobResult(o, TRUE, chs) /\ UNCHANGED mChangeForJob
    BY <1>2, <1>4 DEF CancelTransaction
  <2>2. ~Open(o)' /\ \A p \in Operations \ {o} : transaction'[p] = transaction[p]
    BY <1>3, <2>1 DEF Open
  <2>3. /\ \A p \in Operations \ {o} : Stands(p)
        /\ \/ Removes(o, chs)
           \/ /\ mAtomicOperations'[o].changes = mAtomicOperations[o].changes
              /\ mAtomicOperations'[o].alive /\ mAtomicOperations'[o].rolledback
              /\ changes' = chs
    BY <1>3, <1>4, <2>1, <2>2, FailedResult
  <2> QED BY <1>2, <1>4, <2>1, <2>2, <2>3 DEF Ends, RollsBack
<1>5. CASE transaction[o] # "none"
  <2>1. /\ mAtomicOperations' = [mAtomicOperations EXCEPT ![o].rolledback = TRUE]
        /\ \/ /\ transaction[o] = "running"
              /\ transaction' = [transaction EXCEPT ![o] = "failing"]
              /\ mChangeForJob' = Aborted(o)
           \/ /\ transaction[o] \in {"failing", "finished", "freed"}
              /\ UNCHANGED <<transaction, mChangeForJob>>
              /\ transaction[o] = "freed" => crashed'
        /\ changes' = chs
    BY <1>2, <1>5 DEF CancelTransaction
  <2>2. /\ mAtomicOperations'[o].changes = mAtomicOperations[o].changes
        /\ mAtomicOperations'[o].alive
    BY <1>3, <2>1 DEF OperationTypes
  <2>3. \A p \in Operations \ {o} : Stands(p)
    BY <1>3, <2>1 DEF Stands
  <2>4. /\ transaction'[o] \notin {"none", "running"}
        /\ transaction[o] = "running" => transaction'[o] = "failing"
    BY <1>3, <2>1
  <2>5. RollsBack(o, chs)
    BY <2>1, <2>2, <2>4 DEF RollsBack, Open
  <2> QED BY <1>2, <2>3, <2>5 DEF Ends
<1> QED BY <1>4, <1>5

\* cleanupTransaction() of a batch that was rolled back.
LEMMA CleanupCall ==
  ASSUME IInv, JobsInv, FateInv, ~crashed, NEW chs, RolledBack, CleanupTransaction(chs)
  PROVE  \E o \in Operations :
           /\ o = mLatestAtomicOperationId /\ NothingApplied(o) /\ ~Open(o)'
           /\ Leaves(chs) \/ Ends(o, chs)
<1>1. PICK o \in Operations : o = mLatestAtomicOperationId
  BY DEF RolledBack, IInv, OperationsInv, OneOperation
<1>2. mAtomicOperations[o].rolledback /\ UNCHANGED <<transaction, mChangeForJob>>
  BY <1>1 DEF RolledBack, Latest, CleanupTransaction
<1>3. NothingApplied(o) /\ ~Open(o)
  BY <1>2, NothingAppliedYet DEF FateInv, OpenIsClean
<1>4. ~Open(o)'
  BY <1>2, <1>3 DEF Open
<1>5. CASE UNCHANGED mAtomicOperations /\ changes' = chs
  BY <1>1, <1>2, <1>3, <1>4, <1>5, StandsOperations DEF Leaves
<1>6. CASE ~PendingJobs(mAtomicOperations[o]) /\ DeleteOperation(o, chs, mAtomicOperations[o].rolledback)
  <2>1. \A c \in mAtomicOperations[o].changes : ~Busy(c)
    BY <1>6, AllHandled
  <2>2. \A p \in Operations \ {o} : Stands(p)
    BY <1>2, <1>6 DEF DeleteOperation, Stands
  <2>3. mAtomicOperations'[o] = Deleted
    BY <1>6 DEF DeleteOperation, IInv, OperationsInv, OperationsTypeOK
  <2>4. changes' = [c \in Changes |-> IF c \in mAtomicOperations[o].changes
                                      THEN Outcome(chs[c]) ELSE chs[c]]
    BY <1>2, <1>6 DEF DeleteOperation
  <2>5. Removes(o, chs)
    BY <1>2, <1>3, <1>4, <2>1, <2>3, <2>4 DEF Removes
  <2> QED BY <1>1, <1>3, <1>4, <2>2, <2>5 DEF Ends
<1> QED BY <1>1, <1>5, <1>6 DEF CleanupTransaction, Latest

\* endAtomicOperation().
LEMMA EndCall ==
  ASSUME IInv, JobsInv, FateInv, ~crashed, EndAtomicOperation
  PROVE  Leaves(changes) \/ \E o \in Operations : Ends(o, changes)
<1>1. /\ UNCHANGED mChangeForJob
      /\ \A p \in Operations : \/ transaction'[p] = transaction[p]
                               \/ transaction[p] = "finished" /\ transaction'[p] = "freed"
  BY DEF EndAtomicOperation, Freed
<1>2. CASE UNCHANGED <<mAtomicOperations, changes>>
  BY <1>1, <1>2 DEF Leaves, Stands
<1> SUFFICES ASSUME mBatchOperationInProgress
             PROVE  Leaves(changes) \/ \E o \in Operations : Ends(o, changes)
  BY <1>2 DEF EndAtomicOperation
<1>3. PICK o \in Operations : o = mLatestAtomicOperationId
  BY DEF IInv, OperationsInv, OneOperation
<1>4. CASE /\ mAtomicOperations' = [mAtomicOperations EXCEPT ![o].endCalled = TRUE]
           /\ UNCHANGED changes
  <2>1. \A p \in Operations :
          /\ mAtomicOperations'[p].changes = mAtomicOperations[p].changes
          /\ mAtomicOperations'[p].rolledback = mAtomicOperations[p].rolledback
          /\ mAtomicOperations'[p].alive = mAtomicOperations[p].alive
    BY <1>4, OperationsHave DEF OperationTypes, IInv, OperationsInv, OperationsTypeOK
  <2> QED BY <1>1, <1>4, <2>1 DEF Leaves, Stands
<1>5. CASE /\ ~PendingJobs(mAtomicOperations[o]) /\ mAtomicOperations[o].rolledback
           /\ DeleteOperation(o, changes, TRUE)
  <2>1. \A c \in mAtomicOperations[o].changes : ~Busy(c)
    BY <1>5, AllHandled
  <2>2. \A p \in Operations \ {o} : Stands(p)
    BY <1>1, <1>5 DEF DeleteOperation, Stands
  <2>3. mAtomicOperations'[o] = Deleted
    BY <1>5 DEF DeleteOperation, IInv, OperationsInv, OperationsTypeOK
  <2>4. changes' = [c \in Changes |-> IF c \in mAtomicOperations[o].changes
                                      THEN Outcome(changes[c]) ELSE changes[c]]
    BY <1>5 DEF DeleteOperation
  <2>5. NothingApplied(o) /\ ~Open(o)
    BY <1>5, NothingAppliedYet DEF FateInv, OpenIsClean
  <2>6. ~Open(o)'
    BY <1>1, <2>5 DEF Open
  <2>7. Removes(o, changes)
    BY <1>1, <2>1, <2>3, <2>4, <2>5, <2>6 DEF Removes
  <2> QED BY <2>2, <2>7 DEF Ends
<1> QED BY <1>3, <1>4, <1>5 DEF EndAtomicOperation, Latest

\* What a call leaves of the operations.
LEMMA EndedOperation ==
  ASSUME IInv, JobsInv, FateInv, NEW chs, NEW o \in Operations, Ends(o, chs)
  PROVE  /\ mAtomicOperations'[o].changes \in {mAtomicOperations[o].changes, {}}
         /\ ~mAtomicOperations'[o].alive => ~mAtomicOperations'[o].rolledback
         /\ ~Open(o)' /\ (NothingApplied(o) \/ crashed' \/ transaction[o] # "freed")
BY DEF Ends, RollsBack, Removes, Deleted, Operation

\* A call adds nothing to an operation, and gives or takes no job.
LEMMA CallKeepsOperations ==
  ASSUME IInv, JobsInv, FateInv, NEW chs,
         Leaves(chs) \/ \E o \in Operations : Ends(o, chs)
  PROVE  /\ OpenIsClean'
         /\ \A c \in Changes : Busy(c)' <=> Busy(c)
         /\ \A o \in Operations : mAtomicOperations'[o].changes \subseteq mAtomicOperations[o].changes
         /\ \A c \in Changes : ~Member(c) => changes'[c] = chs[c]
<1>1. \A o \in Operations : Stands(o) =>
        /\ Open(o)' \/ ~mAtomicOperations'[o].alive => ~mAtomicOperations'[o].rolledback
        /\ mAtomicOperations'[o].changes \subseteq mAtomicOperations[o].changes
  BY DEF Stands, FateInv, OpenIsClean, Open
<1>2. CASE Leaves(chs)
  BY <1>1, <1>2 DEF Leaves, OpenIsClean, Busy
<1>3. CASE \E o \in Operations : Ends(o, chs)
  <2>1. PICK o \in Operations : Ends(o, chs)
    BY <1>3
  <2>2. OpenIsClean'
    BY <1>1, <2>1, EndedOperation DEF Ends, OpenIsClean
  <2>3. \A p \in Operations : mAtomicOperations'[p].changes \subseteq mAtomicOperations[p].changes
    BY <1>1, <2>1, EndedOperation DEF Ends
  <2>4. \A c \in Changes : Busy(c)' <=> Busy(c)
    BY <2>1, AbortedKeeps DEF Ends, RollsBack, Removes, Busy
  <2>5. \A c \in Changes : ~Member(c) => changes'[c] = chs[c]
    BY <2>1 DEF Ends, RollsBack, Removes, Member
  <2> QED BY <2>2, <2>3, <2>4, <2>5
<1> QED BY <1>2, <1>3

-----------------------------------------------------------------------------
(* The calls.                                                              *)

LEMMA OutcomeRecord ==
  ASSUME NEW ch \in ChangeTypes
  PROVE  /\ Outcome(ch).type = ch.type /\ Outcome(ch).completed = ch.completed
         /\ Outcome(ch).atomicOperationId = ch.atomicOperationId
         /\ Outcome(ch).queuedModification = ch.queuedModification
BY DEF Outcome, ChangeTypes

\* A change that was there before the call.
LEMMA OldChangeFate ==
  ASSUME IInv, IInv', JobsInv, FateInv, ~crashed, NEW chs, NEW c \in Changes,
         Leaves(chs) \/ \E o \in Operations : Ends(o, chs),
         UNCHANGED <<applied, mQueuedModifications, mModificationsInProgress>>,
         mLatestChangeId' >= mLatestChangeId,
         chs[c] = changes[c], c \in mChangeById' <=> c \in mChangeById, AnswersAreCodes(c)
  PROVE  /\ SameRecord(c) /\ FateOf(c)'
         /\ \/ changes'[c].resultCode = changes[c].resultCode
            \/ \E o \in Operations : OpOf(c) = o /\ Ends(o, chs)
<1>1. FateOf(c) /\ Belongs(c) /\ Undecided(c) /\ changes[c] \in ChangeTypes
  BY DEF FateInv, FateOf, IInv, ChangesTypeOK
<1>2. changes'[c] \in {changes[c], Outcome(changes[c])}
  BY DEF Leaves, Ends, RollsBack, Removes
<1>3. SameRecord(c)
  BY <1>1, <1>2, OutcomeRecord DEF SameRecord, OpOf
<1>4. Held(c)' => Held(c)
  BY CallKeepsOperations DEF Held, Busy
<1>5. KeptBy(c)
  BY <1>3, <1>4, CallKeepsOperations DEF KeptBy
<1>6. c > mLatestChangeId' => c > mLatestChangeId
  BY ConstantsAssumption DEF Changes, IInv, PipelineTypeOK
<1>7. c > mLatestChangeId => ~Member(c)
  BY ConstantsAssumption DEF Member, JobsInv, FreshIsUnused, Changes, IInv, PipelineTypeOK
<1>8. \A o \in Operations : Stands(o) /\ OpOf(c) = o /\ mChangeForJob'[c] = mChangeForJob[c] =>
        \/ transaction'[o] = transaction[o] /\ mChangeForJob'[c] = mChangeForJob[c]
        \/ ~Open(o)' /\ ~(InTransaction(c, o) /\ Busy(c))
  BY <1>1 DEF Stands, Undecided, Open
<1>9. CASE Leaves(chs)
  <2>1. Settles(c)
    BY <1>8, <1>9 DEF Leaves, Settles
  <2>2. Untouched(c)
    BY <1>5, <1>6, <1>9, <2>1 DEF Untouched, Leaves, Stands
  <2> QED BY <1>1, <1>3, <1>9, <2>2, UntouchedFate DEF Leaves
<1>10. CASE \E o \in Operations : Ends(o, chs) /\ Removes(o, chs) /\ c \in mAtomicOperations[o].changes
  <2>1. PICK o \in Operations : Ends(o, chs) /\ Removes(o, chs) /\ c \in mAtomicOperations[o].changes
    BY <1>10
  <2>2. OpOf(c) = o
    BY <1>1, <2>1 DEF Belongs
  <2>3. \A p \in Operations : c \notin mAtomicOperations'[p].changes
    BY <1>1, <2>1 DEF Ends, Removes, Stands, Belongs, Deleted, Operation
  <2>4. c <= mLatestChangeId'
    BY <2>1, ConstantsAssumption DEF JobsInv, FreshIsUnused, Changes, IInv, PipelineTypeOK
  <2>5. Forgotten(c, o)
    BY <1>5, <2>1, <2>2, <2>3, <2>4 DEF Forgotten, Removes, NothingApplied
  <2> QED BY <1>1, <1>3, <2>1, <2>2, <2>5, ForgottenFate
<1>11. CASE \E o \in Operations :
               Ends(o, chs) /\ (RollsBack(o, chs) \/ c \notin mAtomicOperations[o].changes)
  <2>1. PICK o \in Operations :
          Ends(o, chs) /\ (RollsBack(o, chs) \/ c \notin mAtomicOperations[o].changes)
    BY <1>11
  <2>2. changes'[c] = changes[c]
    BY <2>1 DEF Ends, RollsBack, Removes
  <2>3. \A p \in Operations : c \in mAtomicOperations'[p].changes <=> c \in mAtomicOperations[p].changes
    BY <2>1 DEF Ends, RollsBack, Removes, Stands, Deleted, Operation
  <2>4. OpOf(c) # o => mChangeForJob'[c] = mChangeForJob[c]
    BY <1>1, <2>1 DEF Ends, RollsBack, Removes, Aborted, InTransaction, Belongs
  <2>5. ASSUME OpOf(c) = o
        PROVE  \/ transaction'[o] = transaction[o] /\ mChangeForJob'[c] = mChangeForJob[c]
               \/ /\ ~Open(o)'
                  /\ InTransaction(c, o) /\ Busy(c) =>
                       transaction'[o] = "failing" /\ mChangeForJob'[c] # "running"
    <3>1. CASE RollsBack(o, chs)
      BY <1>1, <3>1 DEF RollsBack, Undecided, Aborted, JobsHandled, Busy
    <3>2. CASE c \notin mAtomicOperations[o].changes
      BY <2>1, <3>2, EndedOperation DEF InTransaction
    <3> QED BY <2>1, <3>1, <3>2
  <2>6. Settles(c)
    <3>1. OpOf(c) = NoOperation => OpOf(c) # o
      BY OperationOfChange
    <3>2. \A p \in Operations \ {o} : Stands(p)
      BY <2>1 DEF Ends
    <3> QED BY <1>8, <2>4, <2>5, <3>1, <3>2 DEF Settles
  <2>7. Untouched(c)
    BY <1>5, <1>6, <2>2, <2>3, <2>6 DEF Untouched
  <2> QED BY <1>1, <1>3, <2>2, <2>7, UntouchedFate
<1> QED BY <1>9, <1>10, <1>11 DEF Ends

\* All calls but those that start a job or put a modification to wait.
LEMMA CallFate ==
  ASSUME IInv, IInv', JobsInv, FateInv, ~crashed, NEW chs, NEW N \in SUBSET Changes,
         Leaves(chs) \/ \E o \in Operations : Ends(o, chs),
         UNCHANGED <<applied, mQueuedModifications, mModificationsInProgress>>,
         mLatestChangeId' >= mLatestChangeId,
         \A c \in N : /\ NewIdle(c)
                      /\ \A o \in Operations :
                           Single(c)' /\ OpOf(c)' = o /\ Fails(c)' => crashed' \/ NothingApplied(o),
         \A c \in Changes \ N : /\ chs[c] = changes[c] /\ AnswersAreCodes(c)
                                /\ c \in mChangeById' <=> c \in mChangeById
  PROVE  FateInv'
<1>1. OpenIsClean'
  BY CallKeepsOperations
<1>2. \A c \in Changes : FateOf(c)'
  BY NewIdleFate, OldChangeFate DEF FateInv
<1>3. \A c \in Changes \ N : SameRecord(c)
  BY OldChangeFate
<1>4. \A c \in Changes \ N : /\ Single(c)' <=> Single(c)
                             /\ OpOf(c)' = OpOf(c)
  BY <1>3 DEF SameRecord, Single
<1>5. \A d \in applied : d \in Changes \ N
  <2>1. \A d \in N : d > mLatestChangeId /\ d \in Changes
    BY DEF NewIdle
  <2> QED BY <2>1 DEF IInv, RestTypeOK, FateInv, FateOf, Born
<1>6. ASSUME NEW o \in Operations, ~crashed' PROVE NothingApplied(o) \/ Unspoiled(o)
  <2>1. CASE Ends(o, chs)
    BY <1>6, <2>1, EndedOperation, NothingAppliedYet DEF FateInv
  <2>2. CASE Stands(o) /\ ~Ends(o, chs)
    <3> SUFFICES ASSUME ~NothingApplied(o) PROVE Unspoiled(o)
      OBVIOUS
    <3>1. /\ transaction'[o] = transaction[o]
          /\ mAtomicOperations'[o].rolledback = mAtomicOperations[o].rolledback
      BY <2>2, NothingAppliedYet DEF Stands, FateInv
    <3>2. ASSUME NEW c \in Changes, Single(c)', OpOf(c)' = o, Fails(c)'
          PROVE  Single(c) /\ OpOf(c) = o /\ Fails(c)
      <4>1. c \in Changes \ N
        BY <1>6, <3>2
      <4>2. changes'[c].resultCode = changes[c].resultCode
        BY <1>4, <2>2, <3>2, <4>1, OldChangeFate
      <4> QED BY <1>4, <3>2, <4>1, <4>2 DEF Fails
    <3> QED BY <3>1, <3>2 DEF Unspoiled
  <2> QED BY <2>1, <2>2 DEF Leaves, Ends
<1>7. AppliedTogether'
  BY <1>4, <1>5, <1>6, TogetherKeeps DEF FateInv
<1> QED BY <1>1, <1>2, <1>7 DEF FateInv

\* The batch that a call has cancelled, or found rolled back, is lost.
Lost == \A o \in Operations : CurrentOperation = o => ~Open(o)' /\ (crashed' \/ NothingApplied(o))

LEMMA CancelLoses ==
  ASSUME IInv, JobsInv, FateInv, ~crashed, NEW chs, CancelTransaction(chs)
  PROVE  Lost /\ (Leaves(chs) \/ \E o \in Operations : Ends(o, chs))
<1>1. CASE ~mBatchOperationInProgress /\ Leaves(chs)
  BY <1>1 DEF Lost, CurrentOperation, Operations, NoOperation
<1>2. CASE /\ mBatchOperationInProgress
           /\ \E o \in Operations : o = mLatestAtomicOperationId /\ Ends(o, chs)
  <2>1. PICK o \in Operations : o = CurrentOperation /\ Ends(o, chs)
    BY <1>2 DEF CurrentOperation
  <2>2. ~Open(o)' /\ (crashed' \/ NothingApplied(o))
    BY <2>1, EndedOperation, NothingAppliedYet DEF FateInv
  <2> QED BY <2>1, <2>2 DEF Lost
<1> QED BY <1>1, <1>2, CancelCall

LEMMA CleanupLoses ==
  ASSUME IInv, JobsInv, FateInv, ~crashed, NEW chs, RolledBack, CleanupTransaction(chs)
  PROVE  Lost /\ (Leaves(chs) \/ \E o \in Operations : Ends(o, chs))
<1>1. PICK o \in Operations :
        /\ o = mLatestAtomicOperationId /\ NothingApplied(o) /\ ~Open(o)'
        /\ Leaves(chs) \/ Ends(o, chs)
  BY CleanupCall
<1> QED BY <1>1 DEF Lost, CurrentOperation, RolledBack

\* Where an answer comes from.
LEMMA SignalledCodes ==
  ASSUME NEW c \in Changes, NEW emitted, Signals(emitted),
         NEW code \in answers'[c]
  PROVE  \/ code \in answers[c] \/ <<c, code>> \in emitted
         \/ Destroyed(c) /\ code = changes'[c].resultCode
BY DEF Signals

LEMMA SilentCodes ==
  ASSUME Signals({})
  PROVE  \A c \in Changes : AnswersAreCodes(c)
BY DEF Signals, AnswersAreCodes

\* A new change, or only its id, that gets no job.
LEMMA NewCallFate ==
  ASSUME IInv, IInv', JobsInv, FateInv, ~crashed, NEW c \in Changes, NewId(c), NEW ch,
         Leaves(With(c, ch)) \/ \E o \in Operations : Ends(o, With(c, ch)),
         UNCHANGED <<applied, mQueuedModifications, mModificationsInProgress>>,
         NEW emitted, Signals(emitted), \A d, code : <<d, code>> \in emitted => d = c /\ code # "Success",
         \/ mChangeById' = mChangeById \cup {c} /\ ch.type # "none"
         \/ mChangeById' = mChangeById /\ (ch.type = "none" \/ ch.resultCode # "Success"),
         ch.resultCode \in {"Success", "AlreadyDeleted"} \/ (ch.atomicOperationId = CurrentOperation /\ Lost)
  PROVE  FateInv'
<1> DEFINE chs == With(c, ch)
<1>1. /\ mLatestChangeId' >= mLatestChangeId /\ mLatestChangeId < c /\ c <= mLatestChangeId'
      /\ chs[c] = ch /\ ~Busy(c) /\ ~Member(c)
      /\ \A d \in Changes \ {c} : chs[d] = changes[d]
  <2>1. \A d \in Changes \ {c} : chs[d] = changes[d]
    BY DEF With, IInv, ChangesTypeOK
  <2> HIDE DEF chs
  <2>2. /\ mLatestChangeId' >= mLatestChangeId /\ mLatestChangeId < c /\ c <= mLatestChangeId'
        /\ chs[c] = ch /\ ~Busy(c) /\ \A o \in Operations : c \notin mAtomicOperations[o].changes
    BY NewChange DEF chs
  <2> QED BY <2>1, <2>2 DEF Member
<1>2. c > mLatestChangeId
  BY <1>1, ConstantsAssumption DEF Changes, IInv, PipelineTypeOK
<1>3. answers[c] = {} /\ c \notin mChangeById /\ changes[c].type = "none" /\ ~Held(c)
  BY <1>2 DEF FateInv, FateOf, Born, NotConstructed, Change
<1> HIDE DEF chs
<1>4. ~Busy(c)' /\ ~Member(c)' /\ changes'[c] = ch
  BY <1>1, CallKeepsOperations DEF Member, chs
<1>5. \A i \in Items : mQueuedModifications'[i] # c /\ mModificationsInProgress'[i] # c
  BY <1>3 DEF Held
<1>6. Held(c)' => c \in mChangeById' /\ ch.type # "none"
  BY <1>3, <1>4, <1>5 DEF Held, Busy, Member
<1>7. \A code \in answers'[c] : code # "Success"
  <2> SUFFICES ASSUME NEW code \in answers'[c] PROVE code # "Success"
    OBVIOUS
  <2>1. <<c, code>> \in emitted \/ (Destroyed(c) /\ code = changes'[c].resultCode)
    BY <1>3, SignalledCodes
  <2>2. Destroyed(c) => c \notin mChangeById' /\ changes'[c].type # "none"
    BY <1>3 DEF Destroyed, Held
  <2> QED BY <1>4, <2>1, <2>2
<1>8. \A o \in Operations : OpOf(c)' = o /\ Fails(c)' => ~Open(o)' /\ (crashed' \/ NothingApplied(o))
  BY <1>4 DEF Fails, OpOf, Lost
<1>9. NewIdle(c)
  BY <1>1, <1>2, <1>4, <1>5, <1>6, <1>7, <1>8 DEF NewIdle
<1>10. \A d \in Changes \ {c} : /\ chs[d] = changes[d] /\ AnswersAreCodes(d)
                                /\ d \in mChangeById' <=> d \in mChangeById
  BY <1>1, SignalledCodes DEF AnswersAreCodes
<1>11. Leaves(chs) \/ \E o \in Operations : Ends(o, chs)
  BY DEF chs
<1>12. PICK N \in SUBSET Changes : N = {c}
  OBVIOUS
<1>13. \A d \in N : /\ NewIdle(d)
                    /\ \A o \in Operations :
                         Single(d)' /\ OpOf(d)' = o /\ Fails(d)' => crashed' \/ NothingApplied(o)
  BY <1>8, <1>9, <1>12
<1>14. \A d \in Changes \ N : /\ chs[d] = changes[d] /\ AnswersAreCodes(d)
                              /\ d \in mChangeById' <=> d \in mChangeById
  BY <1>10, <1>12
<1> QED BY <1>1, <1>11, <1>13, <1>14, CallFate

\* The calls, one by one.
LEMMA CallInvalidFate ==
  ASSUME IInv, IInv', JobsInv, FateInv, ~crashed, CallInvalid, UNCHANGED applied
  PROVE  FateInv'
<1>1. CancelTransaction(changes) /\ UNCHANGED pipelineVars /\ Signals({})
  BY DEF CallInvalid
<1>2. \A d \in Changes : AnswersAreCodes(d)
  BY <1>1, SilentCodes
<1>3. mLatestChangeId' >= mLatestChangeId
  BY <1>1 DEF pipelineVars, IInv, PipelineTypeOK
<1>4. {} \in SUBSET Changes
  OBVIOUS
<1> QED BY <1>1, <1>2, <1>3, <1>4, CancelLoses, CallFate DEF pipelineVars

LEMMA CallRolledBackFate ==
  ASSUME IInv, IInv', JobsInv, FateInv, ~crashed, NEW c \in Changes, CallRolledBack(c),
         UNCHANGED applied
  PROVE  FateInv'
<1> DEFINE ch == Refused("Rolledback")
<1>1. ch.type # "none" /\ ch.resultCode # "Success" /\ ch.atomicOperationId = CurrentOperation
  BY DEF Refused, Change
<1> HIDE DEF ch
<1>2. /\ RolledBack /\ NewId(c) /\ CleanupTransaction(With(c, ch)) /\ Signals({})
      /\ UNCHANGED <<mChangeById, mQueuedModifications, mModificationsInProgress>>
  BY DEF CallRolledBack, ch
<1>3. Lost /\ (Leaves(With(c, ch)) \/ \E o \in Operations : Ends(o, With(c, ch)))
  BY <1>2, CleanupLoses
<1> QED BY <1>1, <1>2, <1>3, NewCallFate

LEMMA CallRefusedFate ==
  ASSUME IInv, IInv', JobsInv, FateInv, ~crashed, NEW c \in Changes, CallRefused(c),
         UNCHANGED applied
  PROVE  FateInv'
<1>1. PICK code \in {"Permissions", "AlreadyDeleted"} : CancelTransaction(With(c, Refused(code)))
  BY DEF CallRefused
<1> DEFINE ch == Refused(code)
<1>2. ch.type # "none" /\ ch.resultCode # "Success" /\ ch.atomicOperationId = CurrentOperation
  BY DEF Refused, Change
<1>3. CancelTransaction(With(c, ch))
  BY <1>1
<1> HIDE DEF ch
<1>4. /\ NewId(c) /\ Signals({})
      /\ UNCHANGED <<mChangeById, mQueuedModifications, mModificationsInProgress>>
  BY DEF CallRefused
<1>5. Lost /\ (Leaves(With(c, ch)) \/ \E o \in Operations : Ends(o, With(c, ch)))
  BY <1>3, CancelLoses
<1> QED BY <1>2, <1>4, <1>5, NewCallFate

LEMMA ModifyRefusedFate ==
  ASSUME IInv, IInv', JobsInv, FateInv, ~crashed, NEW c \in Changes, ModifyRefused(c),
         UNCHANGED applied
  PROVE  FateInv'
<1>1. /\ NewId(c) /\ CancelTransaction(changes) /\ Signals({<<c, "Permissions">>})
      /\ UNCHANGED <<mChangeById, mQueuedModifications, mModificationsInProgress>>
  BY DEF ModifyRefused
<1> DEFINE ch == changes[c]
<1>2. With(c, ch) = changes
  BY DEF With, IInv, ChangesTypeOK
<1>3. ch.type = "none" /\ ch.resultCode = "Success"
  <2>1. mLatestChangeId < c
    BY <1>1, NewChange
  <2>2. c > mLatestChangeId
    BY <2>1, ConstantsAssumption DEF Changes, IInv, PipelineTypeOK
  <2> QED BY <2>2 DEF FateInv, FateOf, Born, NotConstructed, Change
<1>4. Lost /\ (Leaves(With(c, ch)) \/ \E o \in Operations : Ends(o, With(c, ch)))
  BY <1>1, <1>2, CancelLoses
<1> HIDE DEF ch
<1> QED BY <1>1, <1>3, <1>4, NewCallFate

LEMMA EndFate ==
  ASSUME IInv, IInv', JobsInv, FateInv, ~crashed, EndAtomicOperation
  PROVE  FateInv'
<1>1. UNCHANGED <<pipelineVars, applied>> /\ Signals({})
  BY DEF EndAtomicOperation
<1>2. \A d \in Changes : AnswersAreCodes(d)
  BY <1>1, SilentCodes
<1>3. mLatestChangeId' >= mLatestChangeId
  BY <1>1 DEF pipelineVars, IInv, PipelineTypeOK
<1>4. {} \in SUBSET Changes
  OBVIOUS
<1> QED BY <1>1, <1>2, <1>3, <1>4, EndCall, CallFate DEF pipelineVars

\* The other changes, when nothing happens to their operations.
LEMMA OtherChangeFate ==
  ASSUME IInv, IInv', FateInv, NEW c \in Changes, NEW N, c \notin N,
         SameRecord(c), Single(c) => changes'[c].resultCode = changes[c].resultCode,
         c > mLatestChangeId' => c > mLatestChangeId /\ changes'[c] = changes[c],
         c \in applied' <=> c \in applied, mChangeForJob'[c] = mChangeForJob[c],
         Single(c) => (c \in mChangeById' <=> c \in mChangeById),
         c \in mChangeById' => c \in mChangeById,
         \A i \in Items : /\ mQueuedModifications'[i] \in {mQueuedModifications[i], NoChange} \cup N
                          /\ mModificationsInProgress'[i] = c => Held(c),
         \A o \in Operations :
           /\ c \in mAtomicOperations'[o].changes <=> c \in mAtomicOperations[o].changes
           /\ transaction'[o] = transaction[o] \/ (Open(o) /\ transaction'[o] = "running"),
         AnswersAreCodes(c)
  PROVE  FateOf(c)'
<1>1. c # NoChange
  BY ConstantsAssumption DEF Changes, NoChange
<1>2. \A i \in Items : mQueuedModifications'[i] = c => mQueuedModifications[i] = c
  BY <1>1
<1>3. Held(c)' => Held(c)
  BY <1>2 DEF Held
<1>4. KeptBy(c)
  BY <1>2, <1>3 DEF KeptBy, Busy
<1>5. Untouched(c)
  BY <1>4 DEF Untouched, Settles
<1> QED BY <1>5, UntouchedFate DEF FateInv

\* What JoinOperation() does to the operations.
LEMMA JoinStep ==
  ASSUME IInv, NEW c \in Changes, NEW items \in SUBSET Items, JoinOperation(c, items)
  PROVE  /\ \A o \in Operations :
              /\ mAtomicOperations'[o].changes \in {mAtomicOperations[o].changes, mAtomicOperations[o].changes \cup {c}}
              /\ mAtomicOperations'[o].rolledback = mAtomicOperations[o].rolledback
              /\ mAtomicOperations'[o].alive = mAtomicOperations[o].alive
              /\ transaction'[o] = transaction[o] \/ (Open(o) /\ transaction'[o] = "running")
              /\ c \in mAtomicOperations'[o].changes =>
                   c \in mAtomicOperations[o].changes \/ (o = CurrentOperation /\ transaction'[o] = "running")
<1> SUFFICES ASSUME NEW o \in Operations
             PROVE  /\ mAtomicOperations'[o].changes \in {mAtomicOperations[o].changes, mAtomicOperations[o].changes \cup {c}}
                    /\ mAtomicOperations'[o].rolledback = mAtomicOperations[o].rolledback
                    /\ mAtomicOperations'[o].alive = mAtomicOperations[o].alive
                    /\ transaction'[o] = transaction[o] \/ (Open(o) /\ transaction'[o] = "running")
                    /\ c \in mAtomicOperations'[o].changes =>
                         c \in mAtomicOperations[o].changes \/ (o = CurrentOperation /\ transaction'[o] = "running")
  OBVIOUS
<1>1. CASE UNCHANGED <<mAtomicOperations, transaction>>
  BY <1>1
<1>2. CASE /\ mBatchOperationInProgress /\ transaction[mLatestAtomicOperationId] \in {"none", "running"}
           /\ transaction' = [transaction EXCEPT ![mLatestAtomicOperationId] = "running"]
           /\ mAtomicOperations' = Added(mLatestAtomicOperationId, c, items)
  <2>1. LET new == AddChange(mAtomicOperations[o], c, items)
        IN  /\ new.changes = mAtomicOperations[o].changes \cup {c}
            /\ new.rolledback = mAtomicOperations[o].rolledback
            /\ new.alive = mAtomicOperations[o].alive
    BY OperationsHave DEF AddChange, OperationTypes
  <2>2. mAtomicOperations'[o] = IF o = mLatestAtomicOperationId
                                THEN AddChange(mAtomicOperations[o], c, items)
                                ELSE mAtomicOperations[o]
    BY <1>2 DEF Added
  <2>3. transaction'[o] = IF o = mLatestAtomicOperationId THEN "running" ELSE transaction[o]
    BY <1>2 DEF IInv, OperationsInv, OperationsTypeOK
  <2>4. CASE o = mLatestAtomicOperationId
    BY <1>2, <2>1, <2>2, <2>3, <2>4 DEF CurrentOperation, Open
  <2>5. CASE o # mLatestAtomicOperationId
    BY <2>2, <2>3, <2>5
  <2> QED BY <2>4, <2>5
<1> QED BY <1>1, <1>2 DEF JoinOperation

\* A call that starts a job.
LEMMA JobCallFate ==
  ASSUME IInv, IInv', JobsInv, FateInv, ~crashed, NEW c \in Changes, NewId(c),
         NEW ch, ch.type # "none", ch.resultCode = "Success",
         ch.atomicOperationId = CurrentOperation,
         NEW items \in SUBSET Items, JoinOperation(c, items),
         changes' = With(c, ch), Signals({}),
         mChangeForJob' = [mChangeForJob EXCEPT ![c] = "running"],
         mChangeById' = mChangeById \cup {c}, UNCHANGED <<applied, mQueuedModifications>>,
         \A i \in Items : mModificationsInProgress'[i] \in {mModificationsInProgress[i], c}
  PROVE  FateInv'
<1>1. /\ mLatestChangeId' >= mLatestChangeId /\ mLatestChangeId < c /\ c <= mLatestChangeId'
      /\ changes'[c] = ch /\ \A o \in Operations : c \notin mAtomicOperations[o].changes
  BY NewChange
<1>2. \A d \in Changes \ {c} : changes'[d] = changes[d] /\ mChangeForJob'[d] = mChangeForJob[d]
  BY DEF With, IInv, ChangesTypeOK, RestTypeOK
<1>3. /\ c > mLatestChangeId
      /\ \A d \in Changes : d > mLatestChangeId' => d > mLatestChangeId
  BY <1>1, ConstantsAssumption DEF Changes, IInv, PipelineTypeOK
<1>4. answers[c] = {} /\ c \notin applied /\ ~Held(c)
  BY <1>3 DEF FateInv, FateOf, Born, NotConstructed, Change
<1>5. mChangeForJob'[c] = "running"
  BY DEF IInv, RestTypeOK
<1>6. answers'[c] = {}
  BY <1>4, <1>5, SilentCodes DEF AnswersAreCodes, Destroyed, Held
<1>7. \A i \in Items : mQueuedModifications'[i] # c
  BY <1>4 DEF Held
<1>8. FateOf(c)'
  <2>1. \A o \in Operations : c \in mAtomicOperations'[o].changes =>
          OpOf(c)' = o /\ transaction'[o] = "running"
    BY <1>1, JoinStep DEF OpOf
  <2>2. NewBusy(c)
    BY <1>1, <1>3, <1>5, <1>6, <1>7, <2>1 DEF NewBusy
  <2> QED BY <2>2, NewBusyFate DEF FateInv
<1>9. ASSUME NEW d \in Changes, d # c PROVE FateOf(d)'
  <2>1. changes'[d] = changes[d] /\ mChangeForJob'[d] = mChangeForJob[d] /\ AnswersAreCodes(d)
    BY <1>2, <1>9, SilentCodes
  <2>2. SameRecord(d)
    BY <2>1 DEF SameRecord, OpOf
  <2>3. \A i \in Items : mModificationsInProgress'[i] = d => Held(d)
    BY <1>9 DEF Held
  <2>4. d \in mChangeById' <=> d \in mChangeById
    BY <1>9
  <2>5. \A o \in Operations :
          /\ d \in mAtomicOperations'[o].changes <=> d \in mAtomicOperations[o].changes
          /\ transaction'[o] = transaction[o] \/ (Open(o) /\ transaction'[o] = "running")
    BY <1>9, JoinStep
  <2>6. d \notin {}
    OBVIOUS
  <2> QED BY <1>3, <2>1, <2>2, <2>3, <2>4, <2>5, <2>6, OtherChangeFate
<1>10. OpenIsClean'
  BY JoinStep DEF FateInv, OpenIsClean, Open
<1>11. AppliedTogether'
  <2>1. \A d \in applied : d # c /\ d \in Changes
    BY <1>4 DEF IInv, RestTypeOK
  <2>2. \A o \in Operations : NothingApplied(o) \/ Unspoiled(o)
    <3> SUFFICES ASSUME NEW o \in Operations, ~NothingApplied(o) PROVE Unspoiled(o)
      OBVIOUS
    <3>1. transaction[o] = "freed"
      BY NothingAppliedYet DEF FateInv
    <3>2. transaction'[o] = transaction[o] /\ mAtomicOperations'[o].rolledback = mAtomicOperations[o].rolledback
      BY <3>1, JoinStep DEF Open
    <3>3. \A d \in Changes : Single(d)' /\ OpOf(d)' = o /\ Fails(d)' => Single(d) /\ OpOf(d) = o /\ Fails(d)
      BY <1>1, <1>2 DEF Single, OpOf, Fails
    <3> QED BY <3>2, <3>3 DEF Unspoiled
  <2>3. \A d \in applied' : Single(d)' /\ OpOf(d)' # NoOperation =>
          d \in applied /\ Single(d) /\ OpOf(d)' = OpOf(d)
    BY <1>2, <2>1 DEF Single, OpOf
  <2> QED BY <2>2, <2>3, TogetherKeeps DEF FateInv
<1> QED BY <1>8, <1>9, <1>10, <1>11 DEF FateInv

LEMMA CreateFate ==
  ASSUME IInv, IInv', JobsInv, FateInv, ~crashed, NEW c \in Changes, Create(c), UNCHANGED applied
  PROVE  FateInv'
<1> DEFINE ch == Change("create", NoItem, CurrentOperation, "Success")
<1>1. ch.type # "none" /\ ch.resultCode = "Success" /\ ch.atomicOperationId = CurrentOperation
  BY DEF Change
<1>2. /\ NewId(c) /\ JoinOperation(c, {}) /\ changes' = With(c, ch) /\ Signals({})
      /\ mChangeForJob' = [mChangeForJob EXCEPT ![c] = "running"]
      /\ mChangeById' = mChangeById \cup {c}
      /\ UNCHANGED <<mQueuedModifications, mModificationsInProgress>>
  BY DEF Create
<1>3. {} \in SUBSET Items
  OBVIOUS
<1> HIDE DEF ch
<1> QED BY <1>1, <1>2, <1>3, JobCallFate

LEMMA DeleteFate ==
  ASSUME IInv, IInv', JobsInv, FateInv, ~crashed, NEW c \in Changes, Delete(c), UNCHANGED applied
  PROVE  FateInv'
<1>1. PICK i \in Items :
        /\ NewId(c) /\ JoinOperation(c, {}) /\ Signals({})
        /\ changes' = With(c, Change("delete", i, CurrentOperation, "Success"))
        /\ mChangeForJob' = [mChangeForJob EXCEPT ![c] = "running"]
        /\ mChangeById' = mChangeById \cup {c}
        /\ UNCHANGED <<mQueuedModifications, mModificationsInProgress>>
  BY DEF Delete
<1> DEFINE ch == Change("delete", i, CurrentOperation, "Success")
<1>2. ch.type # "none" /\ ch.resultCode = "Success" /\ ch.atomicOperationId = CurrentOperation
  BY DEF Change
<1>3. {} \in SUBSET Items /\ changes' = With(c, ch)
  BY <1>1
<1> HIDE DEF ch
<1> QED BY <1>1, <1>2, <1>3, JobCallFate

\* queueModification(): the change that waited is discarded, answered by its destructor.
LEMMA ModifyQueuedFate ==
  ASSUME IInv, IInv', JobsInv, FateInv, ~crashed, NEW c \in Changes, NEW i \in Items,
         NewId(c), ModifyQueued(c, i), UNCHANGED applied
  PROVE  FateInv'
<1> DEFINE new == [Change("modify", i, CurrentOperation, "Success") EXCEPT !.queuedModification = TRUE]
           dropped(d) == [changes[d] EXCEPT !.resultCode = "ModificationDiscarded", !.completed = TRUE]
           discarded == mQueuedModifications[i]
<1>1. /\ UNCHANGED <<mChangeForJob, mModificationsInProgress, mAtomicOperations, transaction>>
      /\ mQueuedModifications' = [mQueuedModifications EXCEPT ![i] = c]
      /\ mChangeById' = (mChangeById \cup {c}) \ {discarded} /\ Signals({})
      /\ changes' = [d \in Changes |-> IF d = c THEN new ELSE IF d = discarded THEN dropped(d) ELSE changes[d]]
  BY DEF ModifyQueued, operationVars
<1>2. new.type = "modify" /\ new.queuedModification
  BY DEF Change
<1>3. ASSUME NEW d \in Changes
      PROVE  /\ dropped(d).type = changes[d].type
             /\ dropped(d).atomicOperationId = changes[d].atomicOperationId
             /\ dropped(d).queuedModification = changes[d].queuedModification
  <2>1. changes[d] \in ChangeTypes
    BY DEF IInv, ChangesTypeOK
  <2> QED BY <2>1 DEF ChangeTypes
<1>4. changes'[c].type = "modify" /\ ~Single(c)'
  BY <1>1, <1>2 DEF Single
<1> HIDE DEF new, dropped
<1>5. /\ mLatestChangeId' >= mLatestChangeId /\ mLatestChangeId < c /\ c <= mLatestChangeId'
      /\ ~Busy(c) /\ \A o \in Operations : c \notin mAtomicOperations[o].changes
  BY NewChange
<1>6. /\ c > mLatestChangeId
      /\ \A d \in Changes : d > mLatestChangeId' => d > mLatestChangeId
  BY <1>5, ConstantsAssumption DEF Changes, IInv, PipelineTypeOK
<1>7. FateOf(c)'
  <2>1. ~Busy(c)' /\ ~Member(c)'
    BY <1>1, <1>5 DEF Busy, Member
  <2>2. NewIdle(c)
    BY <1>4, <1>5, <1>6, <2>1 DEF NewIdle
  <2> QED BY <2>2, NewIdleFate DEF FateInv
<1>8. ASSUME NEW d \in Changes, d # c
      PROVE  /\ SameRecord(d)
             /\ Single(d) => d # discarded /\ changes'[d].resultCode = changes[d].resultCode
  <2>1. Single(d) => d # discarded
    BY DEF FateInv, FateOf, Belongs
  <2>2. changes'[d] = IF d = discarded THEN dropped(d) ELSE changes[d]
    BY <1>1, <1>8
  <2> QED BY <1>3, <2>1, <2>2 DEF SameRecord, OpOf
<1>9. ASSUME NEW d \in Changes, d # c PROVE FateOf(d)'
  <2>1. d > mLatestChangeId' => d > mLatestChangeId /\ changes'[d] = changes[d]
    <3>1. d > mLatestChangeId => d # discarded
      BY ConstantsAssumption DEF JobsInv, WaitingIsOutside, Changes, NoChange, IInv, PipelineTypeOK
    <3> QED BY <1>1, <1>6, <1>9, <3>1
  <2>2. \A j \in Items : /\ mQueuedModifications'[j] \in {mQueuedModifications[j], NoChange} \cup {c}
                         /\ mModificationsInProgress'[j] = d => Held(d)
    BY <1>1 DEF Held, IInv, PipelineTypeOK
  <2>3. Single(d) => (d \in mChangeById' <=> d \in mChangeById)
    BY <1>1, <1>8, <1>9
  <2>4. d \in mChangeById' => d \in mChangeById
    BY <1>1, <1>9
  <2>5. d \notin {c}
    BY <1>9
  <2> HIDE DEF discarded
  <2> QED BY <1>1, <1>8, <1>9, <2>1, <2>2, <2>3, <2>4, <2>5, SilentCodes, OtherChangeFate
<1>10. OpenIsClean'
  BY <1>1 DEF FateInv, OpenIsClean, Open
<1>11. AppliedTogether'
  <2>1. \A d \in applied : d # c /\ d \in Changes
    BY <1>6 DEF IInv, RestTypeOK, FateInv, FateOf, Born
  <2>2. \A d \in Changes \ {c} : (Single(d)' <=> Single(d)) /\ OpOf(d)' = OpOf(d)
    BY <1>8 DEF SameRecord, Single
  <2>3. \A o \in Operations : Unspoiled(o)
    BY <1>1, <1>4, <1>8, <2>2 DEF Unspoiled, Fails
  <2>4. \A d \in applied' : Single(d)' /\ OpOf(d)' # NoOperation =>
          d \in applied /\ Single(d) /\ OpOf(d)' = OpOf(d)
    BY <2>1, <2>2
  <2> QED BY <2>3, <2>4, TogetherKeeps DEF FateInv
<1> QED BY <1>7, <1>9, <1>10, <1>11 DEF FateInv

\* modifyIncidence(), all its ways out.
LEMMA ModifyFate ==
  ASSUME IInv, IInv', JobsInv, FateInv, ~crashed, NEW c \in Changes, Modify(c), UNCHANGED applied
  PROVE  FateInv'
<1>1. PICK i \in Items :
        \/ ModifyDuplicate(c, i) \/ ModifyRolledBack(c, i) \/ ModifyDeleted(c, i)
        \/ ModifyQueued(c, i) \/ ModifyStarted(c, i)
  BY DEF Modify
<1>2. NewId(c)
  BY DEF Modify
<1>3. ASSUME NEW code
      PROVE  /\ Change("modify", i, CurrentOperation, code).type # "none"
             /\ Change("modify", i, CurrentOperation, code).resultCode = code
             /\ Change("modify", i, CurrentOperation, code).atomicOperationId = CurrentOperation
  BY DEF Change
<1>4. CASE ModifyDuplicate(c, i)
  <2> DEFINE ch == Change("modify", i, CurrentOperation, "DuplicateId")
  <2>1. /\ CancelTransaction(With(c, ch)) /\ Signals({}) /\ mChangeById' = mChangeById \cup {c}
        /\ UNCHANGED <<mQueuedModifications, mModificationsInProgress>>
    BY <1>4 DEF ModifyDuplicate
  <2>2. ch.type # "none" /\ ch.atomicOperationId = CurrentOperation
    BY <1>3
  <2> HIDE DEF ch
  <2>3. Lost /\ (Leaves(With(c, ch)) \/ \E o \in Operations : Ends(o, With(c, ch)))
    BY <2>1, CancelLoses
  <2> QED BY <1>2, <2>1, <2>2, <2>3, NewCallFate
<1> DEFINE ch == Change("modify", i, CurrentOperation, "Success")
<1>5. ch.type # "none" /\ ch.atomicOperationId = CurrentOperation /\ ch.resultCode = "Success"
  BY <1>3
<1>6. CASE ModifyRolledBack(c, i)
  <2>1. /\ CleanupTransaction(With(c, ch)) /\ mChangeById' = mChangeById \cup {c} /\ RolledBack
        /\ UNCHANGED <<mQueuedModifications, mModificationsInProgress>>
        /\ Signals({<<c, "Rolledback">>})
    BY <1>6 DEF ModifyRolledBack
  <2> HIDE DEF ch
  <2>2. Lost /\ (Leaves(With(c, ch)) \/ \E o \in Operations : Ends(o, With(c, ch)))
    BY <2>1, CleanupLoses
  <2> QED BY <1>2, <1>5, <2>1, <2>2, NewCallFate
<1>7. CASE ModifyDeleted(c, i)
  <2>1. /\ changes' = With(c, ch) /\ mChangeById' = mChangeById \cup {c}
        /\ UNCHANGED <<mChangeForJob, mAtomicOperations, transaction, mQueuedModifications,
                       mModificationsInProgress>>
        /\ Signals({<<c, "AlreadyDeleted">>})
    BY <1>7 DEF ModifyDeleted, operationVars
  <2> HIDE DEF ch
  <2>2. Leaves(With(c, ch))
    BY <2>1, StandsOperations DEF Leaves
  <2> QED BY <1>2, <1>5, <2>1, <2>2, NewCallFate
<1>8. CASE ModifyStarted(c, i)
  <2>1. /\ changes' = With(c, ch) /\ JoinOperation(c, {i}) /\ Signals({})
        /\ mChangeForJob' = [mChangeForJob EXCEPT ![c] = "running"]
        /\ mChangeById' = mChangeById \cup {c} /\ UNCHANGED mQueuedModifications
        /\ mModificationsInProgress' = [mModificationsInProgress EXCEPT ![i] = c]
    BY <1>8 DEF ModifyStarted
  <2>2. \A j \in Items : mModificationsInProgress'[j] \in {mModificationsInProgress[j], c}
    BY <2>1 DEF IInv, PipelineTypeOK
  <2>3. {i} \in SUBSET Items
    OBVIOUS
  <2> HIDE DEF ch
  <2> QED BY <1>2, <1>5, <2>1, <2>2, <2>3, JobCallFate
<1> QED BY <1>1, <1>2, <1>4, <1>6, <1>7, <1>8, ModifyQueuedFate

\* Nothing happens to the changes.
LEMMA StartFate ==
  ASSUME IInv, IInv', JobsInv, FateInv, ~crashed, StartAtomicOperation
  PROVE  FateInv'
<1>1. UNCHANGED <<pipelineVars, changes, mChangeForJob, answers, applied, crashed, transaction>>
  BY DEF StartAtomicOperation, operationVars
<1>2. \A o \in Operations :
        /\ mAtomicOperations'[o].changes = mAtomicOperations[o].changes
        /\ mAtomicOperations'[o].rolledback = mAtomicOperations[o].rolledback
        /\ mAtomicOperations[o].alive => mAtomicOperations'[o].alive
  <2>1. CASE UNCHANGED operationVars
    BY <2>1 DEF operationVars
  <2>2. CASE /\ ~mBatchOperationInProgress
             /\ mAtomicOperations' =
                  [mAtomicOperations EXCEPT ![mLatestAtomicOperationId + 1] = Operation]
    <3>1. \A o \in Operations :
            /\ mAtomicOperations[o].changes = {} /\ ~mAtomicOperations[o].alive
            /\ mAtomicOperations[o].rolledback = FALSE
      BY <2>2, OperationsHave
      DEF JobsInv, DeadIsEmpty, IInv, OperationsInv, OneOperation, FateInv, OpenIsClean, OperationTypes
    <3>2. Operation.changes = {} /\ Operation.rolledback = FALSE
      BY DEF Operation
    <3> QED BY <2>2, <3>1, <3>2 DEF IInv, OperationsInv, OperationsTypeOK
  <2> QED BY <2>1, <2>2 DEF StartAtomicOperation
<1>3. OpenIsClean'
  BY <1>1, <1>2 DEF FateInv, OpenIsClean, Open
<1>4. ASSUME NEW c \in Changes PROVE FateOf(c)'
  <2>1. SameRecord(c) /\ AnswersAreCodes(c)
    BY <1>1 DEF SameRecord, OpOf, AnswersAreCodes
  <2>2. \A i \in Items : /\ mQueuedModifications'[i] \in {mQueuedModifications[i], NoChange} \cup {}
                         /\ mModificationsInProgress'[i] = c => Held(c)
    BY <1>1 DEF Held, pipelineVars
  <2>3. c \notin {}
    OBVIOUS
  <2> QED BY <1>1, <1>2, <2>1, <2>2, <2>3, OtherChangeFate DEF pipelineVars
<1>5. AppliedTogether'
  BY <1>1, <1>2, TogetherKeeps DEF FateInv, Unspoiled, Single, OpOf, Fails
<1> QED BY <1>3, <1>4, <1>5 DEF FateInv

-----------------------------------------------------------------------------
(* The handlers.                                                           *)

\* What the handler of a job stores in the change, and what it says by hand.
LEMMA HandledResult ==
  ASSUME IInv, NEW c \in Changes, HandleJobResult(c)
  PROVE  /\ Busy(c) /\ mChangeForJob[c] # "running"
         /\ mChangeForJob' = [mChangeForJob EXCEPT ![c] = "none"]
         /\ mChangeById' = mChangeById \ {c}
         /\ \A o \in Operations :
              /\ mAtomicOperations'[o].changes = mAtomicOperations[o].changes
              /\ mAtomicOperations'[o].rolledback = mAtomicOperations[o].rolledback
              /\ mAtomicOperations'[o].alive = mAtomicOperations[o].alive
         /\ UNCHANGED <<mLatestChangeId, mQueuedModifications, mModificationsInProgress,
                        transaction, applied, crashed>>
         /\ \A d \in Changes \ {c} : changes'[d] = changes[d] /\ AnswersAreCodes(d)
         /\ changes'[c].type = changes[c].type /\ OpOf(c)' = OpOf(c)
         /\ changes'[c].queuedModification = changes[c].queuedModification
         /\ IF mChangeForJob[c] = "succeeded"
            THEN /\ changes'[c].resultCode = "Success"
                 /\ OpOf(c) # NoOperation => changes'[c].completed
                 /\ AnswersAreCodes(c)
            ELSE /\ changes'[c].resultCode # "Success"
                 /\ \A code \in answers'[c] : code \in answers[c] \/ code # "Success"
<1>1. /\ Busy(c) /\ mChangeForJob[c] \in {"succeeded", "failed", "aborted"}
      /\ mChangeForJob' = [mChangeForJob EXCEPT ![c] = "none"]
      /\ mChangeById' = mChangeById \ {c}
      /\ mAtomicOperations' \in {mAtomicOperations, Counted(c)}
      /\ UNCHANGED <<mLatestChangeId, mQueuedModifications, mModificationsInProgress,
                     transaction, applied, crashed>>
  BY DEF HandleJobResult, HandleCreateJobResult, HandleModifyJobResult, HandleDeleteJobResult,
    Take, Busy
<1>2. \A o \in Operations :
        /\ mAtomicOperations'[o].changes = mAtomicOperations[o].changes
        /\ mAtomicOperations'[o].rolledback = mAtomicOperations[o].rolledback
        /\ mAtomicOperations'[o].alive = mAtomicOperations[o].alive
  BY <1>1, OperationsHave DEF Counted, OperationTypes
<1> DEFINE killed == mChangeForJob[c] = "aborted"
           done == changes[c].completed \/ changes[c].atomicOperationId # NoOperation
           failure(code) == [changes[c] EXCEPT !.resultCode = code, !.aborted = killed]
           result(code) == [changes[c] EXCEPT !.resultCode = code, !.completed = done,
                                              !.aborted = killed]
<1>3. /\ \/ /\ mChangeForJob[c] = "succeeded"
            /\ changes' = With(c, result("Success")) /\ Signals({})
         \/ /\ mChangeForJob[c] # "succeeded"
            /\ \E code \in {"JobError", "AlreadyDeleted"} :
                 changes' = With(c, result(code)) \/ changes' = With(c, failure(code))
            /\ Signals({}) \/ Signals({<<c, "JobError">>})
  <2>1. changes[c] \in ChangeTypes
    BY DEF IInv, ChangesTypeOK
  <2>2. \A code : Result(c, code) = result(code)
    BY <2>1 DEF Result
  <2> HIDE DEF result
  <2> QED BY <2>2
    DEF HandleJobResult, HandleCreateJobResult, HandleModifyJobResult, HandleDeleteJobResult, Failed
<1>4. \A d \in Changes \ {c} : AnswersAreCodes(d)
  BY <1>3 DEF Signals, AnswersAreCodes
<1>5. ASSUME NEW code
      PROVE  /\ result(code).type = changes[c].type /\ result(code).resultCode = code
             /\ result(code).atomicOperationId = changes[c].atomicOperationId
             /\ result(code).queuedModification = changes[c].queuedModification
             /\ failure(code).type = changes[c].type /\ failure(code).resultCode = code
             /\ failure(code).atomicOperationId = changes[c].atomicOperationId
             /\ failure(code).queuedModification = changes[c].queuedModification
  <2>1. changes[c] \in ChangeTypes
    BY DEF IInv, ChangesTypeOK
  <2> HIDE DEF killed, done
  <2> QED BY <2>1 DEF ChangeTypes
<1>6. ASSUME NEW ch PROVE With(c, ch)[c] = ch /\ \A d \in Changes \ {c} : With(c, ch)[d] = changes[d]
  BY DEF With, IInv, ChangesTypeOK
<1>7. OpOf(c) # NoOperation => result("Success").completed
  <2>1. changes[c] \in ChangeTypes /\ (OpOf(c) # NoOperation => done)
    BY DEF OpOf, IInv, ChangesTypeOK
  <2> HIDE DEF killed, done
  <2>2. result("Success").completed = done
    BY <2>1 DEF ChangeTypes
  <2> QED BY <2>1, <2>2
<1> HIDE DEF result, failure
<1>8. CASE /\ mChangeForJob[c] = "succeeded"
           /\ changes' = With(c, result("Success")) /\ Signals({})
  <2>1. changes'[c] = result("Success") /\ \A d \in Changes \ {c} : changes'[d] = changes[d]
    BY <1>6, <1>8
  <2>2. AnswersAreCodes(c)
    BY <1>8, SilentCodes
  <2>3. OpOf(c) # NoOperation => changes'[c].completed
    BY <1>7, <2>1
  <2>4. /\ changes'[c].type = changes[c].type /\ OpOf(c)' = OpOf(c)
        /\ changes'[c].queuedModification = changes[c].queuedModification
        /\ changes'[c].resultCode = "Success"
    BY <1>5, <2>1 DEF OpOf
  <2> QED BY <1>1, <1>2, <1>4, <1>8, <2>1, <2>2, <2>3, <2>4
<1>9. CASE /\ mChangeForJob[c] # "succeeded"
           /\ \E code \in {"JobError", "AlreadyDeleted"} :
                changes' = With(c, result(code)) \/ changes' = With(c, failure(code))
           /\ Signals({}) \/ Signals({<<c, "JobError">>})
  <2>1. PICK code \in {"JobError", "AlreadyDeleted"} :
          changes' = With(c, result(code)) \/ changes' = With(c, failure(code))
    BY <1>9
  <2>2. /\ changes'[c] \in {result(code), failure(code)}
        /\ \A d \in Changes \ {c} : changes'[d] = changes[d]
    BY <1>6, <2>1
  <2>3. /\ changes'[c].type = changes[c].type /\ OpOf(c)' = OpOf(c)
        /\ changes'[c].queuedModification = changes[c].queuedModification
        /\ changes'[c].resultCode # "Success"
    BY <1>5, <2>2 DEF OpOf
  <2>4. \A signal \in answers'[c] : signal \in answers[c] \/ signal # "Success"
    BY <1>9, <2>3 DEF Signals
  <2> QED BY <1>1, <1>2, <1>4, <1>9, <2>2, <2>3, <2>4
<1> QED BY <1>3, <1>8, <1>9

\* What is known of a change whose job is under way.
LEMMA BusyChange ==
  ASSUME IInv, JobsInv, FateInv, ~crashed, NEW c \in Changes, Busy(c)
  PROVE  /\ ~(c > mLatestChangeId)
         /\ Member(c) \/ OpOf(c) = NoOperation
         /\ Single(c) => answers[c] = {} \/ c \in applied
         /\ \A o \in Operations : InTransaction(c, o) =>
              /\ OpOf(c) = o /\ Single(c) /\ c \notin applied /\ NothingApplied(o)
              /\ transaction[o] \in {"running", "failing"}
              /\ mChangeForJob[c] \in {"failed", "aborted"} => transaction[o] = "failing"
              /\ mChangeForJob[c] = "running" => transaction[o] = "running"
<1>1. /\ OpOf(c) # NoOperation => OpOf(c) \in Operations /\ c \in mAtomicOperations[OpOf(c)].changes
      /\ c <= mLatestChangeId
  BY OperationOfChange DEF JobsInv, BusyIsMember, FreshIsUnused
<1>2. ~(c > mLatestChangeId)
  BY <1>1, ConstantsAssumption DEF Changes, IInv, PipelineTypeOK
<1>3. Undecided(c) /\ Belongs(c) /\ Answered(c)
  BY DEF FateInv, FateOf
<1>4. ASSUME NEW o \in Operations, InTransaction(c, o)
      PROVE  /\ OpOf(c) = o /\ Single(c) /\ c \notin applied /\ NothingApplied(o)
             /\ transaction[o] \in {"running", "failing"}
             /\ mChangeForJob[c] \in {"failed", "aborted"} => transaction[o] = "failing"
             /\ mChangeForJob[c] = "running" => transaction[o] = "running"
  <2>1. OpOf(c) = o /\ Single(c)
    BY <1>3, <1>4 DEF InTransaction, Belongs, Single
  <2>2. /\ transaction[o] \in {"running", "failing"}
        /\ mChangeForJob[c] \in {"failed", "aborted"} => transaction[o] = "failing"
        /\ mChangeForJob[c] = "running" => transaction[o] = "running"
    BY <1>3, <1>4 DEF Undecided, Failed
  <2>3. NothingApplied(o)
    BY <2>2, NothingAppliedYet DEF FateInv
  <2> QED BY <2>1, <2>2, <2>3 DEF NothingApplied
<1> QED BY <1>1, <1>2, <1>3, <1>4 DEF Member, Answered

\* The handler of a job that is done.
LEMMA HandleJobResultFate ==
  ASSUME IInv, IInv', JobsInv, FateInv, ~crashed, NEW c \in Changes, HandleJobResult(c)
  PROVE  FateInv'
<1> DEFINE good == mChangeForJob[c] = "succeeded"
<1>1. /\ Busy(c) /\ mChangeForJob[c] # "running"
      /\ mChangeForJob' = [mChangeForJob EXCEPT ![c] = "none"]
      /\ mChangeById' = mChangeById \ {c}
      /\ UNCHANGED <<mLatestChangeId, mQueuedModifications, mModificationsInProgress,
                     transaction, applied, crashed>>
  BY HandledResult
<1>2. \A o \in Operations :
        /\ mAtomicOperations'[o].changes = mAtomicOperations[o].changes
        /\ mAtomicOperations'[o].rolledback = mAtomicOperations[o].rolledback
        /\ mAtomicOperations'[o].alive = mAtomicOperations[o].alive
  BY HandledResult
<1>3. \A d \in Changes \ {c} : changes'[d] = changes[d] /\ AnswersAreCodes(d)
  BY HandledResult
<1>4. /\ changes'[c].type = changes[c].type /\ OpOf(c)' = OpOf(c)
      /\ changes'[c].queuedModification = changes[c].queuedModification
      /\ good => /\ changes'[c].resultCode = "Success" /\ AnswersAreCodes(c)
                 /\ OpOf(c) # NoOperation => changes'[c].completed
      /\ ~good => /\ changes'[c].resultCode # "Success"
                  /\ \A code \in answers'[c] : code \in answers[c] \/ code # "Success"
  BY HandledResult
<1>5. mChangeForJob'[c] = "none" /\ \A d \in Changes \ {c} : mChangeForJob'[d] = mChangeForJob[d]
  BY <1>1 DEF IInv, RestTypeOK
<1>6. mChangeForJob[c] \in {"succeeded", "failed", "aborted"}
  BY <1>1 DEF Busy, IInv, RestTypeOK, JobStates
<1>7. Born(c) /\ Belongs(c) /\ Undecided(c) /\ ResultTells(c) /\ Answered(c)
  BY DEF FateInv, FateOf
<1> HIDE DEF good
<1>8. /\ ~Busy(c)' /\ (Single(c)' <=> Single(c)) /\ (Member(c)' <=> Member(c))
      /\ \A o \in Operations : InTransaction(c, o)' <=> InTransaction(c, o)
  BY <1>2, <1>4, <1>5 DEF Busy, Single, Member, InTransaction
<1>9. \A o \in Operations : Single(c) /\ OpOf(c) = o /\ ~good =>
        transaction[o] = "failing" /\ NothingApplied(o)
  <2>1. \A o \in Operations : Single(c) /\ OpOf(c) = o => InTransaction(c, o)
    BY <1>1, OperationOfChange DEF JobsInv, BusyIsMember, InTransaction, Single
  <2> QED BY <1>1, <1>6, <2>1, BusyChange DEF good
<1>10. FateOf(c)'
  <2>1. Born(c)' /\ Belongs(c)'
    <3>1. Held(c)' => Held(c)
      BY <1>1, <1>2, <1>5 DEF Held
    <3>2. ~(c > mLatestChangeId')
      BY <1>1, BusyChange
    <3> QED BY <1>1, <1>2, <1>4, <1>7, <1>8, <3>1, <3>2 DEF Born, Belongs
  <2>2. Undecided(c)'
    <3>1. ASSUME NEW o \in Operations, Single(c)', OpOf(c)' = o, Open(o)'
          PROVE  ~Fails(c)'
      BY <1>1, <1>4, <1>8, <1>9, <3>1 DEF Open, Fails
    <3>2. ASSUME NEW o \in Operations, InTransaction(c, o)'
          PROVE  /\ transaction'[o] # "none"
                 /\ transaction'[o] = "running" => changes'[c].resultCode = "Success" /\ ~Failed(c)'
                 /\ Busy(c)' => transaction'[o] \in {"running", "failing"}
                 /\ mChangeForJob'[c] = "running" => transaction'[o] = "running"
      BY <1>1, <1>4, <1>5, <1>6, <1>8, <3>2, BusyChange DEF Failed, good
    <3> QED BY <3>1, <3>2 DEF Undecided
  <2>3. ResultTells(c)'
    <3> SUFFICES ASSUME Single(c) PROVE ResultTells(c)'
      BY <1>8 DEF ResultTells
    <3>1. CASE Member(c)
      <4>1. PICK o \in Operations : InTransaction(c, o)
        BY <3>1 DEF Member, InTransaction, Single
      <4>2. OpOf(c) = o /\ c \notin applied /\ o # NoOperation
        BY <1>1, <4>1, BusyChange DEF Operations, NoOperation
      <4> QED BY <1>1, <1>4, <1>8, <3>1, <4>2 DEF ResultTells
    <3>2. CASE ~Member(c)
      <4>1. good <=> c \in applied
        BY <1>1, <1>7, <3>2, BusyChange DEF ResultTells, good
      <4> QED BY <1>1, <1>4, <1>8, <3>2, <4>1 DEF ResultTells
    <3> QED BY <3>1, <3>2
  <2>4. Answered(c)'
    <3>1. CASE good
      <4>1. answers[c] # {} /\ c \notin applied /\ Single(c) =>
              ~Busy(c)' /\ \A o \in Operations : InTransaction(c, o)' => transaction'[o] # "running"
        BY <1>1, BusyChange
      <4> QED BY <1>1, <1>4, <1>7, <2>3, <3>1, <4>1, DestroyedAnswers
    <3>2. CASE ~good
      <4> SUFFICES ASSUME Single(c) PROVE Answered(c)'
        BY <1>8 DEF Answered
      <4>1. c \notin applied
        <5>1. CASE Member(c)
          <6>1. PICK o \in Operations : InTransaction(c, o)
            BY <5>1 DEF Member, InTransaction, Single
          <6> QED BY <1>1, <6>1, BusyChange
        <5>2. CASE ~Member(c)
          BY <1>1, <1>7, <3>2, <5>2, BusyChange DEF ResultTells, good
        <5> QED BY <5>1, <5>2
      <4>2. answers[c] = {}
        BY <1>1, <4>1, BusyChange
      <4>3. \A code \in answers'[c] : code # "Success"
        BY <1>4, <3>2, <4>2
      <4>4. \A o \in Operations : InTransaction(c, o) => transaction[o] # "running"
        BY <1>1, <1>6, <3>2, BusyChange DEF good
      <4> QED BY <1>1, <1>8, <4>1, <4>3, <4>4 DEF Answered
    <3> QED BY <3>1, <3>2
  <2> QED BY <2>1, <2>2, <2>3, <2>4 DEF FateOf
<1>11. ASSUME NEW d \in Changes, d # c PROVE FateOf(d)'
  <2>1. changes'[d] = changes[d] /\ AnswersAreCodes(d) /\ mChangeForJob'[d] = mChangeForJob[d]
    BY <1>3, <1>5, <1>11
  <2>2. SameRecord(d)
    BY <2>1 DEF SameRecord, OpOf
  <2>3. \A i \in Items : /\ mQueuedModifications'[i] \in {mQueuedModifications[i], NoChange} \cup {}
                         /\ mModificationsInProgress'[i] = d => Held(d)
    BY <1>1 DEF Held
  <2>4. d \in mChangeById' <=> d \in mChangeById
    BY <1>1, <1>11
  <2>5. d \notin {}
    OBVIOUS
  <2> QED BY <1>1, <1>2, <2>1, <2>2, <2>3, <2>4, <2>5, OtherChangeFate
<1>12. OpenIsClean'
  BY <1>1, <1>2 DEF FateInv, OpenIsClean, Open
<1>13. AppliedTogether'
  <2>1. \A d \in Changes : (Single(d)' <=> Single(d)) /\ OpOf(d)' = OpOf(d)
    BY <1>3, <1>4 DEF Single, OpOf
  <2>2. ASSUME NEW o \in Operations PROVE NothingApplied(o) \/ Unspoiled(o)
    <3> SUFFICES ASSUME ~NothingApplied(o) PROVE Unspoiled(o)
      OBVIOUS
    <3>1. ASSUME NEW d \in Changes, Single(d)', OpOf(d)' = o, Fails(d)'
          PROVE  Single(d) /\ OpOf(d) = o /\ Fails(d)
      <4>1. d = c => good
        BY <1>9, <2>1, <3>1
      <4>2. d # c
        BY <1>4, <3>1, <4>1 DEF Fails
      <4> QED BY <1>3, <2>1, <3>1, <4>2 DEF Fails
    <3> QED BY <1>1, <1>2, <3>1 DEF Unspoiled
  <2>3. \A d \in applied : d \in Changes
    BY DEF IInv, RestTypeOK
  <2> QED BY <1>1, <2>1, <2>2, <2>3, TogetherKeeps DEF FateInv
<1> QED BY <1>10, <1>11, <1>12, <1>13 DEF FateInv

\* What waited is not of a transaction: its answers are not judged here.
LEMMA PerformNextFate ==
  ASSUME IInv, IInv', JobsInv, FateInv, ~crashed, NEW i \in Items, PerformNextModification(i)
  PROVE  FateInv'
<1>1. PICK c \in Changes \cup {NoChange} : c = mQueuedModifications[i]
  BY DEF IInv, PipelineTypeOK
<1>2. /\ mQueuedModifications' = [mQueuedModifications EXCEPT ![i] = NoChange]
      /\ UNCHANGED <<mLatestChangeId, mChangeById, changes, transaction, applied>>
  BY DEF PerformNextModification
<1>3. \/ UNCHANGED <<mModificationsInProgress, mChangeForJob, mAtomicOperations, answers>>
      \/ /\ mModificationsInProgress' = [mModificationsInProgress EXCEPT ![i] = NoChange]
         /\ UNCHANGED <<mChangeForJob, mAtomicOperations>>
         /\ Signals({}) \/ \E code : Signals({<<c, code>>})
      \/ /\ c # NoChange
         /\ mModificationsInProgress' = [mModificationsInProgress EXCEPT ![i] = c]
         /\ mChangeForJob' = [mChangeForJob EXCEPT ![c] = "running"]
         /\ Signals({})
         /\ \/ UNCHANGED mAtomicOperations
            \/ OpOf(c) # NoOperation /\ mAtomicOperations' = Added(OpOf(c), c, {i})
  BY <1>1 DEF PerformNextModification, OpOf
<1>4. ASSUME NEW d \in Changes, d # c PROVE AnswersAreCodes(d)
  BY <1>3, <1>4 DEF Signals, AnswersAreCodes
<1>5. /\ \A d \in Changes \ {c} : mChangeForJob'[d] = mChangeForJob[d]
      /\ \A d \in Changes \ {c} : \A j \in Items :
           mModificationsInProgress'[j] = d => mModificationsInProgress[j] = d
  <2>1. NoChange \notin Changes
    BY DEF Changes, NoChange
  <2> QED BY <1>3, <2>1 DEF IInv, PipelineTypeOK, RestTypeOK
<1>6. \A o \in Operations :
        /\ mAtomicOperations'[o].changes \in {mAtomicOperations[o].changes, mAtomicOperations[o].changes \cup {c}}
        /\ mAtomicOperations'[o].rolledback = mAtomicOperations[o].rolledback
        /\ mAtomicOperations'[o].alive = mAtomicOperations[o].alive
        /\ c \in mAtomicOperations'[o].changes => c \in mAtomicOperations[o].changes \/ o = OpOf(c)
  <2>1. CASE UNCHANGED mAtomicOperations
    BY <2>1
  <2>2. CASE c # NoChange /\ mAtomicOperations' = Added(OpOf(c), c, {i})
    BY <1>1, <2>2, OperationsHave DEF Added, AddChange, OperationTypes
  <2> QED BY <1>3, <2>1, <2>2
<1>7. ASSUME NEW d \in Changes, d # c PROVE FateOf(d)'
  <2>1. SameRecord(d)
    BY <1>2 DEF SameRecord, OpOf
  <2>2. \A j \in Items : /\ mQueuedModifications'[j] \in {mQueuedModifications[j], NoChange} \cup {}
                         /\ mModificationsInProgress'[j] = d => Held(d)
    BY <1>2, <1>5, <1>7 DEF Held, IInv, PipelineTypeOK
  <2>3. \A o \in Operations : d \in mAtomicOperations'[o].changes <=> d \in mAtomicOperations[o].changes
    BY <1>6, <1>7
  <2>4. d \notin {} /\ AnswersAreCodes(d) /\ mChangeForJob'[d] = mChangeForJob[d]
    BY <1>4, <1>5, <1>7
  <2> QED BY <1>2, <2>1, <2>2, <2>3, <2>4, OtherChangeFate
<1>8. ASSUME c \in Changes PROVE FateOf(c)'
  <2>1. Born(c) /\ Belongs(c) /\ ~Single(c) /\ ~Single(c)'
    BY <1>1, <1>2, <1>8 DEF FateInv, FateOf, Belongs, Single
  <2>2. c # NoChange /\ c <= mLatestChangeId
    BY <1>1, <1>8 DEF JobsInv, WaitingIsOutside, Changes, NoChange
  <2>3. ~(c > mLatestChangeId')
    BY <1>2, <1>8, <2>2, ConstantsAssumption DEF Changes, IInv, PipelineTypeOK
  <2>4. changes'[c].type # "none"
    BY <1>1, <1>2, <2>1 DEF Born, Held
  <2>5. Born(c)'
    BY <2>3, <2>4 DEF Born
  <2>6. Belongs(c)'
    BY <1>2, <1>6, <2>1 DEF Belongs, OpOf
  <2>7. Undecided(c)' /\ ResultTells(c)' /\ Answered(c)'
    BY <2>1 DEF Undecided, ResultTells, Answered, InTransaction, Single
  <2> QED BY <2>5, <2>6, <2>7 DEF FateOf
<1>9. OpenIsClean'
  BY <1>2, <1>6 DEF FateInv, OpenIsClean, Open
<1>10. AppliedTogether'
  BY <1>2, <1>6, TogetherKeeps DEF FateInv, Unspoiled, Single, OpOf, Fails
<1> QED BY <1>7, <1>8, <1>9, <1>10 DEF FateInv

-----------------------------------------------------------------------------
(* The server.                                                             *)

\* A job ends by itself.
LEMMA JobEndsAlone ==
  ASSUME IInv, IInv', JobsInv, FateInv, ~crashed, NEW c \in Changes,
         mChangeForJob[c] = "running", NEW end \in {"succeeded", "failed"},
         UNCHANGED <<pipelineVars, changes, mAtomicOperations, transaction, answers, crashed>>,
         mChangeForJob' = [mChangeForJob EXCEPT ![c] = end],
         end = "failed" => ~\E o \in Operations : InTransaction(c, o),
         applied' = IF end = "failed" \/ \E o \in Operations : InTransaction(c, o)
                    THEN applied ELSE applied \cup {c}
  PROVE  FateInv'
<1>1. mChangeForJob'[c] = end /\ \A d \in Changes \ {c} : mChangeForJob'[d] = mChangeForJob[d]
  BY DEF IInv, RestTypeOK
<1>2. Born(c) /\ Belongs(c) /\ Undecided(c) /\ ResultTells(c) /\ Answered(c)
  BY DEF FateInv, FateOf
<1>3. /\ Busy(c) /\ Busy(c)' /\ ~(c > mLatestChangeId')
      /\ Single(c) => answers[c] = {} \/ c \in applied
      /\ Member(c) \/ OpOf(c) = NoOperation
  <2>1. Busy(c)
    BY DEF Busy
  <2> QED BY <1>1, <2>1, BusyChange DEF Busy, pipelineVars
<1>4. /\ Single(c)' <=> Single(c)
      /\ \A d \in Changes : OpOf(d)' = OpOf(d)
      /\ \A o \in Operations : InTransaction(c, o)' <=> InTransaction(c, o)
  BY DEF Single, OpOf, InTransaction
<1>5. Single(c) /\ ~(\E o \in Operations : InTransaction(c, o)) <=>
        Single(c) /\ OpOf(c) = NoOperation
  BY <1>2, <1>3 DEF Single, InTransaction, Member, Belongs, Operations, NoOperation
<1>6. FateOf(c)'
  <2>1. Born(c)' /\ Belongs(c)'
    BY <1>2, <1>3 DEF Born, Belongs, Held, Busy, Single, OpOf, pipelineVars
  <2>2. Undecided(c)'
    BY <1>1, <1>2, <1>3, <1>4 DEF Undecided, Failed, Fails, Open
  <2>3. ResultTells(c)'
    <3>1. Single(c) /\ OpOf(c) = NoOperation => (end = "succeeded" <=> c \in applied')
      BY <1>2, <1>3, <1>5 DEF ResultTells
    <3> QED BY <1>1, <1>3, <1>4, <3>1 DEF ResultTells
  <2>4. Answered(c)'
    BY <1>2, <1>3, <1>4 DEF Answered
  <2> QED BY <2>1, <2>2, <2>3, <2>4 DEF FateOf
<1>7. ASSUME NEW d \in Changes, d # c PROVE FateOf(d)'
  <2>1. (d \in applied' <=> d \in applied) /\ mChangeForJob'[d] = mChangeForJob[d]
    BY <1>1, <1>7
  <2>2. KeptBy(d) /\ Settles(d)
    BY <2>1 DEF KeptBy, Settles, SameRecord, OpOf, Busy, Held, AnswersAreCodes, pipelineVars
  <2>3. Untouched(d)
    BY <2>2 DEF Untouched, pipelineVars
  <2> QED BY <2>3, UntouchedFate DEF FateInv
<1>8. OpenIsClean'
  BY DEF FateInv, OpenIsClean, Open
<1>9. AppliedTogether'
  BY <1>4, <1>5, TogetherKeeps DEF FateInv, Unspoiled, Single, OpOf, Fails
<1> QED BY <1>6, <1>7, <1>8, <1>9 DEF FateInv

\* A job ends; when it fails its transaction does.
LEMMA JobEndsFate ==
  ASSUME IInv, IInv', JobsInv, FateInv, ~crashed, NEW c \in Changes, JobEnds(c)
  PROVE  FateInv'
<1>1. /\ mChangeForJob[c] = "running" /\ Busy(c)
      /\ UNCHANGED <<pipelineVars, changes, mAtomicOperations, answers, crashed>>
  BY DEF JobEnds, Busy
<1>2. CASE /\ mChangeForJob' = [mChangeForJob EXCEPT ![c] = "succeeded"]
           /\ applied' = IF \E o \in Operations : InTransaction(c, o) THEN applied
                         ELSE applied \cup {c}
           /\ UNCHANGED transaction
  BY <1>1, <1>2, JobEndsAlone
<1>3. CASE /\ ~\E o \in Operations : InTransaction(c, o)
           /\ mChangeForJob' = [mChangeForJob EXCEPT ![c] = "failed"]
           /\ UNCHANGED <<transaction, applied>>
  BY <1>1, <1>3, JobEndsAlone
<1>4. ASSUME NEW o \in Operations, InTransaction(c, o),
             mChangeForJob' = [Aborted(o) EXCEPT ![c] = "failed"],
             transaction' = [transaction EXCEPT ![o] = IF @ = "running" THEN "failing" ELSE @],
             UNCHANGED applied
      PROVE  FateInv'
  <2>1. OpOf(c) = o /\ NothingApplied(o) /\ transaction[o] = "running"
    BY <1>1, <1>4, BusyChange
  <2>2. transaction'[o] = "failing" /\ \A p \in Operations \ {o} : transaction'[p] = transaction[p]
    BY <1>4, <2>1 DEF IInv, OperationsInv, OperationsTypeOK
  <2>3. /\ mChangeForJob'[c] = "failed"
        /\ \A d \in Changes \ {c} : mChangeForJob'[d] = Aborted(o)[d]
    BY <1>4 DEF Aborted
  <2>4. ASSUME NEW d \in Changes PROVE FateOf(d)'
    <3>1. FateOf(d) /\ Belongs(d)
      BY DEF FateInv, FateOf
    <3>2. /\ Busy(d)' <=> Busy(d)
          /\ OpOf(d) # o => mChangeForJob'[d] = mChangeForJob[d]
          /\ InTransaction(d, o) => mChangeForJob'[d] # "running"
      BY <1>1, <2>1, <2>3, <3>1 DEF Aborted, Busy, Belongs, InTransaction
    <3>3. KeptBy(d)
      BY <1>1, <1>4, <3>2 DEF KeptBy, SameRecord, OpOf, Held, Busy, AnswersAreCodes, pipelineVars
    <3>4. Settles(d)
      <4>1. OpOf(d) = NoOperation => OpOf(d) # o
        BY DEF Operations, NoOperation
      <4> QED BY <2>2, <3>2, <4>1 DEF Settles, Open
    <3>5. Untouched(d)
      BY <1>1, <3>3, <3>4 DEF Untouched, pipelineVars
    <3> QED BY <3>1, <3>5, UntouchedFate
  <2>5. OpenIsClean'
    BY <1>1, <2>2 DEF FateInv, OpenIsClean, Open
  <2>6. \A p \in Operations : NothingApplied(p) \/ Unspoiled(p)
    BY <1>1, <2>1, <2>2 DEF Unspoiled, Single, OpOf, Fails
  <2>7. AppliedTogether'
    BY <1>1, <1>4, <2>6, TogetherKeeps DEF FateInv, Single, OpOf
  <2> QED BY <2>4, <2>5, <2>7 DEF FateInv
<1> QED BY <1>2, <1>3, <1>4 DEF JobEnds

\* The transaction is committed.
LEMMA CommitFate ==
  ASSUME IInv, IInv', JobsInv, FateInv, ~crashed, NEW o \in Operations,
         transaction[o] = "running", JobsHandled(o),
         transaction' = [transaction EXCEPT ![o] = "freed"],
         applied' = applied \cup {c \in Changes : InTransaction(c, o)},
         HandleTransactionJobResult(o, FALSE, changes),
         UNCHANGED <<pipelineVars, mChangeForJob, crashed>>, Signals({})
  PROVE  FateInv'
<1>1. transaction'[o] = "freed" /\ \A p \in Operations \ {o} : transaction'[p] = transaction[p]
  BY DEF IInv, OperationsInv, OperationsTypeOK
<1>2. mAtomicOperations[o].rolledback = FALSE /\ mAtomicOperations[o] \in OperationTypes
  BY OperationsHave DEF FateInv, OpenIsClean, Open, OperationTypes
<1>3. /\ UNCHANGED changes
      /\ \A p \in Operations \ {o} : mAtomicOperations'[p] = mAtomicOperations[p]
      /\ mAtomicOperations'[o].rolledback = FALSE
      /\ mAtomicOperations'[o].changes \in {{}, mAtomicOperations[o].changes}
  <2> DEFINE op == [mAtomicOperations[o] EXCEPT !.rolledback = @ \/ FALSE]
             new == [op EXCEPT !.transactionCompleted = TRUE]
  <2>1. op \in OperationTypes /\ op.rolledback = FALSE /\ op.changes = mAtomicOperations[o].changes
    BY <1>2 DEF OperationTypes
  <2> HIDE DEF op
  <2>2. new.rolledback = FALSE /\ new.changes = mAtomicOperations[o].changes
    BY <2>1 DEF OperationTypes
  <2> HIDE DEF new
  <2>3. CASE DeleteOperation(o, changes, FALSE)
    BY <2>3 DEF DeleteOperation, Deleted, Operation, IInv, OperationsInv, OperationsTypeOK,
      ChangesTypeOK
  <2>4. CASE mAtomicOperations' = [mAtomicOperations EXCEPT ![o] = new] /\ changes' = changes
    BY <2>2, <2>4 DEF IInv, OperationsInv, OperationsTypeOK
  <2> QED BY <2>1, <2>3, <2>4 DEF HandleTransactionJobResult, op, new
<1>4. /\ \A c \in Changes : /\ AnswersAreCodes(c) /\ SameRecord(c) /\ OpOf(c)' = OpOf(c)
                            /\ Single(c)' <=> Single(c)
                            /\ Fails(c)' <=> Fails(c)
      /\ UNCHANGED <<mLatestChangeId, mChangeById, mQueuedModifications, mModificationsInProgress>>
  BY <1>3, SilentCodes DEF pipelineVars, SameRecord, OpOf, Single, Fails
<1>5. \A p \in Operations : mAtomicOperations'[p].changes \subseteq mAtomicOperations[p].changes
  BY <1>3
<1>6. ASSUME NEW c \in Changes
      PROVE  /\ FateOf(c) /\ Born(c) /\ Belongs(c) /\ Undecided(c) /\ ResultTells(c) /\ Answered(c)
             /\ Held(c)' => Held(c)
  BY <1>4, <1>5 DEF FateInv, FateOf, Held, Busy
<1>7. ASSUME NEW c \in Changes, ~InTransaction(c, o), Single(c) PROVE FateOf(c)'
  <2>1. \A p \in Operations : c \in mAtomicOperations'[p].changes <=> c \in mAtomicOperations[p].changes
    BY <1>3, <1>7 DEF InTransaction, Single
  <2>2. KeptBy(c)
    BY <1>4, <1>6, <1>7 DEF KeptBy, Busy
  <2>3. Settles(c)
    BY <1>1, <1>7 DEF Settles, Open
  <2>4. Untouched(c)
    BY <1>3, <1>4, <2>1, <2>2, <2>3 DEF Untouched
  <2> QED BY <1>6, <2>4, UntouchedFate
<1>8. ASSUME NEW c \in Changes, ~Single(c) PROVE FateOf(c)'
  <2>1. c \notin {d \in Changes : InTransaction(d, o)}
    BY <1>8 DEF InTransaction, Single
  <2>2. c > mLatestChangeId => ~Destroyed(c)
    BY <1>3, <1>6 DEF Destroyed, Born, NotConstructed, Change
  <2>3. Born(c)'
    BY <1>3, <1>4, <1>6, <2>1, <2>2 DEF Born, AnswersAreCodes
  <2>4. Belongs(c)'
    BY <1>4, <1>5, <1>6 DEF Belongs
  <2>5. Undecided(c)' /\ ResultTells(c)' /\ Answered(c)'
    BY <1>4, <1>8 DEF Undecided, ResultTells, Answered, InTransaction, Single
  <2> QED BY <2>3, <2>4, <2>5 DEF FateOf
<1>9. ASSUME NEW c \in Changes, InTransaction(c, o) PROVE FateOf(c)'
  <2>1. /\ Single(c) /\ Member(c) /\ ~Busy(c) /\ ~Busy(c)' /\ OpOf(c) = o /\ c \in applied'
        /\ changes[c].resultCode = "Success"
    BY <1>6, <1>9 DEF InTransaction, Single, Member, JobsHandled, Busy, Belongs, Undecided
  <2>2. c <= mLatestChangeId
    BY <2>1 DEF Member, JobsInv, FreshIsUnused
  <2>3. ~(c > mLatestChangeId')
    BY <1>4, <2>2, ConstantsAssumption DEF Changes, IInv, PipelineTypeOK
  <2>4. Born(c)' /\ Belongs(c)'
    BY <1>3, <1>4, <1>5, <1>6, <2>3 DEF Born, Belongs
  <2>5. \A p \in Operations : InTransaction(c, p)' => p = o
    BY <1>5, <1>6, <2>1 DEF InTransaction, Belongs
  <2>6. Undecided(c)'
    BY <1>1, <1>4, <2>1, <2>5 DEF Undecided, Open, Busy
  <2>7. ResultTells(c)'
    BY <1>3, <1>4, <1>6, <2>1 DEF ResultTells
  <2>8. answers[c] # {} => c \in applied
    BY <1>6, <1>9, <2>1 DEF Answered
  <2>9. \A code \in answers'[c] : code = "Success"
    BY <1>3, <1>4, <1>6, <2>1, <2>8 DEF Answered, AnswersAreCodes
  <2>10. Answered(c)'
    BY <2>1, <2>9 DEF Answered
  <2> QED BY <2>4, <2>6, <2>7, <2>10 DEF FateOf
<1>10. OpenIsClean'
  BY <1>1, <1>3 DEF FateInv, OpenIsClean, Open
<1>11. AppliedTogether'
  <2> SUFFICES ASSUME NEW d \in applied', Single(d), OpOf(d) # NoOperation
               PROVE  /\ transaction'[OpOf(d)] = "freed" /\ ~mAtomicOperations'[OpOf(d)].rolledback
                      /\ \A c \in Changes : Single(c) /\ OpOf(c) = OpOf(d) => ~Fails(c)
    BY <1>3, <1>4 DEF AppliedTogether, Single, OpOf, Fails
  <2>1. d \in Changes /\ OpOf(d) \in Operations
    BY OperationOfChange DEF IInv, RestTypeOK
  <2>2. CASE OpOf(d) = o
    <3>1. \A c \in Changes : Single(c) /\ OpOf(c) = o => ~Fails(c)
      BY <1>6 DEF Undecided, Open
    <3> QED BY <1>1, <1>3, <2>2, <3>1
  <2>3. CASE OpOf(d) # o
    <3>1. d \in applied
      BY <1>6, <2>1, <2>3 DEF Belongs, InTransaction
    <3> QED BY <1>1, <1>3, <2>1, <2>3, <3>1 DEF FateInv, AppliedTogether
  <2> QED BY <2>2, <2>3
<1> QED BY <1>7, <1>8, <1>9, <1>10, <1>11 DEF FateInv

\* A transaction returns.
LEMMA TransactionEndsFate ==
  ASSUME IInv, IInv', JobsInv, FateInv, ~crashed, NEW o \in Operations, TransactionEnds(o)
  PROVE  FateInv'
<1>1. /\ JobsHandled(o) /\ Signals({})
      /\ transaction' = [transaction EXCEPT ![o] = "freed"]
      /\ UNCHANGED <<pipelineVars, mChangeForJob, crashed>>
  BY DEF TransactionEnds
<1>2. CASE /\ transaction[o] = "running"
           /\ applied' = applied \cup {c \in Changes : InTransaction(c, o)}
           /\ HandleTransactionJobResult(o, FALSE, changes)
  BY <1>1, <1>2, CommitFate
<1>3. CASE /\ transaction[o] \in {"running", "failing"}
           /\ UNCHANGED applied
           /\ HandleTransactionJobResult(o, TRUE, changes)
  <2>1. /\ transaction'[o] = "freed" /\ mAtomicOperations[o].alive
        /\ \A p \in Operations \ {o} : transaction'[p] = transaction[p]
    BY <1>1, <1>3 DEF IInv, OperationsInv, OperationsTypeOK, OneOperation
  <2>2. ~Open(o)' /\ transaction[o] # "freed"
    BY <1>3, <2>1 DEF Open
  <2>3. /\ \A p \in Operations \ {o} : Stands(p)
        /\ \/ Removes(o, changes)
           \/ /\ mAtomicOperations'[o].changes = mAtomicOperations[o].changes
              /\ mAtomicOperations'[o].alive /\ mAtomicOperations'[o].rolledback
              /\ changes' = changes
    BY <1>1, <1>3, <2>1, <2>2, FailedResult
  <2>4. Ends(o, changes)
    BY <1>1, <2>2, <2>3 DEF Ends, RollsBack
  <2>5. \A d \in Changes : AnswersAreCodes(d)
    BY <1>1, SilentCodes
  <2>6. /\ UNCHANGED <<applied, mChangeById, mQueuedModifications, mModificationsInProgress>>
        /\ mLatestChangeId' >= mLatestChangeId
    BY <1>1, <1>3 DEF pipelineVars, IInv, PipelineTypeOK
  <2>7. {} \in SUBSET Changes
    OBVIOUS
  <2> QED BY <2>4, <2>5, <2>6, <2>7, CallFate
<1> QED BY <1>2, <1>3 DEF TransactionEnds

-----------------------------------------------------------------------------
(* The theorems.                                                           *)

LEMMA InitFate == Init => FateInv
<1> SUFFICES ASSUME Init PROVE FateInv
  OBVIOUS
<1>1. \A o \in Operations :
        /\ mAtomicOperations[o].changes = {} /\ ~mAtomicOperations[o].rolledback
        /\ transaction[o] = "none"
  BY DEF Init, Deleted, Operation
<1>2. /\ applied = {} /\ mChangeById = {} /\ mLatestChangeId = 0
      /\ \A i \in Items : /\ mQueuedModifications[i] = NoChange
                          /\ mModificationsInProgress[i] = NoChange
  BY DEF Init
<1>3. ASSUME NEW c \in Changes PROVE FateOf(c)
  <2>1. /\ changes[c] = NotConstructed /\ answers[c] = {} /\ mChangeForJob[c] = "none"
        /\ c # NoChange
    BY DEF Init, Changes, NoChange
  <2>2. ~Busy(c) /\ ~Member(c) /\ ~Held(c)
    BY <1>1, <1>2, <2>1 DEF Busy, Member, Held
  <2>3. changes[c].resultCode = "Success" /\ changes[c].type = "none"
    BY <2>1 DEF NotConstructed, Change
  <2>4. Born(c) /\ Belongs(c)
    BY <1>1, <1>2, <2>1, <2>2 DEF Born, Belongs
  <2>5. Undecided(c)
    BY <1>1, <2>3 DEF Undecided, InTransaction, Fails
  <2>6. ResultTells(c) /\ Answered(c)
    BY <1>2, <2>1, <2>2, <2>3 DEF ResultTells, Answered
  <2> QED BY <2>4, <2>5, <2>6 DEF FateOf
<1>4. OpenIsClean /\ AppliedTogether
  BY <1>1, <1>2 DEF OpenIsClean, AppliedTogether
<1> QED BY <1>3, <1>4 DEF FateInv

LEMMA UnchangedFate ==
  ASSUME IInv, FateInv, UNCHANGED vars
  PROVE  FateInv'
<1>1. UNCHANGED <<changes, mChangeById, mChangeForJob, mLatestChangeId, mQueuedModifications,
                  mModificationsInProgress, mAtomicOperations, transaction, answers, applied, crashed>>
  BY DEF vars, pipelineVars, operationVars
<1>2. OpenIsClean' /\ AppliedTogether'
  BY <1>1 DEF FateInv, OpenIsClean, AppliedTogether, Open, Single, OpOf, Fails
<1>3. ASSUME NEW c \in Changes PROVE FateOf(c)'
  <2>1. KeptBy(c) /\ Settles(c)
    BY <1>1 DEF KeptBy, Settles, SameRecord, OpOf, Busy, Held, AnswersAreCodes
  <2>2. Untouched(c)
    BY <1>1, <2>1 DEF Untouched
  <2> QED BY <2>2, UntouchedFate DEF FateInv
<1> QED BY <1>2, <1>3 DEF FateInv

LEMMA NextFate == IInv /\ IInv' /\ JobsInv /\ FateInv /\ [Next]_vars => FateInv'
<1> SUFFICES ASSUME IInv, IInv', JobsInv, FateInv, [Next]_vars PROVE FateInv'
  OBVIOUS
<1>1. CASE UNCHANGED vars
  BY <1>1, UnchangedFate
<1>2. CASE ~crashed /\ Caller
  BY <1>2, StartFate, CallInvalidFate, CallRolledBackFate, CallRefusedFate, CreateFate,
     DeleteFate, ModifyRefusedFate, ModifyFate
  DEF Caller
<1>3. CASE ~crashed /\ EndAtomicOperation
  BY <1>3, EndFate
<1>4. CASE ~crashed /\ EventLoop
  BY <1>4, HandleJobResultFate, JobEndsFate, PerformNextFate, TransactionEndsFate
  DEF EventLoop
<1> QED BY <1>1, <1>2, <1>3, <1>4 DEF Next

\* In every reachable state a batch whose transaction the server can still commit has no
\* change that failed, what a batch has applied was committed and is not rolled back, and
\* the result code of a Change without a job is what the server did with it.
THEOREM FateInvariance == Spec => []FateInv
<1> QED BY InitInv, NextInv, InitJobs, NextJobs, InitFate, NextFate, PTL DEF Spec

\* incidencechanger.h: "If one change belonging to a batch operation fails, all other
\* changes are rolled back", and the finished signals tell it: none says success of what
\* the server does not keep, or a failure of what it keeps, for every set of items, every
\* number of changes and of batches.
THEOREM AnswersTell == Spec => []AnswersTellTheFate
<1>1. IInv /\ FateInv => AnswersTellTheFate
  <2> SUFFICES ASSUME IInv, FateInv PROVE AnswersTellTheFate
    OBVIOUS
  <2>1. AllOrNothing
    <3> SUFFICES ASSUME ~crashed, NEW c \in Changes, NEW d \in Changes, OpOf(c) # NoOperation,
                        OpOf(c) = OpOf(d), Single(c), Single(d), Fails(c)
                 PROVE  d \notin applied
      BY DEF AllOrNothing, OpOf, Single
    <3> QED BY DEF FateInv, AppliedTogether
  <2>2. \A c \in Changes : \A code \in answers[c] :
          ~changes[c].queuedModification => (code = "Success" <=> c \in applied)
    BY DEF FateInv, FateOf, Answered, Single
  <2> QED BY <2>1, <2>2 DEF AnswersTellTheFate
<1> QED BY <1>1, BatchInvariance, FateInvariance, PTL
=============================================================================
