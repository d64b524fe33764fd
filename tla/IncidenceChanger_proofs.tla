---------------------- MODULE IncidenceChanger_proofs ----------------------
(***************************************************************************)
(* Proofs about IncidenceChanger, for every set of items and every bound:  *)
(* first where in the pipeline a change can be, then what its answers say. *)
(***************************************************************************)
EXTENDS IncidenceChangerInductive, SequenceTheorems, FiniteSetTheorems, TLAPS

\* The type of the Change objects.
ChangeObject == [type : {"none", "create", "modify", "delete"}, items : SUBSET Items,
                 revision : Nat, bumps : Nat, resultCode : Codes]

\* What a handler emits itself: at most one signal per change.
Emission == [Changes -> {<<>>} \cup {<<code>> : code \in Codes}]

LEMMA EmissionIsSeq ==
  ASSUME NEW emitted \in Emission, NEW c \in Changes
  PROVE  /\ emitted[c] \in Seq(Codes) /\ Len(emitted[c]) <= 1
         /\ emitted[c] = <<>> => Len(emitted[c]) = 0
<1>1. CASE emitted[c] = <<>>
  BY <1>1
<1>2. CASE \E code \in Codes : emitted[c] = <<code>>
  BY <1>2
<1> QED BY <1>1, <1>2 DEF Emission

LEMMA NoSignalEmission ==
  /\ NoSignal \in Emission
  /\ \A c \in Changes : NoSignal[c] = <<>>
BY DEF NoSignal, Emission

LEMMA SignalEmission ==
  ASSUME NEW d \in Changes, NEW code \in Codes
  PROVE  /\ Signal(d, code) \in Emission
         /\ \A c \in Changes : c # d => Signal(d, code)[c] = <<>>
         /\ Signal(d, code)[d] = <<code>>
BY DEF Signal, NoSignal, Emission

LEMMA ConcatThree ==
  ASSUME NEW S, NEW r \in Seq(S), NEW s \in Seq(S), NEW t \in Seq(S)
  PROVE  /\ r \o s \o t \in Seq(S)
         /\ Len(r \o s \o t) = Len(r) + Len(s) + Len(t)
         /\ s = <<>> /\ t = <<>> => r \o s \o t = r
<1>1. r \o s \in Seq(S) /\ Len(r \o s) = Len(r) + Len(s)
  BY ConcatProperties
<1>2. (r \o s) \o t \in Seq(S) /\ Len((r \o s) \o t) = Len(r \o s) + Len(t)
  BY <1>1, ConcatProperties
<1>3. s = <<>> /\ t = <<>> => r \o s \o t = r
  BY ConcatEmptySeq
<1> QED BY <1>1, <1>2, <1>3

\* The handler emits `own`, and the destructor one more if the change is gone.
LEMMA AnswersGrow ==
  ASSUME NEW r \in Seq(Codes), NEW own \in Seq(Codes), NEW code \in Codes,
         Len(own) <= 1, own = <<>> => Len(own) = 0
  PROVE  /\ r \o own \o <<>> \in Seq(Codes)
         /\ own = <<>> => r \o own \o <<>> = r
         /\ Len(r \o own \o <<>>) <= Len(r) + 1
         /\ r \o own \o <<code>> \in Seq(Codes)
         /\ own = <<>> => Len(r \o own \o <<code>>) <= Len(r) + 1
<1>1. <<code>> \in Seq(Codes) /\ Len(<<code>>) = 1 /\ <<>> \in Seq(Codes) /\ Len(<<>>) = 0
  OBVIOUS
<1>2. Len(r) \in Nat
  OBVIOUS
<1>3. r \o own \o <<>> \in Seq(Codes) /\ Len(r \o own \o <<>>) = Len(r) + Len(own)
  BY <1>1, <1>2, ConcatThree
<1>4. own = <<>> => r \o own \o <<>> = r
  BY <1>1, ConcatThree
<1>5. /\ r \o own \o <<code>> \in Seq(Codes)
      /\ Len(r \o own \o <<code>>) = Len(r) + Len(own) + 1
  BY <1>1, <1>2, ConcatThree
<1>6. Len(own) \in Nat /\ Len(own) <= 1 /\ (own = <<>> => Len(own) = 0)
  OBVIOUS
<1>7. Len(r \o own \o <<>>) <= Len(r) + 1
  BY <1>2, <1>3, <1>6
<1>8. own = <<>> => Len(r \o own \o <<code>>) <= Len(r) + 1
  BY <1>2, <1>5, <1>6
<1> QED BY <1>3, <1>4, <1>5, <1>7, <1>8

\* A change of whom nothing is emitted keeps its answers, any other gets one more
\* unless its handler and its destructor both emit.
LEMMA SignalsStep ==
  ASSUME ChangerTypeOK, changes' \in [Changes -> ChangeObject],
         NEW emitted \in Emission, Signals(emitted)
  PROVE  /\ answers' \in [Changes -> Seq(Codes)]
         /\ \A c \in Changes : emitted[c] = <<>> /\ ~Destroyed(c) => answers'[c] = answers[c]
         /\ \A c \in Changes : emitted[c] = <<>> \/ ~Destroyed(c)
                                 => Len(answers'[c]) <= Len(answers[c]) + 1
<1> SUFFICES ASSUME NEW c \in Changes
             PROVE  /\ answers'[c] \in Seq(Codes)
                    /\ emitted[c] = <<>> /\ ~Destroyed(c) => answers'[c] = answers[c]
                    /\ emitted[c] = <<>> \/ ~Destroyed(c)
                         => Len(answers'[c]) <= Len(answers[c]) + 1
  BY DEF Signals
<1>1. answers[c] \in Seq(Codes) /\ changes'[c].resultCode \in Codes
  BY DEF ChangerTypeOK, ChangeObject
<1>2. /\ emitted[c] \in Seq(Codes) /\ Len(emitted[c]) <= 1
      /\ emitted[c] = <<>> => Len(emitted[c]) = 0
  BY EmissionIsSeq
<1>3. CASE Destroyed(c)
  <2>1. answers'[c] = answers[c] \o emitted[c] \o <<changes'[c].resultCode>>
    BY <1>3 DEF Signals
  <2>2. /\ answers'[c] \in Seq(Codes)
        /\ emitted[c] = <<>> => Len(answers'[c]) <= Len(answers[c]) + 1
    BY <1>1, <1>2, <2>1, AnswersGrow, ZenonT(30)
  <2> QED BY <1>3, <2>2
<1>4. CASE ~Destroyed(c)
  <2>1. answers'[c] = answers[c] \o emitted[c] \o <<>>
    BY <1>4 DEF Signals
  <2>2. /\ answers'[c] \in Seq(Codes)
        /\ emitted[c] = <<>> => answers'[c] = answers[c]
        /\ Len(answers'[c]) <= Len(answers[c]) + 1
    BY <1>1, <1>2, <2>1, AnswersGrow
  <2> QED BY <1>4, <2>2
<1> QED BY <1>3, <1>4

\* A step that emits for a change only what is not answered, and never leaves an
\* answered change in the pipeline.
LEMMA AnswersStep ==
  ASSUME IInv, changes' \in [Changes -> ChangeObject],
         NEW emitted \in Emission, Signals(emitted),
         \A c \in Changes : changes'[c].type # "delete" =>
            /\ changes[c].type # "delete"
            /\ Destroyed(c) \/ emitted[c] # <<>> => answers[c] = <<>>
            /\ ~(Destroyed(c) /\ emitted[c] # <<>>)
            /\ Active(c)' => answers[c] = <<>> /\ emitted[c] = <<>> /\ ~Destroyed(c)
  PROVE  answers' \in [Changes -> Seq(Codes)] /\ ActiveIsUnanswered'
<1>1. ChangerTypeOK /\ ActiveIsUnanswered
  BY DEF IInv
<1>2. /\ answers' \in [Changes -> Seq(Codes)]
      /\ \A c \in Changes : emitted[c] = <<>> /\ ~Destroyed(c) => answers'[c] = answers[c]
      /\ \A c \in Changes : emitted[c] = <<>> \/ ~Destroyed(c)
                              => Len(answers'[c]) <= Len(answers[c]) + 1
  BY <1>1, SignalsStep
<1>3. ASSUME NEW c \in Changes, changes'[c].type # "delete"
      PROVE  Len(answers'[c]) <= 1
  <2>1. CASE Destroyed(c) \/ emitted[c] # <<>>
    <3>1. answers[c] = <<>> /\ Len(answers'[c]) <= Len(answers[c]) + 1
      BY <1>2, <1>3, <2>1
    <3> QED BY <3>1
  <2>2. CASE ~Destroyed(c) /\ emitted[c] = <<>>
    BY <1>1, <1>2, <1>3, <2>2 DEF ActiveIsUnanswered
  <2> QED BY <2>1, <2>2
<1>4. ASSUME NEW c \in Changes, changes'[c].type # "delete", Active(c)'
      PROVE  answers'[c] = <<>>
  BY <1>2, <1>4
<1> QED BY <1>2, <1>3, <1>4 DEF ActiveIsUnanswered

\* The store is not part of the invariant.
LEMMA StutterStep ==
  ASSUME IInv, UNCHANGED <<changerVars, answers>>
  PROVE  IInv'
BY SMTT(30) DEF IInv, changerVars, ChangerTypeOK, FreshIds, ModifiesOneItem, BusyIsKnown,
       BusyIsInProgress, InProgressIsBusy, QueuedIsWaiting, OneDialogPerChange,
       ActiveIsUnanswered, Active, Busy, InDialog, OfItem

LEMMA FinishStep ==
  ASSUME IInv, NEW c \in Changes, NEW result \in {"succeeded", "failed"}, Finish(c, result)
  PROVE  IInv'
<1>1. /\ mChangeForJob' \in [Changes -> JobStates]
      /\ \A d \in Changes : mChangeForJob'[d] = "none" <=> mChangeForJob[d] = "none"
  BY DEF Finish, IInv, ChangerTypeOK, JobStates
<1>2. ChangerTypeOK'
  BY <1>1 DEF Finish, IInv, ChangerTypeOK
<1>3. \A d \in Changes : /\ InDialog(d)' <=> InDialog(d)
                         /\ Busy(d)' <=> Busy(d)
                         /\ Active(d)' <=> Active(d)
  BY <1>1 DEF Finish, Active, Busy, InDialog
<1>4. /\ FreshIds' /\ ModifiesOneItem' /\ BusyIsKnown' /\ OneDialogPerChange'
      /\ ActiveIsUnanswered'
  BY <1>1, <1>3 DEF Finish, IInv, FreshIds, ModifiesOneItem, BusyIsKnown,
                    OneDialogPerChange, ActiveIsUnanswered
<1>5. BusyIsInProgress' /\ InProgressIsBusy' /\ QueuedIsWaiting'
  BY <1>3 DEF Finish, IInv, BusyIsInProgress, InProgressIsBusy, QueuedIsWaiting, OfItem
<1> QED BY <1>2, <1>4, <1>5 DEF IInv

LEMMA ItemOfItem ==
  ASSUME NEW c \in Changes, NEW i \in Items, OfItem(c, i)
  PROVE  ItemOf(changes[c]) = i
<1>1. \A j \in Items : changes[c].items = {j} => j = i
  BY DEF OfItem
<1>2. changes[c].items = {i}
  BY DEF OfItem
<1> QED BY <1>1, <1>2 DEF ItemOf

\* The handler of the job of c returns: c leaves mChangeById, and the successor of
\* a modification is called for.
LEMMA HandlerReturns ==
  ASSUME IInv, ChangerTypeOK', NEW c \in Changes, Busy(c),
         \A d \in Changes : Busy(d)' <=> Busy(d) /\ d # c,
         \A d \in Changes : d # c =>
            (InDialog(d)' <=> InDialog(d)) /\ mChangeForJob'[d] = mChangeForJob[d],
         OneDialogPerChange',
         \A d \in Changes : /\ changes'[d].type = changes[d].type
                            /\ changes'[d].items = changes[d].items,
         mChangeById' = mChangeById \ {c},
         UNCHANGED <<mLatestChangeId, mQueuedModifications, mModificationsInProgress>>,
         \A i \in Items : i \in nextPosted' <=> i \in nextPosted \/ OfItem(c, i),
         ActiveIsUnanswered',
         \A d \in Changes : answers[d] = <<>> /\ d > mLatestChangeId => answers'[d] = <<>>
  PROVE  IInv'
<1>1. FreshIds'
  BY DEF IInv, FreshIds
<1>2. ModifiesOneItem'
  BY DEF IInv, ModifiesOneItem
<1>3. BusyIsKnown'
  BY DEF IInv, BusyIsKnown
<1>4. BusyIsInProgress'
  BY DEF IInv, BusyIsInProgress, OfItem
<1>5. InProgressIsBusy'
  BY DEF IInv, InProgressIsBusy, BusyIsInProgress, OfItem, Changes, NoChange
<1>6. QueuedIsWaiting'
  BY DEF IInv, QueuedIsWaiting, OfItem
<1> QED BY <1>1, <1>2, <1>3, <1>4, <1>5, <1>6 DEF IInv

\* ... and is destroyed unless it is still the modification in progress; only a
\* deletion emits anything before that.
LEMMA HandlerAnswers ==
  ASSUME IInv, changes' \in [Changes -> ChangeObject], NEW c \in Changes, Busy(c),
         \A d \in Changes : Busy(d)' <=> Busy(d) /\ d # c,
         \A d \in Changes : changes'[d].type = changes[d].type,
         mChangeById' = mChangeById \ {c},
         UNCHANGED <<mQueuedModifications, mModificationsInProgress>>,
         NEW emitted \in Emission, Signals(emitted),
         \A d \in Changes : emitted[d] # <<>> => d = c /\ changes[c].type = "delete"
  PROVE  /\ answers' \in [Changes -> Seq(Codes)]
         /\ ActiveIsUnanswered'
         /\ \A d \in Changes : answers[d] = <<>> /\ d > mLatestChangeId => answers'[d] = <<>>
<1>1. \A d \in Changes : Destroyed(d) => d = c
  BY DEF Destroyed, Held, Busy
<1>2. \A d \in Changes : Active(d)' => Active(d) /\ ~Destroyed(d)
  BY DEF Active, Destroyed, Held, Busy
<1>3. Active(c)
  BY DEF Active
<1>4. \A d \in Changes : changes[d].type # "delete" /\ Active(d) => answers[d] = <<>>
  BY DEF IInv, ActiveIsUnanswered
<1>5. answers' \in [Changes -> Seq(Codes)] /\ ActiveIsUnanswered'
  BY <1>1, <1>2, <1>3, <1>4, AnswersStep
<1>6. ASSUME NEW d \in Changes, answers[d] = <<>>, d > mLatestChangeId
      PROVE  answers'[d] = <<>>
  <2>1. d # c
    BY <1>6 DEF IInv, FreshIds
  <2>2. ChangerTypeOK
    BY DEF IInv
  <2> QED BY <1>1, <1>6, <2>1, <2>2, SignalsStep
<1> QED BY <1>5, <1>6

LEMMA CreateOrDeleteSucceeds ==
  ASSUME IInv, NEW c \in Changes, HandleCreateJobSuccess(c) \/ HandleDeleteJobSuccess(c)
  PROVE  IInv'
<1>1. /\ changes[c].type \in {"create", "delete"}
      /\ mChangeForJob[c] = "succeeded"
      /\ mChangeForJob' = [mChangeForJob EXCEPT ![c] = "none"]
      /\ changes' = [changes EXCEPT ![c].resultCode = "Success"]
      /\ mChangeById' = mChangeById \ {c}
      /\ UNCHANGED <<mLatestChangeId, mQueuedModifications, mModificationsInProgress,
                     latestRevisionByItemId, nextPosted, dialogs, crashed>>
      /\ Signals(NoSignal)
  BY DEF HandleCreateJobSuccess, HandleDeleteJobSuccess
<1>2. ChangerTypeOK /\ BusyIsKnown /\ OneDialogPerChange
  BY DEF IInv
<1>3. /\ changes' \in [Changes -> ChangeObject]
      /\ \A d \in Changes : /\ changes'[d].type = changes[d].type
                            /\ changes'[d].items = changes[d].items
  BY <1>1, <1>2, ZenonT(30) DEF ChangerTypeOK, ChangeObject, Codes
<1>4. /\ Busy(c)
      /\ \A d \in Changes : Busy(d)' <=> Busy(d) /\ d # c
      /\ \A d \in Changes : d # c =>
            (InDialog(d)' <=> InDialog(d)) /\ mChangeForJob'[d] = mChangeForJob[d]
  BY <1>1, <1>2 DEF ChangerTypeOK, BusyIsKnown, Busy, InDialog, JobStates
<1>5. \A i \in Items : i \in nextPosted' <=> i \in nextPosted \/ OfItem(c, i)
  BY <1>1 DEF OfItem
<1>6. /\ answers' \in [Changes -> Seq(Codes)]
      /\ ActiveIsUnanswered'
      /\ \A d \in Changes : answers[d] = <<>> /\ d > mLatestChangeId => answers'[d] = <<>>
  BY <1>1, <1>3, <1>4, NoSignalEmission, HandlerAnswers
<1>7. ChangerTypeOK'
  BY <1>1, <1>2, <1>3, <1>6 DEF ChangerTypeOK, ChangeObject, JobStates
<1>8. OneDialogPerChange'
  BY <1>1, <1>2 DEF OneDialogPerChange
<1> QED BY <1>1, <1>3, <1>4, <1>5, <1>6, <1>7, <1>8, HandlerReturns

LEMMA ModifySucceeds ==
  ASSUME IInv, NEW c \in Changes, HandleModifyJobSuccess(c)
  PROVE  IInv'
<1>1. ChangerTypeOK /\ BusyIsKnown /\ OneDialogPerChange
  BY DEF IInv
<1>2. PICK i \in Items : OfItem(c, i)
  BY DEF HandleModifyJobSuccess, IInv, ModifiesOneItem, OfItem
<1>3. ItemOf(changes[c]) = i
  BY <1>2, ItemOfItem
<1> DEFINE stored == changes[c].revision + 1
<1>4. /\ mChangeForJob[c] = "succeeded"
      /\ mChangeForJob' = [mChangeForJob EXCEPT ![c] = "none"]
      /\ latestRevisionByItemId' = [latestRevisionByItemId EXCEPT ![i] = stored]
      /\ changes' = [changes EXCEPT ![c].revision = stored, ![c].resultCode = "Success"]
      /\ mChangeById' = mChangeById \ {c}
      /\ nextPosted' = nextPosted \cup {i}
      /\ UNCHANGED <<mLatestChangeId, mQueuedModifications, mModificationsInProgress,
                     dialogs, crashed>>
      /\ Signals(NoSignal)
  BY <1>3 DEF HandleModifyJobSuccess, ScheduleNext
<1>5. stored \in Nat
  BY <1>1 DEF ChangerTypeOK
<1> HIDE DEF stored
<1>6. /\ changes' \in [Changes -> ChangeObject]
      /\ \A d \in Changes : /\ changes'[d].type = changes[d].type
                            /\ changes'[d].items = changes[d].items
  BY <1>1, <1>4, <1>5, ZenonT(30) DEF ChangerTypeOK, ChangeObject, Codes
<1>7. /\ Busy(c)
      /\ \A d \in Changes : Busy(d)' <=> Busy(d) /\ d # c
      /\ \A d \in Changes : d # c =>
            (InDialog(d)' <=> InDialog(d)) /\ mChangeForJob'[d] = mChangeForJob[d]
  BY <1>1, <1>4 DEF ChangerTypeOK, BusyIsKnown, Busy, InDialog, JobStates
<1>8. \A j \in Items : j \in nextPosted' <=> j \in nextPosted \/ OfItem(c, j)
  BY <1>2, <1>4 DEF OfItem
<1>9. /\ answers' \in [Changes -> Seq(Codes)]
      /\ ActiveIsUnanswered'
      /\ \A d \in Changes : answers[d] = <<>> /\ d > mLatestChangeId => answers'[d] = <<>>
  BY <1>4, <1>6, <1>7, NoSignalEmission, HandlerAnswers
<1>10. ChangerTypeOK'
  BY <1>1, <1>4, <1>5, <1>6, <1>9 DEF ChangerTypeOK, ChangeObject, JobStates
<1>11. OneDialogPerChange'
  BY <1>1, <1>4 DEF OneDialogPerChange
<1> QED BY <1>4, <1>6, <1>7, <1>8, <1>9, <1>10, <1>11, HandlerReturns

\* What follows the message box, wherever the box was opened.
LEMMA EndFailureStep ==
  ASSUME IInv, NEW c \in Changes, NEW code \in Codes, Busy(c), EndFailure(c, code),
         \A d \in Changes : Busy(d)' <=> Busy(d) /\ d # c,
         \A d \in Changes : d # c =>
            (InDialog(d)' <=> InDialog(d)) /\ mChangeForJob'[d] = mChangeForJob[d],
         OneDialogPerChange',
         dialogs' \in Seq([change : Changes, resultCode : Codes]),
         mChangeForJob' \in [Changes -> JobStates]
  PROVE  IInv'
<1>1. ChangerTypeOK /\ BusyIsKnown
  BY DEF IInv
<1>2. /\ changes' = [changes EXCEPT ![c].resultCode = code]
      /\ mChangeById' = mChangeById \ {c}
      /\ UNCHANGED <<mLatestChangeId, mQueuedModifications, mModificationsInProgress,
                     latestRevisionByItemId>>
  BY DEF EndFailure
<1>3. /\ changes' \in [Changes -> ChangeObject]
      /\ \A d \in Changes : /\ changes'[d].type = changes[d].type
                            /\ changes'[d].items = changes[d].items
  BY <1>1, <1>2, ZenonT(30) DEF ChangerTypeOK, ChangeObject
<1>4. /\ nextPosted' \in SUBSET Items /\ crashed' \in BOOLEAN
      /\ \A i \in Items : i \in nextPosted' <=> i \in nextPosted \/ OfItem(c, i)
  <2>1. CASE changes[c].type = "modify"
    <3>1. PICK i \in Items : OfItem(c, i)
      BY <2>1 DEF IInv, ModifiesOneItem, OfItem
    <3>2. ItemOf(changes[c]) = i
      BY <3>1, ItemOfItem
    <3>3. nextPosted' = nextPosted \cup {i} /\ UNCHANGED crashed
      BY <2>1, <3>2 DEF EndFailure, ScheduleNext
    <3> QED BY <1>1, <3>1, <3>3 DEF OfItem, ChangerTypeOK
  <2>2. CASE changes[c].type # "modify"
    <3>1. UNCHANGED nextPosted /\ (UNCHANGED crashed \/ crashed' = TRUE)
      BY <2>2 DEF EndFailure
    <3> QED BY <1>1, <2>2, <3>1 DEF OfItem, ChangerTypeOK
  <2> QED BY <2>1, <2>2
<1>5. /\ answers' \in [Changes -> Seq(Codes)]
      /\ ActiveIsUnanswered'
      /\ \A d \in Changes : answers[d] = <<>> /\ d > mLatestChangeId => answers'[d] = <<>>
  <2>1. CASE Signals(NoSignal)
    BY <1>2, <1>3, <2>1, NoSignalEmission, HandlerAnswers
  <2>2. CASE changes[c].type = "delete" /\ Signals(Signal(c, code))
    BY <1>2, <1>3, <2>2, SignalEmission, HandlerAnswers
  <2>3. CASE UNCHANGED answers
    <3>1. \A d \in Changes : Active(d)' => Active(d)
      BY <1>2 DEF Active
    <3> QED BY <1>1, <1>3, <2>3, <3>1 DEF IInv, ChangerTypeOK, ActiveIsUnanswered
  <2> QED BY <2>1, <2>2, <2>3 DEF EndFailure
<1>6. ChangerTypeOK'
  BY <1>1, <1>2, <1>3, <1>4, <1>5 DEF ChangerTypeOK, ChangeObject
<1> QED BY <1>2, <1>3, <1>4, <1>5, <1>6, HandlerReturns

DialogEntry == [change : Changes, resultCode : Codes]

\* The message box opens: the job is gone, its handler is not.
LEMMA FailureReported ==
  ASSUME IInv, NEW c \in Changes, mChangeForJob[c] = "failed",
         mChangeForJob' = [mChangeForJob EXCEPT ![c] = "none"],
         NEW code \in Codes, dialogs' = Append(dialogs, [change |-> c, resultCode |-> code]),
         UNCHANGED <<mLatestChangeId, changes, mChangeById, mQueuedModifications,
                     mModificationsInProgress, latestRevisionByItemId, nextPosted,
                     crashed, answers>>
  PROVE  IInv'
<1>1. ChangerTypeOK /\ BusyIsKnown /\ OneDialogPerChange
  BY DEF IInv
<1> DEFINE entry == [change |-> c, resultCode |-> code]
<1>2. entry \in DialogEntry /\ entry.change = c
  BY DEF DialogEntry
<1>3. dialogs \in Seq(DialogEntry)
  BY <1>1 DEF ChangerTypeOK, DialogEntry
<1> HIDE DEF entry
<1>4. /\ dialogs' \in Seq(DialogEntry)
      /\ Len(dialogs') = Len(dialogs) + 1
      /\ \A k \in 1 .. Len(dialogs) : dialogs'[k] = dialogs[k]
      /\ dialogs'[Len(dialogs) + 1] = entry
  BY <1>2, <1>3, AppendProperties DEF entry
<1>5. Len(dialogs) \in Nat /\ DOMAIN dialogs = 1 .. Len(dialogs)
      /\ DOMAIN dialogs' = 1 .. Len(dialogs) + 1
  BY <1>3, <1>4
<1>6. ~InDialog(c) /\ (\A d \in Changes : InDialog(d)' <=> InDialog(d) \/ d = c)
  <2>1. ~InDialog(c)
    BY <1>1 DEF BusyIsKnown, Busy
  <2>2. ASSUME NEW d \in Changes
        PROVE  InDialog(d)' <=> InDialog(d) \/ d = c
    BY <1>2, <1>4, <1>5 DEF InDialog
  <2> QED BY <2>1, <2>2
<1>7. mChangeForJob' \in [Changes -> JobStates]
  BY <1>1 DEF ChangerTypeOK, JobStates
<1>8. \A d \in Changes : Busy(d)' <=> Busy(d)
  BY <1>1, <1>6 DEF Busy, ChangerTypeOK
<1>9. \A d \in Changes : Active(d)' <=> Active(d)
  BY <1>8 DEF Active
<1>10. ChangerTypeOK'
  BY <1>1, <1>4, <1>7 DEF ChangerTypeOK, DialogEntry
<1>11. OneDialogPerChange'
  BY <1>1, <1>2, <1>4, <1>5, <1>6 DEF OneDialogPerChange, InDialog
<1>12. FreshIds' /\ ModifiesOneItem' /\ ActiveIsUnanswered'
  BY <1>8, <1>9 DEF IInv, FreshIds, ModifiesOneItem, ActiveIsUnanswered
<1>13. BusyIsKnown'
  BY <1>1, <1>6, <1>8 DEF BusyIsKnown, ChangerTypeOK
<1>14. BusyIsInProgress' /\ InProgressIsBusy' /\ QueuedIsWaiting'
  BY <1>8 DEF IInv, BusyIsInProgress, InProgressIsBusy, QueuedIsWaiting, OfItem
<1> QED BY <1>10, <1>11, <1>12, <1>13, <1>14 DEF IInv

LEMMA JobFailureStep ==
  ASSUME IInv, NEW c \in Changes, HandleJobFailure(c)
  PROVE  IInv'
<1>1. ChangerTypeOK /\ BusyIsKnown /\ OneDialogPerChange
  BY DEF IInv
<1> DEFINE code == FailureCode(c)
<1>2. code \in Codes
  BY DEF FailureCode, Codes
<1>3. CASE ShowDialogsOnError
  BY <1>2, <1>3, FailureReported DEF HandleJobFailure
<1>4. CASE ~ShowDialogsOnError
  <2>1. /\ mChangeForJob[c] = "failed"
        /\ mChangeForJob' = [mChangeForJob EXCEPT ![c] = "none"]
        /\ UNCHANGED dialogs
        /\ EndFailure(c, code)
    BY <1>4 DEF HandleJobFailure
  <2> HIDE DEF code
  <2>2. /\ Busy(c)
        /\ \A d \in Changes : Busy(d)' <=> Busy(d) /\ d # c
        /\ \A d \in Changes : d # c =>
              (InDialog(d)' <=> InDialog(d)) /\ mChangeForJob'[d] = mChangeForJob[d]
        /\ mChangeForJob' \in [Changes -> JobStates]
    BY <1>1, <2>1 DEF ChangerTypeOK, BusyIsKnown, Busy, InDialog, JobStates
  <2>3. OneDialogPerChange' /\ dialogs' \in Seq([change : Changes, resultCode : Codes])
    BY <1>1, <2>1 DEF OneDialogPerChange, ChangerTypeOK
  <2> QED BY <1>2, <2>1, <2>2, <2>3, EndFailureStep
<1> QED BY <1>3, <1>4 DEF HandleJobFailure

LEMMA CloseDialogStep ==
  ASSUME IInv, CloseErrorDialog
  PROVE  IInv'
<1>1. ChangerTypeOK /\ BusyIsKnown /\ OneDialogPerChange
  BY DEF IInv
<1>2. dialogs \in Seq(DialogEntry) /\ dialogs # <<>>
  BY <1>1 DEF ChangerTypeOK, DialogEntry, CloseErrorDialog
<1> DEFINE n == Len(dialogs)
           c == dialogs[n].change
           code == dialogs[n].resultCode
<1>3. n \in Nat \ {0} /\ DOMAIN dialogs = 1 .. n
  BY <1>2
<1>4. dialogs[n] \in DialogEntry
  BY <1>2, <1>3
<1>5. c \in Changes /\ code \in Codes
  BY <1>4 DEF DialogEntry
<1>6. /\ dialogs' = SubSeq(dialogs, 1, n - 1)
      /\ UNCHANGED mChangeForJob
      /\ EndFailure(c, code)
  BY DEF CloseErrorDialog, Front, Last
<1>7. /\ dialogs' \in Seq(DialogEntry)
      /\ DOMAIN dialogs' = 1 .. n - 1
      /\ \A k \in 1 .. n - 1 : dialogs'[k] = dialogs[k]
  BY <1>2, <1>3, <1>6, SubSeqProperties
<1> HIDE DEF n
<1>8. \A d \in Changes : InDialog(d)' <=> InDialog(d) /\ d # c
  BY <1>1, <1>3, <1>7 DEF InDialog, OneDialogPerChange
<1>9. InDialog(c)
  BY <1>3 DEF InDialog
<1> HIDE DEF c, code
<1>10. /\ Busy(c)
       /\ \A d \in Changes : Busy(d)' <=> Busy(d) /\ d # c
       /\ \A d \in Changes : d # c =>
             (InDialog(d)' <=> InDialog(d)) /\ mChangeForJob'[d] = mChangeForJob[d]
  BY <1>1, <1>5, <1>6, <1>8, <1>9 DEF Busy, BusyIsKnown
<1>11. OneDialogPerChange'
  BY <1>1, <1>3, <1>7 DEF OneDialogPerChange
<1>12. /\ dialogs' \in Seq([change : Changes, resultCode : Codes])
       /\ mChangeForJob' \in [Changes -> JobStates]
  BY <1>1, <1>6, <1>7 DEF DialogEntry, ChangerTypeOK
<1> QED BY <1>5, <1>6, <1>10, <1>11, <1>12, EndFailureStep

\* The next id is unused, and stays below the bound.
LEMMA NextIdIsFresh ==
  ASSUME IInv, NEW c \in Changes, c = mLatestChangeId + 1
  PROVE  /\ c > mLatestChangeId /\ c \in 0 .. MaxChanges
         /\ \A d \in Changes : d > c => d > mLatestChangeId
         /\ changes[c].type = "none" /\ c \notin mChangeById /\ ~Busy(c) /\ answers[c] = <<>>
         /\ \A i \in Items : c \notin {mQueuedModifications[i], mModificationsInProgress[i]}
<1>1. ChangerTypeOK /\ FreshIds /\ InProgressIsBusy /\ QueuedIsWaiting
  BY DEF IInv
<1>2. c > mLatestChangeId /\ c \in 0 .. MaxChanges /\ (\A d \in Changes : d > c => d > mLatestChangeId)
  BY <1>1 DEF ChangerTypeOK, Changes
<1>3. changes[c].type = "none" /\ c \notin mChangeById /\ ~Busy(c) /\ answers[c] = <<>>
  BY <1>1, <1>2 DEF FreshIds
<1>4. \A i \in Items : c \notin {mQueuedModifications[i], mModificationsInProgress[i]}
  BY <1>1, <1>3 DEF InProgressIsBusy, QueuedIsWaiting, OfItem
<1> QED BY <1>2, <1>3, <1>4

LEMMA FreshStep ==
  ASSUME IInv, NEW c \in Changes, c = mLatestChangeId + 1, mLatestChangeId' = c,
         changes' \in [Changes -> ChangeObject], NEW emitted \in Emission, Signals(emitted),
         \A d \in Changes : d # c /\ d > mLatestChangeId =>
            /\ changes'[d].type = changes[d].type
            /\ d \in mChangeById' => d \in mChangeById
            /\ Busy(d)' => Busy(d)
            /\ emitted[d] = <<>> /\ ~Destroyed(d)
  PROVE  FreshIds'
<1>1. ChangerTypeOK /\ FreshIds
  BY DEF IInv
<1>2. \A d \in Changes : d > mLatestChangeId' => d # c /\ d > mLatestChangeId
  BY NextIdIsFresh DEF Changes
<1>3. \A d \in Changes : d > mLatestChangeId' => answers'[d] = <<>>
  BY <1>1, <1>2, SignalsStep DEF FreshIds
<1> QED BY <1>1, <1>2, <1>3 DEF FreshIds

\* A creation or a deletion is constructed; its job starts unless it is refused.
LEMMA CreateOrDeleteStep ==
  ASSUME IInv, NEW c \in Changes, CreateIncidence(c) \/ CreateRefused(c)
                                  \/ DeleteIncidences(c) \/ DeleteRefused(c)
  PROVE  IInv'
<1>1. PICK ch \in ChangeObject, started \in BOOLEAN :
        /\ ch.type \in {"create", "delete"}
        /\ c = mLatestChangeId + 1 /\ mLatestChangeId' = c
        /\ changes' = [changes EXCEPT ![c] = ch]
        /\ mChangeForJob' = IF started THEN [mChangeForJob EXCEPT ![c] = "running"]
                            ELSE mChangeForJob
        /\ mChangeById' = IF started THEN mChangeById \cup {c} ELSE mChangeById
  <2>1. ASSUME NEW type \in {"create", "delete"}, NEW items \in SUBSET Items, NEW code \in Codes
        PROVE  /\ Change(type, items, 0, 0, code) \in ChangeObject
               /\ Change(type, items, 0, 0, code).type = type
    BY DEF Change, ChangeObject
  <2>2. "Success" \in Codes /\ "Permissions" \in Codes /\ "AlreadyDeleted" \in Codes
        /\ "InvalidDefaultCollection" \in Codes
    BY DEF Codes
  <2>3. CASE CreateIncidence(c)
    <3>1. Change("create", {}, 0, 0, "Success") \in ChangeObject
          /\ Change("create", {}, 0, 0, "Success").type = "create"
      BY <2>1, <2>2
    <3> QED BY <2>3, <3>1 DEF CreateIncidence, Construct
  <2>4. CASE CreateRefused(c)
    <3>1. PICK code \in {"InvalidDefaultCollection", "Permissions"} :
            Construct(c, Change("create", {}, 0, 0, code))
      BY <2>4 DEF CreateRefused
    <3>2. Change("create", {}, 0, 0, code) \in ChangeObject
          /\ Change("create", {}, 0, 0, code).type = "create"
      BY <2>1, <2>2
    <3> QED BY <2>4, <3>1, <3>2 DEF CreateRefused, Construct
  <2>5. CASE DeleteIncidences(c)
    <3>1. PICK s \in ItemLists : Construct(c, Change("delete", ToSet(s), 0, 0, "Success"))
      BY <2>5 DEF DeleteIncidences
    <3>2. ToSet(s) \in SUBSET Items
      BY DEF ItemLists, ToSet
    <3>3. Change("delete", ToSet(s), 0, 0, "Success") \in ChangeObject
          /\ Change("delete", ToSet(s), 0, 0, "Success").type = "delete"
      BY <2>1, <2>2, <3>2
    <3> QED BY <2>5, <3>1, <3>3 DEF DeleteIncidences, Construct
  <2>6. CASE DeleteRefused(c)
    <3>1. PICK code \in {"AlreadyDeleted", "Permissions"} :
            Construct(c, Change("delete", {}, 0, 0, code))
      BY <2>6 DEF DeleteRefused
    <3>2. Change("delete", {}, 0, 0, code) \in ChangeObject
          /\ Change("delete", {}, 0, 0, code).type = "delete"
      BY <2>1, <2>2
    <3> QED BY <2>6, <3>1, <3>2 DEF DeleteRefused, Construct
  <2> QED BY <2>3, <2>4, <2>5, <2>6
<1>2. /\ UNCHANGED <<mQueuedModifications, mModificationsInProgress,
                     latestRevisionByItemId, nextPosted, dialogs, crashed>>
      /\ Signals(NoSignal)
  BY DEF CreateIncidence, CreateRefused, DeleteIncidences, DeleteRefused
<1>3. ChangerTypeOK /\ FreshIds
  BY DEF IInv
<1>4. /\ c > mLatestChangeId /\ c \in 0 .. MaxChanges
      /\ \A d \in Changes : d > c => d > mLatestChangeId
      /\ changes[c].type = "none" /\ c \notin mChangeById /\ ~Busy(c) /\ answers[c] = <<>>
      /\ \A i \in Items : c \notin {mQueuedModifications[i], mModificationsInProgress[i]}
  BY <1>1, NextIdIsFresh
<1>5. /\ changes' \in [Changes -> ChangeObject]
      /\ changes'[c].type \in {"create", "delete"}
      /\ \A d \in Changes : d # c => changes'[d] = changes[d]
  BY <1>1, <1>3 DEF ChangerTypeOK, ChangeObject
<1>6. /\ mChangeForJob' \in [Changes -> JobStates]
      /\ \A d \in Changes : d # c => mChangeForJob'[d] = mChangeForJob[d]
      /\ mChangeForJob'[c] # "none" => c \in mChangeById'
      /\ \A d \in Changes : d # c => (d \in mChangeById' <=> d \in mChangeById)
      /\ mChangeById' \in SUBSET Changes
      /\ c \in mChangeById' => mChangeForJob'[c] # "none"
  BY <1>1, <1>3, <1>4 DEF ChangerTypeOK, JobStates, Busy
<1>7. /\ \A d \in Changes : InDialog(d)' <=> InDialog(d)
      /\ ~InDialog(c)
      /\ \A d \in Changes : d # c => (Busy(d)' <=> Busy(d))
  BY <1>2, <1>4, <1>6 DEF InDialog, Busy
<1>8. \A d \in Changes : d # c => (Active(d)' <=> Active(d))
  BY <1>2, <1>7 DEF Active
<1>9. /\ \A d \in Changes : Destroyed(d) => d = c
      /\ Active(c)' => ~Destroyed(c)
  BY <1>2, <1>5, <1>6, <1>7 DEF Destroyed, Held, Active, Busy
<1>10. answers' \in [Changes -> Seq(Codes)] /\ ActiveIsUnanswered'
  <2>1. \A d \in Changes : Active(d) /\ changes[d].type # "delete" => answers[d] = <<>>
    BY DEF IInv, ActiveIsUnanswered
  <2>2. \A d \in Changes : Active(d)' => ~Destroyed(d)
    BY <1>9
  <2>3. ASSUME NEW d \in Changes, changes'[d].type # "delete"
        PROVE  /\ changes[d].type # "delete"
               /\ Destroyed(d) \/ NoSignal[d] # <<>> => answers[d] = <<>>
               /\ ~(Destroyed(d) /\ NoSignal[d] # <<>>)
               /\ Active(d)' => answers[d] = <<>> /\ NoSignal[d] = <<>> /\ ~Destroyed(d)
    BY <1>4, <1>5, <1>8, <1>9, <2>1, <2>2, <2>3, NoSignalEmission
  <2> QED BY <1>2, <1>5, <2>3, NoSignalEmission, AnswersStep
<1>11. ChangerTypeOK'
  BY <1>1, <1>2, <1>3, <1>4, <1>5, <1>6, <1>10 DEF ChangerTypeOK, ChangeObject
<1>12. FreshIds'
  BY <1>1, <1>2, <1>5, <1>6, <1>7, <1>9, NoSignalEmission, FreshStep
<1>13. ModifiesOneItem' /\ BusyIsKnown'
  BY <1>5, <1>6, <1>7 DEF IInv, ModifiesOneItem, BusyIsKnown, Busy
<1>14. BusyIsInProgress' /\ InProgressIsBusy' /\ QueuedIsWaiting'
  <2>1. BusyIsInProgress'
    BY <1>2, <1>4, <1>5, <1>7 DEF IInv, BusyIsInProgress, OfItem
  <2>2. InProgressIsBusy'
    BY <1>2, <1>4, <1>5, <1>7 DEF IInv, InProgressIsBusy, OfItem
  <2>3. QueuedIsWaiting'
    <3>1. ASSUME NEW j \in Items, NEW d \in Changes, mQueuedModifications[j] = d
          PROVE  /\ OfItem(d, j)' /\ d \in mChangeById' /\ ~Busy(d)'
                 /\ mModificationsInProgress[j] # NoChange /\ mModificationsInProgress[j] < d
      <4>1. /\ OfItem(d, j) /\ d \in mChangeById /\ ~Busy(d)
            /\ mModificationsInProgress[j] # NoChange /\ mModificationsInProgress[j] < d
        BY <3>1 DEF IInv, QueuedIsWaiting
      <4>2. d # c
        BY <1>4, <3>1
      <4> QED BY <1>5, <1>6, <1>7, <4>1, <4>2 DEF OfItem
    <3> QED BY <1>2, <3>1 DEF QueuedIsWaiting
  <2> QED BY <2>1, <2>2, <2>3
<1>15. OneDialogPerChange'
  BY <1>2 DEF IInv, OneDialogPerChange
<1> QED BY <1>10, <1>11, <1>12, <1>13, <1>14, <1>15 DEF IInv

\* A refused modification uses up an id, and nothing else.
LEMMA ModifyRefusedStep ==
  ASSUME IInv, NEW c \in Changes, ModifyRefused(c)
  PROVE  IInv'
<1>1. /\ c = mLatestChangeId + 1 /\ mLatestChangeId' = c
      /\ UNCHANGED <<changes, mChangeById, mChangeForJob, mQueuedModifications,
                     mModificationsInProgress, latestRevisionByItemId, nextPosted,
                     dialogs, crashed>>
      /\ Signals(Signal(c, "Permissions"))
  BY DEF ModifyRefused
<1>2. /\ c > mLatestChangeId /\ c \in 0 .. MaxChanges
      /\ \A d \in Changes : d > c => d > mLatestChangeId
      /\ changes[c].type = "none" /\ c \notin mChangeById /\ ~Busy(c) /\ answers[c] = <<>>
      /\ \A i \in Items : c \notin {mQueuedModifications[i], mModificationsInProgress[i]}
  BY <1>1, NextIdIsFresh
<1>3. ChangerTypeOK /\ FreshIds /\ ActiveIsUnanswered
  BY DEF IInv
<1>4. "Permissions" \in Codes /\ changes' \in [Changes -> ChangeObject]
  BY <1>1, <1>3 DEF Codes, ChangerTypeOK, ChangeObject
<1>5. \A d \in Changes : /\ InDialog(d)' <=> InDialog(d)
                         /\ Busy(d)' <=> Busy(d)
                         /\ Active(d)' <=> Active(d)
                         /\ ~Destroyed(d)
  BY <1>1 DEF InDialog, Busy, Active, Destroyed, Held
<1>6. ~Active(c)
  BY <1>2 DEF Active
<1>7. answers' \in [Changes -> Seq(Codes)] /\ ActiveIsUnanswered'
  <2>1. ASSUME NEW d \in Changes, changes'[d].type # "delete"
        PROVE  /\ changes[d].type # "delete"
               /\ Destroyed(d) \/ Signal(c, "Permissions")[d] # <<>> => answers[d] = <<>>
               /\ ~(Destroyed(d) /\ Signal(c, "Permissions")[d] # <<>>)
               /\ Active(d)' => /\ answers[d] = <<>> /\ Signal(c, "Permissions")[d] = <<>>
                                /\ ~Destroyed(d)
    BY <1>1, <1>2, <1>3, <1>4, <1>5, <1>6, <2>1, SignalEmission DEF ActiveIsUnanswered
  <2> QED BY <1>1, <1>4, <2>1, SignalEmission, AnswersStep
<1>8. ChangerTypeOK'
  BY <1>1, <1>2, <1>3, <1>7 DEF ChangerTypeOK
<1>9. FreshIds'
  BY <1>1, <1>4, <1>5, SignalEmission, FreshStep
<1>10. /\ ModifiesOneItem' /\ BusyIsKnown' /\ OneDialogPerChange' /\ BusyIsInProgress'
       /\ InProgressIsBusy' /\ QueuedIsWaiting'
  BY <1>1, <1>5 DEF IInv, ModifiesOneItem, BusyIsKnown, OneDialogPerChange,
                    BusyIsInProgress, InProgressIsBusy, QueuedIsWaiting, OfItem
<1> QED BY <1>7, <1>8, <1>9, <1>10 DEF IInv

LEMMA PreparedType ==
  ASSUME ChangerTypeOK, NEW ch \in ChangeObject, NEW i \in Items, ch.items = {i}
  PROVE  /\ Prepared(ch) \in ChangeObject
         /\ Prepared(ch).type = ch.type /\ Prepared(ch).items = ch.items
<1>1. ItemOf(ch) = i
  <2>1. \A j \in Items : ch.items = {j} => j = i
    OBVIOUS
  <2> QED BY <2>1 DEF ItemOf
<1> DEFINE r == IF latestRevisionByItemId[i] > ch.revision
                THEN latestRevisionByItemId[i] ELSE ch.revision
<1>2. r \in Nat /\ ch.bumps + 1 \in Nat
  BY DEF ChangerTypeOK, ChangeObject
<1>3. Prepared(ch) = [ch EXCEPT !.revision = r, !.bumps = ch.bumps + 1]
  BY <1>1 DEF Prepared
<1> HIDE DEF r
<1> QED BY <1>2, <1>3 DEF ChangeObject

LEMMA NewModificationType ==
  ASSUME NEW i \in Items, NEW r \in Nat
  PROVE  LET ch == Change("modify", {i}, r, 0, "Success")
         IN  ch \in ChangeObject /\ ch.type = "modify" /\ ch.items = {i}
BY DEF Change, ChangeObject, Codes

\* A modification enters the pipeline, or is answered at once and kept out of it.
LEMMA ModifyDeletedStep ==
  ASSUME IInv, NEW c \in Changes, NEW i \in Items, NEW r \in Nat, ModifyDeleted(c, i, r),
         UNCHANGED <<latestRevisionByItemId, nextPosted, dialogs, crashed>>
  PROVE  IInv'
<1> DEFINE ch == Change("modify", {i}, r, 0, "Success")
<1>1. /\ c = mLatestChangeId + 1 /\ mLatestChangeId' = c
      /\ changes' = [changes EXCEPT ![c] = ch]
      /\ mChangeById' = mChangeById \cup {c}
      /\ UNCHANGED <<mChangeForJob, mQueuedModifications, mModificationsInProgress>>
      /\ Signals(Signal(c, "AlreadyDeleted"))
  BY DEF ModifyDeleted, Construct
<1>2. ch \in ChangeObject /\ ch.type = "modify" /\ ch.items = {i}
  BY NewModificationType
<1> HIDE DEF ch
<1>3. ChangerTypeOK /\ FreshIds /\ ActiveIsUnanswered
  BY DEF IInv
<1>4. /\ c > mLatestChangeId /\ c \in 0 .. MaxChanges
      /\ \A d \in Changes : d > c => d > mLatestChangeId
      /\ changes[c].type = "none" /\ c \notin mChangeById /\ ~Busy(c) /\ answers[c] = <<>>
      /\ \A j \in Items : c \notin {mQueuedModifications[j], mModificationsInProgress[j]}
  BY <1>1, NextIdIsFresh
<1>5. /\ changes' \in [Changes -> ChangeObject] /\ "AlreadyDeleted" \in Codes
      /\ changes'[c] = ch
      /\ \A d \in Changes : d # c => changes'[d] = changes[d]
  BY <1>1, <1>2, <1>3 DEF ChangerTypeOK, ChangeObject, Codes
<1>6. \A d \in Changes : /\ InDialog(d)' <=> InDialog(d)
                         /\ Busy(d)' <=> Busy(d)
                         /\ Active(d)' <=> Active(d)
  BY <1>1 DEF InDialog, Busy, Active
<1>7. \A d \in Changes : ~Destroyed(d)
  BY <1>1, <1>5, <1>6 DEF Destroyed, Held, InDialog
<1>8. ~Active(c)
  BY <1>4 DEF Active
<1>9. answers' \in [Changes -> Seq(Codes)] /\ ActiveIsUnanswered'
  <2>1. ASSUME NEW d \in Changes, changes'[d].type # "delete"
        PROVE  /\ changes[d].type # "delete"
               /\ Destroyed(d) \/ Signal(c, "AlreadyDeleted")[d] # <<>> => answers[d] = <<>>
               /\ ~(Destroyed(d) /\ Signal(c, "AlreadyDeleted")[d] # <<>>)
               /\ Active(d)' => /\ answers[d] = <<>> /\ Signal(c, "AlreadyDeleted")[d] = <<>>
                                /\ ~Destroyed(d)
    BY <1>3, <1>4, <1>5, <1>6, <1>7, <1>8, <2>1, SignalEmission DEF ActiveIsUnanswered
  <2> QED BY <1>1, <1>5, <2>1, SignalEmission, AnswersStep
<1>10. ChangerTypeOK'
  BY <1>1, <1>3, <1>4, <1>5, <1>9 DEF ChangerTypeOK, ChangeObject
<1>11. FreshIds'
  BY <1>1, <1>5, <1>6, <1>7, SignalEmission, FreshStep
<1>12. ModifiesOneItem' /\ BusyIsKnown' /\ OneDialogPerChange'
  <2>1. ModifiesOneItem'
    BY <1>2, <1>5 DEF IInv, ModifiesOneItem
  <2>2. BusyIsKnown'
    BY <1>1, <1>4, <1>5, <1>6 DEF IInv, BusyIsKnown
  <2>3. OneDialogPerChange'
    BY DEF IInv, OneDialogPerChange
  <2> QED BY <2>1, <2>2, <2>3
<1>13. BusyIsInProgress' /\ InProgressIsBusy' /\ QueuedIsWaiting'
  <2>1. BusyIsInProgress'
    BY <1>1, <1>4, <1>5, <1>6 DEF IInv, BusyIsInProgress, OfItem
  <2>2. InProgressIsBusy'
    BY <1>1, <1>4, <1>5, <1>6, SMTT(30) DEF IInv, InProgressIsBusy, OfItem
  <2>3. QueuedIsWaiting'
    <3>1. ASSUME NEW j \in Items, NEW d \in Changes, mQueuedModifications[j] = d
          PROVE  /\ OfItem(d, j)' /\ d \in mChangeById' /\ ~Busy(d)'
                 /\ mModificationsInProgress[j] # NoChange /\ mModificationsInProgress[j] < d
      <4>1. /\ OfItem(d, j) /\ d \in mChangeById /\ ~Busy(d)
            /\ mModificationsInProgress[j] # NoChange /\ mModificationsInProgress[j] < d
        BY <3>1 DEF IInv, QueuedIsWaiting
      <4>2. d # c
        BY <1>4, <3>1
      <4> QED BY <1>1, <1>5, <1>6, <4>1, <4>2 DEF OfItem
    <3> QED BY <1>1, <3>1 DEF QueuedIsWaiting
  <2> QED BY <2>1, <2>2, <2>3
<1> QED BY <1>9, <1>10, <1>11, <1>12, <1>13 DEF IInv

LEMMA ModifyStartedStep ==
  ASSUME IInv, NEW c \in Changes, NEW i \in Items, NEW r \in Nat, ModifyStarted(c, i, r),
         UNCHANGED <<latestRevisionByItemId, nextPosted, dialogs, crashed>>
  PROVE  IInv'
<1> DEFINE new == Change("modify", {i}, r, 0, "Success")
           ch  == Prepared(new)
<1>1. /\ mModificationsInProgress[i] = NoChange
      /\ c = mLatestChangeId + 1 /\ mLatestChangeId' = c
      /\ changes' = [changes EXCEPT ![c] = ch]
      /\ mChangeById' = mChangeById \cup {c}
      /\ mChangeForJob' = [mChangeForJob EXCEPT ![c] = "running"]
      /\ mModificationsInProgress' = [mModificationsInProgress EXCEPT ![i] = c]
      /\ UNCHANGED mQueuedModifications
      /\ Signals(NoSignal)
  BY DEF ModifyStarted, Construct, ModificationUnderway
<1>2. ChangerTypeOK /\ ActiveIsUnanswered
  BY DEF IInv
<1>3. ch \in ChangeObject /\ ch.type = "modify" /\ ch.items = {i}
  BY <1>2, NewModificationType, PreparedType
<1> HIDE DEF ch
<1>4. /\ c > mLatestChangeId /\ c \in 0 .. MaxChanges
      /\ changes[c].type = "none" /\ c \notin mChangeById /\ ~Busy(c) /\ answers[c] = <<>>
      /\ \A j \in Items : c \notin {mQueuedModifications[j], mModificationsInProgress[j]}
  BY <1>1, NextIdIsFresh
<1>5. /\ changes' \in [Changes -> ChangeObject] /\ changes'[c] = ch
      /\ \A d \in Changes : d # c => changes'[d] = changes[d]
  BY <1>1, <1>2, <1>3 DEF ChangerTypeOK, ChangeObject
<1>6. /\ mChangeForJob' \in [Changes -> JobStates]
      /\ mModificationsInProgress' \in [Items -> Changes \cup {NoChange}]
      /\ mChangeForJob'[c] = "running"
      /\ \A d \in Changes : d # c => mChangeForJob'[d] = mChangeForJob[d]
      /\ mModificationsInProgress'[i] = c
      /\ \A j \in Items : j # i => mModificationsInProgress'[j] = mModificationsInProgress[j]
  BY <1>1, <1>2 DEF ChangerTypeOK, JobStates
<1>7. \A d \in Changes : /\ InDialog(d)' <=> InDialog(d)
                         /\ Busy(d)' <=> Busy(d) \/ d = c
  BY <1>6 DEF InDialog, Busy
<1>8. \A d \in Changes : Active(d)' => Active(d) \/ d = c
  BY <1>1, <1>6, <1>7 DEF Active
<1>9. \A d \in Changes : ~Destroyed(d)
  <2>1. ASSUME NEW d \in Changes, Held(d)
        PROVE  Held(d)'
    BY <1>1, <1>2, <1>6, <1>7, <2>1 DEF Held, NoChange, Changes
  <2>2. Held(c)'
    BY <1>1 DEF Held
  <2> QED BY <1>5, <2>1, <2>2 DEF Destroyed
<1>10. answers' \in [Changes -> Seq(Codes)] /\ ActiveIsUnanswered'
  <2>1. ASSUME NEW d \in Changes, changes'[d].type # "delete"
        PROVE  /\ changes[d].type # "delete"
               /\ Active(d)' => answers[d] = <<>>
    BY <1>2, <1>4, <1>5, <1>8, <2>1 DEF ActiveIsUnanswered
  <2> QED BY <1>1, <1>5, <1>9, <2>1, NoSignalEmission, AnswersStep
<1>11. ChangerTypeOK'
  BY <1>1, <1>2, <1>4, <1>5, <1>6, <1>10 DEF ChangerTypeOK, ChangeObject
<1>12. FreshIds'
  BY <1>1, <1>5, <1>7, <1>9, NoSignalEmission, FreshStep
<1>13. ModifiesOneItem' /\ BusyIsKnown' /\ OneDialogPerChange'
  <2>1. ModifiesOneItem'
    BY <1>3, <1>5 DEF IInv, ModifiesOneItem
  <2>2. BusyIsKnown'
    BY <1>1, <1>3, <1>4, <1>5, <1>6, <1>7 DEF IInv, BusyIsKnown, Busy
  <2>3. OneDialogPerChange'
    BY DEF IInv, OneDialogPerChange
  <2> QED BY <2>1, <2>2, <2>3
<1>14. BusyIsInProgress' /\ InProgressIsBusy' /\ QueuedIsWaiting'
  <2>1. i \notin nextPosted /\ mQueuedModifications[i] \notin Changes
    BY <1>1 DEF IInv, InProgressIsBusy, QueuedIsWaiting
  <2>2. \A d \in Changes, j \in Items : d # c => (OfItem(d, j)' <=> OfItem(d, j))
    BY <1>5 DEF OfItem
  <2>3. \A j \in Items : OfItem(c, j)' <=> j = i
    BY <1>3, <1>5 DEF OfItem
  <2>4. BusyIsInProgress'
    <3>1. \A d \in Changes : Busy(d) /\ OfItem(d, i) => FALSE
      BY <1>1 DEF IInv, BusyIsInProgress, NoChange, Changes
    <3> QED BY <1>6, <1>7, <2>1, <2>2, <2>3, <3>1 DEF IInv, BusyIsInProgress
  <2>5. InProgressIsBusy'
    BY <1>4, <1>6, <1>7, <2>1, <2>2, <2>3 DEF IInv, InProgressIsBusy
  <2>6. QueuedIsWaiting'
    BY <1>1, <1>4, <1>6, <1>7, <2>1, <2>2 DEF IInv, QueuedIsWaiting
  <2> QED BY <2>4, <2>5, <2>6
<1> QED BY <1>10, <1>11, <1>12, <1>13, <1>14 DEF IInv

\* The waiting change, if any, is dropped: nobody else holds it, so it is answered.
LEMMA ModifyQueuedStep ==
  ASSUME IInv, NEW c \in Changes, NEW i \in Items, NEW r \in Nat, ModifyQueued(c, i, r),
         UNCHANGED <<latestRevisionByItemId, nextPosted, dialogs, crashed>>
  PROVE  IInv'
<1> DEFINE new  == Change("modify", {i}, r, 0, "Success")
           ch   == Prepared(new)
           gone == mQueuedModifications[i]
<1>1. /\ mModificationsInProgress[i] # NoChange
      /\ c = mLatestChangeId + 1 /\ mLatestChangeId' = c
      /\ changes' = [x \in Changes |->
                       IF x = c THEN ch
                       ELSE IF x = gone
                            THEN [changes[x] EXCEPT !.resultCode = "ModificationDiscarded"]
                            ELSE changes[x]]
      /\ mQueuedModifications' = [mQueuedModifications EXCEPT ![i] = c]
      /\ mChangeById' = (mChangeById \cup {c}) \ {gone}
      /\ UNCHANGED <<mChangeForJob, mModificationsInProgress>>
      /\ Signals(NoSignal)
  BY DEF ModifyQueued, QueueModification, ModificationUnderway
<1>2. ChangerTypeOK /\ ActiveIsUnanswered
  BY DEF IInv
<1>3. ch \in ChangeObject /\ ch.type = "modify" /\ ch.items = {i}
  BY <1>2, NewModificationType, PreparedType
<1> HIDE DEF ch
<1>4. /\ c > mLatestChangeId /\ c \in 0 .. MaxChanges
      /\ changes[c].type = "none" /\ c \notin mChangeById /\ ~Busy(c) /\ answers[c] = <<>>
      /\ \A j \in Items : c \notin {mQueuedModifications[j], mModificationsInProgress[j]}
  BY <1>1, NextIdIsFresh
<1>5. gone \in Changes =>
        /\ OfItem(gone, i) /\ gone \in mChangeById /\ ~Busy(gone) /\ gone # c /\ Active(gone)
        /\ \A j \in Items : gone # mModificationsInProgress[j]
        /\ \A j \in Items : gone = mQueuedModifications[j] => j = i
  <2>1. ASSUME gone \in Changes
        PROVE  /\ OfItem(gone, i) /\ gone \in mChangeById /\ ~Busy(gone) /\ Active(gone)
               /\ mModificationsInProgress[i] < gone
    BY <2>1 DEF IInv, QueuedIsWaiting, Active
  <2>2. ASSUME gone \in Changes, NEW j \in Items, gone = mModificationsInProgress[j]
        PROVE  FALSE
    <3>1. OfItem(gone, j)
      BY <2>2 DEF IInv, InProgressIsBusy
    <3>2. j = i
      BY <2>1, <2>2, <3>1 DEF OfItem
    <3> QED BY <2>1, <2>2, <3>2 DEF Changes
  <2>3. ASSUME gone \in Changes, NEW j \in Items, gone = mQueuedModifications[j]
        PROVE  j = i
    <3>1. OfItem(gone, j)
      BY <2>3 DEF IInv, QueuedIsWaiting
    <3> QED BY <2>1, <2>3, <3>1 DEF OfItem
  <2> QED BY <1>4, <2>1, <2>2, <2>3
<1>6. gone \in Changes \cup {NoChange}
  BY <1>2 DEF ChangerTypeOK
<1>7. /\ mQueuedModifications' \in [Items -> Changes \cup {NoChange}]
      /\ mQueuedModifications[i] = gone /\ mQueuedModifications'[i] = c
      /\ \A j \in Items : j # i => mQueuedModifications'[j] = mQueuedModifications[j]
  BY <1>1, <1>2 DEF ChangerTypeOK
<1> HIDE DEF gone
<1>8. /\ changes' \in [Changes -> ChangeObject] /\ changes'[c] = ch
      /\ \A d \in Changes : d # c => /\ changes'[d].type = changes[d].type
                                     /\ changes'[d].items = changes[d].items
  <2>1. changes \in [Changes -> ChangeObject] /\ "ModificationDiscarded" \in Codes
    BY <1>2 DEF ChangerTypeOK, ChangeObject, Codes
  <2>2. ASSUME NEW d \in Changes
        PROVE  LET x == [changes[d] EXCEPT !.resultCode = "ModificationDiscarded"]
               IN  x \in ChangeObject /\ x.type = changes[d].type /\ x.items = changes[d].items
    BY <2>1 DEF ChangeObject
  <2> QED BY <1>1, <1>3, <2>1, <2>2
<1>9. \A d \in Changes : /\ InDialog(d)' <=> InDialog(d)
                         /\ Busy(d)' <=> Busy(d)
  BY <1>1 DEF InDialog, Busy
<1>10. \A d \in Changes : Active(d)' => (Active(d) /\ d # gone) \/ d = c
  BY <1>1, <1>5, <1>7, <1>9 DEF Active
<1>11. \A d \in Changes : Destroyed(d) => d = gone
  <2>1. ASSUME NEW d \in Changes, d # gone, Held(d)
        PROVE  Held(d)'
    BY <1>1, <1>7, <1>9, <2>1 DEF Held
  <2>2. c # gone => Held(c)'
    BY <1>1 DEF Held
  <2>3. c # gone
    BY <1>4, <1>5, <1>6 DEF NoChange
  <2> QED BY <1>8, <2>1, <2>2, <2>3 DEF Destroyed
<1>12. answers' \in [Changes -> Seq(Codes)] /\ ActiveIsUnanswered'
  <2>1. ASSUME NEW d \in Changes, changes'[d].type # "delete"
        PROVE  /\ changes[d].type # "delete"
               /\ Destroyed(d) => answers[d] = <<>>
               /\ Active(d)' => answers[d] = <<>> /\ ~Destroyed(d)
    <3>1. changes[d].type # "delete"
      BY <1>4, <1>8, <2>1
    <3>2. Active(d) => answers[d] = <<>>
      BY <1>2, <3>1 DEF ActiveIsUnanswered
    <3> QED BY <1>4, <1>5, <1>10, <1>11, <3>1, <3>2
  <2> QED BY <1>1, <1>8, <2>1, NoSignalEmission, AnswersStep
<1>13. ChangerTypeOK'
  BY <1>1, <1>2, <1>4, <1>7, <1>8, <1>12 DEF ChangerTypeOK, ChangeObject
<1>14. FreshIds'
  <2>1. gone \in Changes => ~(gone > mLatestChangeId)
    BY <1>5 DEF IInv, FreshIds
  <2> QED BY <1>1, <1>8, <1>9, <1>11, <2>1, NoSignalEmission, FreshStep
<1>15. ModifiesOneItem' /\ BusyIsKnown' /\ OneDialogPerChange'
  <2>1. ModifiesOneItem'
    BY <1>3, <1>8 DEF IInv, ModifiesOneItem
  <2>2. BusyIsKnown'
    <3>1. ASSUME NEW d \in Changes, Busy(d)'
          PROVE  /\ changes'[d].type # "none" /\ d \in mChangeById'
                 /\ InDialog(d)' => mChangeForJob'[d] = "none"
      <4>1. d # c /\ d # gone /\ Busy(d)
        BY <1>4, <1>5, <1>9, <3>1
      <4> QED BY <1>1, <1>8, <1>9, <4>1 DEF IInv, BusyIsKnown
    <3> QED BY <3>1 DEF BusyIsKnown
  <2>3. OneDialogPerChange'
    BY DEF IInv, OneDialogPerChange
  <2> QED BY <2>1, <2>2, <2>3
<1>16. BusyIsInProgress' /\ InProgressIsBusy' /\ QueuedIsWaiting'
  <2>1. \A d \in Changes, j \in Items : d # c => (OfItem(d, j)' <=> OfItem(d, j))
    BY <1>8 DEF OfItem
  <2>2. OfItem(c, i)'
    BY <1>3, <1>8 DEF OfItem
  <2>3. BusyIsInProgress' /\ InProgressIsBusy'
    BY <1>1, <1>4, <1>9, <2>1 DEF IInv, BusyIsInProgress, InProgressIsBusy
  <2>4. mModificationsInProgress[i] < c
    <3>1. mModificationsInProgress[i] \in Changes
      BY <1>1, <1>2 DEF ChangerTypeOK
    <3>2. changes[mModificationsInProgress[i]].type = "modify"
      BY <3>1 DEF IInv, InProgressIsBusy, OfItem
    <3>3. ~(mModificationsInProgress[i] > mLatestChangeId)
      BY <3>1, <3>2 DEF IInv, FreshIds
    <3> QED BY <1>1, <1>2, <3>1, <3>3 DEF ChangerTypeOK, Changes
  <2>5. c # gone
    BY <1>4, <1>5, <1>6 DEF NoChange
  <2>6. QueuedIsWaiting'
    <3>1. ASSUME NEW j \in Items, NEW d \in Changes, mQueuedModifications'[j] = d
          PROVE  /\ OfItem(d, j)' /\ d \in mChangeById' /\ ~Busy(d)'
                 /\ mModificationsInProgress'[j] # NoChange
                 /\ mModificationsInProgress'[j] < d
      <4>1. CASE j = i
        BY <1>1, <1>4, <1>7, <1>9, <2>2, <2>4, <2>5, <3>1, <4>1
      <4>2. CASE j # i
        BY <1>1, <1>4, <1>5, <1>7, <1>9, <2>1, <3>1, <4>2 DEF IInv, QueuedIsWaiting
      <4> QED BY <4>1, <4>2
    <3> QED BY <3>1 DEF QueuedIsWaiting
  <2> QED BY <2>3, <2>6
<1> QED BY <1>12, <1>13, <1>14, <1>15, <1>16 DEF IInv

\* The finished change is dropped by mModificationsInProgress.  The waiting one is
\* answered, or it becomes the one in progress.
LEMMA PerformNextStep ==
  ASSUME IInv, NEW i \in Items, PerformNextModification(i)
  PROVE  IInv'
<1> DEFINE old == mModificationsInProgress[i]
           c   == mQueuedModifications[i]
<1>1. ChangerTypeOK /\ ActiveIsUnanswered /\ BusyIsKnown
  BY DEF IInv
<1>2. /\ i \in nextPosted /\ nextPosted' = nextPosted \ {i}
      /\ mQueuedModifications' = [mQueuedModifications EXCEPT ![i] = NoChange]
      /\ UNCHANGED <<mLatestChangeId, mChangeById, latestRevisionByItemId, dialogs, crashed>>
  BY DEF PerformNextModification
<1>3. old \in Changes /\ OfItem(old, i) /\ ~Busy(old) /\ Active(old)
  <2>1. old \in Changes
    BY <1>1, <1>2 DEF IInv, InProgressIsBusy, ChangerTypeOK
  <2>2. OfItem(old, i) /\ Active(old)
    BY <2>1 DEF IInv, InProgressIsBusy, Active
  <2> QED BY <1>2, <2>1, <2>2 DEF IInv, BusyIsInProgress
<1>4. c \in Changes =>
        /\ OfItem(c, i) /\ c \in mChangeById /\ ~Busy(c) /\ c # old /\ Active(c)
        /\ \A j \in Items : c # mModificationsInProgress[j]
        /\ \A j \in Items : c = mQueuedModifications[j] => j = i
  <2>1. ASSUME c \in Changes
        PROVE  /\ OfItem(c, i) /\ c \in mChangeById /\ ~Busy(c) /\ Active(c) /\ old < c
    BY <2>1 DEF IInv, QueuedIsWaiting, Active
  <2>2. ASSUME c \in Changes, NEW j \in Items, c = mModificationsInProgress[j]
        PROVE  FALSE
    <3>1. OfItem(c, j)
      BY <2>2 DEF IInv, InProgressIsBusy
    <3>2. j = i
      BY <2>1, <2>2, <3>1 DEF OfItem
    <3> QED BY <2>1, <2>2, <3>2 DEF Changes
  <2>3. ASSUME c \in Changes, NEW j \in Items, c = mQueuedModifications[j]
        PROVE  j = i
    <3>1. OfItem(c, j)
      BY <2>3 DEF IInv, QueuedIsWaiting
    <3> QED BY <2>1, <2>3, <3>1 DEF OfItem
  <2> QED BY <2>1, <2>2, <2>3
<1>5. /\ c \in Changes \cup {NoChange} /\ NoChange \notin Changes
      /\ mModificationsInProgress[i] = old /\ mQueuedModifications[i] = c
      /\ mQueuedModifications' \in [Items -> Changes \cup {NoChange}]
      /\ mQueuedModifications'[i] = NoChange
      /\ \A j \in Items : j # i => mQueuedModifications'[j] = mQueuedModifications[j]
  BY <1>1, <1>2 DEF ChangerTypeOK, NoChange, Changes
<1>6. \A j \in Items : j # i => mModificationsInProgress[j] # old
  <2>1. ASSUME NEW j \in Items, mModificationsInProgress[j] = old
        PROVE  j = i
    <3>1. OfItem(old, j)
      BY <1>3, <2>1 DEF IInv, InProgressIsBusy
    <3> QED BY <1>3, <3>1 DEF OfItem
  <2> QED BY <2>1
<1>7. \A d \in Changes : InDialog(d)' <=> InDialog(d)
  BY <1>2 DEF InDialog
<1>8. OneDialogPerChange'
  BY <1>2 DEF IInv, OneDialogPerChange
<1>9. ASSUME mModificationsInProgress' = [mModificationsInProgress EXCEPT ![i] = NoChange],
             UNCHANGED <<changes, mChangeForJob>>,
             NEW emitted \in Emission, Signals(emitted),
             \A d \in Changes : d # c => emitted[d] = <<>>
      PROVE  IInv'
  <2>1. /\ mModificationsInProgress' \in [Items -> Changes \cup {NoChange}]
        /\ mModificationsInProgress'[i] = NoChange
        /\ \A j \in Items : j # i => mModificationsInProgress'[j] = mModificationsInProgress[j]
    BY <1>1, <1>9 DEF ChangerTypeOK
  <2> HIDE DEF old, c
  <2>2. Signals(emitted) /\ \A d \in Changes : d # c => emitted[d] = <<>>
    BY <1>9
  <2>3. changes' \in [Changes -> ChangeObject]
    BY <1>1, <1>9 DEF ChangerTypeOK, ChangeObject
  <2>4. \A d \in Changes : Busy(d)' <=> Busy(d)
    BY <1>7, <1>9 DEF Busy
  <2>5. \A d \in Changes : Active(d)' => Active(d) /\ d # c
    BY <1>4, <1>5, <2>1, <2>4 DEF Active
  <2>6. \A d \in Changes : Destroyed(d) => d # c /\ Active(d)
    <3>1. ASSUME NEW d \in Changes, Held(d), ~Held(d)'
          PROVE  d # c /\ Active(d)
      BY <1>2, <1>4, <1>7, <1>9, <3>1 DEF Held, Active, Busy
    <3> QED BY <1>9, <3>1 DEF Destroyed
  <2>7. answers' \in [Changes -> Seq(Codes)] /\ ActiveIsUnanswered'
    <3>1. ASSUME NEW d \in Changes, changes'[d].type # "delete"
          PROVE  /\ changes[d].type # "delete"
                 /\ Destroyed(d) \/ emitted[d] # <<>> => answers[d] = <<>>
                 /\ ~(Destroyed(d) /\ emitted[d] # <<>>)
                 /\ Active(d)' => answers[d] = <<>> /\ emitted[d] = <<>> /\ ~Destroyed(d)
      <4>1. changes[d].type # "delete"
        BY <1>9, <3>1
      <4>2. Active(d) => answers[d] = <<>>
        BY <1>1, <4>1 DEF ActiveIsUnanswered
      <4>3. Active(d)' => ~Destroyed(d)
        BY DEF Destroyed, Held, Active, Busy
      <4> QED BY <1>4, <2>2, <2>5, <2>6, <4>1, <4>2, <4>3
    <3> QED BY <2>2, <2>3, <3>1, AnswersStep
  <2>8. ChangerTypeOK'
    BY <1>1, <1>2, <1>5, <1>9, <2>1, <2>7 DEF ChangerTypeOK
  <2>9. FreshIds'
    <3>1. ASSUME NEW d \in Changes, d > mLatestChangeId
          PROVE  answers'[d] = <<>>
      <4>1. ~Active(d) /\ answers[d] = <<>> /\ d # c
        BY <1>3, <1>4, <3>1 DEF IInv, FreshIds, Active, InProgressIsBusy, QueuedIsWaiting, OfItem
      <4> QED BY <1>1, <2>2, <2>3, <2>6, <4>1, SignalsStep
    <3> QED BY <1>2, <1>9, <2>4, <3>1 DEF IInv, FreshIds
  <2>10. ModifiesOneItem' /\ BusyIsKnown'
    BY <1>1, <1>2, <1>7, <1>9, <2>4 DEF IInv, ModifiesOneItem, BusyIsKnown
  <2>11. BusyIsInProgress'
    <3>1. ASSUME NEW d \in Changes, NEW j \in Items, Busy(d), OfItem(d, j)
          PROVE  mModificationsInProgress[j] = d /\ j \notin nextPosted /\ j # i
      BY <1>2, <3>1 DEF IInv, BusyIsInProgress
    <3> QED BY <1>2, <1>9, <2>1, <2>4, <3>1 DEF BusyIsInProgress, OfItem
  <2>12. InProgressIsBusy'
    BY <1>2, <1>5, <1>9, <2>1, <2>4 DEF IInv, InProgressIsBusy, OfItem
  <2>13. QueuedIsWaiting'
    BY <1>2, <1>5, <1>9, <2>1, <2>4 DEF IInv, QueuedIsWaiting, OfItem
  <2> QED BY <1>8, <2>7, <2>8, <2>9, <2>10, <2>11, <2>12, <2>13 DEF IInv
<1>10. ASSUME c # NoChange,
              mModificationsInProgress' = [mModificationsInProgress EXCEPT ![i] = c],
              changes' = [changes EXCEPT ![c] = Prepared(changes[c])],
              mChangeForJob' = [mChangeForJob EXCEPT ![c] = "running"],
              Signals(NoSignal)
       PROVE  IInv'
  <2>1. c \in Changes
    BY <1>5, <1>10
  <2>2. /\ mModificationsInProgress' \in [Items -> Changes \cup {NoChange}]
        /\ mModificationsInProgress'[i] = c
        /\ \A j \in Items : j # i => mModificationsInProgress'[j] = mModificationsInProgress[j]
    BY <1>1, <1>10, <2>1 DEF ChangerTypeOK
  <2> HIDE DEF old, c
  <2>3. /\ changes' \in [Changes -> ChangeObject]
        /\ \A d \in Changes : /\ changes'[d].type = changes[d].type
                              /\ changes'[d].items = changes[d].items
    <3>1. changes \in [Changes -> ChangeObject]
      BY <1>1 DEF ChangerTypeOK, ChangeObject
    <3>2. changes[c] \in ChangeObject /\ changes[c].items = {i}
      BY <1>4, <2>1, <3>1 DEF OfItem
    <3>3. /\ Prepared(changes[c]) \in ChangeObject
          /\ Prepared(changes[c]).type = changes[c].type
          /\ Prepared(changes[c]).items = changes[c].items
      BY <1>1, <3>2, PreparedType
    <3> QED BY <1>10, <2>1, <3>1, <3>3
  <2>4. /\ mChangeForJob' \in [Changes -> JobStates] /\ mChangeForJob'[c] = "running"
        /\ \A d \in Changes : d # c => mChangeForJob'[d] = mChangeForJob[d]
    BY <1>1, <1>10, <2>1 DEF ChangerTypeOK, JobStates
  <2>5. \A d \in Changes : Busy(d)' <=> Busy(d) \/ d = c
    BY <1>7, <2>1, <2>4 DEF Busy
  <2>6. \A d \in Changes : Active(d)' => Active(d)
    BY <1>4, <1>5, <2>1, <2>2, <2>5 DEF Active
  <2>7. \A d \in Changes : Destroyed(d) => Active(d)
    <3>1. ASSUME NEW d \in Changes, Held(d), ~Held(d)'
          PROVE  Active(d)
      BY <1>2, <1>7, <2>4, <3>1 DEF Held, Active, Busy
    <3> QED BY <2>3, <3>1 DEF Destroyed
  <2>8. answers' \in [Changes -> Seq(Codes)] /\ ActiveIsUnanswered'
    <3>1. ASSUME NEW d \in Changes, changes'[d].type # "delete"
          PROVE  /\ changes[d].type # "delete"
                 /\ Destroyed(d) => answers[d] = <<>>
                 /\ Active(d)' => answers[d] = <<>> /\ ~Destroyed(d)
      <4>1. changes[d].type # "delete"
        BY <2>3, <3>1
      <4>2. Active(d) => answers[d] = <<>>
        BY <1>1, <4>1 DEF ActiveIsUnanswered
      <4>3. Active(d)' => ~Destroyed(d)
        BY DEF Destroyed, Held, Active, Busy
      <4> QED BY <2>6, <2>7, <4>1, <4>2, <4>3
    <3> QED BY <1>10, <2>3, <3>1, NoSignalEmission, AnswersStep
  <2>9. ChangerTypeOK'
    BY <1>1, <1>2, <1>5, <2>2, <2>3, <2>4, <2>8 DEF ChangerTypeOK, ChangeObject
  <2>10. FreshIds'
    <3>1. ASSUME NEW d \in Changes, d > mLatestChangeId
          PROVE  answers'[d] = <<>> /\ d # c
      <4>1. ~Active(d) /\ answers[d] = <<>> /\ d # c
        BY <1>3, <1>4, <3>1 DEF IInv, FreshIds, Active, InProgressIsBusy, QueuedIsWaiting, OfItem
      <4> QED BY <1>1, <1>10, <2>3, <2>7, <4>1, NoSignalEmission, SignalsStep
    <3> QED BY <1>2, <2>3, <2>5, <3>1 DEF IInv, FreshIds
  <2>11. ModifiesOneItem'
    BY <2>3 DEF IInv, ModifiesOneItem
  <2>12. BusyIsKnown'
    <3>1. changes[c].type = "modify" /\ c \in mChangeById /\ ~InDialog(c)
      BY <1>4, <2>1 DEF OfItem, Busy
    <3> QED BY <1>1, <1>2, <1>7, <2>3, <2>4, <2>5, <3>1 DEF BusyIsKnown
  <2>13. \A d \in Changes, j \in Items : OfItem(d, j)' <=> OfItem(d, j)
    BY <2>3 DEF OfItem
  <2>14. \A j \in Items : OfItem(c, j) => j = i
    BY <1>4, <2>1 DEF OfItem
  <2>15. BusyIsInProgress'
    <3>1. ASSUME NEW d \in Changes, NEW j \in Items, Busy(d), OfItem(d, j)
          PROVE  mModificationsInProgress[j] = d /\ j \notin nextPosted /\ j # i
      BY <1>2, <3>1 DEF IInv, BusyIsInProgress
    <3> QED BY <1>2, <2>2, <2>5, <2>13, <2>14, <3>1 DEF BusyIsInProgress
  <2>16. InProgressIsBusy'
    BY <1>2, <1>4, <1>5, <2>1, <2>2, <2>5, <2>13 DEF IInv, InProgressIsBusy
  <2>17. QueuedIsWaiting'
    BY <1>2, <1>4, <1>5, <2>1, <2>2, <2>5, <2>13 DEF IInv, QueuedIsWaiting
  <2> QED BY <1>8, <2>8, <2>9, <2>10, <2>11, <2>12, <2>15, <2>16, <2>17 DEF IInv
<1>11. CASE c = NoChange
  <2>1. NoSignal \in Emission /\ \A d \in Changes : NoSignal[d] = <<>>
    BY NoSignalEmission
  <2> QED BY <1>9, <1>11, <2>1 DEF PerformNextModification
<1>12. CASE c # NoChange /\ DeleteAlreadyCalled(i)
  <2>1. /\ Signal(c, "AlreadyDeleted") \in Emission
        /\ \A d \in Changes : d # c => Signal(c, "AlreadyDeleted")[d] = <<>>
    BY <1>5, <1>12, SignalEmission DEF Codes
  <2> QED BY <1>9, <1>12, <2>1 DEF PerformNextModification
<1>13. CASE c # NoChange /\ ~DeleteAlreadyCalled(i)
  BY <1>10, <1>13 DEF PerformNextModification
<1> QED BY <1>11, <1>12, <1>13

LEMMA InitInv == Init => IInv
<1> SUFFICES ASSUME Init PROVE IInv
  OBVIOUS
<1>1. ChangerTypeOK
  <2>1. NotConstructed \in ChangeObject
    BY DEF NotConstructed, Change, ChangeObject, Codes
  <2>2. 0 \in 0 .. MaxChanges
    BY ConstantsAssumption
  <2>3. dialogs \in Seq([change : Changes, resultCode : Codes])
        /\ answers \in [Changes -> Seq(Codes)]
    BY DEF Init
  <2> QED BY <2>1, <2>2, <2>3 DEF Init, ChangerTypeOK, NoChange, ChangeObject, JobStates
<1>2. \A c \in Changes : ~InDialog(c) /\ ~Busy(c) /\ ~Active(c)
  BY DEF Init, InDialog, Busy, Active, Changes, NoChange
<1>3. FreshIds /\ ModifiesOneItem /\ BusyIsKnown /\ BusyIsInProgress /\ ActiveIsUnanswered
  BY <1>2 DEF Init, FreshIds, ModifiesOneItem, BusyIsKnown, BusyIsInProgress,
              ActiveIsUnanswered, NotConstructed, Change
<1>4. InProgressIsBusy /\ QueuedIsWaiting /\ OneDialogPerChange
  BY DEF Init, InProgressIsBusy, QueuedIsWaiting, OneDialogPerChange, Changes, NoChange
<1> QED BY <1>1, <1>3, <1>4 DEF IInv

LEMMA StoreTypeStep ==
  ASSUME IInv, StoreTypeOK, [Next]_vars
  PROVE  StoreTypeOK'
<1>1. CASE UNCHANGED store
  BY <1>1 DEF StoreTypeOK
<1>2. ASSUME NEW c \in Changes, Server(c)
      PROVE  StoreTypeOK'
  <2>1. CASE CreateStored(c)
    <3>1. PICK i \in Items : store' = [store EXCEPT !.item[i] = "live", !.payload[i] = c,
                                                   !.applied = store.applied \cup {c}]
      BY <2>1 DEF CreateStored
    <3>2. store' = [item     |-> [store.item EXCEPT ![i] = "live"],
                    revision |-> store.revision,
                    payload  |-> [store.payload EXCEPT ![i] = c],
                    foreign  |-> store.foreign,
                    applied  |-> store.applied \cup {c}]
      BY <3>1 DEF StoreTypeOK
    <3> QED BY <3>2 DEF StoreTypeOK, Changes
  <2>2. CASE ModifyStored(c)
    <3>1. PICK i \in Items : changes[c].items = {i}
      BY <2>2 DEF ModifyStored, IInv, ModifiesOneItem
    <3>2. ItemOf(changes[c]) = i
      <4>1. \A j \in Items : changes[c].items = {j} => j = i
        BY <3>1
      <4> QED BY <3>1, <4>1 DEF ItemOf
    <3>3. store' = [store EXCEPT !.revision[i] = store.revision[i] + 1, !.payload[i] = c,
                                 !.applied = store.applied \cup {c}]
      BY <2>2, <3>2 DEF ModifyStored
    <3>4. store.revision[i] + 1 \in Nat
      BY DEF StoreTypeOK
    <3>5. store' = [item     |-> store.item,
                    revision |-> [store.revision EXCEPT ![i] = store.revision[i] + 1],
                    payload  |-> [store.payload EXCEPT ![i] = c],
                    foreign  |-> store.foreign,
                    applied  |-> store.applied \cup {c}]
      BY <3>3 DEF StoreTypeOK
    <3> QED BY <3>4, <3>5 DEF StoreTypeOK, Changes
  <2>3. CASE DeleteStored(c)
    BY <2>3 DEF DeleteStored, StoreTypeOK, Changes
  <2>4. CASE JobFails(c)
    BY <1>1, <2>4 DEF JobFails
  <2> QED BY <1>2, <2>1, <2>2, <2>3, <2>4 DEF Server
<1>3. ASSUME NEW i \in Items, ForeignWrite(i)
      PROVE  StoreTypeOK'
  <2>1. store.foreign[i] + 1 \in Nat /\ store.revision[i] + 1 \in Nat
    BY DEF StoreTypeOK
  <2>2. CASE store' = [store EXCEPT !.revision[i] = store.revision[i] + 1,
                                    !.foreign[i] = store.foreign[i] + 1]
    <3>1. store' = [item     |-> store.item,
                    revision |-> [store.revision EXCEPT ![i] = store.revision[i] + 1],
                    payload  |-> store.payload,
                    foreign  |-> [store.foreign EXCEPT ![i] = store.foreign[i] + 1],
                    applied  |-> store.applied]
      BY <2>2 DEF StoreTypeOK
    <3> QED BY <2>1, <3>1 DEF StoreTypeOK
  <2>3. CASE store' = [store EXCEPT !.item[i] = "gone",
                                    !.foreign[i] = store.foreign[i] + 1]
    <3>1. store' = [item     |-> [store.item EXCEPT ![i] = "gone"],
                    revision |-> store.revision,
                    payload  |-> store.payload,
                    foreign  |-> [store.foreign EXCEPT ![i] = store.foreign[i] + 1],
                    applied  |-> store.applied]
      BY <2>3 DEF StoreTypeOK
    <3> QED BY <2>1, <3>1 DEF StoreTypeOK
  <2> QED BY <1>3, <2>2, <2>3 DEF ForeignWrite
<1>4. ASSUME NEW c \in Changes, Caller(c)
      PROVE  UNCHANGED store
  BY <1>4 DEF Caller, CreateIncidence, CreateRefused, ModifyIncidence, ModifyRefused,
              DeleteIncidences, DeleteRefused
<1>5. ASSUME NEW c \in Changes, HandleJobResult(c)
      PROVE  UNCHANGED store
  BY <1>5 DEF HandleJobResult, HandleCreateJobSuccess, HandleModifyJobSuccess,
              HandleDeleteJobSuccess, HandleJobFailure, EndFailure
<1>6. ASSUME NEW i \in Items, PerformNextModification(i)
      PROVE  UNCHANGED store
  BY <1>6 DEF PerformNextModification
<1>7. CASE CloseErrorDialog
  BY <1>1, <1>7 DEF CloseErrorDialog, EndFailure
<1>8. CASE UNCHANGED vars
  BY <1>1, <1>8 DEF vars
<1> QED BY <1>1, <1>2, <1>3, <1>4, <1>5, <1>6, <1>7, <1>8 DEF Next

\* One step per action; the store only matters to where a caller's revision lies.
LEMMA NextInv ==
  ASSUME IInv, StoreTypeOK, [Next]_vars
  PROVE  IInv'
<1>1. ASSUME NEW c \in Changes, Caller(c)
      PROVE  IInv'
  <2>1. CASE ModifyIncidence(c)
    <3>1. PICK i \in Items : \E r \in 0 .. store.revision[i] :
            ModifyDeleted(c, i, r) \/ ModifyQueued(c, i, r) \/ ModifyStarted(c, i, r)
      BY <2>1 DEF ModifyIncidence
    <3>2. PICK r \in 0 .. store.revision[i] :
            ModifyDeleted(c, i, r) \/ ModifyQueued(c, i, r) \/ ModifyStarted(c, i, r)
      BY <3>1
    <3>3. r \in Nat
      BY DEF StoreTypeOK
    <3>4. UNCHANGED <<latestRevisionByItemId, nextPosted, dialogs, crashed>>
      BY <2>1 DEF ModifyIncidence
    <3> QED BY <3>2, <3>3, <3>4, ModifyDeletedStep, ModifyQueuedStep, ModifyStartedStep
  <2> QED BY <1>1, <2>1, CreateOrDeleteStep, ModifyRefusedStep DEF Caller
<1>2. ASSUME NEW c \in Changes, HandleJobResult(c)
      PROVE  IInv'
  BY <1>2, CreateOrDeleteSucceeds, ModifySucceeds, JobFailureStep DEF HandleJobResult
<1>3. ASSUME NEW c \in Changes, Server(c)
      PROVE  IInv'
  BY <1>3, FinishStep DEF Server, CreateStored, ModifyStored, DeleteStored, JobFails
<1>4. ASSUME NEW i \in Items, PerformNextModification(i)
      PROVE  IInv'
  BY <1>4, PerformNextStep
<1>5. ASSUME NEW i \in Items, ForeignWrite(i)
      PROVE  IInv'
  BY <1>5, StutterStep DEF ForeignWrite
<1>6. CASE CloseErrorDialog
  BY <1>6, CloseDialogStep
<1>7. CASE UNCHANGED vars
  BY <1>7, StutterStep DEF vars
<1> QED BY <1>1, <1>2, <1>3, <1>4, <1>5, <1>6, <1>7 DEF Next
-----------------------------------------------------------------------------
\* The invariant holds in every state the changer reaches.
THEOREM Invariance == Spec => [](IInv /\ StoreTypeOK)
<1>1. Init => IInv /\ StoreTypeOK
  <2>1. Init => StoreTypeOK
    BY ConstantsAssumption DEF Init, StoreTypeOK
  <2> QED BY <2>1, InitInv
<1>2. IInv /\ StoreTypeOK /\ [Next]_vars => (IInv /\ StoreTypeOK)'
  BY NextInv, StoreTypeStep
<1> QED BY <1>1, <1>2, PTL DEF Spec

\* Type correctness of everything but the list mDeletedItemIds.
THEOREM TypeCorrectness == Spec => [](ChangerTypeOK /\ StoreTypeOK)
<1>1. IInv => ChangerTypeOK
  BY DEF IInv
<1> QED BY <1>1, Invariance, PTL

\* performModification2(): at most one ItemModifyJob per item is under way, and it
\* is that of the change in mModificationsInProgress.
THEOREM OneWriter == Spec => []OneWriterPerItem
<1>1. IInv => OneWriterPerItem
  BY DEF IInv, BusyIsInProgress, OneWriterPerItem, WritesItem, OfItem, Busy
<1> QED BY <1>1, Invariance, PTL

\* queueModification(): whatever waits is woken by the job, the message box or the
\* posted call of the modification in progress, which is older.
THEOREM NoLostWakeup == Spec => []WaitingHasWaker
<1>1. ASSUME IInv, NEW i \in Items, mQueuedModifications[i] # NoChange
      PROVE  /\ mModificationsInProgress[i] # NoChange
             /\ mQueuedModifications[i] > mModificationsInProgress[i]
             /\ \/ i \in nextPosted
                \/ InDialog(mModificationsInProgress[i])
                \/ WritesItem(mModificationsInProgress[i], i)
  <2> DEFINE c == mQueuedModifications[i]
             d == mModificationsInProgress[i]
  <2>1. c \in Changes /\ d \in Changes \cup {NoChange}
    BY <1>1 DEF IInv, ChangerTypeOK
  <2>2. d # NoChange /\ d < c
    BY <1>1, <2>1 DEF IInv, QueuedIsWaiting
  <2>3. d \in Changes
    BY <2>1, <2>2
  <2>4. OfItem(d, i) /\ (Busy(d) \/ i \in nextPosted)
    BY <1>1, <2>3 DEF IInv, InProgressIsBusy
  <2> QED BY <2>1, <2>2, <2>3, <2>4 DEF Busy, OfItem, WritesItem, Changes
<1>2. IInv => WaitingHasWaker
  BY <1>1 DEF WaitingHasWaker
<1> QED BY <1>2, Invariance, PTL

\* performModification() and performNextModification(): both together.
THEOREM QueueSoundness == Spec => []QueueIsSound
<1>1. OneWriterPerItem /\ WaitingHasWaker => QueueIsSound
  BY DEF QueueIsSound
<1> QED BY <1>1, OneWriter, NoLostWakeup, PTL

\* The destructors of CreationChange and ModificationChange, and the answers given
\* without one, never answer the same id twice.
THEOREM NeverAnsweredTwice == Spec => []AnsweredOnce
<1>1. IInv => AnsweredOnce
  BY DEF IInv, ActiveIsUnanswered, AnsweredOnce
<1> QED BY <1>1, Invariance, PTL

-----------------------------------------------------------------------------
(***************************************************************************)
(* The answers are true, the changer does not run into conflicts with      *)
(* itself, it implements ChangeRequests, and its list of deleted items     *)
(* tells what is being deleted.                                            *)
(***************************************************************************)
\* This step answers the changes of S and no others, and what it says is true.
AnswersTruly(S) ==
  \A d \in Changes :
    IF d \in S
    THEN /\ answers[d] = <<>> /\ answers'[d] # <<>>
         /\ answers'[d][1] = "Success" <=> d \in store.applied
         /\ answers'[d][1] = "ModificationDiscarded"
              => changes'[d].resultCode = "ModificationDiscarded"
    ELSE answers'[d] = answers[d]

Failures == {"AlreadyDeleted", "JobError", "Permissions", "InvalidDefaultCollection"}

LEMMA FirstOfConcat ==
  ASSUME NEW code, NEW s \in Seq(Codes), code \in Codes
  PROVE  <<code>> \o s # <<>> /\ (<<code>> \o s)[1] = code
<1>1. <<code>> \in Seq(Codes) /\ Len(<<code>>) = 1 /\ <<code>>[1] = code
  OBVIOUS
<1>2. Len(<<code>> \o s) = 1 + Len(s) /\ (<<code>> \o s)[1] = <<code>>[1]
  BY <1>1, ConcatProperties
<1>3. Len(s) \in Nat
  OBVIOUS
<1> QED BY <1>1, <1>2, <1>3

\* The first answer: what the handler emits, or else what the destructor does.
LEMMA FirstAnswer ==
  ASSUME ChangerTypeOK, changes' \in [Changes -> ChangeObject],
         NEW emitted \in Emission, Signals(emitted), NEW c \in Changes, answers[c] = <<>>
  PROVE  /\ \A code \in Codes : emitted[c] = <<code>> =>
                                  answers'[c] # <<>> /\ answers'[c][1] = code
         /\ emitted[c] = <<>> /\ Destroyed(c) =>
              answers'[c] # <<>> /\ answers'[c][1] = changes'[c].resultCode
<1>1. changes'[c].resultCode \in Codes
  BY DEF ChangeObject
<1> DEFINE code == changes'[c].resultCode
           tail == IF Destroyed(c) THEN <<code>> ELSE <<>>
<1>2. answers'[c] = answers[c] \o emitted[c] \o tail
  BY DEF Signals
<1>3. emitted[c] \in Seq(Codes) /\ tail \in Seq(Codes) /\ <<code>> \in Seq(Codes)
  BY <1>1, EmissionIsSeq
<1> HIDE DEF code
<1>4. answers[c] \o emitted[c] = emitted[c]
  BY <1>3, ConcatEmptySeq
<1>5. ASSUME NEW k \in Codes, emitted[c] = <<k>>
      PROVE  answers'[c] # <<>> /\ answers'[c][1] = k
  BY <1>2, <1>3, <1>4, <1>5, FirstOfConcat
<1>6. ASSUME emitted[c] = <<>>, Destroyed(c)
      PROVE  answers'[c] # <<>> /\ answers'[c][1] = code
  <2>1. answers'[c] = <<>> \o <<code>>
    BY <1>2, <1>4, <1>6
  <2>2. answers'[c] = <<code>>
    BY <1>3, <2>1, ConcatEmptySeq
  <2> QED BY <2>2
<1> QED BY <1>5, <1>6 DEF code

LEMMA SignalsAnswer ==
  ASSUME ChangerTypeOK, changes' \in [Changes -> ChangeObject],
         NEW emitted \in Emission, Signals(emitted), NEW S \in SUBSET Changes,
         \A d \in S :
           /\ answers[d] = <<>>
           /\ \/ /\ emitted[d] = <<>> /\ Destroyed(d)
                 /\ changes'[d].resultCode = "Success" <=> d \in store.applied
              \/ /\ \E code \in Failures : emitted[d] = <<code>>
                 /\ d \notin store.applied,
         \A d \in Changes \ S : emitted[d] = <<>> /\ ~Destroyed(d)
  PROVE  AnswersTruly(S)
<1>1. \A d \in Changes \ S : answers'[d] = answers[d]
  BY SignalsStep
<1>2. ASSUME NEW d \in S
      PROVE  /\ answers[d] = <<>> /\ answers'[d] # <<>>
             /\ answers'[d][1] = "Success" <=> d \in store.applied
             /\ answers'[d][1] = "ModificationDiscarded"
                  => changes'[d].resultCode = "ModificationDiscarded"
  <2>1. CASE emitted[d] = <<>> /\ Destroyed(d)
    BY <2>1, FirstAnswer
  <2>2. CASE ~(emitted[d] = <<>> /\ Destroyed(d))
    <3>1. PICK code \in Failures : emitted[d] = <<code>>
      BY <2>2
    <3>2. code \in Codes /\ code # "Success" /\ code # "ModificationDiscarded"
      BY DEF Failures, Codes
    <3>3. answers'[d] # <<>> /\ answers'[d][1] = code
      BY <3>1, <3>2, FirstAnswer
    <3> QED BY <2>2, <3>2, <3>3
  <2> QED BY <2>1, <2>2
<1> QED BY <1>1, <1>2 DEF AnswersTruly

\* A step that answers truly keeps the answers true, unless the server acts in it.
LEMMA TruthStays ==
  ASSUME AnswerIsTrue, NEW S \in SUBSET Changes, AnswersTruly(S), UNCHANGED store,
         DiscardedHasNewer',
         \A d \in Changes : changes[d].type = "modify" \/ answers[d] # <<>> =>
            changes'[d].items = changes[d].items,
         \A d \in Changes : changes[d].type = "modify" => changes'[d].type = "modify"
  PROVE  AnswerIsTrue'
<1>1. ASSUME NEW c \in Changes, answers'[c] # <<>>
      PROVE  answers'[c][1] = "Success" <=> c \in store'.applied
  BY <1>1 DEF AnswerIsTrue, AnswersTruly
<1>2. ASSUME NEW c \in Changes, answers'[c] # <<>>, answers'[c][1] = "ModificationDiscarded"
      PROVE  \E d \in Changes : /\ d > c /\ changes'[d].items = changes'[c].items
                                /\ changes'[d].type = "modify"
  <2>1. CASE c \in S
    BY <1>2, <2>1 DEF AnswersTruly, DiscardedHasNewer
  <2>2. CASE c \notin S
    <3>1. answers'[c] = answers[c]
      BY <2>2 DEF AnswersTruly
    <3>2. PICK d \in Changes : /\ d > c /\ changes[d].items = changes[c].items
                               /\ changes[d].type = "modify"
      BY <1>2, <3>1 DEF AnswerIsTrue, DiscardedForNewer
    <3> QED BY <1>2, <3>1, <3>2
  <2> QED BY <2>1, <2>2
<1> QED BY <1>1, <1>2 DEF AnswerIsTrue, DiscardedForNewer

-----------------------------------------------------------------------------
(* The caller's steps.                                                     *)

\* What all calls have in common but one that discards: only the new change c is new.
NewCall(c) ==
  /\ c = mLatestChangeId + 1 /\ mLatestChangeId' = c
  /\ changes' \in [Changes -> ChangeObject]
  /\ changes'[c] = changes[c] \/ changes'[c].resultCode # "ModificationDiscarded"
  /\ \A d \in Changes \ {c} :
       /\ changes'[d] = changes[d] /\ mChangeForJob'[d] = mChangeForJob[d]
       /\ d \in mChangeById' <=> d \in mChangeById
  /\ mChangeForJob'[c] \in {"none", "running"}
  /\ UNCHANGED <<mQueuedModifications, dialogs, store>>
  /\ \A i \in Items : mModificationsInProgress'[i] # mModificationsInProgress[i] =>
       mModificationsInProgress[i] = NoChange /\ mModificationsInProgress'[i] = c

\* An id that is new was not applied.
LEMMA NewIsNotApplied ==
  ASSUME IInv, FateInv, NEW c \in Changes, c = mLatestChangeId + 1
  PROVE  c \notin store.applied
BY NextIdIsFresh DEF FateInv, AppliedIsOver

LEMMA NewCallFate ==
  ASSUME IInv, FateInv, NEW c \in Changes, NewCall(c), NEW S \in {{}, {c}}, AnswersTruly(S),
         S = {} => changes'[c].type # "none" /\ c \in mChangeById',
         S = {c} => mChangeForJob'[c] = "none"
  PROVE  FateInv'
<1>1. /\ changes[c].type = "none" /\ c \notin mChangeById /\ ~Busy(c) /\ answers[c] = <<>>
      /\ c \notin store.applied
  BY NextIdIsFresh, NewIsNotApplied DEF NewCall
<1>2. \A d \in Changes : /\ InDialog(d)' <=> InDialog(d)
                         /\ d # c => (Busy(d)' <=> Busy(d))
  BY DEF NewCall, InDialog, Busy
<1>3. AppliedIsOver'
  <2>1. \A d \in Changes : d \in store.applied => d # c
    BY <1>1
  <2> QED BY <1>2, <2>1 DEF NewCall, FateInv, AppliedIsOver
<1>4. JobTellsFate'
  BY DEF NewCall, FateInv, JobTellsFate
<1>5. HandledTellsFate'
  BY DEF NewCall, FateInv, HandledTellsFate, AnswersTruly
<1>6. BusyIsUnanswered'
  <2>1. ASSUME NEW d \in Changes, Busy(d)'
        PROVE  answers'[d] = <<>>
    <3>1. CASE d = c
      <4>1. S = {}
        BY <1>1, <1>2, <2>1, <3>1 DEF Busy
      <4> QED BY <1>1, <3>1, <4>1 DEF AnswersTruly
    <3>2. CASE d # c
      BY <1>2, <2>1, <3>2 DEF FateInv, BusyIsUnanswered, AnswersTruly
    <3> QED BY <3>1, <3>2
  <2> QED BY <2>1 DEF BusyIsUnanswered
<1>7. DialogsTellOfFailure'
  BY DEF NewCall, FateInv, DialogsTellOfFailure
<1>8. DiscardedHasNewer'
  BY <1>1 DEF NewCall, FateInv, DiscardedHasNewer
<1>9. AnswerIsTrue'
  BY <1>1, <1>8, TruthStays DEF NewCall, FateInv
<1> QED BY <1>3, <1>4, <1>5, <1>6, <1>7, <1>8, <1>9 DEF FateInv

\* ... and nothing else is destroyed.
LEMMA NewCallAnswers ==
  ASSUME IInv, FateInv, NEW c \in Changes, NewCall(c),
         NEW emitted \in Emission, Signals(emitted),
         \A d \in Changes \ {c} : emitted[d] = <<>>,
         NEW S \in {{}, {c}},
         S = {} => changes'[c].type # "none" /\ c \in mChangeById' /\ emitted[c] = <<>>,
         S = {c} =>
           /\ mChangeForJob'[c] = "none"
           /\ \/ \E code \in Failures : emitted[c] = <<code>>
              \/ /\ emitted[c] = <<>> /\ changes'[c].type # "none" /\ c \notin mChangeById'
                 /\ changes'[c].resultCode # "Success"
                 /\ UNCHANGED mModificationsInProgress
  PROVE  FateInv' /\ AnswersTruly(S)
<1>1. /\ changes[c].type = "none" /\ c \notin mChangeById /\ ~Busy(c) /\ answers[c] = <<>>
      /\ c \notin store.applied
      /\ \A i \in Items : c \notin {mQueuedModifications[i], mModificationsInProgress[i]}
  BY NextIdIsFresh, NewIsNotApplied DEF NewCall
<1>2. \A d \in Changes : InDialog(d)' <=> InDialog(d)
  BY DEF NewCall, InDialog
<1>3. ASSUME NEW d \in Changes, d # c
      PROVE  ~Destroyed(d)
  <2>1. ASSUME NEW i \in Items, mModificationsInProgress[i] = d
        PROVE  mModificationsInProgress'[i] = d
    BY <2>1 DEF NewCall, Changes, NoChange
  <2>2. Held(d) => Held(d)'
    BY <1>2, <1>3, <2>1 DEF NewCall, Held
  <2> QED BY <1>3, <2>2 DEF NewCall, Destroyed
<1>4. S \in SUBSET Changes /\ ChangerTypeOK /\ changes' \in [Changes -> ChangeObject]
  BY DEF NewCall, IInv
<1>5. CASE S = {}
  <2>1. ~Destroyed(c)
    BY <1>5 DEF Destroyed, Held
  <2>2. AnswersTruly(S)
    BY <1>3, <1>4, <1>5, <2>1, SignalsAnswer
  <2> QED BY <1>5, <2>2, NewCallFate
<1>6. CASE S = {c}
  <2>1. ASSUME emitted[c] = <<>>, c \notin mChangeById', changes'[c].type # "none",
               UNCHANGED mModificationsInProgress
        PROVE  Destroyed(c)
    <3>1. ~Held(c)'
      BY <1>1, <1>2, <1>6, <2>1 DEF NewCall, Held, Busy
    <3> QED BY <1>1, <2>1, <3>1 DEF Destroyed
  <2>2. AnswersTruly(S)
    BY <1>1, <1>3, <1>4, <1>6, <2>1, SignalsAnswer
  <2> QED BY <1>6, <2>2, NewCallFate
<1> QED BY <1>5, <1>6

\* What the calls prove: the call is new, and answered at once or not.
CallIsTrue(c) == NewCall(c) /\ FateInv' /\ \E S \in {{}, {c}} : AnswersTruly(S)

LEMMA CreateFate ==
  ASSUME IInv, FateInv, NEW c \in Changes, CreateIncidence(c)
  PROVE  CallIsTrue(c)
<1> DEFINE ch == Change("create", {}, 0, 0, "Success")
<1>1. ch \in ChangeObject /\ ch.type = "create" /\ ch.resultCode = "Success"
  BY DEF Change, ChangeObject, Codes
<1> HIDE DEF ch
<1>2. ChangerTypeOK
  BY DEF IInv
<1>3. /\ c = mLatestChangeId + 1 /\ mLatestChangeId' = c
      /\ changes' = [changes EXCEPT ![c] = ch]
      /\ mChangeForJob' = [mChangeForJob EXCEPT ![c] = "running"]
      /\ mChangeById' = mChangeById \cup {c}
      /\ UNCHANGED <<mQueuedModifications, mModificationsInProgress, dialogs, store>>
      /\ Signals(NoSignal)
  BY DEF CreateIncidence, Construct, ch
<1>4. changes' \in [Changes -> ChangeObject] /\ changes'[c] = ch
  BY <1>1, <1>2, <1>3 DEF ChangerTypeOK, ChangeObject
<1>5. NewCall(c)
  BY <1>1, <1>2, <1>3, <1>4 DEF NewCall, ChangerTypeOK, JobStates
<1>6. FateInv' /\ AnswersTruly({})
  BY <1>1, <1>3, <1>4, <1>5, NoSignalEmission, NewCallAnswers
<1> QED BY <1>5, <1>6 DEF CallIsTrue

LEMMA DeleteFate ==
  ASSUME IInv, FateInv, NEW c \in Changes, DeleteIncidences(c)
  PROVE  CallIsTrue(c)
<1>1. PICK s \in ItemLists : Construct(c, Change("delete", ToSet(s), 0, 0, "Success"))
  BY DEF DeleteIncidences
<1> DEFINE ch == Change("delete", ToSet(s), 0, 0, "Success")
<1>2. ToSet(s) \in SUBSET Items
  BY DEF ItemLists, ToSet
<1>3. ch \in ChangeObject /\ ch.type = "delete" /\ ch.resultCode = "Success"
  BY <1>2 DEF Change, ChangeObject, Codes
<1>4. ChangerTypeOK
  BY DEF IInv
<1>5. changes' = [changes EXCEPT ![c] = ch]
  BY <1>1 DEF Construct
<1> HIDE DEF ch
<1>6. /\ c = mLatestChangeId + 1 /\ mLatestChangeId' = c
      /\ mChangeForJob' = [mChangeForJob EXCEPT ![c] = "running"]
      /\ mChangeById' = mChangeById \cup {c}
      /\ UNCHANGED <<mQueuedModifications, mModificationsInProgress, dialogs, store>>
      /\ Signals(NoSignal)
  BY <1>1 DEF DeleteIncidences, Construct
<1>7. changes' \in [Changes -> ChangeObject] /\ changes'[c] = ch
  BY <1>3, <1>4, <1>5 DEF ChangerTypeOK, ChangeObject
<1>8. NewCall(c)
  BY <1>3, <1>4, <1>5, <1>6, <1>7 DEF NewCall, ChangerTypeOK, JobStates
<1>9. FateInv' /\ AnswersTruly({})
  BY <1>3, <1>6, <1>7, <1>8, NoSignalEmission, NewCallAnswers
<1> QED BY <1>8, <1>9 DEF CallIsTrue

\* A refused creation or deletion is answered by the destructor of its change.
LEMMA RefusedFate ==
  ASSUME IInv, FateInv, NEW c \in Changes, CreateRefused(c) \/ DeleteRefused(c)
  PROVE  CallIsTrue(c)
<1>1. PICK type \in {"create", "delete"}, code \in Failures :
        Construct(c, Change(type, {}, 0, 0, code))
  BY DEF CreateRefused, DeleteRefused, Failures
<1> DEFINE ch == Change(type, {}, 0, 0, code)
<1>2. /\ ch \in ChangeObject /\ ch.type # "none"
      /\ ch.resultCode \notin {"Success", "ModificationDiscarded"}
  BY DEF Change, ChangeObject, Codes, Failures
<1>3. ChangerTypeOK
  BY DEF IInv
<1>4. /\ c = mLatestChangeId + 1 /\ mLatestChangeId' = c
      /\ changes' = [changes EXCEPT ![c] = ch]
      /\ UNCHANGED <<mChangeById, mChangeForJob, mQueuedModifications,
                     mModificationsInProgress, dialogs, store>>
      /\ Signals(NoSignal)
  BY <1>1 DEF CreateRefused, DeleteRefused, Construct
<1> HIDE DEF ch
<1>5. changes' \in [Changes -> ChangeObject] /\ changes'[c] = ch
  BY <1>2, <1>3, <1>4 DEF ChangerTypeOK, ChangeObject
<1>6. c \notin mChangeById /\ mChangeForJob[c] = "none"
  BY <1>4, NextIdIsFresh DEF Busy
<1>7. NewCall(c)
  BY <1>2, <1>3, <1>4, <1>5, <1>6 DEF NewCall, ChangerTypeOK
<1>8. FateInv' /\ AnswersTruly({c})
  BY <1>2, <1>4, <1>5, <1>6, <1>7, NoSignalEmission, NewCallAnswers
<1> QED BY <1>7, <1>8 DEF CallIsTrue

LEMMA ModifyRefusedFate ==
  ASSUME IInv, FateInv, NEW c \in Changes, ModifyRefused(c)
  PROVE  CallIsTrue(c)
<1>1. /\ c = mLatestChangeId + 1 /\ mLatestChangeId' = c
      /\ UNCHANGED <<changes, mChangeById, mChangeForJob, mQueuedModifications,
                     mModificationsInProgress, dialogs, store>>
      /\ Signals(Signal(c, "Permissions"))
  BY DEF ModifyRefused
<1>2. ChangerTypeOK /\ changes' \in [Changes -> ChangeObject]
  BY <1>1 DEF IInv, ChangerTypeOK, ChangeObject
<1>3. c \notin mChangeById /\ mChangeForJob[c] = "none"
  BY <1>1, NextIdIsFresh DEF Busy
<1>4. NewCall(c)
  BY <1>1, <1>2, <1>3 DEF NewCall, ChangerTypeOK
<1>5. /\ Signal(c, "Permissions") \in Emission /\ Signal(c, "Permissions")[c] = <<"Permissions">>
      /\ \A d \in Changes : d # c => Signal(c, "Permissions")[d] = <<>>
  BY SignalEmission DEF Codes
<1>6. FateInv' /\ AnswersTruly({c})
  BY <1>1, <1>3, <1>4, <1>5, NewCallAnswers DEF Failures
<1> QED BY <1>4, <1>6 DEF CallIsTrue

LEMMA ModifyDeletedFate ==
  ASSUME IInv, FateInv, NEW c \in Changes, NEW i \in Items, NEW r \in Nat,
         ModifyDeleted(c, i, r), UNCHANGED <<dialogs, store>>
  PROVE  CallIsTrue(c)
<1> DEFINE ch == Change("modify", {i}, r, 0, "Success")
<1>1. ch \in ChangeObject /\ ch.resultCode = "Success"
  BY NewModificationType DEF Change
<1>2. ChangerTypeOK
  BY DEF IInv
<1>3. /\ c = mLatestChangeId + 1 /\ mLatestChangeId' = c
      /\ changes' = [changes EXCEPT ![c] = ch]
      /\ mChangeById' = mChangeById \cup {c}
      /\ UNCHANGED <<mChangeForJob, mQueuedModifications, mModificationsInProgress>>
      /\ Signals(Signal(c, "AlreadyDeleted"))
  BY DEF ModifyDeleted, Construct
<1> HIDE DEF ch
<1>4. changes' \in [Changes -> ChangeObject] /\ changes'[c] = ch
  BY <1>1, <1>2, <1>3 DEF ChangerTypeOK, ChangeObject
<1>5. mChangeForJob[c] = "none"
  BY <1>3, NextIdIsFresh DEF Busy
<1>6. NewCall(c)
  BY <1>1, <1>2, <1>3, <1>4, <1>5 DEF NewCall, ChangerTypeOK
<1>7. /\ Signal(c, "AlreadyDeleted") \in Emission
      /\ Signal(c, "AlreadyDeleted")[c] = <<"AlreadyDeleted">>
      /\ \A d \in Changes : d # c => Signal(c, "AlreadyDeleted")[d] = <<>>
  BY SignalEmission DEF Codes
<1>8. FateInv' /\ AnswersTruly({c})
  BY <1>3, <1>5, <1>6, <1>7, NewCallAnswers DEF Failures
<1> QED BY <1>6, <1>8 DEF CallIsTrue

\* A new modification as performModification2() prepares it.
LEMMA NewPrepared ==
  ASSUME ChangerTypeOK, NEW i \in Items, NEW r \in Nat
  PROVE  LET ch == Prepared(Change("modify", {i}, r, 0, "Success"))
         IN  /\ ch \in ChangeObject /\ ch.type = "modify" /\ ch.items = {i}
             /\ ch.resultCode = "Success"
             /\ ch.revision = IF latestRevisionByItemId[i] > r THEN latestRevisionByItemId[i]
                                                              ELSE r
<1> DEFINE new == Change("modify", {i}, r, 0, "Success")
<1>1. /\ new \in ChangeObject /\ new.type = "modify" /\ new.items = {i}
      /\ new.resultCode = "Success" /\ new.revision = r
  BY NewModificationType DEF Change
<1>2. ItemOf(new) = i
  <2>1. \A j \in Items : new.items = {j} => j = i
    BY <1>1
  <2> QED BY <1>1, <2>1 DEF ItemOf
<1> HIDE DEF new
<1>3. Prepared(new) \in ChangeObject /\ Prepared(new).type = "modify" /\ Prepared(new).items = {i}
  BY <1>1, PreparedType
<1>4. /\ Prepared(new).resultCode = new.resultCode
      /\ Prepared(new).revision = IF latestRevisionByItemId[i] > new.revision
                                  THEN latestRevisionByItemId[i] ELSE new.revision
  BY <1>1, <1>2 DEF Prepared, ChangeObject
<1> QED BY <1>1, <1>3, <1>4 DEF new

LEMMA ModifyStartedFate ==
  ASSUME IInv, FateInv, NEW c \in Changes, NEW i \in Items, NEW r \in Nat,
         ModifyStarted(c, i, r), UNCHANGED <<dialogs, store>>
  PROVE  CallIsTrue(c)
<1> DEFINE ch == Prepared(Change("modify", {i}, r, 0, "Success"))
<1>1. ChangerTypeOK
  BY DEF IInv
<1>2. ch \in ChangeObject /\ ch.type = "modify" /\ ch.resultCode = "Success"
  BY <1>1, NewPrepared
<1>3. /\ c = mLatestChangeId + 1 /\ mLatestChangeId' = c
      /\ changes' = [changes EXCEPT ![c] = ch]
      /\ mChangeById' = mChangeById \cup {c}
      /\ mChangeForJob' = [mChangeForJob EXCEPT ![c] = "running"]
      /\ mModificationsInProgress[i] = NoChange
      /\ mModificationsInProgress' = [mModificationsInProgress EXCEPT ![i] = c]
      /\ UNCHANGED mQueuedModifications
      /\ Signals(NoSignal)
  BY DEF ModifyStarted, Construct, ModificationUnderway
<1> HIDE DEF ch
<1>4. changes' \in [Changes -> ChangeObject] /\ changes'[c] = ch
  BY <1>1, <1>2, <1>3 DEF ChangerTypeOK, ChangeObject
<1>5. NewCall(c)
  BY <1>1, <1>2, <1>3, <1>4 DEF NewCall, ChangerTypeOK, JobStates
<1>6. FateInv' /\ AnswersTruly({})
  BY <1>2, <1>3, <1>4, <1>5, NoSignalEmission, NewCallAnswers
<1> QED BY <1>5, <1>6 DEF CallIsTrue

\* What is discarded is answered, and lives on in no other place.
LEMMA ModifyQueuedFate ==
  ASSUME IInv, FateInv, NEW c \in Changes, NEW i \in Items, NEW r \in Nat,
         ModifyQueued(c, i, r), UNCHANGED <<dialogs, store>>
  PROVE  FateInv' /\ AnswersTruly({mQueuedModifications[i]} \cap Changes)
<1> DEFINE ch == Prepared(Change("modify", {i}, r, 0, "Success"))
<1>1. ChangerTypeOK /\ ActiveIsUnanswered
  BY DEF IInv
<1>0. PICK g \in Changes \cup {NoChange} : g = mQueuedModifications[i]
  BY <1>1 DEF ChangerTypeOK
<1> DEFINE S == {g} \cap Changes
<1>2. /\ ch \in ChangeObject /\ ch.type = "modify" /\ ch.resultCode = "Success"
      /\ ch.items = {i}
  BY <1>1, NewPrepared
<1>3. /\ c = mLatestChangeId + 1 /\ mLatestChangeId' = c
      /\ mQueuedModifications' = [mQueuedModifications EXCEPT ![i] = c]
      /\ mChangeById' = (mChangeById \cup {c}) \ {g}
      /\ changes' = [x \in Changes |->
                       IF x = c THEN ch
                       ELSE IF x = g THEN [changes[x] EXCEPT !.resultCode = "ModificationDiscarded"]
                                     ELSE changes[x]]
      /\ UNCHANGED <<mChangeForJob, mModificationsInProgress>>
      /\ Signals(NoSignal)
  BY <1>0 DEF ModifyQueued, QueueModification
<1>4. /\ changes[c].type = "none" /\ c \notin mChangeById /\ ~Busy(c) /\ answers[c] = <<>>
      /\ c \notin store.applied /\ c > mLatestChangeId
      /\ \A j \in Items : c \notin {mQueuedModifications[j], mModificationsInProgress[j]}
  BY <1>3, NextIdIsFresh, NewIsNotApplied
<1>5. g \in Changes \cup {NoChange} /\ g # c
  BY <1>0, <1>4
<1>6. g \in Changes =>
        /\ OfItem(g, i) /\ g \in mChangeById /\ ~Busy(g) /\ answers[g] = <<>>
        /\ g \notin store.applied /\ g < c
        /\ \A j \in Items : j # i => mQueuedModifications[j] # g
        /\ \A j \in Items : mModificationsInProgress[j] # g
  <2>1. ASSUME g \in Changes
        PROVE  /\ OfItem(g, i) /\ g \in mChangeById /\ ~Busy(g)
               /\ mModificationsInProgress[i] # NoChange /\ mModificationsInProgress[i] < g
    BY <1>0, <2>1 DEF IInv, QueuedIsWaiting
  <2>2. ASSUME g \in Changes
        PROVE  answers[g] = <<>>
    BY <1>0, <1>1, <2>1, <2>2 DEF ActiveIsUnanswered, Active, OfItem
  <2>3. ASSUME g \in Changes
        PROVE  g \notin store.applied
    BY <1>0, <2>3 DEF FateInv, AppliedIsOver
  <2>4. ASSUME g \in Changes
        PROVE  g < c
    <3>1. ~(g > mLatestChangeId)
      BY <2>1, <2>4 DEF IInv, FreshIds, OfItem
    <3> QED BY <1>1, <1>4, <2>4, <3>1 DEF ChangerTypeOK, Changes
  <2>5. ASSUME g \in Changes, NEW j \in Items, mQueuedModifications[j] = g
        PROVE  j = i
    <3>1. OfItem(g, j)
      BY <2>5 DEF IInv, QueuedIsWaiting
    <3> QED BY <2>1, <2>5, <3>1 DEF OfItem
  <2>6. ASSUME g \in Changes, NEW j \in Items, mModificationsInProgress[j] = g
        PROVE  FALSE
    <3>1. OfItem(g, j)
      BY <2>6 DEF IInv, InProgressIsBusy
    <3>2. j = i
      BY <2>1, <2>6, <3>1 DEF OfItem
    <3> QED BY <2>1, <2>6, <3>2 DEF Changes
  <2> QED BY <2>1, <2>2, <2>3, <2>4, <2>5, <2>6
<1> HIDE DEF ch
<1>7. changes' \in [Changes -> ChangeObject]
  <2>1. \A x \in Changes : [changes[x] EXCEPT !.resultCode = "ModificationDiscarded"] \in ChangeObject
    BY <1>1 DEF ChangerTypeOK, ChangeObject, Codes
  <2>2. \A x \in Changes : changes[x] \in ChangeObject
    BY <1>1 DEF ChangerTypeOK, ChangeObject
  <2> QED BY <1>2, <1>3, <2>1, <2>2
<1>8. /\ changes'[c] = ch
      /\ g \in Changes => /\ changes'[g].resultCode = "ModificationDiscarded"
                          /\ changes'[g].type = "modify" /\ changes'[g].items = {i}
      /\ \A d \in Changes : d # c /\ d # g => changes'[d] = changes[d]
  BY <1>1, <1>3, <1>5, <1>6 DEF ChangerTypeOK, OfItem
<1>9. \A d \in Changes : (InDialog(d)' <=> InDialog(d)) /\ (Busy(d)' <=> Busy(d))
  BY <1>3 DEF InDialog, Busy
<1>10. g \in Changes => Destroyed(g)
  <2>1. ASSUME g \in Changes
        PROVE  Held(g) /\ ~Held(g)'
    <3>1. \A j \in Items : mQueuedModifications'[j] # g
      BY <1>1, <1>3, <1>5, <1>6, <2>1 DEF ChangerTypeOK
    <3>2. g \notin mChangeById' /\ ~Busy(g)'
      BY <1>3, <1>6, <1>9, <2>1
    <3>3. ~Held(g)'
      BY <1>3, <1>6, <2>1, <3>1, <3>2 DEF Held, Busy
    <3> QED BY <1>6, <2>1, <3>3 DEF Held
  <2> QED BY <2>1 DEF Destroyed
<1>11. \A d \in Changes : d # g => ~Destroyed(d)
  <2>1. ASSUME NEW d \in Changes, d # g
        PROVE  ~Destroyed(d)
    <3>1. CASE d = c
      <4>1. Held(c)'
        BY <1>3, <1>5 DEF Held
      <4> QED BY <3>1, <4>1 DEF Destroyed
    <3>2. CASE d # c
      <4>1. \A j \in Items : mQueuedModifications[j] = d => mQueuedModifications'[j] = d
        BY <1>0, <1>1, <1>3, <2>1 DEF ChangerTypeOK
      <4>2. Held(d) => Held(d)'
        BY <1>3, <1>9, <2>1, <3>2, <4>1 DEF Held
      <4> QED BY <1>8, <2>1, <3>2, <4>2 DEF Destroyed
    <3> QED BY <3>1, <3>2
  <2> QED BY <2>1
<1>12. AnswersTruly(S)
  <2>1. NoSignal \in Emission /\ \A d \in Changes : NoSignal[d] = <<>>
    BY NoSignalEmission
  <2> QED BY <1>1, <1>3, <1>6, <1>7, <1>8, <1>10, <1>11, <2>1, SignalsAnswer
<1>13. AppliedIsOver'
  <2>1. ASSUME NEW d \in Changes, d \in store.applied
        PROVE  d # c /\ d # g
    BY <1>4, <1>6, <2>1
  <2>2. \A d \in Changes, j \in Items : d # c /\ mQueuedModifications[j] # d
                                          => mQueuedModifications'[j] # d
    BY <1>1, <1>3 DEF ChangerTypeOK
  <2> QED BY <1>3, <1>8, <1>9, <2>1, <2>2 DEF FateInv, AppliedIsOver
<1>14. JobTellsFate' /\ DialogsTellOfFailure'
  BY <1>3 DEF FateInv, JobTellsFate, DialogsTellOfFailure
<1>15. HandledTellsFate'
  BY <1>3, <1>5, <1>8, <1>12 DEF FateInv, HandledTellsFate, AnswersTruly
<1>16. BusyIsUnanswered'
  BY <1>6, <1>9, <1>12 DEF FateInv, BusyIsUnanswered, AnswersTruly
<1>17. DiscardedHasNewer'
  <2>1. ASSUME NEW d \in Changes, changes'[d].resultCode = "ModificationDiscarded"
        PROVE  \E e \in Changes : e > d /\ changes'[e].type = "modify"
                                        /\ changes'[e].items = changes'[d].items
    <3>1. CASE d = g
      BY <1>2, <1>5, <1>6, <1>8, <3>1
    <3>2. CASE d # g
      <4>1. d # c /\ changes'[d] = changes[d]
        BY <1>2, <1>8, <2>1, <3>2
      <4>2. PICK e \in Changes : e > d /\ changes[e].type = "modify"
                                       /\ changes[e].items = changes[d].items
        BY <2>1, <4>1 DEF FateInv, DiscardedHasNewer
      <4>3. changes'[e].type = "modify" /\ changes'[e].items = changes[e].items
        BY <1>4, <1>6, <1>8, <4>2 DEF OfItem
      <4> QED BY <4>1, <4>2, <4>3
    <3> QED BY <3>1, <3>2
  <2> QED BY <2>1 DEF DiscardedHasNewer
<1>18. AnswerIsTrue'
  <2>1. ASSUME NEW d \in Changes, changes[d].type = "modify" \/ answers[d] # <<>>
        PROVE  /\ changes'[d].items = changes[d].items
               /\ changes[d].type = "modify" => changes'[d].type = "modify"
    BY <1>4, <1>6, <1>8, <2>1 DEF OfItem
  <2> QED BY <1>12, <1>17, <2>1, TruthStays DEF FateInv
<1> QED BY <1>0, <1>12, <1>13, <1>14, <1>15, <1>16, <1>17, <1>18 DEF FateInv

-----------------------------------------------------------------------------
(* The handlers of the jobs.                                               *)

LEMMA BusyFacts ==
  ASSUME IInv, FateInv, NEW c \in Changes, Busy(c)
  PROVE  /\ changes[c].type # "none" /\ c \in mChangeById /\ answers[c] = <<>>
         /\ c <= mLatestChangeId
         /\ \A i \in Items : mQueuedModifications[i] # c
<1>1. changes[c].type # "none" /\ c \in mChangeById
  BY DEF IInv, BusyIsKnown
<1>2. answers[c] = <<>>
  BY DEF FateInv, BusyIsUnanswered
<1>3. c <= mLatestChangeId
  BY <1>1 DEF IInv, FreshIds, ChangerTypeOK, Changes
<1>4. \A i \in Items : mQueuedModifications[i] # c
  BY DEF IInv, QueuedIsWaiting
<1> QED BY <1>1, <1>2, <1>3, <1>4

\* The handler of the job of c returns: c is no longer busy, and holds its answer.
HandlerReturned(c) ==
  /\ Busy(c)
  /\ \A d \in Changes : Busy(d)' <=> Busy(d) /\ d # c
  /\ \A d \in Changes : d # c =>
        /\ InDialog(d)' <=> InDialog(d)
        /\ mChangeForJob'[d] = mChangeForJob[d]
        /\ changes'[d] = changes[d]
  /\ changes' \in [Changes -> ChangeObject]
  /\ changes'[c].type = changes[c].type /\ changes'[c].items = changes[c].items
  /\ changes'[c].resultCode = "Success" <=> c \in store.applied
  /\ changes'[c].resultCode # "ModificationDiscarded"
  /\ mChangeById' = mChangeById \ {c}
  /\ UNCHANGED <<mLatestChangeId, mQueuedModifications, mModificationsInProgress, store>>

LEMMA HandlerFate ==
  ASSUME IInv, FateInv, NEW c \in Changes, HandlerReturned(c), DialogsTellOfFailure',
         NEW S \in {{}, {c}}, AnswersTruly(S)
  PROVE  FateInv'
<1>1. /\ Busy(c) /\ ~Busy(c)' /\ changes[c].type # "none"
      /\ UNCHANGED <<mQueuedModifications, store>>
  BY BusyFacts DEF HandlerReturned
<1>2. \A d \in Changes : changes'[d].type = changes[d].type /\ changes'[d].items = changes[d].items
  BY DEF HandlerReturned
<1>3. AppliedIsOver'
  <2>1. ASSUME NEW d \in Changes, d \in store.applied
        PROVE  mChangeForJob'[d] \in {"none", "succeeded"} /\ ~InDialog(d)'
    <3>1. CASE d = c
      BY <1>1, <3>1 DEF Busy
    <3>2. CASE d # c
      BY <2>1, <3>2 DEF HandlerReturned, FateInv, AppliedIsOver
    <3> QED BY <3>1, <3>2
  <2> QED BY <1>1, <1>2, <2>1 DEF FateInv, AppliedIsOver
<1>4. JobTellsFate'
  <2>1. ASSUME NEW d \in Changes, mChangeForJob'[d] = "succeeded"
        PROVE  d \in store.applied
    <3>1. d # c
      BY <1>1, <2>1 DEF Busy
    <3> QED BY <2>1, <3>1 DEF HandlerReturned, FateInv, JobTellsFate
  <2> QED BY <1>1, <2>1 DEF JobTellsFate
<1>5. HandledTellsFate'
  BY DEF HandlerReturned, FateInv, HandledTellsFate, AnswersTruly
<1>6. BusyIsUnanswered'
  BY DEF HandlerReturned, FateInv, BusyIsUnanswered, AnswersTruly
<1>7. DiscardedHasNewer'
  BY <1>2 DEF HandlerReturned, FateInv, DiscardedHasNewer
<1>8. AnswerIsTrue'
  BY <1>1, <1>2, <1>7, TruthStays DEF FateInv
<1> QED BY <1>3, <1>4, <1>5, <1>6, <1>7, <1>8 DEF FateInv

\* Every step but those of the server: FateInv goes on, and every change it answers was
\* asked for.
AnswersGiven == FateInv' /\ \E S \in SUBSET Changes : /\ AnswersTruly(S)
                                                      /\ \A d \in S : d <= mLatestChangeId

\* ... and is destroyed, and with that answered, unless it is still in progress.
LEMMA HandlerReturnsTruly ==
  ASSUME IInv, FateInv, NEW c \in Changes, HandlerReturned(c), DialogsTellOfFailure',
         \/ UNCHANGED answers
         \/ Signals(NoSignal)
         \/ /\ changes[c].type = "delete" /\ c \notin store.applied
            /\ \E code \in Failures : Signals(Signal(c, code))
  PROVE  AnswersGiven
<1>1. /\ Busy(c) /\ c \in mChangeById /\ answers[c] = <<>> /\ c <= mLatestChangeId
      /\ \A i \in Items : mQueuedModifications[i] # c
      /\ ChangerTypeOK /\ changes' \in [Changes -> ChangeObject]
  BY BusyFacts DEF HandlerReturned, IInv
<1>2. \A d \in Changes : d # c => ~Destroyed(d)
  BY DEF HandlerReturned, Destroyed, Held, Busy
<1>3. ASSUME \E i \in Items : mModificationsInProgress[i] = c
      PROVE  ~Destroyed(c) /\ changes[c].type = "modify"
  <2>1. ~Destroyed(c)
    BY <1>3 DEF HandlerReturned, Destroyed, Held
  <2>2. changes[c].type = "modify"
    BY <1>3 DEF IInv, InProgressIsBusy, OfItem
  <2> QED BY <2>1, <2>2
<1>4. ASSUME \A i \in Items : mModificationsInProgress[i] # c
      PROVE  Destroyed(c)
  BY <1>1, <1>4 DEF HandlerReturned, Destroyed, Held, Busy
<1>5. \E S \in {{}, {c}} : AnswersTruly(S)
  <2>1. CASE UNCHANGED answers
    <3>1. AnswersTruly({})
      BY <2>1 DEF AnswersTruly
    <3> QED BY <3>1
  <2>2. ASSUME Signals(NoSignal), \E i \in Items : mModificationsInProgress[i] = c
        PROVE  AnswersTruly({})
    BY <1>1, <1>2, <1>3, <2>2, NoSignalEmission, SignalsAnswer
  <2>3. ASSUME Signals(NoSignal), \A i \in Items : mModificationsInProgress[i] # c
        PROVE  AnswersTruly({c})
    <3>1. changes'[c].resultCode = "Success" <=> c \in store.applied
      BY DEF HandlerReturned
    <3> QED BY <1>1, <1>2, <1>4, <2>3, <3>1, NoSignalEmission, SignalsAnswer
  <2>4. ASSUME changes[c].type = "delete", c \notin store.applied,
               NEW code \in Failures, Signals(Signal(c, code))
        PROVE  AnswersTruly({c})
    <3>1. code \in Codes
      BY DEF Failures, Codes
    <3>2. /\ Signal(c, code) \in Emission /\ Signal(c, code)[c] = <<code>>
          /\ \A d \in Changes : c # d => Signal(c, code)[d] = <<>>
      BY <3>1, SignalEmission
    <3> QED BY <1>1, <1>2, <2>4, <3>2, SignalsAnswer
  <2> QED BY <2>1, <2>2, <2>3, <2>4
<1>6. PICK S \in {{}, {c}} : AnswersTruly(S)
  BY <1>5
<1>7. FateInv'
  BY <1>6, HandlerFate
<1> QED BY <1>1, <1>6, <1>7 DEF AnswersGiven

LEMMA SuccessReturns ==
  ASSUME IInv, FateInv, NEW c \in Changes,
         \/ HandleCreateJobSuccess(c) \/ HandleDeleteJobSuccess(c) \/ HandleModifyJobSuccess(c)
  PROVE  HandlerReturned(c) /\ DialogsTellOfFailure' /\ Signals(NoSignal) /\ c \in store.applied
<1>1. ChangerTypeOK /\ BusyIsKnown
  BY DEF IInv
<1>2. PICK r \in Nat :
        /\ mChangeForJob[c] = "succeeded"
        /\ mChangeForJob' = [mChangeForJob EXCEPT ![c] = "none"]
        /\ changes' = [changes EXCEPT ![c].revision = r, ![c].resultCode = "Success"]
        /\ mChangeById' = mChangeById \ {c}
        /\ UNCHANGED <<mLatestChangeId, mQueuedModifications, mModificationsInProgress,
                       dialogs, store>>
        /\ Signals(NoSignal)
  <2>1. CASE HandleModifyJobSuccess(c)
    <3>1. changes[c].revision + 1 \in Nat
      BY <1>1 DEF ChangerTypeOK
    <3> QED BY <2>1, <3>1 DEF HandleModifyJobSuccess
  <2>2. CASE HandleCreateJobSuccess(c) \/ HandleDeleteJobSuccess(c)
    <3>1. changes[c].revision \in Nat
      BY <1>1 DEF ChangerTypeOK
    <3>2. [changes EXCEPT ![c].resultCode = "Success"]
            = [changes EXCEPT ![c].revision = changes[c].revision, ![c].resultCode = "Success"]
      BY <1>1, ZenonT(30) DEF ChangerTypeOK
    <3> QED BY <2>2, <3>1, <3>2 DEF HandleCreateJobSuccess, HandleDeleteJobSuccess
  <2> QED BY <2>1, <2>2
<1>3. c \in store.applied
  BY <1>2 DEF FateInv, JobTellsFate
<1>4. /\ changes' \in [Changes -> ChangeObject]
      /\ changes'[c].type = changes[c].type /\ changes'[c].items = changes[c].items
      /\ changes'[c].resultCode = "Success"
      /\ \A d \in Changes : d # c => changes'[d] = changes[d]
  BY <1>1, <1>2 DEF ChangerTypeOK, ChangeObject, Codes
<1>5. /\ Busy(c)
      /\ \A d \in Changes : Busy(d)' <=> Busy(d) /\ d # c
      /\ \A d \in Changes : d # c =>
            (InDialog(d)' <=> InDialog(d)) /\ mChangeForJob'[d] = mChangeForJob[d]
  BY <1>1, <1>2 DEF ChangerTypeOK, BusyIsKnown, Busy, InDialog, JobStates
<1>6. HandlerReturned(c)
  BY <1>2, <1>3, <1>4, <1>5 DEF HandlerReturned
<1>7. DialogsTellOfFailure'
  BY <1>2 DEF FateInv, DialogsTellOfFailure
<1> QED BY <1>2, <1>3, <1>6, <1>7

LEMMA SuccessFate ==
  ASSUME IInv, FateInv, NEW c \in Changes,
         \/ HandleCreateJobSuccess(c) \/ HandleDeleteJobSuccess(c) \/ HandleModifyJobSuccess(c)
  PROVE  AnswersGiven
BY SuccessReturns, HandlerReturnsTruly

\* What follows the message box, wherever the box was opened.
FailureEnds(c, code) ==
  /\ EndFailure(c, code)
  /\ Busy(c) /\ c \notin store.applied
  /\ \A d \in Changes : Busy(d)' <=> Busy(d) /\ d # c
  /\ \A d \in Changes : d # c =>
       (InDialog(d)' <=> InDialog(d)) /\ mChangeForJob'[d] = mChangeForJob[d]
  /\ DialogsTellOfFailure'

LEMMA EndFailureFate ==
  ASSUME IInv, FateInv, NEW c \in Changes, NEW code \in {"AlreadyDeleted", "JobError"},
         FailureEnds(c, code)
  PROVE  HandlerReturned(c) /\ AnswersGiven
<1>1. ChangerTypeOK
  BY DEF IInv
<1>2. /\ changes' = [changes EXCEPT ![c].resultCode = code]
      /\ mChangeById' = mChangeById \ {c}
      /\ UNCHANGED <<mLatestChangeId, mQueuedModifications, mModificationsInProgress, store>>
  BY DEF FailureEnds, EndFailure
<1>3. /\ changes' \in [Changes -> ChangeObject]
      /\ changes'[c].type = changes[c].type /\ changes'[c].items = changes[c].items
      /\ changes'[c].resultCode = code
      /\ \A d \in Changes : d # c => changes'[d] = changes[d]
  <2> DEFINE ch == [changes[c] EXCEPT !.resultCode = code]
  <2>1. changes \in [Changes -> ChangeObject] /\ code \in Codes
    BY <1>1 DEF ChangerTypeOK, ChangeObject, Codes
  <2>2. /\ ch \in ChangeObject /\ ch.type = changes[c].type /\ ch.items = changes[c].items
        /\ ch.resultCode = code
    BY <2>1 DEF ChangeObject
  <2>3. changes' = [changes EXCEPT ![c] = ch]
    BY <1>2
  <2> QED BY <2>1, <2>2, <2>3
<1>4. HandlerReturned(c)
  BY <1>2, <1>3 DEF HandlerReturned, FailureEnds
<1>5. \/ UNCHANGED answers
      \/ Signals(NoSignal)
      \/ changes[c].type = "delete" /\ Signals(Signal(c, code))
  BY DEF FailureEnds, EndFailure
<1>6. code \in Failures
  BY DEF Failures
<1> QED BY <1>4, <1>5, <1>6, HandlerReturnsTruly DEF FailureEnds

LEMMA FailureReportedFate ==
  ASSUME IInv, FateInv, NEW c \in Changes, mChangeForJob[c] = "failed",
         mChangeForJob' = [mChangeForJob EXCEPT ![c] = "none"],
         NEW code \in {"AlreadyDeleted", "JobError"},
         dialogs' = Append(dialogs, [change |-> c, resultCode |-> code]),
         UNCHANGED <<mLatestChangeId, changes, mChangeById, mQueuedModifications,
                     mModificationsInProgress, answers, store>>
  PROVE  AnswersGiven /\ \A d \in Changes : Busy(d)' <=> Busy(d)
<1>1. ChangerTypeOK
  BY DEF IInv
<1> DEFINE entry == [change |-> c, resultCode |-> code]
<1>2. entry \in DialogEntry /\ entry.change = c /\ entry.resultCode = code
  BY DEF DialogEntry, Codes
<1>3. dialogs \in Seq(DialogEntry)
  BY <1>1 DEF ChangerTypeOK, DialogEntry
<1> HIDE DEF entry
<1>4. /\ dialogs' \in Seq(DialogEntry)
      /\ Len(dialogs') = Len(dialogs) + 1
      /\ \A k \in 1 .. Len(dialogs) : dialogs'[k] = dialogs[k]
      /\ dialogs'[Len(dialogs) + 1] = entry
  BY <1>2, <1>3, AppendProperties DEF entry
<1>5. Len(dialogs) \in Nat /\ DOMAIN dialogs = 1 .. Len(dialogs)
      /\ DOMAIN dialogs' = 1 .. Len(dialogs) + 1
  BY <1>3, <1>4
<1>6. \A d \in Changes : InDialog(d)' <=> InDialog(d) \/ d = c
  BY <1>2, <1>4, <1>5 DEF InDialog
<1>7. \A d \in Changes : Busy(d)' <=> Busy(d)
  BY <1>1, <1>6 DEF Busy, ChangerTypeOK
<1>8. DialogsTellOfFailure'
  BY <1>2, <1>4, <1>5 DEF FateInv, DialogsTellOfFailure
<1>9. c \notin store.applied
  BY DEF FateInv, AppliedIsOver
<1>10. AppliedIsOver' /\ JobTellsFate'
  BY <1>1, <1>6, <1>9 DEF FateInv, AppliedIsOver, JobTellsFate, ChangerTypeOK
<1>11. HandledTellsFate' /\ BusyIsUnanswered' /\ DiscardedHasNewer' /\ AnswerIsTrue'
  BY <1>7 DEF FateInv, HandledTellsFate, BusyIsUnanswered, DiscardedHasNewer,
              AnswerIsTrue, DiscardedForNewer
<1>12. AnswersTruly({})
  BY DEF AnswersTruly
<1> QED BY <1>7, <1>8, <1>10, <1>11, <1>12 DEF AnswersGiven, FateInv

\* The error branch ends at once, or stops in a box with nothing else changed.
LEMMA JobFailureFate ==
  ASSUME IInv, FateInv, NEW c \in Changes, HandleJobFailure(c)
  PROVE  /\ AnswersGiven
         /\ \/ \E code \in {"AlreadyDeleted", "JobError"} : FailureEnds(c, code)
            \/ /\ UNCHANGED <<changes, mDeletedItemIds, crashed, store>>
               /\ \A d \in Changes : Busy(d)' <=> Busy(d)
<1>1. ChangerTypeOK /\ BusyIsKnown
  BY DEF IInv
<1> DEFINE code == FailureCode(c)
<1>2. code \in {"AlreadyDeleted", "JobError"}
  BY DEF FailureCode
<1> HIDE DEF code
<1>3. CASE ShowDialogsOnError
  BY <1>2, <1>3, FailureReportedFate DEF HandleJobFailure, code
<1>4. CASE ~ShowDialogsOnError
  <2>1. /\ mChangeForJob[c] = "failed"
        /\ mChangeForJob' = [mChangeForJob EXCEPT ![c] = "none"]
        /\ UNCHANGED dialogs
        /\ EndFailure(c, code)
    BY <1>4 DEF HandleJobFailure, code
  <2>2. /\ Busy(c)
        /\ \A d \in Changes : Busy(d)' <=> Busy(d) /\ d # c
        /\ \A d \in Changes : d # c =>
              (InDialog(d)' <=> InDialog(d)) /\ mChangeForJob'[d] = mChangeForJob[d]
    BY <1>1, <2>1 DEF ChangerTypeOK, BusyIsKnown, Busy, InDialog, JobStates
  <2>3. DialogsTellOfFailure' /\ c \notin store.applied
    BY <2>1 DEF FateInv, DialogsTellOfFailure, AppliedIsOver
  <2>4. FailureEnds(c, code)
    BY <2>1, <2>2, <2>3 DEF FailureEnds
  <2> QED BY <1>2, <2>4, EndFailureFate
<1> QED BY <1>3, <1>4 DEF HandleJobFailure

LEMMA CloseDialogFate ==
  ASSUME IInv, FateInv, CloseErrorDialog
  PROVE  /\ AnswersGiven
         /\ \E c \in Changes : \E code \in {"AlreadyDeleted", "JobError"} : FailureEnds(c, code)
<1>1. ChangerTypeOK /\ BusyIsKnown /\ OneDialogPerChange
  BY DEF IInv
<1>2. dialogs \in Seq(DialogEntry) /\ dialogs # <<>>
  BY <1>1 DEF ChangerTypeOK, DialogEntry, CloseErrorDialog
<1> DEFINE n == Len(dialogs)
           c == dialogs[n].change
           code == dialogs[n].resultCode
<1>3. n \in Nat \ {0} /\ DOMAIN dialogs = 1 .. n
  BY <1>2
<1>4. c \in Changes /\ code \in {"AlreadyDeleted", "JobError"}
  <2>1. dialogs[n] \in DialogEntry
    BY <1>2, <1>3
  <2> QED BY <1>3, <2>1 DEF DialogEntry, FateInv, DialogsTellOfFailure
<1>5. /\ dialogs' = SubSeq(dialogs, 1, n - 1)
      /\ UNCHANGED mChangeForJob
      /\ EndFailure(c, code)
  BY DEF CloseErrorDialog, Front, Last
<1>6. /\ dialogs' \in Seq(DialogEntry)
      /\ DOMAIN dialogs' = 1 .. n - 1
      /\ \A k \in 1 .. n - 1 : dialogs'[k] = dialogs[k]
  BY <1>2, <1>3, <1>5, SubSeqProperties
<1> HIDE DEF n
<1>7. \A d \in Changes : InDialog(d)' <=> InDialog(d) /\ d # c
  BY <1>1, <1>3, <1>6 DEF InDialog, OneDialogPerChange
<1>8. InDialog(c)
  BY <1>3 DEF InDialog
<1>9. DialogsTellOfFailure'
  BY <1>3, <1>6 DEF FateInv, DialogsTellOfFailure
<1>10. c \notin store.applied
  BY <1>4, <1>8 DEF FateInv, AppliedIsOver
<1> HIDE DEF c, code
<1>11. /\ Busy(c)
       /\ \A d \in Changes : Busy(d)' <=> Busy(d) /\ d # c
       /\ \A d \in Changes : d # c =>
             (InDialog(d)' <=> InDialog(d)) /\ mChangeForJob'[d] = mChangeForJob[d]
  BY <1>1, <1>4, <1>5, <1>7, <1>8 DEF Busy, BusyIsKnown
<1>12. FailureEnds(c, code)
  BY <1>5, <1>9, <1>10, <1>11 DEF FailureEnds
<1> QED BY <1>4, <1>12, EndFailureFate

\* The modification that ended is let go of, and so is a waiting one whose item was
\* deleted meanwhile.
LEMMA PerformNextFate ==
  ASSUME IInv, FateInv, NEW i \in Items, PerformNextModification(i)
  PROVE  AnswersGiven
<1>1. ChangerTypeOK /\ ActiveIsUnanswered /\ BusyIsKnown
  BY DEF IInv
<1>2. PICK old \in Changes \cup {NoChange} : old = mModificationsInProgress[i]
  BY <1>1 DEF ChangerTypeOK
<1>3. PICK c \in Changes \cup {NoChange} : c = mQueuedModifications[i]
  BY <1>1 DEF ChangerTypeOK
<1>4. /\ i \in nextPosted
      /\ mQueuedModifications' = [mQueuedModifications EXCEPT ![i] = NoChange]
      /\ UNCHANGED <<mLatestChangeId, mChangeById, dialogs, store>>
  BY DEF PerformNextModification
<1>5. /\ old \in Changes /\ OfItem(old, i) /\ ~Busy(old) /\ answers[old] = <<>>
      /\ old <= mLatestChangeId
  <2>1. old \in Changes
    BY <1>1, <1>2, <1>4 DEF IInv, InProgressIsBusy, ChangerTypeOK
  <2>2. OfItem(old, i) /\ Active(old)
    BY <1>2, <2>1 DEF IInv, InProgressIsBusy, Active
  <2>3. answers[old] = <<>>
    BY <1>1, <2>1, <2>2 DEF ActiveIsUnanswered, OfItem
  <2>4. old <= mLatestChangeId
    BY <1>1, <2>1, <2>2 DEF IInv, FreshIds, OfItem, ChangerTypeOK, Changes
  <2> QED BY <1>4, <2>1, <2>2, <2>3, <2>4 DEF IInv, BusyIsInProgress
<1>6. c \in Changes =>
        /\ OfItem(c, i) /\ c \in mChangeById /\ ~Busy(c) /\ c # old /\ answers[c] = <<>>
        /\ c \notin store.applied /\ c <= mLatestChangeId
  <2>1. ASSUME c \in Changes
        PROVE  /\ OfItem(c, i) /\ c \in mChangeById /\ ~Busy(c) /\ Active(c) /\ old < c
    BY <1>2, <1>3, <2>1 DEF IInv, QueuedIsWaiting, Active
  <2>2. ASSUME c \in Changes
        PROVE  answers[c] = <<>> /\ c \notin store.applied
    BY <1>1, <1>3, <2>1, <2>2 DEF ActiveIsUnanswered, OfItem, FateInv, AppliedIsOver
  <2>3. ASSUME c \in Changes
        PROVE  c <= mLatestChangeId
    BY <1>1, <2>1, <2>3 DEF IInv, FreshIds, OfItem, ChangerTypeOK, Changes
  <2> QED BY <1>5, <2>1, <2>2, <2>3 DEF Changes
<1>7. NoChange \notin Changes
  BY DEF NoChange, Changes
<1>8. \A j \in Items : \A d \in Changes :
        mQueuedModifications'[j] = d => mQueuedModifications[j] = d
  BY <1>1, <1>4, <1>7 DEF ChangerTypeOK
<1>9. \A d \in Changes : InDialog(d)' <=> InDialog(d)
  BY <1>4 DEF InDialog
<1>10. changes[old].type # "none" /\ (c \in Changes => changes[c].type # "none")
  BY <1>5, <1>6 DEF OfItem
<1>11. ASSUME changes' \in [Changes -> ChangeObject],
              \A d \in Changes : /\ changes'[d].type = changes[d].type
                                 /\ changes'[d].items = changes[d].items
                                 /\ changes'[d].resultCode = changes[d].resultCode,
              NEW next \in {c, NoChange},
              mModificationsInProgress' = [mModificationsInProgress EXCEPT ![i] = next],
              NEW emitted \in Emission, Signals(emitted),
              NEW T \in SUBSET ({c} \cap Changes),
              \A d \in T : \E code \in Failures : emitted[d] = <<code>>,
              \A d \in Changes \ T : emitted[d] = <<>>,
              \A d \in Changes : \/ mChangeForJob'[d] = mChangeForJob[d]
                                 \/ d = c /\ T = {} /\ mChangeForJob'[d] = "running"
       PROVE  AnswersGiven
  <2>1. \A d \in Changes : d # old /\ d # c => ~Destroyed(d)
    <3>1. ASSUME NEW d \in Changes, d # old, d # c, NEW j \in Items
          PROVE  /\ mQueuedModifications[j] = d => mQueuedModifications'[j] = d
                 /\ mModificationsInProgress[j] = d => mModificationsInProgress'[j] = d
      BY <1>1, <1>2, <1>3, <1>4, <1>11, <3>1 DEF ChangerTypeOK
    <3>2. \A d \in Changes : d # old /\ d # c => (Held(d) => Held(d)')
      BY <1>4, <1>9, <1>11, <3>1 DEF Held
    <3> QED BY <1>11, <3>2 DEF Destroyed
  <2>2. c \in Changes => ~Destroyed(c)
    BY <1>4, <1>6 DEF Destroyed, Held
  <2>3. old \in mChangeById => ~Destroyed(old)
    BY <1>4 DEF Destroyed, Held
  <2>4. ASSUME old \notin mChangeById
        PROVE  Destroyed(old) /\ (changes'[old].resultCode = "Success" <=> old \in store.applied)
    <3>1. \A j \in Items : mModificationsInProgress'[j] # old
      <4>1. ASSUME NEW j \in Items, mModificationsInProgress[j] = old
            PROVE  j = i
        <5>1. OfItem(old, j)
          BY <1>5, <4>1 DEF IInv, InProgressIsBusy
        <5> QED BY <1>5, <5>1 DEF OfItem
      <4>2. next # old
        BY <1>5, <1>6, <1>7, <1>11
      <4> QED BY <1>1, <1>11, <4>1, <4>2 DEF ChangerTypeOK
    <3>2. \A j \in Items : mQueuedModifications[j] # old
      BY <1>5, <2>4 DEF IInv, QueuedIsWaiting
    <3>3. mChangeForJob'[old] = "none" /\ ~InDialog(old)'
      BY <1>5, <1>6, <1>9, <1>11 DEF Busy
    <3>4. ~Held(old)'
      BY <1>4, <1>5, <1>8, <2>4, <3>1, <3>2, <3>3 DEF Held
    <3>5. Destroyed(old)
      BY <1>2, <1>5, <3>4 DEF Destroyed, Held
    <3> QED BY <1>5, <1>10, <1>11, <2>4, <3>5 DEF FateInv, HandledTellsFate
  <2> DEFINE S == T \cup ({old} \ mChangeById)
  <2>5. S \in SUBSET Changes /\ (\A d \in S : d = c \/ d = old) /\ old \notin T
    BY <1>5, <1>6, <1>11
  <2>6. AnswersTruly(S)
    <3>1. \A d \in S :
            /\ answers[d] = <<>>
            /\ \/ /\ emitted[d] = <<>> /\ Destroyed(d)
                  /\ changes'[d].resultCode = "Success" <=> d \in store.applied
               \/ /\ \E code \in Failures : emitted[d] = <<code>>
                  /\ d \notin store.applied
      BY <1>5, <1>6, <1>11, <2>4, <2>5
    <3>2. \A d \in Changes \ S : emitted[d] = <<>> /\ ~Destroyed(d)
      BY <1>11, <2>1, <2>2, <2>3
    <3> QED BY <1>1, <1>11, <2>5, <3>1, <3>2, SignalsAnswer
  <2> HIDE DEF S
  <2>7. AppliedIsOver' /\ JobTellsFate' /\ DialogsTellOfFailure'
    BY <1>4, <1>6, <1>8, <1>9, <1>11 DEF FateInv, AppliedIsOver, JobTellsFate, DialogsTellOfFailure
  <2>8. HandledTellsFate' /\ DiscardedHasNewer'
    BY <1>4, <1>11, <2>6 DEF FateInv, HandledTellsFate, DiscardedHasNewer, AnswersTruly
  <2>9. BusyIsUnanswered'
    <3>1. ASSUME NEW d \in Changes, Busy(d)'
          PROVE  answers'[d] = <<>>
      <4>1. d \notin S /\ answers[d] = <<>>
        BY <1>5, <1>6, <1>9, <1>11, <2>5, <3>1 DEF FateInv, BusyIsUnanswered, Busy, S
      <4> QED BY <2>6, <4>1 DEF AnswersTruly
    <3> QED BY <3>1 DEF BusyIsUnanswered
  <2>10. AnswerIsTrue'
    BY <1>4, <1>11, <2>5, <2>6, <2>8, TruthStays DEF FateInv
  <2> QED BY <1>5, <1>6, <2>5, <2>6, <2>7, <2>8, <2>9, <2>10 DEF AnswersGiven, FateInv
<1>12. changes \in [Changes -> ChangeObject]
  BY <1>1 DEF ChangerTypeOK, ChangeObject
<1>13. CASE /\ mModificationsInProgress' = [mModificationsInProgress EXCEPT ![i] = NoChange]
            /\ UNCHANGED <<changes, mChangeForJob>>
            /\ Signals(NoSignal)
  <2>1. /\ {} \in SUBSET ({c} \cap Changes) /\ NoChange \in {c, NoChange}
        /\ NoSignal \in Emission /\ \A d \in Changes \ {} : NoSignal[d] = <<>>
    BY NoSignalEmission
  <2> QED BY <1>11, <1>12, <1>13, <2>1
<1>14. CASE /\ c # NoChange
            /\ mModificationsInProgress' = [mModificationsInProgress EXCEPT ![i] = NoChange]
            /\ UNCHANGED <<changes, mChangeForJob>>
            /\ Signals(Signal(c, "AlreadyDeleted"))
  <2>1. /\ c \in Changes
        /\ Signal(c, "AlreadyDeleted") \in Emission
        /\ Signal(c, "AlreadyDeleted")[c] = <<"AlreadyDeleted">>
        /\ \A d \in Changes : c # d => Signal(c, "AlreadyDeleted")[d] = <<>>
    BY <1>14, SignalEmission DEF Codes
  <2>2. {c} \in SUBSET ({c} \cap Changes) /\ "AlreadyDeleted" \in Failures
    BY <2>1 DEF Failures
  <2> QED BY <1>11, <1>12, <1>14, <2>1, <2>2
<1>15. CASE /\ c # NoChange
            /\ mModificationsInProgress' = [mModificationsInProgress EXCEPT ![i] = c]
            /\ changes' = [changes EXCEPT ![c] = Prepared(changes[c])]
            /\ mChangeForJob' = [mChangeForJob EXCEPT ![c] = "running"]
            /\ Signals(NoSignal)
  <2>1. c \in Changes
    BY <1>15
  <2>2. PICK ch \in ChangeObject : ch = Prepared(changes[c])
    BY <1>1, <1>6, <1>12, <2>1, PreparedType DEF OfItem
  <2>3. /\ ch.type = changes[c].type /\ ch.items = changes[c].items
        /\ ch.resultCode = changes[c].resultCode
    BY <1>12, <2>1, <2>2 DEF Prepared, ChangeObject
  <2>4. changes' = [changes EXCEPT ![c] = ch]
    BY <1>15, <2>2
  <2>5. /\ changes' \in [Changes -> ChangeObject]
        /\ \A d \in Changes : /\ changes'[d].type = changes[d].type
                              /\ changes'[d].items = changes[d].items
                              /\ changes'[d].resultCode = changes[d].resultCode
    BY <1>12, <2>1, <2>3, <2>4
  <2>6. \A d \in Changes : \/ mChangeForJob'[d] = mChangeForJob[d]
                           \/ d = c /\ mChangeForJob'[d] = "running"
    BY <1>1, <1>15 DEF ChangerTypeOK
  <2>7. /\ {} \in SUBSET ({c} \cap Changes) /\ c \in {c, NoChange}
        /\ NoSignal \in Emission /\ \A d \in Changes \ {} : NoSignal[d] = <<>>
    BY NoSignalEmission
  <2>8. \A d \in Changes : \/ mChangeForJob'[d] = mChangeForJob[d]
                           \/ d = c /\ {} = {} /\ mChangeForJob'[d] = "running"
    BY <2>6
  <2> QED BY <1>11, <1>15, <2>5, <2>7, <2>8
<1> QED BY <1>3, <1>13, <1>14, <1>15 DEF PerformNextModification

-----------------------------------------------------------------------------
(* The server's steps.                                                     *)

LEMMA ServerFate ==
  ASSUME IInv, StoreTypeOK, FateInv, NEW c \in Changes, Server(c)
  PROVE  FateInv' /\ UNCHANGED answers
<1>1. ChangerTypeOK
  BY DEF IInv
<1>2. PICK result \in {"succeeded", "failed"} :
        /\ Finish(c, result)
        /\ IF result = "succeeded" THEN store'.applied = store.applied \cup {c}
                                   ELSE UNCHANGED store
  BY DEF Server, CreateStored, ModifyStored, DeleteStored, JobFails, StoreTypeOK
<1>3. /\ mChangeForJob[c] = "running"
      /\ mChangeForJob' = [mChangeForJob EXCEPT ![c] = result]
      /\ UNCHANGED <<changes, mChangeById, mQueuedModifications, dialogs, answers>>
  BY <1>2 DEF Finish
<1>4. /\ changes[c].type # "none" /\ c \in mChangeById /\ answers[c] = <<>> /\ ~InDialog(c)
      /\ \A i \in Items : mQueuedModifications[i] # c
      /\ c \notin store.applied
  <2>1. Busy(c)
    BY <1>3 DEF Busy
  <2> QED BY <1>3, <2>1, BusyFacts DEF IInv, BusyIsKnown, FateInv, AppliedIsOver
<1>5. \A d \in Changes : (InDialog(d)' <=> InDialog(d)) /\ (Busy(d)' <=> Busy(d))
  BY <1>1, <1>3 DEF InDialog, Busy, ChangerTypeOK
<1>6. AppliedIsOver'
  <2>1. ASSUME NEW d \in Changes, d \in store'.applied
        PROVE  /\ changes[d].type # "none" /\ ~InDialog(d)
               /\ mChangeForJob'[d] \in {"none", "succeeded"}
               /\ \A i \in Items : mQueuedModifications[i] # d
    <3>1. CASE d = c
      BY <1>1, <1>2, <1>3, <1>4, <2>1, <3>1 DEF ChangerTypeOK
    <3>2. CASE d # c
      BY <1>1, <1>2, <1>3, <2>1, <3>2 DEF FateInv, AppliedIsOver, ChangerTypeOK
    <3> QED BY <3>1, <3>2
  <2> QED BY <1>3, <1>5, <2>1 DEF AppliedIsOver
<1>7. JobTellsFate'
  BY <1>1, <1>2, <1>3 DEF FateInv, JobTellsFate, ChangerTypeOK
<1>8. HandledTellsFate' /\ BusyIsUnanswered' /\ DialogsTellOfFailure' /\ DiscardedHasNewer'
  BY <1>2, <1>3, <1>4, <1>5 DEF FateInv, HandledTellsFate, BusyIsUnanswered,
                                DialogsTellOfFailure, DiscardedHasNewer
<1>9. AnswerIsTrue'
  BY <1>2, <1>3, <1>4 DEF FateInv, AnswerIsTrue, DiscardedForNewer
<1> QED BY <1>3, <1>6, <1>7, <1>8, <1>9 DEF FateInv

\* Steps that leave the pipeline and what was applied alone.
LEMMA StutterFate ==
  ASSUME FateInv, UNCHANGED <<changerVars, answers>>, store'.applied = store.applied
  PROVE  FateInv'
<1>1. \A c \in Changes : (InDialog(c)' <=> InDialog(c)) /\ (Busy(c)' <=> Busy(c))
  BY DEF changerVars, InDialog, Busy
<1>2. AppliedIsOver' /\ JobTellsFate' /\ HandledTellsFate'
  BY <1>1 DEF changerVars, FateInv, AppliedIsOver, JobTellsFate, HandledTellsFate
<1>3. BusyIsUnanswered' /\ DialogsTellOfFailure' /\ DiscardedHasNewer'
  BY <1>1 DEF changerVars, FateInv, BusyIsUnanswered, DialogsTellOfFailure, DiscardedHasNewer
<1>4. AnswerIsTrue'
  BY DEF changerVars, FateInv, AnswerIsTrue, DiscardedForNewer
<1> QED BY <1>2, <1>3, <1>4 DEF FateInv

LEMMA ForeignApplied ==
  ASSUME StoreTypeOK, NEW i \in Items, ForeignWrite(i)
  PROVE  /\ store'.applied = store.applied /\ store'.payload = store.payload
         /\ store'.foreign[i] > 0
         /\ \A j \in Items : j # i => /\ store'.foreign[j] = store.foreign[j]
                                      /\ store'.revision[j] = store.revision[j]
         /\ \A j \in Items : store'.item[j] = "unborn" => store.item[j] = "unborn"
         /\ UNCHANGED <<changerVars, answers>>
<1>1. \E item \in [Items -> {"unborn", "live", "gone"}], revision \in [Items -> Nat] :
        /\ store' = [item     |-> item,
                     revision |-> revision,
                     payload  |-> store.payload,
                     foreign  |-> [store.foreign EXCEPT ![i] = store.foreign[i] + 1],
                     applied  |-> store.applied]
        /\ \A j \in Items : j # i => revision[j] = store.revision[j]
        /\ \A j \in Items : item[j] = "unborn" => store.item[j] = "unborn"
  <2>1. /\ store.item \in [Items -> {"unborn", "live", "gone"}]
        /\ store.revision \in [Items -> Nat] /\ store.revision[i] + 1 \in Nat
    BY DEF StoreTypeOK
  <2>2. CASE store' = [store EXCEPT !.revision[i] = store.revision[i] + 1,
                                    !.foreign[i] = store.foreign[i] + 1]
    <3>1. store' = [item     |-> store.item,
                    revision |-> [store.revision EXCEPT ![i] = store.revision[i] + 1],
                    payload  |-> store.payload,
                    foreign  |-> [store.foreign EXCEPT ![i] = store.foreign[i] + 1],
                    applied  |-> store.applied]
      BY <2>2 DEF StoreTypeOK
    <3> DEFINE revision == [store.revision EXCEPT ![i] = store.revision[i] + 1]
    <3>2. revision \in [Items -> Nat] /\ \A j \in Items : j # i => revision[j] = store.revision[j]
      BY <2>1
    <3> QED BY <2>1, <3>1, <3>2
  <2>3. CASE store' = [store EXCEPT !.item[i] = "gone",
                                    !.foreign[i] = store.foreign[i] + 1]
    <3>1. store' = [item     |-> [store.item EXCEPT ![i] = "gone"],
                    revision |-> store.revision,
                    payload  |-> store.payload,
                    foreign  |-> [store.foreign EXCEPT ![i] = store.foreign[i] + 1],
                    applied  |-> store.applied]
      BY <2>3 DEF StoreTypeOK
    <3> DEFINE item == [store.item EXCEPT ![i] = "gone"]
    <3>2. /\ item \in [Items -> {"unborn", "live", "gone"}]
          /\ \A j \in Items : item[j] = "unborn" => store.item[j] = "unborn"
      BY <2>1
    <3> QED BY <2>1, <3>1, <3>2
  <2> QED BY <2>2, <2>3 DEF ForeignWrite
<1>2. /\ store.foreign[i] + 1 > 0 /\ store.foreign \in [Items -> Nat]
      /\ UNCHANGED <<changerVars, answers>>
  BY DEF StoreTypeOK, ForeignWrite
<1> QED BY <1>1, <1>2

-----------------------------------------------------------------------------
(* Revisions and payloads.                                                 *)

\* A step of change c that cannot spoil what the pipeline knows of the server: it is not
\* about a modification that succeeded, what it starts carries the server's revision and is
\* newer than what the item holds, and what it queues carries no later revision.
Harmless(c) ==
  /\ UNCHANGED <<latestRevisionByItemId, store>>
  /\ mLatestChangeId' >= mLatestChangeId
  /\ \A d \in Changes : d # c =>
       /\ changes'[d].type = changes[d].type /\ changes'[d].items = changes[d].items
       /\ changes'[d].revision = changes[d].revision
       /\ mChangeForJob'[d] = mChangeForJob[d]
  /\ \A i \in Items : \A d \in Changes : d # c /\ mQueuedModifications'[i] = d
       => mQueuedModifications[i] = d
  /\ \A i \in Items : ~Succeeded(c, i) /\ ~Succeeded(c, i)'
  /\ \A i \in Items : store.foreign[i] = 0 =>
       /\ WritesItem(c, i)' /\ mChangeForJob'[c] = "running"
            => changes'[c].revision = store.revision[i]
       /\ mQueuedModifications'[i] = c => changes'[c].revision <= store.revision[i]
  /\ \A i \in Items : \/ mModificationsInProgress'[i] \in {mModificationsInProgress[i], NoChange}
                      \/ /\ mModificationsInProgress'[i] = c
                         /\ store.item[i] # "unborn" /\ store.payload[i] < c
  /\ \A i \in Items : mChangeForJob'[c] = "running" /\ mModificationsInProgress'[i] = c
                        => store.payload[i] < c

LEMMA HarmlessStep ==
  ASSUME ChangerTypeOK, ChangerTypeOK', StoreTypeOK,
         RevisionsFollow, NoSelfConflict, PayloadsAreOlder,
         NEW c \in Changes, Harmless(c)
  PROVE  RevisionsFollow' /\ NoSelfConflict' /\ PayloadsAreOlder'
<1>1. \A d \in Changes : \A i \in Items : d # c => (WritesItem(d, i)' <=> WritesItem(d, i))
  BY DEF Harmless, WritesItem
<1>2. \A d \in Changes : \A i \in Items : Succeeded(d, i)' <=> Succeeded(d, i)
  BY <1>1 DEF Harmless, Succeeded
<1>3. RevisionsFollow'
  <2> SUFFICES ASSUME NEW i \in Items, store.foreign[i] = 0
               PROVE  /\ latestRevisionByItemId[i] <= store.revision[i]
                      /\ \A d \in Changes : Succeeded(d, i) => changes'[d].revision + 1 = store.revision[i]
                      /\ (\A d \in Changes : ~Succeeded(d, i)) =>
                           latestRevisionByItemId[i] = store.revision[i] \/ store.revision[i] = 0
                      /\ \A d \in Changes : mQueuedModifications'[i] = d
                           => changes'[d].revision <= store.revision[i]
    BY <1>2 DEF RevisionsFollow, Harmless
  <2>1. \A d \in Changes : Succeeded(d, i) => changes'[d].revision = changes[d].revision
    BY DEF Harmless
  <2>2. ASSUME NEW d \in Changes, mQueuedModifications'[i] = d
        PROVE  changes'[d].revision <= store.revision[i]
    BY <2>2 DEF RevisionsFollow, Harmless
  <2> QED BY <2>1, <2>2 DEF RevisionsFollow
<1>4. NoSelfConflict'
  BY <1>1 DEF NoSelfConflict, Harmless
<1>5. PayloadsAreOlder'
  <2> SUFFICES ASSUME NEW i \in Items
               PROVE  /\ store.payload[i] <= mLatestChangeId'
                      /\ store.item[i] = "unborn" => store.payload[i] = 0
                                                     /\ mModificationsInProgress'[i] = NoChange
                      /\ \A d \in Changes : mModificationsInProgress'[i] = d =>
                           /\ store.payload[i] <= d
                           /\ mChangeForJob'[d] = "running" => store.payload[i] < d
    BY DEF PayloadsAreOlder, Harmless
  <2>1. store.payload[i] <= mLatestChangeId'
    BY DEF Harmless, PayloadsAreOlder, StoreTypeOK, ChangerTypeOK
  <2>2. store.item[i] = "unborn" => store.payload[i] = 0 /\ mModificationsInProgress'[i] = NoChange
    BY DEF Harmless, PayloadsAreOlder, Changes, NoChange
  <2>3. ASSUME NEW d \in Changes, mModificationsInProgress'[i] = d
        PROVE  /\ store.payload[i] <= d
               /\ mChangeForJob'[d] = "running" => store.payload[i] < d
    <3>1. d # NoChange /\ d \in Int /\ store.payload[i] \in Int
      BY DEF Changes, NoChange, StoreTypeOK
    <3> QED BY <2>3, <3>1 DEF Harmless, PayloadsAreOlder
  <2> QED BY <2>1, <2>2, <2>3
<1> QED BY <1>3, <1>4, <1>5

\* What the steps prove: the three invariants about the server, and no lost update.
ServerKept == /\ RevisionsFollow' /\ NoSelfConflict' /\ PayloadsAreOlder'
              /\ \A i \in Items : store'.payload[i] >= store.payload[i]

LEMMA HarmlessKeeps ==
  ASSUME PipelineInv, ChangerTypeOK', NEW c \in Changes, Harmless(c)
  PROVE  ServerKept
<1>1. /\ ChangerTypeOK /\ StoreTypeOK
      /\ RevisionsFollow /\ NoSelfConflict /\ PayloadsAreOlder
  BY DEF PipelineInv, IInv, ServerInv
<1>2. \A i \in Items : store'.payload[i] >= store.payload[i]
  BY <1>1 DEF Harmless, StoreTypeOK
<1> QED BY <1>1, <1>2, HarmlessStep DEF ServerKept

\* The id of a new call: nobody writes or waits under it.
LEMMA NewIdServer ==
  ASSUME PipelineInv, NEW c \in Changes, c = mLatestChangeId + 1
  PROVE  /\ mChangeForJob[c] = "none" /\ \A i \in Items : ~Succeeded(c, i)
         /\ \A i \in Items : mQueuedModifications[i] # c /\ mModificationsInProgress[i] # c
         /\ \A i \in Items : store.payload[i] < c
<1>1. IInv /\ PayloadsAreOlder /\ StoreTypeOK /\ ChangerTypeOK
  BY DEF PipelineInv, ServerInv, IInv
<1>2. mChangeForJob[c] = "none"
  BY <1>1, NextIdIsFresh DEF Busy
<1>3. \A i \in Items : store.payload[i] < c
  BY <1>1 DEF PayloadsAreOlder, StoreTypeOK, ChangerTypeOK
<1> QED BY <1>1, <1>2, <1>3, NextIdIsFresh DEF Succeeded, WritesItem

\* Calls that start no ItemModifyJob and queue nothing.
LEMMA OtherCallKeeps ==
  ASSUME PipelineInv, ChangerTypeOK', NEW c \in Changes,
         c = mLatestChangeId + 1, mLatestChangeId' = c,
         changes'[c].type # "modify" \/ mChangeForJob'[c] = "none",
         \A d \in Changes : d # c => /\ changes'[d] = changes[d]
                                     /\ mChangeForJob'[d] = mChangeForJob[d],
         UNCHANGED <<mQueuedModifications, mModificationsInProgress,
                     latestRevisionByItemId, store>>
  PROVE  ServerKept
<1>1. /\ mChangeForJob[c] = "none" /\ \A i \in Items : ~Succeeded(c, i)
      /\ \A i \in Items : mQueuedModifications[i] # c /\ mModificationsInProgress[i] # c
  BY NewIdServer
<1>2. \A i \in Items : ~WritesItem(c, i)' /\ ~Succeeded(c, i)'
  BY DEF WritesItem, Succeeded
<1>3. mLatestChangeId' >= mLatestChangeId
  BY DEF PipelineInv, IInv, ChangerTypeOK
<1>4. Harmless(c)
  BY <1>1, <1>2, <1>3 DEF Harmless
<1> QED BY <1>4, HarmlessKeeps

LEMMA CreateDeleteKeeps ==
  ASSUME PipelineInv, ChangerTypeOK', NEW c \in Changes,
         \/ CreateIncidence(c) \/ CreateRefused(c) \/ DeleteIncidences(c) \/ DeleteRefused(c)
  PROVE  ServerKept
<1>1. ChangerTypeOK
  BY DEF PipelineInv, IInv
<1>2. /\ c = mLatestChangeId + 1 /\ mLatestChangeId' = c
      /\ \E ch : ch.type # "modify" /\ changes' = [changes EXCEPT ![c] = ch]
      /\ \A d \in Changes : d # c => mChangeForJob'[d] = mChangeForJob[d]
      /\ UNCHANGED <<mQueuedModifications, mModificationsInProgress,
                     latestRevisionByItemId, store>>
  BY <1>1 DEF CreateIncidence, CreateRefused, DeleteIncidences, DeleteRefused, Construct,
              Change, ChangerTypeOK
<1>3. /\ changes'[c].type # "modify"
      /\ \A d \in Changes : d # c => changes'[d] = changes[d]
  BY <1>1, <1>2 DEF ChangerTypeOK
<1> QED BY <1>2, <1>3, OtherCallKeeps

LEMMA ModifyRefusedKeeps ==
  ASSUME PipelineInv, ChangerTypeOK', NEW c \in Changes, ModifyRefused(c)
  PROVE  ServerKept
<1>1. c = mLatestChangeId + 1 /\ mLatestChangeId' = c
  BY DEF ModifyRefused
<1>2. mChangeForJob[c] = "none"
  BY <1>1, NewIdServer
<1> QED BY <1>1, <1>2, OtherCallKeeps DEF ModifyRefused

LEMMA ModifyDeletedKeeps ==
  ASSUME PipelineInv, ChangerTypeOK', NEW c \in Changes, NEW i \in Items, NEW r \in Nat,
         ModifyDeleted(c, i, r), UNCHANGED <<latestRevisionByItemId, store>>
  PROVE  ServerKept
<1>1. c = mLatestChangeId + 1 /\ mLatestChangeId' = c
  BY DEF ModifyDeleted, Construct
<1>2. mChangeForJob[c] = "none"
  BY <1>1, NewIdServer
<1>3. \A d \in Changes : d # c => changes'[d] = changes[d]
  BY DEF ModifyDeleted, Construct, PipelineInv, IInv, ChangerTypeOK
<1> QED BY <1>1, <1>2, <1>3, OtherCallKeeps DEF ModifyDeleted

\* No ItemModifyJob of the item is under way.
LEMMA FreeItem ==
  ASSUME PipelineInv, NEW i \in Items,
         mModificationsInProgress[i] = NoChange \/ i \in nextPosted,
         store.foreign[i] = 0
  PROVE  latestRevisionByItemId[i] = store.revision[i] \/ store.revision[i] = 0
<1>1. \A d \in Changes : ~Succeeded(d, i)
  BY DEF PipelineInv, IInv, BusyIsInProgress, Succeeded, WritesItem, OfItem, Busy, NoChange, Changes
<1> QED BY <1>1 DEF PipelineInv, ServerInv, RevisionsFollow

LEMMA ModifyStartedKeeps ==
  ASSUME PipelineInv, ChangerTypeOK', NEW c \in Changes, NEW i \in Items,
         NEW r \in 0 .. store.revision[i], store.item[i] # "unborn",
         ModifyStarted(c, i, r), UNCHANGED <<latestRevisionByItemId, store>>
  PROVE  ServerKept
<1> DEFINE ch == Prepared(Change("modify", {i}, r, 0, "Success"))
<1>1. ChangerTypeOK /\ StoreTypeOK
  BY DEF PipelineInv, IInv
<1>2. r \in Nat
  BY <1>1 DEF StoreTypeOK
<1>3. /\ ch \in ChangeObject /\ ch.type = "modify" /\ ch.items = {i}
      /\ ch.revision = IF latestRevisionByItemId[i] > r THEN latestRevisionByItemId[i] ELSE r
  BY <1>1, <1>2, NewPrepared
<1>4. /\ c = mLatestChangeId + 1 /\ mLatestChangeId' = c
      /\ changes' = [changes EXCEPT ![c] = ch]
      /\ mChangeForJob' = [mChangeForJob EXCEPT ![c] = "running"]
      /\ mModificationsInProgress[i] = NoChange
      /\ mModificationsInProgress' = [mModificationsInProgress EXCEPT ![i] = c]
      /\ UNCHANGED mQueuedModifications
  BY DEF ModifyStarted, Construct, ModificationUnderway
<1> HIDE DEF ch
<1>5. /\ mChangeForJob[c] = "none" /\ \A j \in Items : ~Succeeded(c, j)
      /\ \A j \in Items : mQueuedModifications[j] # c /\ mModificationsInProgress[j] # c
      /\ store.payload[i] < c
  BY <1>4, NewIdServer
<1>6. changes'[c] = ch /\ \A d \in Changes : d # c => changes'[d] = changes[d]
  BY <1>1, <1>4 DEF ChangerTypeOK
<1>7. /\ mChangeForJob'[c] = "running"
      /\ \A d \in Changes : d # c => mChangeForJob'[d] = mChangeForJob[d]
  BY <1>1, <1>4 DEF ChangerTypeOK
<1>8. store.foreign[i] = 0 => ch.revision = store.revision[i]
  <2>1. store.foreign[i] = 0 => latestRevisionByItemId[i] <= store.revision[i]
    BY DEF PipelineInv, ServerInv, RevisionsFollow
  <2>2. latestRevisionByItemId[i] \in Int /\ store.revision[i] \in Nat
    BY <1>1 DEF ChangerTypeOK, StoreTypeOK
  <2> QED BY <1>3, <1>4, <2>1, <2>2, FreeItem
<1>9. \A j \in Items : /\ WritesItem(c, j)' => j = i
                       /\ ~Succeeded(c, j)'
  BY <1>3, <1>6, <1>7 DEF WritesItem, Succeeded
<1>10. \A j \in Items : mModificationsInProgress'[j]
                          = IF j = i THEN c ELSE mModificationsInProgress[j]
  BY <1>1, <1>4 DEF ChangerTypeOK
<1>11. mLatestChangeId' >= mLatestChangeId
  BY <1>1, <1>4 DEF ChangerTypeOK
<1>12. Harmless(c)
  BY <1>4, <1>5, <1>6, <1>7, <1>8, <1>9, <1>10, <1>11 DEF Harmless
<1> QED BY <1>12, HarmlessKeeps

LEMMA ModifyQueuedKeeps ==
  ASSUME PipelineInv, ChangerTypeOK', NEW c \in Changes, NEW i \in Items,
         NEW r \in 0 .. store.revision[i],
         ModifyQueued(c, i, r), UNCHANGED <<latestRevisionByItemId, store>>
  PROVE  ServerKept
<1> DEFINE ch == Prepared(Change("modify", {i}, r, 0, "Success"))
<1>1. ChangerTypeOK /\ StoreTypeOK
  BY DEF PipelineInv, IInv
<1>2. r \in Nat
  BY <1>1 DEF StoreTypeOK
<1>3. /\ ch \in ChangeObject /\ ch.type = "modify" /\ ch.items = {i}
      /\ ch.revision = IF latestRevisionByItemId[i] > r THEN latestRevisionByItemId[i] ELSE r
  BY <1>1, <1>2, NewPrepared
<1>4. PICK g \in Changes \cup {NoChange} : g = mQueuedModifications[i]
  BY <1>1 DEF ChangerTypeOK
<1>5. /\ c = mLatestChangeId + 1 /\ mLatestChangeId' = c
      /\ mQueuedModifications' = [mQueuedModifications EXCEPT ![i] = c]
      /\ changes' = [x \in Changes |->
                       IF x = c THEN ch
                       ELSE IF x = g THEN [changes[x] EXCEPT !.resultCode = "ModificationDiscarded"]
                                     ELSE changes[x]]
      /\ UNCHANGED <<mChangeForJob, mModificationsInProgress>>
  BY <1>4 DEF ModifyQueued, QueueModification
<1> HIDE DEF ch
<1>6. /\ mChangeForJob[c] = "none" /\ \A j \in Items : ~Succeeded(c, j)
      /\ \A j \in Items : mQueuedModifications[j] # c /\ mModificationsInProgress[j] # c
  BY <1>5, NewIdServer
<1>7. /\ changes'[c] = ch
      /\ \A d \in Changes : d # c => /\ changes'[d].type = changes[d].type
                                     /\ changes'[d].items = changes[d].items
                                     /\ changes'[d].revision = changes[d].revision
  BY <1>1, <1>5 DEF ChangerTypeOK
<1>8. store.foreign[i] = 0 => ch.revision <= store.revision[i]
  <2>1. store.foreign[i] = 0 => latestRevisionByItemId[i] <= store.revision[i]
    BY DEF PipelineInv, ServerInv, RevisionsFollow
  <2>2. latestRevisionByItemId[i] \in Int /\ store.revision[i] \in Nat
    BY <1>1 DEF ChangerTypeOK, StoreTypeOK
  <2> QED BY <1>3, <2>1, <2>2
<1>9. \A j \in Items : ~WritesItem(c, j)' /\ ~Succeeded(c, j)'
  BY <1>5, <1>6 DEF WritesItem, Succeeded
<1>10. \A j \in Items : mQueuedModifications'[j] = IF j = i THEN c ELSE mQueuedModifications[j]
  BY <1>1, <1>5 DEF ChangerTypeOK
<1>11. mLatestChangeId' >= mLatestChangeId
  BY <1>1, <1>5 DEF ChangerTypeOK
<1>12. Harmless(c)
  BY <1>5, <1>6, <1>7, <1>8, <1>9, <1>10, <1>11 DEF Harmless
<1> QED BY <1>12, HarmlessKeeps

\* A handler of anything but a modification that succeeded.
LEMMA HandlerKeeps ==
  ASSUME PipelineInv, ChangerTypeOK', NEW c \in Changes,
         mChangeForJob[c] # "succeeded" \/ changes[c].type # "modify",
         mChangeForJob'[c] = "none" \/ mChangeForJob'[c] = mChangeForJob[c],
         mChangeForJob'[c] # "running",
         \A d \in Changes : /\ changes'[d].type = changes[d].type
                            /\ changes'[d].items = changes[d].items
                            /\ changes'[d].revision = changes[d].revision
                            /\ d # c => mChangeForJob'[d] = mChangeForJob[d],
         UNCHANGED <<mLatestChangeId, mQueuedModifications, mModificationsInProgress,
                     latestRevisionByItemId, store>>
  PROVE  ServerKept
<1>1. \A i \in Items : ~Succeeded(c, i) /\ ~Succeeded(c, i)'
  BY DEF Succeeded, WritesItem
<1>2. mLatestChangeId' >= mLatestChangeId
  BY DEF PipelineInv, IInv, ChangerTypeOK
<1>3. \A i \in Items : store.foreign[i] = 0 /\ mQueuedModifications[i] = c
                         => changes[c].revision <= store.revision[i]
  BY DEF PipelineInv, ServerInv, RevisionsFollow
<1>4. Harmless(c)
  BY <1>1, <1>2, <1>3 DEF Harmless
<1> QED BY <1>4, HarmlessKeeps

LEMMA CreateOrDeleteSuccessKeeps ==
  ASSUME PipelineInv, ChangerTypeOK', NEW c \in Changes,
         HandleCreateJobSuccess(c) \/ HandleDeleteJobSuccess(c)
  PROVE  ServerKept
<1>1. ChangerTypeOK
  BY DEF PipelineInv, IInv
<1>2. /\ changes[c].type # "modify"
      /\ mChangeForJob' = [mChangeForJob EXCEPT ![c] = "none"]
      /\ changes' = [changes EXCEPT ![c].resultCode = "Success"]
      /\ UNCHANGED <<mLatestChangeId, mQueuedModifications, mModificationsInProgress,
                     latestRevisionByItemId, store>>
  BY DEF HandleCreateJobSuccess, HandleDeleteJobSuccess
<1>3. \A d \in Changes : /\ changes'[d].type = changes[d].type
                         /\ changes'[d].items = changes[d].items
                         /\ changes'[d].revision = changes[d].revision
  BY <1>1, <1>2 DEF ChangerTypeOK
<1>4. mChangeForJob'[c] = "none" /\ \A d \in Changes : d # c => mChangeForJob'[d] = mChangeForJob[d]
  BY <1>1, <1>2 DEF ChangerTypeOK
<1> QED BY <1>2, <1>3, <1>4, HandlerKeeps

LEMMA FailureKeeps ==
  ASSUME PipelineInv, ChangerTypeOK', (\E c \in Changes : HandleJobFailure(c)) \/ CloseErrorDialog
  PROVE  ServerKept
<1>1. ChangerTypeOK /\ BusyIsKnown
  BY DEF PipelineInv, IInv
<1>2. ASSUME NEW c \in Changes, HandleJobFailure(c)
      PROVE  ServerKept
  <2>1. /\ mChangeForJob[c] = "failed"
        /\ mChangeForJob' = [mChangeForJob EXCEPT ![c] = "none"]
        /\ UNCHANGED <<mLatestChangeId, mQueuedModifications, mModificationsInProgress,
                       latestRevisionByItemId, store>>
        /\ UNCHANGED changes \/ \E code \in Codes : changes' = [changes EXCEPT ![c].resultCode = code]
    BY <1>2 DEF HandleJobFailure, EndFailure, FailureCode, Codes
  <2>2. \A d \in Changes : /\ changes'[d].type = changes[d].type
                           /\ changes'[d].items = changes[d].items
                           /\ changes'[d].revision = changes[d].revision
    <3>1. CASE UNCHANGED changes
      BY <3>1
    <3>2. ASSUME NEW code \in Codes, changes' = [changes EXCEPT ![c].resultCode = code]
          PROVE  \A d \in Changes : /\ changes'[d].type = changes[d].type
                                    /\ changes'[d].items = changes[d].items
                                    /\ changes'[d].revision = changes[d].revision
      BY <1>1, <3>2 DEF ChangerTypeOK
    <3> QED BY <2>1, <3>1, <3>2
  <2>3. mChangeForJob'[c] = "none" /\ \A d \in Changes : d # c => mChangeForJob'[d] = mChangeForJob[d]
    BY <1>1, <2>1 DEF ChangerTypeOK
  <2> QED BY <2>1, <2>2, <2>3, HandlerKeeps
<1>3. CASE CloseErrorDialog
  <2> DEFINE c == dialogs[Len(dialogs)].change
  <2>1. c \in Changes /\ InDialog(c)
    <3>1. dialogs \in Seq(DialogEntry) /\ dialogs # <<>>
      BY <1>1, <1>3 DEF ChangerTypeOK, DialogEntry, CloseErrorDialog
    <3>2. Len(dialogs) \in DOMAIN dialogs /\ dialogs[Len(dialogs)] \in DialogEntry
      BY <3>1
    <3> QED BY <3>2 DEF DialogEntry, InDialog
  <2>2. /\ UNCHANGED mChangeForJob
        /\ \E code : changes' = [changes EXCEPT ![c].resultCode = code]
        /\ UNCHANGED <<mLatestChangeId, mQueuedModifications, mModificationsInProgress,
                       latestRevisionByItemId, store>>
    BY <1>3 DEF CloseErrorDialog, EndFailure, Last
  <2> HIDE DEF c
  <2>3. mChangeForJob[c] = "none"
    BY <1>1, <2>1 DEF BusyIsKnown, Busy
  <2>4. \A d \in Changes : /\ changes'[d].type = changes[d].type
                           /\ changes'[d].items = changes[d].items
                           /\ changes'[d].revision = changes[d].revision
    BY <1>1, <2>2 DEF ChangerTypeOK
  <2> QED BY <2>1, <2>2, <2>3, <2>4, HandlerKeeps
<1> QED BY <1>2, <1>3

\* handleModifyJobResult() learns the revision the server gave the item.
LEMMA ModifySuccessKeeps ==
  ASSUME PipelineInv, NEW c \in Changes, HandleModifyJobSuccess(c)
  PROVE  ServerKept
<1>1. ChangerTypeOK /\ StoreTypeOK /\ BusyIsInProgress
  BY DEF PipelineInv, IInv
<1>2. PICK i \in Items : OfItem(c, i)
  BY DEF HandleModifyJobSuccess, PipelineInv, IInv, ModifiesOneItem, OfItem
<1>3. ItemOf(changes[c]) = i
  BY <1>2, ItemOfItem
<1>4. PICK stored \in Nat : stored = changes[c].revision + 1
  BY <1>1 DEF ChangerTypeOK
<1>5. /\ mChangeForJob[c] = "succeeded"
      /\ mChangeForJob' = [mChangeForJob EXCEPT ![c] = "none"]
      /\ latestRevisionByItemId' = [latestRevisionByItemId EXCEPT ![i] = stored]
      /\ changes' = [changes EXCEPT ![c].revision = stored, ![c].resultCode = "Success"]
      /\ UNCHANGED <<mLatestChangeId, mQueuedModifications, mModificationsInProgress, store>>
  BY <1>3, <1>4 DEF HandleModifyJobSuccess
<1>6. /\ \A d \in Changes : d # c => changes'[d] = changes[d]
      /\ \A d \in Changes : changes'[d].type = changes[d].type /\ changes'[d].items = changes[d].items
  BY <1>1, <1>5 DEF ChangerTypeOK
<1>7. mChangeForJob'[c] = "none" /\ \A d \in Changes : d # c => mChangeForJob'[d] = mChangeForJob[d]
  BY <1>1, <1>5 DEF ChangerTypeOK
<1>8. Succeeded(c, i) /\ \A d \in Changes : Succeeded(d, i) => d = c
  BY <1>1, <1>2, <1>5 DEF Succeeded, WritesItem, OfItem, BusyIsInProgress, Busy
<1>9. \A j \in Items : \A d \in Changes :
         /\ WritesItem(d, j)' <=> WritesItem(d, j) /\ d # c
         /\ Succeeded(d, j)' <=> Succeeded(d, j) /\ d # c
  BY <1>6, <1>7 DEF WritesItem, Succeeded
<1>10. \A j \in Items : mQueuedModifications[j] # c
  BY <1>5 DEF PipelineInv, IInv, QueuedIsWaiting, Busy
<1>11. RevisionsFollow'
  <2> SUFFICES ASSUME NEW j \in Items, store.foreign[j] = 0
               PROVE  /\ latestRevisionByItemId'[j] <= store.revision[j]
                      /\ \A d \in Changes : Succeeded(d, j)' => changes'[d].revision + 1 = store.revision[j]
                      /\ (\A d \in Changes : ~Succeeded(d, j)') =>
                           latestRevisionByItemId'[j] = store.revision[j] \/ store.revision[j] = 0
                      /\ \A d \in Changes : mQueuedModifications[j] = d
                           => changes'[d].revision <= store.revision[j]
    BY <1>5 DEF RevisionsFollow
  <2>1. RevisionsFollow
    BY DEF PipelineInv, ServerInv
  <2>2. /\ \A d \in Changes : Succeeded(d, j)' => changes'[d].revision + 1 = store.revision[j]
        /\ \A d \in Changes : mQueuedModifications[j] = d => changes'[d].revision <= store.revision[j]
    BY <1>6, <1>9, <1>10, <2>1 DEF RevisionsFollow
  <2>3. CASE j = i
    <3>1. latestRevisionByItemId'[i] = stored /\ stored = store.revision[i]
      BY <1>1, <1>4, <1>5, <1>8, <2>1, <2>3 DEF RevisionsFollow, ChangerTypeOK
    <3> QED BY <2>2, <2>3, <3>1 DEF RevisionsFollow
  <2>4. CASE j # i
    <3>1. latestRevisionByItemId'[j] = latestRevisionByItemId[j]
      BY <1>1, <1>5, <2>4 DEF ChangerTypeOK
    <3>2. ~Succeeded(c, j)
      BY <1>2, <2>4 DEF Succeeded, WritesItem, OfItem
    <3>3. \A d \in Changes : Succeeded(d, j)' <=> Succeeded(d, j)
      BY <1>9, <3>2
    <3> QED BY <2>1, <2>2, <3>1, <3>3 DEF RevisionsFollow
  <2> QED BY <2>3, <2>4
<1>12. NoSelfConflict'
  <2>1. ASSUME NEW j \in Items, NEW d \in Changes, WritesItem(d, j)',
               mChangeForJob'[d] = "running", store'.foreign[j] = 0
        PROVE  changes'[d].revision = store'.revision[j]
    <3>1. d # c /\ WritesItem(d, j)
      BY <1>9, <2>1
    <3>2. mChangeForJob[d] = "running" /\ store.foreign[j] = 0
      BY <1>5, <1>7, <2>1, <3>1
    <3>3. changes[d].revision = store.revision[j]
      BY <3>1, <3>2 DEF PipelineInv, ServerInv, NoSelfConflict
    <3> QED BY <1>5, <1>6, <3>1, <3>3
  <2> QED BY <2>1 DEF NoSelfConflict
<1>13. PayloadsAreOlder'
  BY <1>5, <1>7 DEF PipelineInv, ServerInv, PayloadsAreOlder
<1>14. \A j \in Items : store'.payload[j] >= store.payload[j]
  BY <1>1, <1>5 DEF StoreTypeOK
<1> QED BY <1>11, <1>12, <1>13, <1>14 DEF ServerKept

LEMMA PerformNextKeeps ==
  ASSUME PipelineInv, ChangerTypeOK', NEW i \in Items, PerformNextModification(i)
  PROVE  ServerKept
<1>1. ChangerTypeOK /\ StoreTypeOK
  BY DEF PipelineInv, IInv
<1>2. PICK old \in Changes \cup {NoChange} : old = mModificationsInProgress[i]
  BY <1>1 DEF ChangerTypeOK
<1>3. PICK c \in Changes \cup {NoChange} : c = mQueuedModifications[i]
  BY <1>1 DEF ChangerTypeOK
<1>4. /\ i \in nextPosted
      /\ mQueuedModifications' = [mQueuedModifications EXCEPT ![i] = NoChange]
      /\ UNCHANGED <<mLatestChangeId, latestRevisionByItemId, store>>
  BY DEF PerformNextModification
<1>5. old \in Changes /\ OfItem(old, i) /\ mChangeForJob[old] = "none"
  <2>1. old \in Changes /\ OfItem(old, i)
    BY <1>1, <1>2, <1>4 DEF PipelineInv, IInv, InProgressIsBusy, ChangerTypeOK
  <2> QED BY <1>4, <2>1 DEF PipelineInv, IInv, BusyIsInProgress, Busy
<1>6. \A j \in Items : \A d \in Changes :
        mQueuedModifications'[j] = d => mQueuedModifications[j] = d /\ j # i
  BY <1>1, <1>4 DEF ChangerTypeOK, NoChange, Changes
<1>7. mLatestChangeId' >= mLatestChangeId
  BY <1>1, <1>4 DEF ChangerTypeOK
<1>8. CASE /\ mModificationsInProgress' = [mModificationsInProgress EXCEPT ![i] = NoChange]
           /\ UNCHANGED <<changes, mChangeForJob>>
  <2>1. \A j \in Items : ~WritesItem(old, j) /\ ~WritesItem(old, j)'
    BY <1>5, <1>8 DEF WritesItem
  <2>2. \A j \in Items : store.foreign[j] = 0 /\ mQueuedModifications[j] = old
                           => changes[old].revision <= store.revision[j]
    BY <1>5 DEF PipelineInv, ServerInv, RevisionsFollow
  <2>3. \A j \in Items : mModificationsInProgress'[j] \in {mModificationsInProgress[j], NoChange}
    BY <1>1, <1>8 DEF ChangerTypeOK
  <2>4. Harmless(old)
    BY <1>4, <1>5, <1>6, <1>7, <1>8, <2>1, <2>2, <2>3 DEF Harmless, Succeeded
  <2> QED BY <1>5, <2>4, HarmlessKeeps
<1>9. CASE /\ c # NoChange
           /\ mModificationsInProgress' = [mModificationsInProgress EXCEPT ![i] = c]
           /\ changes' = [changes EXCEPT ![c] = Prepared(changes[c])]
           /\ mChangeForJob' = [mChangeForJob EXCEPT ![c] = "running"]
  <2>1. /\ c \in Changes /\ OfItem(c, i) /\ mChangeForJob[c] = "none" /\ old < c
        /\ \A j \in Items : mQueuedModifications[j] = c => j = i
    <3>1. c \in Changes
      BY <1>9
    <3>2. OfItem(c, i) /\ ~Busy(c) /\ old < c
      BY <1>2, <1>3, <3>1 DEF PipelineInv, IInv, QueuedIsWaiting
    <3>3. ASSUME NEW j \in Items, mQueuedModifications[j] = c
          PROVE  j = i
      <4>1. OfItem(c, j)
        BY <3>1, <3>3 DEF PipelineInv, IInv, QueuedIsWaiting
      <4> QED BY <3>2, <4>1 DEF OfItem
    <3> QED BY <3>1, <3>2, <3>3 DEF Busy
  <2> DEFINE ch == Prepared(changes[c])
             latest == latestRevisionByItemId[i]
  <2>2. changes[c] \in ChangeObject /\ ItemOf(changes[c]) = i
    BY <1>1, <2>1, ItemOfItem DEF ChangerTypeOK, ChangeObject
  <2>3. /\ ch.type = "modify" /\ ch.items = {i}
        /\ ch.revision = IF latest > changes[c].revision THEN latest ELSE changes[c].revision
    BY <2>1, <2>2 DEF Prepared, ChangeObject, OfItem
  <2>4. store.foreign[i] = 0 => ch.revision = store.revision[i]
    <3>1. store.foreign[i] = 0 => latest <= store.revision[i] /\ changes[c].revision <= store.revision[i]
      BY <1>3, <2>1 DEF PipelineInv, ServerInv, RevisionsFollow
    <3>2. latest \in Int /\ store.revision[i] \in Nat
      BY <1>1 DEF ChangerTypeOK, StoreTypeOK
    <3>4. changes[c].revision \in Nat
      BY <2>2 DEF ChangeObject
    <3>3. store.foreign[i] = 0 => latest = store.revision[i] \/ store.revision[i] = 0
      BY <1>4, FreeItem
    <3> QED BY <2>3, <3>1, <3>2, <3>3, <3>4
  <2> HIDE DEF ch
  <2>5. changes'[c] = ch /\ \A d \in Changes : d # c => changes'[d] = changes[d]
    BY <1>1, <1>9, <2>1 DEF ChangerTypeOK, ch
  <2>6. /\ mChangeForJob'[c] = "running"
        /\ \A d \in Changes : d # c => mChangeForJob'[d] = mChangeForJob[d]
    BY <1>1, <1>9, <2>1 DEF ChangerTypeOK
  <2>7. \A j \in Items : /\ WritesItem(c, j)' => j = i
                         /\ ~Succeeded(c, j) /\ ~Succeeded(c, j)'
    BY <2>1, <2>3, <2>5, <2>6 DEF WritesItem, Succeeded
  <2>8. \A j \in Items : mModificationsInProgress'[j]
                           = IF j = i THEN c ELSE mModificationsInProgress[j]
    BY <1>1, <1>9 DEF ChangerTypeOK
  <2>9. store.item[i] # "unborn" /\ store.payload[i] < c
    <3>1. store.payload[i] <= old
      BY <1>2, <1>5 DEF PipelineInv, ServerInv, PayloadsAreOlder
    <3>2. store.item[i] # "unborn"
      BY <1>2, <1>5 DEF PipelineInv, ServerInv, PayloadsAreOlder, NoChange, Changes
    <3>3. store.payload[i] \in Nat /\ old \in Nat /\ c \in Nat
      BY <1>1, <1>5, <2>1 DEF StoreTypeOK, Changes
    <3> QED BY <2>1, <3>1, <3>2, <3>3
  <2>10. \A j \in Items : mModificationsInProgress[j] = c => j = i
    <3>1. ASSUME NEW j \in Items, mModificationsInProgress[j] = c
          PROVE  j = i
      <4>1. OfItem(c, j)
        BY <2>1, <3>1 DEF PipelineInv, IInv, InProgressIsBusy
      <4> QED BY <2>1, <4>1 DEF OfItem
    <3> QED BY <3>1
  <2>11. Harmless(c)
    BY <1>4, <1>6, <1>7, <2>1, <2>3, <2>4, <2>5, <2>6, <2>7, <2>8, <2>9, <2>10 DEF Harmless
  <2> QED BY <2>1, <2>11, HarmlessKeeps
<1> QED BY <1>3, <1>8, <1>9 DEF PerformNextModification

LEMMA ServerKeeps ==
  ASSUME PipelineInv, NEW c \in Changes, Server(c)
  PROVE  ServerKept
<1>1. /\ ChangerTypeOK /\ StoreTypeOK /\ BusyIsInProgress /\ BusyIsKnown /\ ModifiesOneItem
      /\ RevisionsFollow /\ NoSelfConflict /\ PayloadsAreOlder
  BY DEF PipelineInv, IInv, ServerInv
<1>2. PICK result \in {"succeeded", "failed"} : Finish(c, result)
  BY DEF Server, CreateStored, ModifyStored, DeleteStored, JobFails
<1>3. /\ mChangeForJob[c] = "running"
      /\ mChangeForJob' = [mChangeForJob EXCEPT ![c] = result]
      /\ UNCHANGED <<mLatestChangeId, changes, mQueuedModifications, mModificationsInProgress,
                     latestRevisionByItemId>>
  BY <1>2 DEF Finish
<1>4. /\ mChangeForJob'[c] = result
      /\ \A d \in Changes : d # c => mChangeForJob'[d] = mChangeForJob[d]
  BY <1>1, <1>3 DEF ChangerTypeOK
<1>5. c <= mLatestChangeId
  BY <1>1, <1>3 DEF PipelineInv, IInv, FreshIds, Busy, ChangerTypeOK, Changes
<1>6. \A d \in Changes : \A i \in Items : WritesItem(d, i)' <=> WritesItem(d, i)
  BY <1>1, <1>3, <1>4 DEF WritesItem, ChangerTypeOK
<1>7. ASSUME NEW i \in Items, NEW d \in Changes, d # c
      PROVE  Succeeded(d, i)' <=> Succeeded(d, i)
  BY <1>4, <1>6, <1>7 DEF Succeeded
<1>8. ASSUME \A i \in Items : ~WritesItem(c, i) \/ result = "failed",
             UNCHANGED store.revision, UNCHANGED store.foreign
      PROVE  RevisionsFollow' /\ NoSelfConflict'
  <2>1. \A i \in Items : ~Succeeded(c, i) /\ ~Succeeded(c, i)'
    BY <1>3, <1>4, <1>6, <1>8 DEF Succeeded
  <2>2. \A i \in Items : \A d \in Changes : Succeeded(d, i)' <=> Succeeded(d, i)
    BY <1>7, <2>1
  <2>3. RevisionsFollow'
    BY <1>1, <1>3, <1>8, <2>2 DEF RevisionsFollow
  <2>4. NoSelfConflict'
    <3>1. ASSUME NEW i \in Items, NEW d \in Changes, WritesItem(d, i)',
                 mChangeForJob'[d] = "running", store'.foreign[i] = 0
          PROVE  changes'[d].revision = store'.revision[i]
      <4>1. d # c /\ WritesItem(d, i)
        BY <1>4, <1>6, <3>1
      <4> QED BY <1>1, <1>3, <1>4, <1>8, <3>1, <4>1 DEF NoSelfConflict
    <3> QED BY <3>1 DEF NoSelfConflict
  <2> QED BY <2>3, <2>4
<1>9. CASE CreateStored(c)
  <2>1. PICK i \in Items :
          /\ store.item[i] = "unborn"
          /\ store' = [store EXCEPT !.item[i] = "live", !.payload[i] = c,
                                    !.applied = store.applied \cup {c}]
    BY <1>9 DEF CreateStored
  <2>2. store' = [item     |-> [store.item EXCEPT ![i] = "live"],
                  revision |-> store.revision,
                  payload  |-> [store.payload EXCEPT ![i] = c],
                  foreign  |-> store.foreign,
                  applied  |-> store.applied \cup {c}]
    BY <1>1, <2>1 DEF StoreTypeOK
  <2>3. /\ \A j \in Items : store'.payload[j] = IF j = i THEN c ELSE store.payload[j]
        /\ \A j \in Items : store'.item[j] = IF j = i THEN "live" ELSE store.item[j]
    BY <1>1, <2>2 DEF StoreTypeOK
  <2>4. changes[c].type = "create" /\ \A j \in Items : ~WritesItem(c, j)
    BY <1>9 DEF CreateStored, WritesItem
  <2>5. RevisionsFollow' /\ NoSelfConflict'
    BY <1>8, <2>2, <2>4
  <2>6. store.payload[i] = 0 /\ mModificationsInProgress[i] = NoChange
    BY <1>1, <2>1 DEF PayloadsAreOlder
  <2>7. PayloadsAreOlder'
    <3>1. \A j \in Items : mModificationsInProgress[j] # c
      BY <2>4 DEF PipelineInv, IInv, InProgressIsBusy, OfItem
    <3>2. ASSUME NEW j \in Items
          PROVE  /\ store'.payload[j] <= mLatestChangeId
                 /\ store'.item[j] = "unborn" => store'.payload[j] = 0
                                                 /\ mModificationsInProgress[j] = NoChange
                 /\ \A d \in Changes : mModificationsInProgress[j] = d =>
                      /\ store'.payload[j] <= d
                      /\ mChangeForJob'[d] = "running" => store'.payload[j] < d
      <4>1. CASE j = i
        BY <1>5, <2>3, <2>6, <4>1 DEF NoChange, Changes
      <4>2. CASE j # i
        BY <1>1, <1>4, <2>3, <3>1, <4>2 DEF PayloadsAreOlder
      <4> QED BY <4>1, <4>2
    <3> QED BY <1>3, <3>2 DEF PayloadsAreOlder
  <2>8. \A j \in Items : store'.payload[j] >= store.payload[j]
    BY <1>1, <2>3, <2>6 DEF StoreTypeOK, Changes
  <2> QED BY <2>5, <2>7, <2>8 DEF ServerKept
<1>10. CASE ModifyStored(c)
  <2>1. PICK i \in Items : OfItem(c, i)
    BY <1>1, <1>10 DEF ModifyStored, ModifiesOneItem, OfItem
  <2>2. ItemOf(changes[c]) = i
    BY <2>1, ItemOfItem
  <2>3. /\ store.item[i] = "live" /\ changes[c].revision = store.revision[i]
        /\ store' = [store EXCEPT !.revision[i] = store.revision[i] + 1, !.payload[i] = c,
                                  !.applied = store.applied \cup {c}]
        /\ mChangeForJob' = [mChangeForJob EXCEPT ![c] = "succeeded"]
    BY <1>10, <2>2 DEF ModifyStored, NoConflict, Finish
  <2>4. PICK next \in Nat : next = store.revision[i] + 1
    BY <1>1 DEF StoreTypeOK
  <2>5. store' = [item     |-> store.item,
                  revision |-> [store.revision EXCEPT ![i] = next],
                  payload  |-> [store.payload EXCEPT ![i] = c],
                  foreign  |-> store.foreign,
                  applied  |-> store.applied \cup {c}]
    BY <1>1, <2>3, <2>4 DEF StoreTypeOK
  <2>6. /\ \A j \in Items : store'.payload[j] = IF j = i THEN c ELSE store.payload[j]
        /\ \A j \in Items : store'.revision[j] = IF j = i THEN next ELSE store.revision[j]
        /\ store'.item = store.item /\ store'.foreign = store.foreign
    BY <1>1, <2>5 DEF StoreTypeOK
  <2>7. mModificationsInProgress[i] = c /\ mChangeForJob'[c] = "succeeded"
    BY <1>1, <1>3, <2>1, <2>3 DEF BusyIsInProgress, Busy, ChangerTypeOK
  <2>8. \A j \in Items : WritesItem(c, j) => j = i
    BY <2>1 DEF WritesItem, OfItem
  <2>9. \A d \in Changes : WritesItem(d, i) => d = c
    BY <1>1, <2>7 DEF BusyIsInProgress, WritesItem, OfItem, Busy
  <2>10. WritesItem(c, i)
    BY <1>3, <2>1 DEF WritesItem, OfItem
  <2>11. RevisionsFollow'
    <3> SUFFICES ASSUME NEW j \in Items, store.foreign[j] = 0
                 PROVE  /\ latestRevisionByItemId[j] <= store'.revision[j]
                        /\ \A d \in Changes : Succeeded(d, j)' => changes[d].revision + 1 = store'.revision[j]
                        /\ (\A d \in Changes : ~Succeeded(d, j)') =>
                             latestRevisionByItemId[j] = store'.revision[j] \/ store'.revision[j] = 0
                        /\ \A d \in Changes : mQueuedModifications[j] = d
                             => changes[d].revision <= store'.revision[j]
      BY <1>3, <2>6 DEF RevisionsFollow
    <3>1. CASE j = i
      <4>1. Succeeded(c, i)' /\ \A d \in Changes : Succeeded(d, i)' => d = c
        BY <1>6, <2>7, <2>9, <2>10 DEF Succeeded
      <4>2. store'.revision[i] = next /\ changes[c].revision + 1 = next
        BY <2>3, <2>4, <2>6
      <4>3. latestRevisionByItemId[i] <= store.revision[i]
            /\ \A d \in Changes : mQueuedModifications[i] = d => changes[d].revision <= store.revision[i]
        BY <1>1, <3>1 DEF RevisionsFollow
      <4>4. latestRevisionByItemId[i] \in Int /\ store.revision[i] \in Int
            /\ \A d \in Changes : changes[d].revision \in Int
        BY <1>1 DEF ChangerTypeOK, StoreTypeOK
      <4>5. /\ latestRevisionByItemId[i] <= next
            /\ \A d \in Changes : mQueuedModifications[i] = d => changes[d].revision <= next
        BY <2>4, <4>3, <4>4
      <4> QED BY <3>1, <4>1, <4>2, <4>5
    <3>2. CASE j # i
      <4>1. \A d \in Changes : Succeeded(d, j)' <=> Succeeded(d, j)
        BY <1>6, <1>7, <2>8, <3>2 DEF Succeeded
      <4> QED BY <1>1, <2>6, <3>2, <4>1 DEF RevisionsFollow
    <3> QED BY <3>1, <3>2
  <2>12. NoSelfConflict'
    <3>1. ASSUME NEW j \in Items, NEW d \in Changes, WritesItem(d, j)',
                 mChangeForJob'[d] = "running", store'.foreign[j] = 0
          PROVE  changes'[d].revision = store'.revision[j]
      <4>1. d # c /\ WritesItem(d, j) /\ j # i
        BY <1>6, <2>7, <2>9, <3>1
      <4> QED BY <1>1, <1>3, <1>4, <2>6, <3>1, <4>1 DEF NoSelfConflict
    <3> QED BY <3>1 DEF NoSelfConflict
  <2>13. store.payload[i] < c
    BY <1>1, <1>3, <2>7 DEF PayloadsAreOlder
  <2>14. PayloadsAreOlder'
    <3>1. ASSUME NEW j \in Items
          PROVE  /\ store'.payload[j] <= mLatestChangeId
                 /\ store.item[j] = "unborn" => store'.payload[j] = 0
                                                /\ mModificationsInProgress[j] = NoChange
                 /\ \A d \in Changes : mModificationsInProgress[j] = d =>
                      /\ store'.payload[j] <= d
                      /\ mChangeForJob'[d] = "running" => store'.payload[j] < d
      <4>1. CASE j = i
        BY <1>5, <2>3, <2>6, <2>7, <4>1 DEF Changes
      <4>2. CASE j # i
        <5>1. mModificationsInProgress[j] # c
          BY <2>1, <4>2 DEF PipelineInv, IInv, InProgressIsBusy, OfItem
        <5> QED BY <1>1, <1>4, <2>6, <4>2, <5>1 DEF PayloadsAreOlder
      <4> QED BY <4>1, <4>2
    <3> QED BY <1>3, <2>6, <3>1 DEF PayloadsAreOlder
  <2>15. \A j \in Items : store'.payload[j] >= store.payload[j]
    BY <1>1, <2>6, <2>13 DEF StoreTypeOK, Changes
  <2> QED BY <2>11, <2>12, <2>14, <2>15 DEF ServerKept
<1>11. CASE DeleteStored(c) \/ JobFails(c)
  <2>1. /\ \A j \in Items : ~WritesItem(c, j) \/ result = "failed"
        /\ store'.revision = store.revision /\ store'.foreign = store.foreign
        /\ store'.payload = store.payload
        /\ \A j \in Items : store'.item[j] = "unborn" => store.item[j] = "unborn"
    <3>1. CASE DeleteStored(c)
      BY <1>1, <3>1 DEF DeleteStored, WritesItem, StoreTypeOK
    <3>2. CASE JobFails(c)
      <4>1. result = "failed"
        BY <1>1, <1>4, <3>2 DEF JobFails, Finish, ChangerTypeOK
      <4> QED BY <3>2, <4>1 DEF JobFails
    <3> QED BY <1>11, <3>1, <3>2
  <2>2. RevisionsFollow' /\ NoSelfConflict'
    BY <1>8, <2>1
  <2>3. PayloadsAreOlder'
    BY <1>1, <1>3, <1>4, <2>1 DEF PayloadsAreOlder
  <2>4. \A j \in Items : store'.payload[j] >= store.payload[j]
    BY <1>1, <2>1 DEF StoreTypeOK
  <2> QED BY <2>2, <2>3, <2>4 DEF ServerKept
<1> QED BY <1>9, <1>10, <1>11 DEF Server

LEMMA ForeignKeeps ==
  ASSUME PipelineInv, NEW i \in Items, ForeignWrite(i)
  PROVE  ServerKept /\ FateInv' /\ UNCHANGED <<changerVars, answers>>
<1>1. /\ StoreTypeOK /\ FateInv /\ RevisionsFollow /\ NoSelfConflict /\ PayloadsAreOlder
  BY DEF PipelineInv, ServerInv
<1>2. /\ store'.applied = store.applied /\ store'.payload = store.payload
      /\ store'.foreign[i] > 0
      /\ \A j \in Items : j # i => /\ store'.foreign[j] = store.foreign[j]
                                   /\ store'.revision[j] = store.revision[j]
      /\ \A j \in Items : store'.item[j] = "unborn" => store.item[j] = "unborn"
      /\ UNCHANGED <<changerVars, answers>>
  BY <1>1, ForeignApplied
<1>3. UNCHANGED <<mLatestChangeId, changes, mChangeForJob, mQueuedModifications,
                  mModificationsInProgress, latestRevisionByItemId>>
  BY <1>2 DEF changerVars
<1>4. \A j \in Items : \A d \in Changes : /\ WritesItem(d, j)' <=> WritesItem(d, j)
                                          /\ Succeeded(d, j)' <=> Succeeded(d, j)
  BY <1>3 DEF WritesItem, Succeeded
<1>5. \A j \in Items : store'.foreign[j] = 0 => j # i
  BY <1>2
<1>6. RevisionsFollow' /\ NoSelfConflict' /\ PayloadsAreOlder'
  BY <1>1, <1>2, <1>3, <1>4, <1>5 DEF RevisionsFollow, NoSelfConflict, PayloadsAreOlder
<1>7. \A j \in Items : store'.payload[j] >= store.payload[j]
  BY <1>1, <1>2 DEF StoreTypeOK
<1> QED BY <1>1, <1>2, <1>6, <1>7, StutterFate DEF ServerKept

-----------------------------------------------------------------------------
(* The steps of ChangeRequests.                                            *)

\* What StateOf says of a change whose answer, id and fate stay.
LEMMA SameState ==
  ASSUME NEW c \in Changes, answers'[c] = answers[c],
         (c > mLatestChangeId)' <=> c > mLatestChangeId,
         c \in store'.applied <=> c \in store.applied
  PROVE  StateOf(c)' = StateOf(c)
BY DEF StateOf

\* Every change asked for and not answered is pending or applied.
LEMMA UnansweredState ==
  ASSUME IInv, NEW c \in Changes
  PROVE  /\ StateOf(c) = "idle" <=> c > mLatestChangeId
         /\ c <= mLatestChangeId /\ answers[c] = <<>> =>
              StateOf(c) = IF c \in store.applied THEN "applied" ELSE "pending"
<1>1. mLatestChangeId \in Int /\ c \in Int
  BY DEF IInv, ChangerTypeOK, Changes
<1>2. c > mLatestChangeId => answers[c] = <<>>
  BY DEF IInv, FreshIds
<1> QED BY <1>1, <1>2 DEF StateOf

\* A change that is answered truly.
LEMMA AnsweredState ==
  ASSUME NEW S \in SUBSET Changes, AnswersTruly(S), NEW c \in S
  PROVE  StateOf(c)' = IF c \in store.applied THEN "succeeded" ELSE "refused"
BY DEF AnswersTruly, StateOf

LEMMA NextIdStates ==
  ASSUME IInv, NEW c \in Changes, c = mLatestChangeId + 1
  PROVE  Requests!NextId(c)
<1>1. mLatestChangeId \in Int /\ c \in Int
  BY DEF IInv, ChangerTypeOK, Changes
<1>2. StateOf(c) = "idle"
  BY <1>1, UnansweredState
<1>3. \A d \in Changes : d < c => StateOf(d) # "idle"
  BY <1>1, UnansweredState DEF Changes
<1> QED BY <1>2, <1>3 DEF Requests!NextId, Requests!Changes, Changes

LEMMA CallImplements ==
  ASSUME PipelineInv, NEW c \in Changes, CallIsTrue(c)
  PROVE  Requests!Ask(c) \/ Requests!AskRefused(c)
<1>1. /\ IInv /\ c = mLatestChangeId + 1 /\ mLatestChangeId' = c /\ UNCHANGED store
      /\ mLatestChangeId \in Int /\ c \in Int
  BY DEF PipelineInv, IInv, ChangerTypeOK, CallIsTrue, NewCall, Changes
<1>2. PICK S \in {{}, {c}} : AnswersTruly(S)
  BY DEF CallIsTrue
<1>3. c \notin store.applied /\ answers[c] = <<>>
  BY <1>1, NewIsNotApplied, NextIdIsFresh DEF PipelineInv, ServerInv
<1>4. \A d \in Changes : d # c => StateOf(d)' = StateOf(d)
  <2>1. ASSUME NEW d \in Changes, d # c
        PROVE  answers'[d] = answers[d] /\ ((d > mLatestChangeId)' <=> d > mLatestChangeId)
    BY <1>1, <1>2, <2>1 DEF AnswersTruly, Changes
  <2> QED BY <1>1, <2>1, SameState
<1>5. StateOf(c)' = IF S = {} THEN "pending" ELSE "refused"
  <2>1. CASE S = {}
    BY <1>1, <1>2, <1>3, <2>1 DEF AnswersTruly, StateOf
  <2>2. CASE S = {c}
    BY <1>2, <1>3, <2>2, AnsweredState
  <2> QED BY <2>1, <2>2
<1>6. Requests!NextId(c)
  BY <1>1, NextIdStates
<1>7. [d \in Changes |-> StateOf(d)]'
        = [[d \in Changes |-> StateOf(d)] EXCEPT ![c] = IF S = {} THEN "pending" ELSE "refused"]
  BY <1>4, <1>5
<1> QED BY <1>1, <1>6, <1>7 DEF Requests!Ask, Requests!AskRefused

LEMMA QueuedImplements ==
  ASSUME PipelineInv, NEW c \in Changes, NEW i \in Items, NEW r \in Nat,
         ModifyQueued(c, i, r), UNCHANGED <<dialogs, store>>
  PROVE  Requests!Ask(c)
<1>1. /\ IInv /\ c = mLatestChangeId + 1 /\ mLatestChangeId' = c
      /\ mLatestChangeId \in Int /\ c \in Int
  BY DEF PipelineInv, IInv, ChangerTypeOK, ModifyQueued, Changes
<1>2. AnswersTruly({mQueuedModifications[i]} \cap Changes)
  BY <1>1, ModifyQueuedFate DEF PipelineInv, ServerInv
<1>3. PICK g \in Changes \cup {NoChange} : g = mQueuedModifications[i]
  BY <1>1 DEF IInv, ChangerTypeOK
<1>4. c \notin store.applied /\ answers[c] = <<>> /\ g # c
  BY <1>1, <1>3, NewIsNotApplied, NextIdIsFresh DEF PipelineInv, ServerInv
<1>5. g \in Changes => /\ answers[g] = <<>> /\ g \notin store.applied /\ g <= mLatestChangeId
  <2>1. ASSUME g \in Changes
        PROVE  OfItem(g, i) /\ Active(g)
    BY <1>1, <1>3, <2>1 DEF IInv, QueuedIsWaiting, Active
  <2>2. ASSUME g \in Changes
        PROVE  answers[g] = <<>> /\ g \notin store.applied
    BY <1>1, <1>3, <2>1, <2>2 DEF PipelineInv, ServerInv, FateInv, AppliedIsOver,
                                  IInv, ActiveIsUnanswered, OfItem
  <2>3. ASSUME g \in Changes
        PROVE  g <= mLatestChangeId
    BY <1>1, <2>1, <2>3 DEF IInv, FreshIds, OfItem, Changes
  <2> QED BY <2>2, <2>3
<1>6. \A d \in Changes : d # c /\ d # g => StateOf(d)' = StateOf(d)
  <2>1. ASSUME NEW d \in Changes, d # c, d # g
        PROVE  answers'[d] = answers[d] /\ ((d > mLatestChangeId)' <=> d > mLatestChangeId)
    BY <1>1, <1>2, <1>3, <2>1 DEF AnswersTruly, Changes
  <2> QED BY <2>1, SameState
<1>7. StateOf(c)' = "pending"
  <2>1. answers'[c] = <<>>
    BY <1>2, <1>3, <1>4 DEF AnswersTruly
  <2> QED BY <1>1, <1>4, <2>1 DEF StateOf
<1>8. g \in Changes => StateOf(g) = "pending" /\ StateOf(g)' = "refused"
  <2>1. ASSUME g \in Changes
        PROVE  StateOf(g)' = "refused"
    BY <1>2, <1>3, <1>5, <2>1, AnsweredState
  <2> QED BY <1>1, <1>5, <2>1, UnansweredState
<1>9. Requests!NextId(c)
  BY <1>1, NextIdStates
<1>10. CASE g \in Changes
  <2>1. [d \in Changes |-> StateOf(d)]'
          = [[d \in Changes |-> StateOf(d)] EXCEPT ![c] = "pending", ![g] = "refused"]
    BY <1>4, <1>6, <1>7, <1>8, <1>10
  <2>2. [d \in Changes |-> StateOf(d)][g] = "pending"
    BY <1>8, <1>10
  <2> QED BY <1>9, <1>10, <2>1, <2>2 DEF Requests!Ask, Requests!Changes, Changes
<1>11. CASE g \notin Changes
  <2>1. [d \in Changes |-> StateOf(d)]'
          = [[d \in Changes |-> StateOf(d)] EXCEPT ![c] = "pending"]
    BY <1>6, <1>7, <1>11
  <2> QED BY <1>9, <2>1 DEF Requests!Ask
<1> QED BY <1>10, <1>11

\* The event loop's turns answer some changes, or nobody.
LEMMA AnswersImplement ==
  ASSUME PipelineInv, AnswersGiven, UNCHANGED <<mLatestChangeId, store>>
  PROVE  (\E S \in SUBSET Changes : Requests!Answer(S)) \/ UNCHANGED Requests!vars
<1>1. PICK S \in SUBSET Changes : AnswersTruly(S) /\ \A d \in S : d <= mLatestChangeId
  BY DEF AnswersGiven
<1>2. \A c \in Changes : c \notin S => StateOf(c)' = StateOf(c)
  BY <1>1, SameState DEF AnswersTruly
<1>3. \A c \in S : /\ StateOf(c) = IF c \in store.applied THEN "applied" ELSE "pending"
                   /\ StateOf(c)' = IF c \in store.applied THEN "succeeded" ELSE "refused"
  <2>1. \A c \in S : answers[c] = <<>>
    BY <1>1 DEF AnswersTruly
  <2> QED BY <1>1, <2>1, UnansweredState, AnsweredState DEF PipelineInv
<1>4. CASE S = {}
  <2>1. [c \in Changes |-> StateOf(c)]' = [c \in Changes |-> StateOf(c)]
    BY <1>2, <1>4
  <2> QED BY <2>1 DEF Requests!vars
<1>5. CASE S # {}
  <2>1. \A c \in Changes : StateOf(c)' = IF c \notin S THEN StateOf(c)
                                        ELSE IF StateOf(c) = "applied" THEN "succeeded" ELSE "refused"
    BY <1>2, <1>3
  <2>2. \A c \in S : StateOf(c) \in {"pending", "applied"}
    BY <1>3
  <2> QED BY <1>5, <2>1, <2>2 DEF Requests!Answer, Requests!Changes, Changes
<1> QED BY <1>4, <1>5

LEMMA ServerImplements ==
  ASSUME PipelineInv, NEW c \in Changes, Server(c)
  PROVE  Requests!Apply(c) \/ UNCHANGED Requests!vars
<1>1. /\ IInv /\ StoreTypeOK /\ FateInv /\ ServerKept /\ UNCHANGED <<answers, mLatestChangeId>>
      /\ mChangeForJob[c] = "running"
  <2>1. IInv /\ StoreTypeOK /\ FateInv
    BY DEF PipelineInv, ServerInv
  <2>2. UNCHANGED answers
    BY <2>1, ServerFate
  <2>3. UNCHANGED mLatestChangeId /\ mChangeForJob[c] = "running"
    BY DEF Server, CreateStored, ModifyStored, DeleteStored, JobFails, Finish
  <2> QED BY <2>1, <2>2, <2>3, ServerKeeps
<1>2. CASE JobFails(c)
  <2>1. \A d \in Changes : StateOf(d)' = StateOf(d)
    BY <1>1, <1>2, SameState DEF JobFails
  <2> QED BY <1>2, <2>1 DEF JobFails, Requests!vars
<1>3. CASE ~JobFails(c)
  <2>1. store'.applied = store.applied \cup {c}
    BY <1>1, <1>3 DEF Server, CreateStored, ModifyStored, DeleteStored, StoreTypeOK
  <2>2. /\ answers[c] = <<>> /\ c <= mLatestChangeId /\ c \notin store.applied
    BY <1>1, BusyFacts DEF Busy, FateInv, AppliedIsOver
  <2>3. StateOf(c) = "pending" /\ StateOf(c)' = "applied"
    <3>1. ~(c > mLatestChangeId)
      BY <1>1, <2>2 DEF IInv, ChangerTypeOK, Changes
    <3> QED BY <1>1, <2>1, <2>2, <3>1 DEF StateOf
  <2>4. \A d \in Changes : d # c => StateOf(d)' = StateOf(d)
    BY <1>1, <2>1, SameState
  <2>5. [d \in Changes |-> StateOf(d)]' = [[d \in Changes |-> StateOf(d)] EXCEPT ![c] = "applied"]
    BY <2>3, <2>4
  <2>6. \/ store'.payload = store.payload
        \/ \E i \in Items : /\ store'.payload = [store.payload EXCEPT ![i] = c]
                            /\ store.payload[i] < c
    <3>1. CASE CreateStored(c)
      <4>1. PICK i \in Items :
              /\ store.item[i] = "unborn"
              /\ store' = [store EXCEPT !.item[i] = "live", !.payload[i] = c,
                                        !.applied = store.applied \cup {c}]
        BY <3>1 DEF CreateStored
      <4>2. store'.payload = [store.payload EXCEPT ![i] = c]
        BY <1>1, <4>1 DEF StoreTypeOK
      <4>3. store.payload[i] = 0
        BY <4>1 DEF PipelineInv, ServerInv, PayloadsAreOlder
      <4> QED BY <4>2, <4>3 DEF Changes
    <3>2. CASE ModifyStored(c)
      <4>1. PICK i \in Items : OfItem(c, i)
        BY <1>1, <3>2 DEF ModifyStored, IInv, ModifiesOneItem, OfItem
      <4>2. store' = [store EXCEPT !.revision[i] = store.revision[i] + 1, !.payload[i] = c,
                                   !.applied = store.applied \cup {c}]
        BY <3>2, <4>1, ItemOfItem DEF ModifyStored
      <4>3. store'.payload = [store.payload EXCEPT ![i] = c]
        BY <1>1, <4>2 DEF StoreTypeOK
      <4>4. mModificationsInProgress[i] = c
        BY <1>1, <4>1 DEF IInv, BusyIsInProgress, Busy
      <4>5. store.payload[i] < c
        BY <1>1, <4>4 DEF PipelineInv, ServerInv, PayloadsAreOlder
      <4> QED BY <4>3, <4>5
    <3>3. CASE DeleteStored(c)
      BY <1>1, <3>3 DEF DeleteStored, StoreTypeOK
    <3> QED BY <1>3, <3>1, <3>2, <3>3 DEF Server
  <2> QED BY <2>3, <2>5, <2>6 DEF Requests!Apply
<1> QED BY <1>2, <1>3

-----------------------------------------------------------------------------
(* Every step, action by action.                                           *)

\* What a step does to the pipeline's invariant, to the server and to ChangeRequests.
StepIsTrue == FateInv' /\ ServerKept /\ [Requests!Next]_(Requests!vars)

LEMMA CallerStep ==
  ASSUME PipelineInv, IInv', NEW c \in Changes, Caller(c)
  PROVE  StepIsTrue
<1>1. IInv /\ FateInv /\ StoreTypeOK /\ ChangerTypeOK'
  BY DEF PipelineInv, ServerInv, IInv
<1>2. ASSUME CallIsTrue(c), ServerKept
      PROVE  StepIsTrue
  BY <1>2, CallImplements DEF StepIsTrue, CallIsTrue, Requests!Next, Requests!Changes, Changes
<1>3. CASE ModifyIncidence(c)
  <2>1. PICK i \in Items : /\ store.item[i] # "unborn"
                           /\ \E r \in 0 .. store.revision[i] :
                                ModifyDeleted(c, i, r) \/ ModifyQueued(c, i, r) \/ ModifyStarted(c, i, r)
    BY <1>3 DEF ModifyIncidence
  <2>2. PICK r \in 0 .. store.revision[i] :
          ModifyDeleted(c, i, r) \/ ModifyQueued(c, i, r) \/ ModifyStarted(c, i, r)
    BY <2>1
  <2>3. r \in Nat
    BY <1>1 DEF StoreTypeOK
  <2>4. UNCHANGED <<dialogs, latestRevisionByItemId, store>>
    BY <1>3 DEF ModifyIncidence
  <2>5. CASE ModifyDeleted(c, i, r)
    BY <1>1, <1>2, <2>3, <2>4, <2>5, ModifyDeletedFate, ModifyDeletedKeeps
  <2>6. CASE ModifyStarted(c, i, r)
    BY <1>1, <1>2, <2>1, <2>3, <2>4, <2>6, ModifyStartedFate, ModifyStartedKeeps
  <2>7. CASE ModifyQueued(c, i, r)
    <3>1. FateInv' /\ ServerKept
      BY <1>1, <2>3, <2>4, <2>7, ModifyQueuedFate, ModifyQueuedKeeps
    <3>2. Requests!Ask(c)
      BY <2>3, <2>4, <2>7, QueuedImplements
    <3> QED BY <3>1, <3>2 DEF StepIsTrue, Requests!Next, Requests!Changes, Changes
  <2> QED BY <2>2, <2>5, <2>6, <2>7
<1>4. CASE CreateIncidence(c)
  BY <1>1, <1>2, <1>4, CreateFate, CreateDeleteKeeps
<1>5. CASE CreateRefused(c) \/ DeleteRefused(c)
  BY <1>1, <1>2, <1>5, RefusedFate, CreateDeleteKeeps
<1>6. CASE DeleteIncidences(c)
  BY <1>1, <1>2, <1>6, DeleteFate, CreateDeleteKeeps
<1>7. CASE ModifyRefused(c)
  BY <1>1, <1>2, <1>7, ModifyRefusedFate, ModifyRefusedKeeps
<1> QED BY <1>3, <1>4, <1>5, <1>6, <1>7 DEF Caller

LEMMA HandlersStep ==
  ASSUME PipelineInv, IInv',
         \/ \E c \in Changes : HandleJobResult(c)
         \/ \E i \in Items : PerformNextModification(i)
         \/ CloseErrorDialog
  PROVE  StepIsTrue
<1>1. IInv /\ FateInv /\ ChangerTypeOK'
  BY DEF PipelineInv, ServerInv, IInv
<1>2. UNCHANGED <<mLatestChangeId, store>>
  BY DEF HandleJobResult, HandleCreateJobSuccess, HandleModifyJobSuccess,
         HandleDeleteJobSuccess, HandleJobFailure, EndFailure, CloseErrorDialog,
         PerformNextModification
<1>3. AnswersGiven /\ ServerKept
  <2>1. ASSUME NEW c \in Changes, HandleJobResult(c)
        PROVE  AnswersGiven /\ ServerKept
    BY <1>1, <2>1, SuccessFate, JobFailureFate, CreateOrDeleteSuccessKeeps, FailureKeeps,
       ModifySuccessKeeps DEF HandleJobResult
  <2>2. ASSUME NEW i \in Items, PerformNextModification(i)
        PROVE  AnswersGiven /\ ServerKept
    BY <1>1, <2>2, PerformNextFate, PerformNextKeeps
  <2>3. CASE CloseErrorDialog
    BY <1>1, <2>3, CloseDialogFate, FailureKeeps
  <2> QED BY <2>1, <2>2, <2>3
<1>4. [Requests!Next]_(Requests!vars)
  BY <1>2, <1>3, AnswersImplement DEF Requests!Next, Requests!Changes, Changes
<1> QED BY <1>3, <1>4 DEF StepIsTrue, AnswersGiven

LEMMA WorldStep ==
  ASSUME PipelineInv,
         (\E c \in Changes : Server(c)) \/ (\E i \in Items : ForeignWrite(i)) \/ UNCHANGED vars
  PROVE  StepIsTrue
<1>1. IInv /\ FateInv /\ StoreTypeOK
  BY DEF PipelineInv, ServerInv
<1>2. ASSUME NEW c \in Changes, Server(c)
      PROVE  StepIsTrue
  <2>1. FateInv' /\ ServerKept
    BY <1>1, <1>2, ServerFate, ServerKeeps
  <2>2. Requests!Apply(c) \/ UNCHANGED Requests!vars
    BY <1>2, ServerImplements
  <2> QED BY <2>1, <2>2 DEF StepIsTrue, Requests!Next, Requests!Changes, Changes
<1>3. ASSUME UNCHANGED <<changerVars, answers>>, store'.applied = store.applied,
             store'.payload = store.payload
      PROVE  UNCHANGED Requests!vars
  <2>1. \A d \in Changes : StateOf(d)' = StateOf(d)
    BY <1>3, SameState DEF changerVars
  <2> QED BY <1>3, <2>1 DEF Requests!vars
<1>4. ASSUME NEW i \in Items, ForeignWrite(i)
      PROVE  StepIsTrue
  <2>1. FateInv' /\ ServerKept
    BY <1>4, ForeignKeeps
  <2>2. UNCHANGED Requests!vars
    BY <1>1, <1>3, <1>4, ForeignApplied
  <2> QED BY <2>1, <2>2 DEF StepIsTrue
<1>5. CASE UNCHANGED vars
  <2>1. UNCHANGED changerVars /\ UNCHANGED answers /\ UNCHANGED store
    BY <1>5 DEF vars
  <2>2. UNCHANGED <<mLatestChangeId, changes, mChangeForJob, mQueuedModifications,
                    mModificationsInProgress, latestRevisionByItemId>>
    BY <2>1 DEF changerVars
  <2>3. FateInv'
    BY <1>1, <2>1, StutterFate
  <2>4. \A i \in Items : \A d \in Changes : /\ WritesItem(d, i)' <=> WritesItem(d, i)
                                            /\ Succeeded(d, i)' <=> Succeeded(d, i)
    BY <2>2 DEF WritesItem, Succeeded
  <2>5. RevisionsFollow' /\ NoSelfConflict' /\ PayloadsAreOlder'
    BY <2>1, <2>2, <2>4 DEF PipelineInv, ServerInv, RevisionsFollow, NoSelfConflict, PayloadsAreOlder
  <2>6. \A i \in Items : store'.payload[i] >= store.payload[i]
    BY <1>1, <2>1 DEF StoreTypeOK
  <2>7. UNCHANGED Requests!vars
    BY <1>3, <2>1
  <2> QED BY <2>3, <2>5, <2>6, <2>7 DEF StepIsTrue, ServerKept
<1> QED BY <1>2, <1>4, <1>5

LEMMA PipelineStep ==
  ASSUME PipelineInv, [Next]_vars
  PROVE  PipelineInv' /\ StepIsTrue
<1>1. IInv' /\ StoreTypeOK'
  BY NextInv, StoreTypeStep DEF PipelineInv
<1>2. StepIsTrue
  BY <1>1, CallerStep, HandlersStep, WorldStep DEF Next
<1> QED BY <1>1, <1>2 DEF PipelineInv, ServerInv, StepIsTrue, ServerKept

LEMMA PipelineInit ==
  ASSUME Init
  PROVE  PipelineInv /\ Requests!Init
<1>1. IInv
  BY InitInv
<1>2. StoreTypeOK
  BY ConstantsAssumption DEF Init, StoreTypeOK
<1>3. /\ \A c \in Changes : /\ changes[c] = NotConstructed /\ answers[c] = <<>>
                            /\ mChangeForJob[c] = "none" /\ ~InDialog(c) /\ ~Busy(c)
      /\ store.applied = {} /\ dialogs = <<>>
  BY DEF Init, InDialog, Busy
<1>4. NotConstructed.type = "none" /\ NotConstructed.resultCode = "Success"
  BY DEF NotConstructed, Change
<1>5. FateInv
  BY <1>3, <1>4 DEF FateInv, AppliedIsOver, JobTellsFate, HandledTellsFate, BusyIsUnanswered,
                    DialogsTellOfFailure, DiscardedHasNewer, AnswerIsTrue, DiscardedForNewer
<1>6. \A i \in Items : /\ store.revision[i] = 0 /\ store.payload[i] = 0
                       /\ latestRevisionByItemId[i] = -1 /\ mModificationsInProgress[i] = NoChange
                       /\ mQueuedModifications[i] = NoChange
  BY DEF Init
<1>7. \A c \in Changes : c # NoChange /\ \A i \in Items : ~WritesItem(c, i) /\ ~Succeeded(c, i)
  BY <1>3 DEF WritesItem, Succeeded, Changes, NoChange
<1>8. RevisionsFollow /\ NoSelfConflict /\ PayloadsAreOlder
  BY <1>6, <1>7 DEF Init, RevisionsFollow, NoSelfConflict, PayloadsAreOlder
<1>9. \A c \in Changes : StateOf(c) = "idle"
  BY <1>3 DEF Init, StateOf, Changes
<1>10. Requests!Init
  BY <1>9 DEF Init, Requests!Init, Requests!Changes, Changes
<1> QED BY <1>1, <1>2, <1>5, <1>8, <1>10 DEF PipelineInv, ServerInv

-----------------------------------------------------------------------------
\* The pipeline and the server agree in every state the changer reaches.
THEOREM PipelineInvariance == Spec => []PipelineInv
<1>1. Init => PipelineInv
  BY PipelineInit
<1>2. PipelineInv /\ [Next]_vars => PipelineInv'
  BY PipelineStep
<1> QED BY <1>1, <1>2, PTL DEF Spec

\* ~Change and the handlers: success is reported if and only if the server did it, and a
\* modification is discarded only for a newer one of the same item.
THEOREM AnswersAreTrue == Spec => []AnswerIsTrue
<1>1. PipelineInv => AnswerIsTrue
  BY DEF PipelineInv, ServerInv, FateInv
<1> QED BY <1>1, PipelineInvariance, PTL

\* performModification2() and handleModifyJobResult(): the changer's own writes never make
\* its next one fail with a revision conflict.
THEOREM NeverConflictsWithItself == Spec => []NoSelfConflict
<1>1. PipelineInv => NoSelfConflict
  BY DEF PipelineInv, ServerInv
<1> QED BY <1>1, PipelineInvariance, PTL

\* queueModification(): what a newer change wrote is never overwritten by an older one.
THEOREM UpdatesAreNotLost == Spec => NoLostUpdate
<1>1. PipelineInv /\ [Next]_vars => [\A i \in Items : store'.payload[i] >= store.payload[i]]_vars
  BY PipelineStep DEF StepIsTrue, ServerKept
<1> QED BY <1>1, PipelineInvariance, PTL DEF Spec, NoLostUpdate

\* The changer implements ChangeRequests: true answers, given once and never taken back.
THEOREM ImplementsRequests == Spec => KeepsRequests
<1>1. Init => Requests!Init
  BY PipelineInit
<1>2. PipelineInv /\ [Next]_vars => [Requests!Next]_(Requests!vars)
  BY PipelineStep DEF StepIsTrue
<1> QED BY <1>1, <1>2, PipelineInvariance, PTL DEF Spec, KeepsRequests, Requests!Spec

-----------------------------------------------------------------------------
(* The list of deleted items: the operators it is changed with.            *)

\* Without keeps the order, so that the items kept are numbered by their places.
LEMMA WithoutRemoves ==
  ASSUME NEW s \in Seq(Items), IsInjective(s), NEW S
  PROVE  /\ Without(s, S) \in Seq(Items)
         /\ IsInjective(Without(s, S))
         /\ ToSet(Without(s, S)) = ToSet(s) \ S
<1> DEFINE kept == {k \in DOMAIN s : s[k] \notin S}
           upTo(k) == {j \in kept : j <= k}
           place == [k \in kept |-> Cardinality(upTo(k))]
           N == Cardinality(kept)
<1>1. /\ DOMAIN s = 1 .. Len(s) /\ Len(s) \in Nat
      /\ \A k \in DOMAIN s : s[k] \in Items
  OBVIOUS
<1>2. IsFiniteSet(kept) /\ kept \subseteq 1 .. Len(s) /\ N \in Nat
  <2>1. IsFiniteSet(1 .. Len(s))
    BY <1>1, FS_Interval
  <2>2. kept \in SUBSET (1 .. Len(s))
    BY <1>1
  <2>3. IsFiniteSet(kept)
    BY <2>1, <2>2, FS_Subset
  <2> QED BY <2>2, <2>3, FS_CardinalityType
<1> HIDE DEF kept, N
<1>3. ASSUME NEW k \in kept
      PROVE  place[k] \in 1 .. N
  <2>1. upTo(k) \in SUBSET kept /\ k \in upTo(k)
    BY <1>2
  <2>2. IsFiniteSet(upTo(k)) /\ Cardinality(upTo(k)) <= N
    BY <1>2, <2>1, FS_Subset DEF N
  <2>3. Cardinality(upTo(k)) \in Nat /\ Cardinality(upTo(k)) # 0
    BY <2>1, <2>2, FS_CardinalityType, FS_EmptySet
  <2> QED BY <1>2, <2>2, <2>3
<1>4. ASSUME NEW j \in kept, NEW k \in kept, j < k
      PROVE  place[j] < place[k]
  <2>0. j \in Int /\ k \in Int /\ \A x \in kept : x \in Int
    BY <1>1, <1>2
  <2>1. upTo(j) \in SUBSET upTo(k) /\ k \notin upTo(j) /\ k \in upTo(k)
    <3>1. \A x \in kept : x <= j => x <= k
      BY <1>4, <2>0
    <3>2. ~(k <= j) /\ k <= k
      BY <1>4, <2>0
    <3> QED BY <3>1, <3>2
  <2>2. upTo(k) \in SUBSET kept
    OBVIOUS
  <2>3. IsFiniteSet(upTo(k))
    BY <1>2, <2>2, FS_Subset
  <2>4. Cardinality(upTo(j)) <= Cardinality(upTo(k)) /\ Cardinality(upTo(k)) # Cardinality(upTo(j))
    BY <2>1, <2>3, FS_Subset
  <2>5. place[j] \in Int /\ place[k] \in Int
    BY <1>3
  <2> QED BY <2>4, <2>5
<1>5. \A j, k \in kept : place[j] = place[k] => j = k
  <2>1. \A k \in kept : k \in Int /\ place[k] \in Int
    BY <1>2, <1>3
  <2> HIDE DEF place
  <2> QED BY <1>4, <2>1
<1>6. \A n \in 1 .. N : \E k \in kept : place[k] = n
  <2>1. place \in Injection(kept, 1 .. N)
    BY <1>3, <1>5 DEF Injection, IsInjective
  <2>2. IsFiniteSet(1 .. N) /\ Cardinality(1 .. N) = N
    BY <1>2, FS_Interval
  <2>3. place \in Surjection(kept, 1 .. N)
    BY <2>1, <2>2, FS_Injection DEF N
  <2> QED BY <2>3 DEF Surjection
<1> DEFINE at(n) == CHOOSE k \in kept : Cardinality({j \in kept : j <= k}) = n
<1>7. \A n \in 1 .. N : at(n) \in kept /\ place[at(n)] = n
  BY <1>6
<1>8. \A k \in kept : at(place[k]) = k
  BY <1>3, <1>5, <1>7
<1>9. Without(s, S) = [n \in 1 .. N |-> s[at(n)]]
  BY DEF Without, kept, N
<1> HIDE DEF place, at
<1> DEFINE w == [n \in 1 .. N |-> s[at(n)]]
<1>10. \A n \in 1 .. N : at(n) \in DOMAIN s /\ s[at(n)] \in Items /\ s[at(n)] \notin S
  BY <1>1, <1>7 DEF kept
<1>11. w \in Seq(Items) /\ DOMAIN w = 1 .. N
  BY <1>2, <1>10
<1>12. IsInjective(w)
  <2>1. ASSUME NEW m \in 1 .. N, NEW n \in 1 .. N, s[at(m)] = s[at(n)]
        PROVE  m = n
    <3>1. at(m) = at(n)
      BY <1>10, <2>1 DEF IsInjective
    <3> QED BY <1>7, <3>1
  <2> QED BY <2>1 DEF IsInjective
<1>13. ToSet(w) = ToSet(s) \ S
  <2>1. ASSUME NEW x \in ToSet(w)
        PROVE  x \in ToSet(s) \ S
    BY <1>10 DEF ToSet
  <2>2. ASSUME NEW x \in ToSet(s), x \notin S
        PROVE  x \in ToSet(w)
    <3>1. PICK k \in kept : x = s[k]
      BY <2>2 DEF ToSet, kept
    <3>2. place[k] \in 1 .. N /\ w[place[k]] = x
      BY <1>3, <1>8, <3>1
    <3> QED BY <1>11, <3>2 DEF ToSet
  <2> QED BY <2>1, <2>2
<1> QED BY <1>9, <1>11, <1>12, <1>13

LEMMA CleanedProperties ==
  ASSUME NEW s \in Seq(Items), IsInjective(s)
  PROVE  /\ Cleaned(s) \in Seq(Items)
         /\ IsInjective(Cleaned(s))
         /\ ToSet(Cleaned(s)) \subseteq ToSet(s)
         /\ Len(s) <= DeletedCap => Cleaned(s) = s
<1> DEFINE m == (DeletedCap + 1) \div 2 + 1
           t == SubSeq(s, m, Len(s))
<1>1. Len(s) \in Nat /\ DOMAIN s = 1 .. Len(s) /\ (\A k \in 1 .. Len(s) : s[k] \in Items)
  OBVIOUS
<1>2. m \in Nat /\ m >= 1 /\ DeletedCap \in Nat
  BY ConstantsAssumption
<1> HIDE DEF m
<1>3. CASE Len(s) <= DeletedCap
  BY <1>1, <1>2, <1>3 DEF Cleaned
<1>4. CASE ~(Len(s) <= DeletedCap)
  <2>1. Cleaned(s) = t
    BY <1>1, <1>2, <1>4 DEF Cleaned, m
  <2>2. \A i \in m .. Len(s) : s[i] \in Items
    BY <1>1, <1>2
  <2>3. /\ t \in Seq(Items)
        /\ Len(t) = IF m <= Len(s) THEN Len(s) - m + 1 ELSE 0
        /\ \A i \in 1 .. Len(s) - m + 1 : t[i] = s[m + i - 1]
    BY <1>1, <1>2, <2>2, SubSeqProperties
  <2> HIDE DEF t
  <2>4. /\ DOMAIN t = 1 .. Len(t)
        /\ \A i \in 1 .. Len(t) : m + i - 1 \in 1 .. Len(s) /\ t[i] = s[m + i - 1]
    BY <1>1, <1>2, <2>3
  <2>5. IsInjective(t)
    <3>1. ASSUME NEW i \in 1 .. Len(t), NEW j \in 1 .. Len(t), t[i] = t[j]
          PROVE  i = j
      <4>1. m + i - 1 = m + j - 1
        BY <1>1, <2>4, <3>1 DEF IsInjective
      <4> QED BY <1>2, <4>1
    <3> QED BY <2>4, <3>1 DEF IsInjective
  <2>6. ToSet(t) \subseteq ToSet(s)
    BY <1>1, <2>4 DEF ToSet
  <2> QED BY <1>4, <2>1, <2>3, <2>5, <2>6
<1> QED BY <1>3, <1>4

LEMMA ConcatInjective ==
  ASSUME NEW s \in Seq(Items), NEW t \in Seq(Items), IsInjective(s), IsInjective(t),
         \A k \in DOMAIN t : t[k] \notin ToSet(s)
  PROVE  /\ s \o t \in Seq(Items) /\ IsInjective(s \o t)
         /\ ToSet(s \o t) = ToSet(s) \cup ToSet(t)
<1>1. /\ Len(s) \in Nat /\ Len(t) \in Nat
      /\ DOMAIN s = 1 .. Len(s) /\ DOMAIN t = 1 .. Len(t)
  OBVIOUS
<1> DEFINE u == s \o t
<1>2. /\ u \in Seq(Items) /\ Len(u) = Len(s) + Len(t)
      /\ \A i \in 1 .. Len(s) + Len(t) : u[i] = IF i <= Len(s) THEN s[i] ELSE t[i - Len(s)]
  BY ConcatProperties
<1> HIDE DEF u
<1>3. DOMAIN u = 1 .. Len(s) + Len(t)
  BY <1>2
<1>4. \A i \in 1 .. Len(s) + Len(t) : ~(i <= Len(s)) => i - Len(s) \in 1 .. Len(t)
  BY <1>1
<1>5. ASSUME NEW i \in DOMAIN u, NEW j \in DOMAIN u, u[i] = u[j]
      PROVE  i = j
  <2>1. CASE i <= Len(s) /\ j <= Len(s)
    BY <1>1, <1>2, <1>3, <1>5, <2>1 DEF IsInjective
  <2>2. CASE ~(i <= Len(s)) /\ ~(j <= Len(s))
    <3>1. i - Len(s) = j - Len(s)
      BY <1>1, <1>2, <1>3, <1>4, <1>5, <2>2 DEF IsInjective
    <3> QED BY <1>1, <1>3, <3>1
  <2>3. ASSUME NEW k \in 1 .. Len(s), NEW l \in 1 .. Len(t), s[k] = t[l]
        PROVE  FALSE
    BY <1>1, <2>3 DEF ToSet
  <2>4. CASE i <= Len(s) /\ ~(j <= Len(s))
    BY <1>1, <1>2, <1>3, <1>4, <1>5, <2>3, <2>4
  <2>5. CASE ~(i <= Len(s)) /\ j <= Len(s)
    BY <1>1, <1>2, <1>3, <1>4, <1>5, <2>3, <2>5
  <2> QED BY <2>1, <2>2, <2>4, <2>5
<1>6. ToSet(u) = ToSet(s) \cup ToSet(t)
  <2>1. ASSUME NEW x \in ToSet(u)
        PROVE  x \in ToSet(s) \cup ToSet(t)
    <3>1. PICK i \in 1 .. Len(s) + Len(t) : x = u[i]
      BY <1>3 DEF ToSet
    <3>2. CASE i <= Len(s)
      <4>1. i \in 1 .. Len(s) /\ x = s[i]
        BY <1>1, <1>2, <3>1, <3>2
      <4> QED BY <1>1, <4>1 DEF ToSet
    <3>3. CASE ~(i <= Len(s))
      <4>1. i - Len(s) \in 1 .. Len(t) /\ x = t[i - Len(s)]
        BY <1>2, <1>4, <3>1, <3>3
      <4> QED BY <1>1, <4>1 DEF ToSet
    <3> QED BY <3>2, <3>3
  <2>2. ASSUME NEW k \in 1 .. Len(s)
        PROVE  k \in DOMAIN u /\ u[k] = s[k]
    BY <1>1, <1>2, <1>3
  <2>3. ASSUME NEW k \in 1 .. Len(t)
        PROVE  Len(s) + k \in DOMAIN u /\ u[Len(s) + k] = t[k]
    <3>1. Len(s) + k \in 1 .. Len(s) + Len(t) /\ ~(Len(s) + k <= Len(s)) /\ Len(s) + k - Len(s) = k
      BY <1>1
    <3> QED BY <1>2, <1>3, <3>1
  <2>4. ASSUME NEW x \in ToSet(s)
        PROVE  x \in ToSet(u)
    <3>1. PICK k \in 1 .. Len(s) : x = s[k]
      BY <1>1 DEF ToSet
    <3> QED BY <2>2, <3>1 DEF ToSet
  <2>5. ASSUME NEW x \in ToSet(t)
        PROVE  x \in ToSet(u)
    <3>1. PICK k \in 1 .. Len(t) : x = t[k]
      BY <1>1 DEF ToSet
    <3> QED BY <2>3, <3>1 DEF ToSet
  <2> QED BY <2>1, <2>4, <2>5
<1> QED BY <1>2, <1>5, <1>6 DEF IsInjective, u

\* A list without repetition is no longer than the set it is taken from.
LEMMA InjectiveLength ==
  ASSUME NEW s \in Seq(Items), IsInjective(s), NEW T, IsFiniteSet(T), ToSet(s) \subseteq T
  PROVE  Len(s) <= Cardinality(T)
<1>1. Len(s) \in Nat /\ DOMAIN s = 1 .. Len(s) /\ s \in [1 .. Len(s) -> T]
  BY LenProperties DEF ToSet
<1>2. s \in Injection(1 .. Len(s), T)
  BY <1>1 DEF Injection
<1>3. Cardinality(1 .. Len(s)) = Len(s)
  BY <1>1, FS_Interval
<1> QED BY <1>2, <1>3, FS_Injection

LEMMA DeletedIsFinite ==
  ASSUME \A c \in Changes : Deletion(c) => IsFiniteSet(changes[c].items)
  PROVE  IsFiniteSet(DeletedItems) /\ Cardinality(DeletedItems) \in Nat
<1> DEFINE D == {x \in Changes : Deletion(x)}
           f == [c \in D |-> changes[c].items]
           T == {changes[c].items : c \in D}
<1>1. IsFiniteSet(D)
  <2>1. IsFiniteSet(Changes)
    BY ConstantsAssumption, FS_Interval DEF Changes
  <2>2. D \in SUBSET Changes
    OBVIOUS
  <2> QED BY <2>1, <2>2, FS_Subset
<1>2. f \in Surjection(D, T)
  BY DEF Surjection
<1>3. IsFiniteSet(T)
  BY <1>1, <1>2, FS_Surjection
<1>4. IsFiniteSet(UNION T)
  BY <1>3, FS_UNION
<1> QED BY <1>4, FS_CardinalityType DEF DeletedItems

-----------------------------------------------------------------------------
(* The list of deleted items: the steps.                                   *)

\* A step that leaves the list as it is, starts no deletion of items, and ends none that
\* the server did not do.
ListFrame ==
  /\ UNCHANGED mDeletedItemIds
  /\ \A c \in Changes : Deletion(c) => Deletion(c)' /\ changes'[c].items = changes[c].items
  /\ \A c \in Changes : Deletion(c)' => Deletion(c) \/ changes'[c].items = {}
  /\ \A c \in Changes : Deleting(c)' => Deleting(c)
  /\ crashed' \/ (~crashed /\ \A c \in Changes : Deleting(c) => Deleting(c)')

LEMMA SameDeletedItems ==
  ASSUME \A c \in Changes : Deletion(c) => Deletion(c)' /\ changes'[c].items = changes[c].items,
         \A c \in Changes : Deletion(c)' => Deletion(c) \/ changes'[c].items = {}
  PROVE  DeletedItems' = DeletedItems
<1>1. ASSUME NEW i, NEW c \in Changes, Deletion(c), i \in changes[c].items
      PROVE  i \in DeletedItems'
  BY <1>1 DEF DeletedItems
<1>2. ASSUME NEW i, NEW c \in Changes, Deletion(c)', i \in changes'[c].items
      PROVE  i \in DeletedItems
  BY <1>2 DEF DeletedItems
<1> QED BY <1>1, <1>2 DEF DeletedItems

LEMMA ListFrameKeeps ==
  ASSUME ListInv, ListFrame
  PROVE  ListInv'
<1>1. DeletedItems' = DeletedItems
  BY SameDeletedItems DEF ListFrame
<1>2. \A c \in Changes : Deletion(c)' => IsFiniteSet(changes'[c].items)
  BY FS_EmptySet DEF ListFrame, ListInv, ListIsSimple
<1>3. ListIsSimple'
  BY <1>1, <1>2 DEF ListFrame, ListInv, ListIsSimple
<1>4. \A c \in Changes : Deleting(c)' => Deleting(c) /\ changes'[c].items = changes[c].items
  BY DEF ListFrame, Deleting
<1>5. \A i \in Items : DeleteAlreadyCalled(i)' <=> DeleteAlreadyCalled(i)
  BY DEF ListFrame, DeleteAlreadyCalled
<1>6. \A c \in Changes : \A i \in changes'[c].items :
        Deleting(c)' /\ DeletingIsListed /\ Cardinality(DeletedItems) <= DeletedCap
          => DeleteAlreadyCalled(i)'
  BY <1>4 DEF ListFrame, DeleteAlreadyCalled, DeletingIsListed
<1>7. DeletingIsListed'
  BY <1>1, <1>4, <1>6 DEF ListInv, DeletingIsListed
<1>8. ListedIsDeleting'
  <2> SUFFICES ASSUME ~crashed', NEW i \in Items, DeleteAlreadyCalled(i)'
               PROVE  \E c \in Changes : Deleting(c)' /\ i \in changes'[c].items
    BY DEF ListedIsDeleting
  <2>1. PICK c \in Changes : Deleting(c) /\ i \in changes[c].items
    BY <1>5 DEF ListFrame, ListInv, ListedIsDeleting
  <2> QED BY <1>4, <2>1 DEF ListFrame
<1> QED BY <1>3, <1>7, <1>8 DEF ListInv

\* A call that is not for a deletion, or for one of no item.
LEMMA CallKeepsList ==
  ASSUME IInv, FateInv, ListInv, ~crashed,
         NEW c \in Changes, c = mLatestChangeId + 1,
         UNCHANGED <<mDeletedItemIds, dialogs, crashed, store>>,
         \A d \in Changes : d # c =>
            /\ changes'[d].type = changes[d].type /\ changes'[d].items = changes[d].items
            /\ mChangeForJob'[d] = mChangeForJob[d],
         Deletion(c)' => changes'[c].items = {} /\ mChangeForJob'[c] = "none"
  PROVE  ListInv'
<1>1. changes[c].type = "none" /\ ~Busy(c)
  BY NextIdIsFresh
<1>2. c \notin store.applied
  BY NewIsNotApplied
<1>3. \A d \in Changes : InDialog(d)' <=> InDialog(d)
  BY DEF InDialog
<1>4. ~Deletion(c) /\ ~Deleting(c)'
  BY <1>1, <1>2, <1>3 DEF Deletion, Deleting, Busy
<1>5. \A d \in Changes : d # c => /\ Deletion(d)' <=> Deletion(d)
                                  /\ Deleting(d)' <=> Deleting(d)
  BY <1>3 DEF Deletion, Deleting, Busy
<1>6. ListFrame
  BY <1>4, <1>5 DEF ListFrame, Deleting
<1> QED BY <1>6, ListFrameKeeps

\* Busy may end for what is no deletion, for what the server did, and in a crash.
LEMMA ReturnKeepsList ==
  ASSUME ListInv, ~crashed, NEW c \in Changes, HandlerReturned(c), UNCHANGED mDeletedItemIds,
         crashed' \/ (~crashed' /\ (Deletion(c) => c \in store.applied)), crashed' \in BOOLEAN
  PROVE  ListInv'
<1>1. /\ \A d \in Changes : changes'[d].type = changes[d].type /\ changes'[d].items = changes[d].items
      /\ \A d \in Changes : Busy(d)' <=> Busy(d) /\ d # c
      /\ UNCHANGED store
  BY DEF HandlerReturned
<1>2. \A d \in Changes : (Deletion(d)' <=> Deletion(d)) /\ (Deleting(d)' => Deleting(d))
  BY <1>1 DEF Deletion, Deleting
<1>3. crashed' \/ \A d \in Changes : Deleting(d) => Deleting(d)'
  BY <1>1, <1>2 DEF Deleting
<1>4. ListFrame
  BY <1>1, <1>2, <1>3 DEF ListFrame
<1> QED BY <1>4, ListFrameKeeps

\* The handler of a deletion that failed takes its items out of the list.
LEMMA UndeleteKeepsList ==
  ASSUME ListInv, NEW c \in Changes, HandlerReturned(c), Deletion(c),
         c \notin store.applied, UNCHANGED crashed,
         mDeletedItemIds' = Without(mDeletedItemIds, changes[c].items)
  PROVE  ListInv'
<1>1. /\ \A d \in Changes : changes'[d].type = changes[d].type /\ changes'[d].items = changes[d].items
      /\ \A d \in Changes : Busy(d)' <=> Busy(d) /\ d # c
      /\ Busy(c) /\ UNCHANGED store
  BY DEF HandlerReturned
<1>2. \A d \in Changes : /\ Deletion(d)' <=> Deletion(d)
                         /\ Deleting(d)' <=> Deleting(d) /\ d # c
  BY <1>1 DEF Deletion, Deleting
<1>3. DeletedItems' = DeletedItems
  BY <1>1, <1>2, SameDeletedItems
<1>4. /\ mDeletedItemIds' \in Seq(Items) /\ IsInjective(mDeletedItemIds')
      /\ ToSet(mDeletedItemIds') = ToSet(mDeletedItemIds) \ changes[c].items
  BY WithoutRemoves DEF ListInv, ListIsSimple
<1>5. ListIsSimple'
  BY <1>1, <1>2, <1>3, <1>4 DEF ListInv, ListIsSimple
<1>6. \A i \in Items : DeleteAlreadyCalled(i)' <=> DeleteAlreadyCalled(i) /\ i \notin changes[c].items
  BY <1>4 DEF DeleteAlreadyCalled
<1>7. Deleting(c)
  BY <1>1 DEF Deleting
<1>8. DeletingIsListed'
  <2> SUFFICES ASSUME Cardinality(DeletedItems) <= DeletedCap
               PROVE  /\ \A d \in Changes : Deleting(d)' =>
                           \A i \in changes'[d].items : DeleteAlreadyCalled(i)'
                      /\ \A d, e \in Changes : Deleting(d)' /\ Deleting(e)' /\ d # e
                           => changes'[d].items \cap changes'[e].items = {}
    BY <1>3 DEF DeletingIsListed
  <2>1. /\ \A d \in Changes : Deleting(d) => \A i \in changes[d].items : DeleteAlreadyCalled(i)
        /\ \A d, e \in Changes : Deleting(d) /\ Deleting(e) /\ d # e
             => changes[d].items \cap changes[e].items = {}
    BY DEF ListInv, DeletingIsListed
  <2>2. ASSUME NEW d \in Changes, Deleting(d), d # c, NEW i \in changes[d].items
        PROVE  i \in ToSet(mDeletedItemIds')
    <3>1. i \in ToSet(mDeletedItemIds) /\ i \notin changes[c].items
      BY <1>7, <2>1, <2>2 DEF DeleteAlreadyCalled
    <3> QED BY <1>4, <3>1
  <2> QED BY <1>1, <1>2, <2>1, <2>2 DEF DeleteAlreadyCalled
<1>9. ListedIsDeleting'
  <2> SUFFICES ASSUME ~crashed, NEW i \in Items, DeleteAlreadyCalled(i)'
               PROVE  \E d \in Changes : Deleting(d)' /\ i \in changes'[d].items
    BY DEF ListedIsDeleting
  <2>1. DeleteAlreadyCalled(i) /\ i \notin changes[c].items
    BY <1>6
  <2>2. PICK d \in Changes : Deleting(d) /\ i \in changes[d].items
    BY <2>1 DEF ListInv, ListedIsDeleting
  <2> QED BY <1>1, <1>2, <2>1, <2>2
<1> QED BY <1>5, <1>8, <1>9 DEF ListInv

\* What follows the message box of any job that failed.
LEMMA FailureKeepsList ==
  ASSUME IInv, IInv', FateInv, ListInv, ~crashed, NEW c \in Changes,
         NEW code \in {"AlreadyDeleted", "JobError"}, FailureEnds(c, code)
  PROVE  ListInv'
<1>1. HandlerReturned(c) /\ c \notin store.applied
  BY EndFailureFate DEF FailureEnds
<1>2. crashed' \in BOOLEAN
  BY DEF IInv, ChangerTypeOK
<1>3. CASE ~Deletion(c)
  <2>1. UNCHANGED <<mDeletedItemIds, crashed>>
    BY <1>3 DEF FailureEnds, EndFailure, Deletion
  <2> QED BY <1>1, <1>2, <1>3, <2>1, ReturnKeepsList
<1>4. CASE Deletion(c) /\ \A i \in changes[c].items : DeleteAlreadyCalled(i)
  <2>1. UNCHANGED crashed /\ mDeletedItemIds' = Without(mDeletedItemIds, changes[c].items)
    BY <1>4 DEF FailureEnds, EndFailure, Deletion
  <2> QED BY <1>1, <1>4, <2>1, UndeleteKeepsList
<1>5. CASE Deletion(c) /\ \E i \in changes[c].items : ~DeleteAlreadyCalled(i)
  <2>1. crashed' /\ UNCHANGED mDeletedItemIds
    BY <1>5 DEF FailureEnds, EndFailure, Deletion
  <2> QED BY <1>1, <1>2, <2>1, ReturnKeepsList
<1> QED BY <1>3, <1>4, <1>5

\* deleteIncidences(): as long as the list is not cleaned, the items it takes up are new.
LEMMA DeleteKeepsList ==
  ASSUME IInv, FateInv, ListInv, ~crashed, NEW c \in Changes, DeleteIncidences(c)
  PROVE  ListInv'
<1>1. PICK lst \in ItemLists :
        /\ \A k \in DOMAIN lst : ~DeleteAlreadyCalled(lst[k])
        /\ Construct(c, Change("delete", ToSet(lst), 0, 0, "Success"))
        /\ mDeletedItemIds' = Cleaned(mDeletedItemIds \o lst)
  BY DEF DeleteIncidences
<1>2. /\ mChangeForJob' = [mChangeForJob EXCEPT ![c] = "running"]
      /\ UNCHANGED <<dialogs, crashed, store>>
  BY DEF DeleteIncidences
<1> DEFINE old == mDeletedItemIds
           both == old \o lst
<1>3. lst \in Seq(Items) /\ IsInjective(lst)
  BY DEF ItemLists
<1>4. old \in Seq(Items) /\ IsInjective(old) /\ ToSet(old) \subseteq DeletedItems
  BY DEF ListInv, ListIsSimple
<1>5. \A k \in DOMAIN lst : lst[k] \notin ToSet(old)
  BY <1>1 DEF DeleteAlreadyCalled
<1>6. /\ both \in Seq(Items) /\ IsInjective(both)
      /\ ToSet(both) = ToSet(old) \cup ToSet(lst)
  BY <1>3, <1>4, <1>5, ConcatInjective
<1> HIDE DEF both
<1>7. /\ mDeletedItemIds' = Cleaned(both)
      /\ Cleaned(both) \in Seq(Items) /\ IsInjective(Cleaned(both))
      /\ ToSet(Cleaned(both)) \subseteq ToSet(both)
      /\ Len(both) <= DeletedCap => Cleaned(both) = both
  BY <1>1, <1>6, CleanedProperties DEF both
<1>8. IsFiniteSet(ToSet(lst)) /\ ToSet(lst) \cap ToSet(old) = {}
  <2>1. Len(lst) \in Nat /\ DOMAIN lst = 1 .. Len(lst)
    BY <1>3
  <2>2. lst \in Surjection(1 .. Len(lst), ToSet(lst))
    BY <1>3, <2>1 DEF Surjection, ToSet
  <2>3. IsFiniteSet(1 .. Len(lst))
    BY <2>1, FS_Interval
  <2>4. IsFiniteSet(ToSet(lst))
    BY <2>2, <2>3, FS_Surjection
  <2> QED BY <1>5, <2>4 DEF ToSet
<1>9. changes[c].type = "none" /\ ~Busy(c) /\ ChangerTypeOK /\ c \notin store.applied
  BY <1>1, NextIdIsFresh, NewIsNotApplied DEF Construct, IInv
<1>10. /\ changes'[c].type = "delete" /\ changes'[c].items = ToSet(lst)
       /\ \A d \in Changes : d # c => changes'[d] = changes[d]
  BY <1>1, <1>9 DEF Construct, Change, ChangerTypeOK
<1>11. \A d \in Changes : InDialog(d)' <=> InDialog(d)
  BY <1>2 DEF InDialog
<1>12. /\ ~Deletion(c) /\ Deletion(c)' /\ Deleting(c)'
       /\ \A d \in Changes : d # c => /\ Deletion(d)' <=> Deletion(d)
                                      /\ Deleting(d)' <=> Deleting(d)
  BY <1>2, <1>9, <1>10, <1>11 DEF Deletion, Deleting, Busy, ChangerTypeOK
<1>13. DeletedItems' = DeletedItems \cup ToSet(lst)
  <2>1. ASSUME NEW i, NEW d \in Changes, Deletion(d)', i \in changes'[d].items
        PROVE  i \in DeletedItems \cup ToSet(lst)
    BY <1>10, <1>12, <2>1 DEF DeletedItems
  <2>2. ASSUME NEW i, NEW d \in Changes, Deletion(d), i \in changes[d].items
        PROVE  i \in DeletedItems'
    BY <1>10, <1>12, <2>2 DEF DeletedItems
  <2>3. \A i \in ToSet(lst) : i \in DeletedItems'
    BY <1>10, <1>12 DEF DeletedItems
  <2> QED BY <2>1, <2>2, <2>3 DEF DeletedItems
<1>14. IsFiniteSet(DeletedItems) /\ Cardinality(DeletedItems) \in Nat
  BY DeletedIsFinite DEF ListInv, ListIsSimple
<1>15. /\ IsFiniteSet(DeletedItems') /\ Cardinality(DeletedItems') \in Nat
       /\ Cardinality(DeletedItems) <= Cardinality(DeletedItems')
  BY <1>8, <1>13, <1>14, FS_Union, FS_Subset, FS_CardinalityType
<1>16. ListIsSimple'
  <2>1. \A d \in Changes : Deletion(d)' => IsFiniteSet(changes'[d].items)
    BY <1>8, <1>10, <1>12 DEF ListInv, ListIsSimple
  <2> QED BY <1>4, <1>6, <1>7, <1>13, <2>1 DEF ListIsSimple
<1>17. DeletingIsListed'
  <2> SUFFICES ASSUME Cardinality(DeletedItems') <= DeletedCap
               PROVE  /\ \A d \in Changes : Deleting(d)' =>
                           \A i \in changes'[d].items : i \in ToSet(mDeletedItemIds')
                      /\ \A d, e \in Changes : Deleting(d)' /\ Deleting(e)' /\ d # e
                           => changes'[d].items \cap changes'[e].items = {}
    BY DEF DeletingIsListed, DeleteAlreadyCalled
  <2>1. DeletedCap \in Nat
    BY ConstantsAssumption
  <2>2. /\ \A d \in Changes : Deleting(d) => \A i \in changes[d].items : i \in ToSet(old)
        /\ \A d, e \in Changes : Deleting(d) /\ Deleting(e) /\ d # e
             => changes[d].items \cap changes[e].items = {}
    BY <1>14, <1>15, <2>1 DEF ListInv, DeletingIsListed, DeleteAlreadyCalled
  <2>3. Len(both) <= Cardinality(DeletedItems')
    BY <1>4, <1>6, <1>13, <1>15, InjectiveLength
  <2>4. Len(both) \in Nat
    BY <1>6
  <2>5. ToSet(mDeletedItemIds') = ToSet(old) \cup ToSet(lst)
    BY <1>6, <1>7, <1>15, <2>1, <2>3, <2>4
  <2>6. \A d \in Changes : Deleting(d)' => \A i \in changes'[d].items : i \in ToSet(mDeletedItemIds')
    BY <1>10, <1>12, <2>2, <2>5
  <2>7. \A d \in Changes : d # c /\ Deleting(d)' => changes'[d].items \cap ToSet(lst) = {}
    BY <1>8, <1>10, <1>12, <2>2
  <2>8. \A d, e \in Changes : Deleting(d)' /\ Deleting(e)' /\ d # e
             => changes'[d].items \cap changes'[e].items = {}
    BY <1>10, <1>12, <2>2, <2>7
  <2> QED BY <2>6, <2>8
<1>18. ListedIsDeleting'
  <2> SUFFICES ASSUME NEW i \in Items, DeleteAlreadyCalled(i)'
               PROVE  \E d \in Changes : Deleting(d)' /\ i \in changes'[d].items
    BY DEF ListedIsDeleting
  <2>1. CASE i \in ToSet(lst)
    BY <1>10, <1>12, <2>1
  <2>2. CASE i \notin ToSet(lst)
    <3>1. DeleteAlreadyCalled(i)
      BY <1>6, <1>7, <2>2 DEF DeleteAlreadyCalled
    <3>2. PICK d \in Changes : Deleting(d) /\ i \in changes[d].items
      BY <3>1 DEF ListInv, ListedIsDeleting
    <3>3. d # c
      BY <1>12, <3>2 DEF Deleting
    <3>4. Deleting(d)' /\ changes'[d].items = changes[d].items
      BY <1>10, <1>12, <3>2, <3>3
    <3> QED BY <3>2, <3>4
  <2> QED BY <2>1, <2>2
<1> QED BY <1>16, <1>17, <1>18 DEF ListInv

LEMMA CallerKeepsList ==
  ASSUME IInv, IInv', FateInv, ListInv, ~crashed, NEW c \in Changes, Caller(c)
  PROVE  ListInv'
<1>1. ChangerTypeOK
  BY DEF IInv
<1>2. CASE DeleteIncidences(c)
  BY <1>2, DeleteKeepsList
<1>3. CASE CreateIncidence(c) \/ CreateRefused(c) \/ ModifyRefused(c) \/ DeleteRefused(c)
  <2>1. /\ c = mLatestChangeId + 1
        /\ UNCHANGED <<mDeletedItemIds, dialogs, crashed, store>>
        /\ mChangeForJob' = [mChangeForJob EXCEPT ![c] = "running"] \/ UNCHANGED mChangeForJob
    BY <1>3 DEF CreateIncidence, CreateRefused, ModifyRefused, DeleteRefused, Construct
  <2>2. \A d \in Changes : d # c => changes'[d] = changes[d] /\ mChangeForJob'[d] = mChangeForJob[d]
    BY <1>1, <1>3, <2>1 DEF CreateIncidence, CreateRefused, ModifyRefused, DeleteRefused,
                            Construct, ChangerTypeOK
  <2>3. changes[c].type = "none" /\ mChangeForJob[c] = "none"
    BY <2>1, NextIdIsFresh DEF Busy
  <2>4. ASSUME Deletion(c)'
        PROVE  changes'[c].items = {} /\ mChangeForJob'[c] = "none"
    <3>1. DeleteRefused(c)
      BY <1>1, <1>3, <2>3, <2>4 DEF CreateIncidence, CreateRefused, ModifyRefused, Construct,
                                    Change, Deletion, ChangerTypeOK
    <3> QED BY <1>1, <2>3, <3>1 DEF DeleteRefused, Construct, Change, ChangerTypeOK
  <2> QED BY <2>1, <2>2, <2>4, CallKeepsList
<1>4. CASE ModifyIncidence(c)
  <2>1. UNCHANGED <<mDeletedItemIds, dialogs, crashed, store>>
    BY <1>4 DEF ModifyIncidence
  <2>0. PICK i \in Items : \E r \in 0 .. store.revision[i] :
          ModifyDeleted(c, i, r) \/ ModifyQueued(c, i, r) \/ ModifyStarted(c, i, r)
    BY <1>4 DEF ModifyIncidence
  <2>2. PICK r \in 0 .. store.revision[i] :
          ModifyDeleted(c, i, r) \/ ModifyQueued(c, i, r) \/ ModifyStarted(c, i, r)
    BY <2>0
  <2>3. c = mLatestChangeId + 1
    BY <2>2 DEF ModifyDeleted, ModifyQueued, ModifyStarted, Construct
  <2> DEFINE new == Change("modify", {i}, r, 0, "Success")
  <2>4. new.type = "modify" /\ Prepared(new).type = "modify"
    BY DEF Change, Prepared
  <2> HIDE DEF new
  <2>5. \/ changes' = [changes EXCEPT ![c] = new]
        \/ changes' = [changes EXCEPT ![c] = Prepared(new)]
        \/ QueueModification(c, Prepared(new), i)
    BY <2>2 DEF ModifyDeleted, ModifyQueued, ModifyStarted, Construct, new
  <2>6. changes'[c].type = "modify"
    BY <1>1, <2>4, <2>5 DEF QueueModification, ChangerTypeOK
  <2>7. \A d \in Changes : d # c => /\ changes'[d].type = changes[d].type
                                    /\ changes'[d].items = changes[d].items
    <3>1. ASSUME NEW d \in Changes, d # c
          PROVE  changes'[d] \in {changes[d], [changes[d] EXCEPT !.resultCode = "ModificationDiscarded"]}
      BY <1>1, <2>5, <3>1 DEF QueueModification, ChangerTypeOK
    <3>2. ASSUME NEW d \in Changes
          PROVE  /\ [changes[d] EXCEPT !.resultCode = "ModificationDiscarded"].type = changes[d].type
                 /\ [changes[d] EXCEPT !.resultCode = "ModificationDiscarded"].items = changes[d].items
      BY <1>1 DEF ChangerTypeOK
    <3> QED BY <3>1, <3>2
  <2>8. \A d \in Changes : d # c => mChangeForJob'[d] = mChangeForJob[d]
    BY <1>1, <2>2 DEF ModifyDeleted, ModifyQueued, ModifyStarted, ChangerTypeOK
  <2> QED BY <2>1, <2>3, <2>6, <2>7, <2>8, CallKeepsList DEF Deletion
<1> QED BY <1>2, <1>3, <1>4 DEF Caller

LEMMA PerformNextKeepsList ==
  ASSUME IInv, ListInv, ~crashed, NEW i \in Items, PerformNextModification(i)
  PROVE  ListInv'
<1>1. ChangerTypeOK
  BY DEF IInv
<1>2. UNCHANGED <<mDeletedItemIds, dialogs, crashed, store>>
  BY DEF PerformNextModification
<1> DEFINE c == mQueuedModifications[i]
<1>3. \/ UNCHANGED <<changes, mChangeForJob>>
      \/ /\ c \in Changes
         /\ changes' = [changes EXCEPT ![c] = Prepared(changes[c])]
         /\ mChangeForJob' = [mChangeForJob EXCEPT ![c] = "running"]
  BY <1>1 DEF PerformNextModification, ChangerTypeOK
<1>4. \A d \in Changes : Prepared(changes[d]).type = changes[d].type
                         /\ Prepared(changes[d]).items = changes[d].items
  BY <1>1 DEF Prepared, ChangerTypeOK
<1>5. \A d \in Changes : changes'[d].type = changes[d].type /\ changes'[d].items = changes[d].items
  BY <1>1, <1>3, <1>4 DEF ChangerTypeOK
<1>6. c \in Changes => ~Deletion(c)
  BY DEF IInv, QueuedIsWaiting, OfItem, Deletion
<1>7. \A d \in Changes : Deletion(d) => mChangeForJob'[d] = mChangeForJob[d]
  BY <1>1, <1>3, <1>6 DEF ChangerTypeOK
<1>8. \A d \in Changes : InDialog(d)' <=> InDialog(d)
  BY <1>2 DEF InDialog
<1>9. \A d \in Changes : /\ Deletion(d)' <=> Deletion(d)
                         /\ Deleting(d)' <=> Deleting(d)
  BY <1>2, <1>5, <1>7, <1>8 DEF Deletion, Deleting, Busy
<1>10. ListFrame
  BY <1>2, <1>5, <1>9 DEF ListFrame
<1> QED BY <1>10, ListFrameKeeps

\* The server ends a job, another program writes: nothing the list depends on changes.
LEMMA WorldKeepsList ==
  ASSUME IInv, StoreTypeOK, ListInv,
         (\E c \in Changes : Server(c)) \/ (\E i \in Items : ForeignWrite(i)) \/ UNCHANGED vars
  PROVE  ListInv'
<1>1. ChangerTypeOK
  BY DEF IInv
<1>2. UNCHANGED <<changes, mDeletedItemIds, dialogs, crashed>>
  BY DEF Server, CreateStored, ModifyStored, DeleteStored, JobFails, Finish, ForeignWrite,
         changerVars, vars
<1>3. \A d \in Changes : InDialog(d)' <=> InDialog(d)
  BY <1>2 DEF InDialog
<1> DEFINE Same == \A d \in Changes :
             /\ Busy(d)' <=> Busy(d)
             /\ Busy(d) \/ (d \in store'.applied <=> d \in store.applied)
<1>4. Same
  <2>1. ASSUME NEW c \in Changes, Server(c)
        PROVE  Same
    <3>1. PICK result \in {"succeeded", "failed"} :
            /\ Finish(c, result)
            /\ store'.applied = store.applied \cup {c} \/ UNCHANGED store
      BY <2>1 DEF Server, CreateStored, ModifyStored, DeleteStored, JobFails, StoreTypeOK
    <3>2. mChangeForJob[c] = "running" /\ mChangeForJob' = [mChangeForJob EXCEPT ![c] = result]
      BY <3>1 DEF Finish
    <3>3. \A d \in Changes : Busy(d)' <=> Busy(d)
      BY <1>1, <1>3, <3>2 DEF Busy, ChangerTypeOK
    <3>4. Busy(c)
      BY <3>2 DEF Busy
    <3> QED BY <3>1, <3>3, <3>4
  <2>2. ASSUME NEW i \in Items, ForeignWrite(i)
        PROVE  Same
    <3>1. store'.applied = store.applied
      BY <2>2 DEF ForeignWrite, StoreTypeOK
    <3>2. UNCHANGED mChangeForJob
      BY <2>2 DEF ForeignWrite, changerVars
    <3> QED BY <1>3, <3>1, <3>2 DEF Busy
  <2>3. CASE UNCHANGED vars
    BY <1>3, <2>3 DEF vars, changerVars, Busy
  <2> HIDE DEF Same
  <2> QED BY <2>1, <2>2, <2>3
<1>5. \A d \in Changes : /\ Deletion(d)' <=> Deletion(d)
                         /\ Deleting(d)' <=> Deleting(d)
  BY <1>2, <1>4 DEF Deletion, Deleting
<1>6. crashed \in BOOLEAN
  BY <1>1 DEF ChangerTypeOK
<1>7. ListFrame
  BY <1>2, <1>5, <1>6 DEF ListFrame
<1> QED BY <1>7, ListFrameKeeps

LEMMA ListStep ==
  ASSUME PipelineInv, ListInv, [Next]_vars
  PROVE  ListInv'
<1>1. IInv /\ IInv' /\ FateInv /\ StoreTypeOK
  BY NextInv DEF PipelineInv, ServerInv
<1>2. ASSUME ~crashed, NEW c \in Changes, HandleJobResult(c)
      PROVE  ListInv'
  <2>1. CASE HandleCreateJobSuccess(c) \/ HandleModifyJobSuccess(c) \/ HandleDeleteJobSuccess(c)
    <3>1. UNCHANGED <<mDeletedItemIds, crashed>>
      BY <2>1 DEF HandleCreateJobSuccess, HandleModifyJobSuccess, HandleDeleteJobSuccess
    <3>2. HandlerReturned(c) /\ c \in store.applied
      BY <1>1, <2>1, SuccessReturns
    <3>3. ~crashed' /\ crashed' \in BOOLEAN
      BY <1>1, <1>2, <3>1 DEF IInv, ChangerTypeOK
    <3> QED BY <1>2, <3>1, <3>2, <3>3, ReturnKeepsList
  <2>2. CASE HandleJobFailure(c)
    <3>1. CASE \E code \in {"AlreadyDeleted", "JobError"} : FailureEnds(c, code)
      BY <1>1, <1>2, <3>1, FailureKeepsList
    <3>2. CASE /\ UNCHANGED <<changes, mDeletedItemIds, crashed, store>>
               /\ \A d \in Changes : Busy(d)' <=> Busy(d)
      <4>1. ListFrame
        BY <1>2, <3>2 DEF ListFrame, Deletion, Deleting
      <4> QED BY <4>1, ListFrameKeeps
    <3> QED BY <1>1, <2>2, <3>1, <3>2, JobFailureFate
  <2> QED BY <1>2, <2>1, <2>2 DEF HandleJobResult
<1>3. ASSUME ~crashed, CloseErrorDialog
      PROVE  ListInv'
  BY <1>1, <1>3, CloseDialogFate, FailureKeepsList
<1> QED BY <1>1, <1>2, <1>3, CallerKeepsList, PerformNextKeepsList, WorldKeepsList DEF Next

LEMMA ListInit ==
  ASSUME Init
  PROVE  ListInv
<1>1. \A c \in Changes : changes[c].type = "none"
  BY DEF Init, NotConstructed, Change
<1>2. \A c \in Changes : ~Deletion(c) /\ ~Deleting(c)
  BY <1>1 DEF Deletion, Deleting
<1>3. mDeletedItemIds = <<>> /\ ToSet(mDeletedItemIds) = {}
  BY DEF Init, ToSet
<1>4. mDeletedItemIds \in Seq(Items) /\ IsInjective(mDeletedItemIds)
  BY <1>3 DEF IsInjective
<1> QED BY <1>2, <1>3, <1>4 DEF ListInv, ListIsSimple, DeletingIsListed, ListedIsDeleting,
                                DeleteAlreadyCalled

-----------------------------------------------------------------------------
\* The whole invariant of the changer: pipeline, server and list of deletions.
THEOREM ChangerInvariance == Spec => []ChangerInv
<1>1. Init => ChangerInv
  BY PipelineInit, ListInit DEF ChangerInv
<1>2. ChangerInv /\ [Next]_vars => ChangerInv'
  BY PipelineStep, ListStep DEF ChangerInv
<1> QED BY <1>1, <1>2, PTL DEF Spec

\* deleteAlreadyCalled(): an item is listed if and only if it is being deleted, or was, as
\* long as the list was not cleaned; a failed deletion takes its items out again.
THEOREM DeletionsAreListed == Spec => []ListedIsDeleted
<1>1. ASSUME ChangerInv
      PROVE  ListedIsDeleted
  <2>1. TypeOK
    BY <1>1 DEF ChangerInv, PipelineInv, IInv, ListInv, ListIsSimple, TypeOK
  <2>2. DeletedIsListed
    <3> SUFFICES ASSUME Cardinality(DeletedItems) <= DeletedCap,
                        NEW i \in Items, DeletionUnderway(i)
                 PROVE  DeleteAlreadyCalled(i)
      BY DEF DeletedIsListed, DeletedItems, Deletion
    <3>1. PICK c \in Changes : /\ changes[c].type = "delete" /\ i \in changes[c].items
                               /\ mChangeForJob[c] # "none" \/ c \in store.applied
      BY DEF DeletionUnderway
    <3>2. Deleting(c)
      BY <3>1 DEF Deleting, Deletion, Busy
    <3> QED BY <1>1, <3>1, <3>2 DEF ChangerInv, ListInv, DeletingIsListed
  <2>3. ASSUME ~crashed, NEW i \in Items, DeleteAlreadyCalled(i)
        PROVE  \/ DeletionUnderway(i)
               \/ \E c \in Changes : /\ changes[c].type = "delete" /\ InDialog(c)
                                     /\ i \in changes[c].items
    <3>1. PICK c \in Changes : Deleting(c) /\ i \in changes[c].items
      BY <1>1, <2>3 DEF ChangerInv, ListInv, ListedIsDeleting
    <3> QED BY <3>1 DEF Deleting, Deletion, Busy, DeletionUnderway
  <2> QED BY <2>1, <2>2, <2>3 DEF ListedIsDeleted
<1> QED BY <1>1, ChangerInvariance, PTL
=============================================================================
