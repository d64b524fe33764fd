---------------------------- MODULE ITIPHandler ----------------------------
(***************************************************************************)
(* Akonadi::ITIPHandler (src/src/itiphandler.cpp, itiphandler_p.cpp) with  *)
(* its Scheduler, its MailClient, its ITIPHandlerHelper and its calendar.  *)
(*                                                                         *)
(* One operation at a time: a call sets m_currentOperation, and the first  *)
(* transactionFinished() of the scheduler ends it, whatever it is about.   *)
(* A call made while the handler's own calendar is loading is repeated     *)
(* when it is loaded.  Posted calls run in order, each in a step of its    *)
(* own; message boxes and dialogs are answered within the step that opens  *)
(* them.                                                                   *)
(***************************************************************************)
EXTENDS Scheduler, MailClient, FetchJobCalendar, Sequences, SequencesExt

CONSTANT MaxCalls  \* bound on the application's calls

ASSUME MaxCallsAssumption == MaxCalls \in Nat

VARIABLES
  setting,   \* what the application and the user have configured
  handler,   \* the members of the handler and of its helper, see Init
  call       \* the application's last call

vars == <<calendar, mails, fetching, setting, handler, call>>

Operations == {"none", "process", "send", "publish"}
NoMessage  == [action |-> "none"]
Answer(signal, result) == [signal |-> signal, result |-> result]
ResultOf(success) == IF success THEN "Success" ELSE "Error"

\* The copies a calendar may hold before: none, mine, somebody else's, a read-only one.
First(readOnly, mine) == [uid |-> 1, exception |-> FALSE, revision |-> 1, readOnly |-> readOnly,
                          mine |-> mine, type |-> "event"]

\* `sending`: the helper's m_status is StatusSendingInvitation; `posted`: the calls posted
\* to the event loop; `by`: the call of the last operation; `answers`: the signals for the last call; `misled`: an operation
\* was ended by what another call had started; `hasty`: a call was over before all it
\* had started was over.
Init ==
  /\ copies \in {{}, {First(FALSE, TRUE)}, {First(FALSE, FALSE)}, {First(TRUE, TRUE)}}
  /\ jobs = {} /\ arriving = {} /\ connected = FALSE
  /\ mails = {}
  /\ FetchInit
  /\ setting \in {s \in [given : BOOLEAN, outlookCompat : BOOLEAN, delegate : BOOLEAN] : ~(s.outlookCompat /\ s.delegate)}
  /\ handler = [m_currentOperation |-> "none", m_method |-> "No", m_incidence |-> FALSE,
                m_queuedInvitation |-> NoMessage, m_calendarLoadError |-> FALSE, sending |-> FALSE,
                posted |-> <<>>, by |-> 0, answers |-> <<>>, misled |-> FALSE, hasty |-> FALSE,
                crashed |-> FALSE]
  /\ call = [number |-> 0, sound |-> FALSE, stores |-> 0]

-----------------------------------------------------------------------------
(* The end of an operation: operators on the handler's members that return *)
(* what they may become.                                                   *)

Says(h, signal, result) == [h EXCEPT !.answers = Append(@, Answer(signal, result))]
Posts(h, event, result) ==
  [h EXCEPT !.posted = Append(@, [event |-> event, result |-> result, call |-> h.by])]

\* emitiTipMessageProcessed(), with which an operation ends that could not start.
PostsAnswer(h, result) == Posts(h, "processed", result)
Refuses(h) == PostsAnswer([h EXCEPT !.m_currentOperation = "none"], "Error")

\* ITIPHandlerHelper::sentInvitation() with the primary button: the mail is posted.
SendsInvitation(h) == [Posts(h, "performTransaction", "none") EXCEPT !.sending = TRUE, !.hasty = TRUE]

\* onHelperFinished() when it does not lead to an update about a counter proposal.
HelperTells(h, success) ==
  Says(h, IF h.m_currentOperation = "process" THEN "processed" ELSE "sent", ResultOf(success))

\* onHelperModifyDialogClosed(): nothing was sent, or had to be.
ModifyDialogClosed(h) == Says(h, "sent", "Success")

\* sendIncidenceModifiedMessage() for a counter proposal we accepted: nobody is to be
\* told, the user does not send an update, or does.  While an operation is in progress
\* an update that is sent asks for another; the second is not sent here.
NotSent(h) == {HelperTells(ModifyDialogClosed(h), FALSE), ModifyDialogClosed(HelperTells(h, FALSE))}

Updates(h) ==
  LET sent == SendsInvitation(h)
      all  == NotSent(h) \cup (IF h.m_currentOperation = "none" THEN {HelperTells(sent, TRUE)} ELSE NotSent(sent))
  IN  IF h.m_incidence THEN {[u EXCEPT !.m_incidence = FALSE] : u \in all} ELSE {[h EXCEPT !.crashed = TRUE]}

\* finishProcessiTIPMessage().
FinishProcess(h, result) ==
  IF result = "Success" /\ h.m_method = "Counter" THEN Updates(h) ELSE {Says(h, "processed", result)}

\* onHelperFinished().
HelperFinished(h, success) ==
  IF h.m_currentOperation = "process" THEN FinishProcess(h, ResultOf(success)) ELSE {HelperTells(h, success)}

\* ITIPHandlerHelper::onSchedulerFinished(): whichever button answers the question about
\* a mail that failed, the helper has not succeeded.
HelperSchedulerFinished(h, success) == HelperFinished([h EXCEPT !.sending = FALSE], success)

\* Mutant of Over: the operation stays in progress.
OverKept(h) == h

Over(h) == [h EXCEPT !.m_currentOperation = "none"]

\* finishSendiTIPMessage(), finishPublishInformation(), finishSendAsICalendar(): whatever
\* went wrong is an error; the boxes are closed before the answer.
FinishSendiTIPMessage(h, result)    == Says(h, "sent", ResultOf(result = "Success"))
FinishPublishInformation(h, result) == Says(h, "published", ResultOf(result = "Success"))
FinishSendAsICalendar(h, result)    == Says(h, "forwarded", ResultOf(result = "Success"))

\* onSchedulerFinished().
OnSchedulerFinished(h, result) ==
  CASE h.m_currentOperation = "none"    -> {h}
    [] h.m_currentOperation = "process" -> FinishProcess(Over(h), result)
    [] h.m_currentOperation = "send"    -> {FinishSendiTIPMessage(Over(h), result)}
    [] h.m_currentOperation = "publish" -> {FinishPublishInformation(Over(h), result)}

\* transactionFinished() of the handler's scheduler, about what `number` had started.
TransactionFinished(h, result, number) ==
  {[f EXCEPT !.misled = @ \/ (h.m_currentOperation # "none" /\ number # h.by)] :
     f \in IF result = "none" THEN {h} ELSE OnSchedulerFinished(h, result)}

-----------------------------------------------------------------------------
(* Mails.  Nobody asks the handler for their protection.                   *)

NewMails(owner, number) ==
  {Mail(owner, number, x) : x \in Composed([sign |-> FALSE, encrypt |-> FALSE])}

\* A mail is refused at once, which the owner's scheduler reports, or composed.
Performs(owner, number, accepted, refused) ==
  \/ mails' = mails /\ handler' \in refused
  \/ /\ \E m \in NewMails(owner, number) : Sent(m)
     /\ handler' \in accepted

-----------------------------------------------------------------------------
(* processiTIPMessage().                                                   *)

\* An outcome comes about; `h` is the handler before.
Comes(h, o, connects) ==
  LET ends(S) == UNION {TransactionFinished(i, o.result, h.by) : i \in S}
  IN  /\ copies' = Placed(o.inPlace)
      /\ jobs' = jobs \cup {[kind |-> x.kind, copy |-> x.copy, call |-> h.by] : x \in o.changes}
      /\ connected' = (connected \/ connects)
      /\ IF o.mail THEN Performs("handler", h.by, ends({h}), ends(TransactionFinished(h, "Error", h.by)))
         ELSE mails' = mails /\ handler' \in ends({h})
      /\ UNCHANGED arriving

\* A message of which some parts are over before others: a published incidence is
\* answered before it is added, exceptions are deleted beside their incidence, a reply
\* may have others told by mail.
Hasty(msg, o) == Cardinality(o.changes) > 1 \/ o.mail \/ (msg.method = "Publish" /\ o.changes # {})

Accepts(h, msg, outcomes, connects) ==
  \E o \in outcomes : Comes([h EXCEPT !.hasty = @ \/ Hasty(msg, o)], o, connects)

\* Answered with the operation left in progress.
LeavesOpen(h, result) == [PostsAnswer(h, result) EXCEPT !.hasty = TRUE]

\* A counter proposal of ours: edited, left as it was, or there is no editor.  The
\* operation is left in progress.
Counters(h) ==
  /\ handler' \in IF setting.delegate
                  THEN {LeavesOpen(h, "Cancelled")} \cup HelperFinished(SendsInvitation(h), TRUE)
                  ELSE {LeavesOpen(h, "Error")}
  /\ UNCHANGED <<calendar, mails>>

Silently(h) == handler' = h /\ UNCHANGED <<calendar, mails>>

\* From line 106 on; `h` has the operation in progress.
Process(h, msg) ==
  LET known == [h EXCEPT !.m_method = msg.method, !.m_incidence = TRUE]
  IN  CASE h.m_calendarLoadError -> Silently(Refuses(h))
        [] ~h.m_calendarLoadError /\ msg.type = "freebusy" ->
             Silently(Refuses([h EXCEPT !.m_method = msg.method, !.m_incidence = FALSE]))
        [] OTHER ->
             CASE msg.action \in {"accepted", "request"} \/ (msg.action = "counter" /\ setting.outlookCompat) ->
                    Accepts(known, msg, AcceptTransaction(msg), TRUE)
               [] msg.action = "counter" /\ ~setting.outlookCompat -> Counters(known)
               [] msg.action = "cancel" ->
                    IF copies = {} THEN Silently(LeavesOpen(known, "Success"))
                    ELSE Accepts(known, msg, AcceptCancel(msg), TRUE)
               [] msg.action = "reply" ->
                    IF msg.method # "Counter" THEN Accepts(known, msg, AcceptTransaction(msg), TRUE)
                    ELSE Accepts(known, msg, AcceptCounterProposal(msg), FALSE)
               [] msg.action = "unknown" -> Silently(Refuses(known))

-----------------------------------------------------------------------------
(* The application's calls.                                                *)

Quiet == jobs = {} /\ mails = {} /\ handler.posted = <<>> /\ handler.m_currentOperation = "none"
Busy  == ~Quiet /\ handler.m_currentOperation # "none"

\* A call begins; `sound` that it must be answered, `stores` the revision that success
\* means to be in the calendar, or 0.
Begins(sound, stores) ==
  /\ ~handler.crashed
  /\ call.number < MaxCalls
  /\ call' = [number |-> call.number + 1, sound |-> sound /\ Quiet, stores |-> stores]

Fresh == [handler EXCEPT !.answers = <<>>]

Starts(operation) == [Fresh EXCEPT !.m_currentOperation = operation, !.by = call.number + 1]

\* isLoaded() creates the handler's own calendar.
Loaded   == setting.given \/ fetch \notin {"none", "collections", "items"}
Prepared == IF setting.given \/ fetch # "none" THEN UNCHANGED fetching ELSE Construct

\* What the application can count on: a request or a cancellation is answered.
Promised(msg)   == msg.action \in {"accepted", "request", "cancel"} /\ msg.method \in {"Request", "Cancel", "Publish"}
PromisedIn(msg) == IF msg.action \in {"accepted", "request"} /\ msg.method = "Request" THEN msg.revision ELSE 0

ProcessiTIPMessage(msg) ==
  /\ Begins(Promised(msg), PromisedIn(msg))
  /\ IF handler.m_currentOperation # "none"
     THEN /\ Silently([Over(Fresh) EXCEPT !.hasty = TRUE])
          /\ UNCHANGED fetching
     ELSE LET h == Starts("process")
          IN  /\ Prepared
              /\ IF Loaded THEN Process(h, msg)
                 ELSE Silently([h EXCEPT !.m_queuedInvitation = msg])
  /\ UNCHANGED setting

\* Nobody may be asked for with an operation in progress: sendiTIPMessage() and
\* publishInformation() assert that there is none.
SendiTIPMessage ==
  /\ handler.m_currentOperation = "none"
  /\ Begins(FALSE, 0)
  /\ Prepared
  /\ LET h == Starts("send")
     IN  \/ Silently(Fresh)  \* not loaded yet, or nobody attends
         \/ /\ Loaded
            /\ Performs("handler", h.by, {h}, TransactionFinished(h, "Error", h.by))
            /\ UNCHANGED calendar
  /\ UNCHANGED <<setting>>

PublishInformation ==
  /\ handler.m_currentOperation = "none"
  /\ Begins(FALSE, 0)
  /\ LET h == Starts("publish")
     IN  \/ Silently(Says(Fresh, "published", "Success"))  \* the dialog is cancelled
         \/ /\ Performs("handler", h.by, {h}, TransactionFinished(h, "Error", h.by))
            /\ UNCHANGED calendar
  /\ UNCHANGED <<fetching, setting>>

\* sendAsICalendar() has a MailClient of its own and is no operation.
SendAsICalendar ==
  /\ Begins(FALSE, 0)
  /\ \/ Silently(Fresh)
     \/ Performs("forward", 0, {Fresh}, {FinishSendAsICalendar(Fresh, "Error")}) /\ UNCHANGED calendar
  /\ UNCHANGED <<fetching, setting>>

-----------------------------------------------------------------------------
(* What happens by itself.                                                 *)

\* onLoadFinished(): the message that waits is processed; the one processed last, if
\* its call came between the end of the load and this.  A mail that is being sent then
\* was not waiting: sendiTIPMessage() asserts that no operation is in progress, and does
\* nothing in a build without assertions.
OnLoadFinished(h, success) ==
  LET msg == h.m_queuedInvitation
  IN  CASE h.m_currentOperation = "process" /\ success ->
             IF msg = NoMessage THEN Silently([h EXCEPT !.crashed = TRUE])
             ELSE Process([h EXCEPT !.m_queuedInvitation = NoMessage], msg)
        [] h.m_currentOperation = "process" /\ ~success ->
             Silently([Says(h, "processed", "Error") EXCEPT !.hasty = TRUE])
        [] h.m_currentOperation = "send" -> \E asserts \in BOOLEAN : Silently([h EXCEPT !.crashed = asserts])
        [] h.m_currentOperation \in {"none", "publish"} ->
             Silently([h EXCEPT !.m_calendarLoadError = @ \/ ~success])

\* The next posted call is made.
PostedCall ==
  /\ ~handler.crashed
  /\ handler.posted # <<>>
  /\ UNCHANGED <<fetching, setting, call>>
  /\ LET first == Head(handler.posted)
         h     == [handler EXCEPT !.posted = Tail(@)]
     IN  CASE first.event = "processed" ->
                Silently(IF first.call = call.number THEN Says(h, "processed", first.result) ELSE h)
           [] first.event = "performTransaction" ->
                Performs("helper", 0, {h}, HelperSchedulerFinished(h, FALSE)) /\ UNCHANGED <<calendar>>
           [] first.event = "loadFinished" -> OnLoadFinished(h, first.result = "Success")

\* The calendar has loaded, or not.
LoadEnds(success) ==
  /\ ~handler.crashed
  /\ SearchJobFinished(success)
  /\ UNCHANGED <<setting, call>>
  /\ Silently(Posts(handler, "loadFinished", ResultOf(success)))

FetchGoesOn ==
  /\ ~handler.crashed
  /\ CollectionsListed \/ ItemsFetched
  /\ UNCHANGED <<calendar, mails, setting, handler, call>>

\* A change is over: createFinished(), modifyFinished() or deleteFinished().
JobDone(j) ==
  /\ ~handler.crashed
  /\ \E success \in BOOLEAN :
       LET done == success /\ Succeeded(j)
       IN  /\ copies' = IF done THEN Applied(j, setting.given) ELSE copies
           /\ arriving' = IF done /\ setting.given /\ j.kind = "create" THEN arriving \cup {j.copy} ELSE arriving
           /\ UNCHANGED call
           /\ \E result \in IF done THEN {"Success"} ELSE IF j.kind = "create" THEN {"Error", "Cancelled"} ELSE {"Error"} :
                handler' \in IF connected THEN TransactionFinished(handler, result, j.call) ELSE {handler}
  /\ jobs' = jobs \ {j}
  /\ UNCHANGED <<connected, mails, fetching, setting>>

\* The model of the calendar shows what was created.
Arrive(copy) ==
  /\ ~handler.crashed
  /\ copies' = Inserted(copy)
  /\ arriving' = arriving \ {copy}
  /\ UNCHANGED <<jobs, connected, mails, fetching, setting, handler, call>>

\* Somebody else changes another incidence of a calendar that is shared.
UserChange ==
  /\ ~handler.crashed
  /\ setting.given
  /\ \A j \in jobs : j.call # 0
  /\ jobs' = jobs \cup {[kind |-> "other", copy |-> First(FALSE, TRUE), call |-> 0]}
  /\ UNCHANGED <<copies, arriving, connected, mails, fetching, setting, handler, call>>

\* A message is composed, or could not be; a composed message is queued, or was not.
Composing(m) ==
  /\ ~handler.crashed
  /\ Compose(m)
  /\ UNCHANGED <<calendar, fetching, setting, handler, call>>

Queueing(m) ==
  /\ ~handler.crashed
  /\ Queued(m)
  /\ UNCHANGED <<calendar, fetching, setting, call>>
  /\ \E success \in BOOLEAN :
       handler' \in CASE m.owner = "handler" ->
                           TransactionFinished([handler EXCEPT !.hasty = @ \/ m.composers + m.queued > 1],
                                               ResultOf(success), m.call)
                      [] m.owner = "helper"  -> HelperSchedulerFinished(handler, success)
                      [] m.owner = "forward" -> {FinishSendAsICalendar(handler, ResultOf(success))}

Calls ==
  \/ \E msg \in Messages : ProcessiTIPMessage(msg)
  \/ SendiTIPMessage \/ PublishInformation \/ SendAsICalendar

Loads == FetchGoesOn \/ \E success \in BOOLEAN : LoadEnds(success)

Next ==
  \/ Calls
  \/ PostedCall
  \/ Loads
  \/ \E j \in jobs : JobDone(j)
  \/ \E copy \in arriving : Arrive(copy)
  \/ UserChange
  \/ \E m \in mails : Composing(m) \/ Queueing(m)

\* Posted calls are made, jobs end; the application need not call.
Fairness ==
  /\ WF_vars(PostedCall)
  /\ WF_vars(Loads)
  /\ WF_vars(\E j \in jobs : j.call # 0 /\ JobDone(j))

Spec == Init /\ [][Next]_vars /\ Fairness

-----------------------------------------------------------------------------
(* Properties.                                                             *)

\* The members have their types, and the calendar has one incidence per key.
TypeOK ==
  /\ FetchTypeOK
  /\ handler.m_currentOperation \in Operations
  /\ handler.m_method \in Methods
  /\ handler.m_queuedInvitation \in Messages \cup {NoMessage}
  /\ \A c \in copies \cup arriving : c.uid \in Nat /\ c.revision \in Nat /\ c.type \in Types \ {"freebusy"}
  /\ \A c, d \in copies : Key(c) = Key(d) => c = d
  /\ \A j \in jobs : j.kind \in {"create", "modify", "delete", "other"} /\ j.call \in 0 .. call.number
  /\ \A m \in mails : m.composers \in Nat /\ m.queued \in Nat

Processed == {k \in DOMAIN handler.answers : handler.answers[k].signal = "processed"}

\* With a calendar of its own the handler ends an operation by what that operation
\* started, as long as no call was over too early: nothing but m_currentOperation ties
\* a transactionFinished() to its call.
OwnAnswer == handler.misled /\ ~setting.given => handler.hasty

\* As long as no call was over too early, a call is answered by one
\* iTipMessageProcessed() (onSchedulerFinished() ends the operation before it answers),
\* and with a calendar of its own by the end of what that call started.
AnsweredOnce == OwnAnswer /\ (~handler.hasty => Cardinality(Processed) <= 1)

\* Clicking more than once on an invitation leaves one copy in a calendar of the
\* handler's own (the loop over the found incidences in acceptRequest()).
NoDuplicates ==
  /\ TypeOK
  /\ ~setting.given /\ ~handler.hasty =>
       Cardinality({c \in copies : c.uid > 0 /\ ~c.exception /\ c.mine /\ ~c.readOnly}) <= 1

\* A request that was answered with success is in the calendar in its revision, or in
\* a later one (the answer follows createFinished() or modifyFinished()).
SuccessIsStored ==
  /\ NoDuplicates
  /\ call.stores > 0 /\ ~setting.given /\ ~handler.hasty /\ Answer("processed", "Success") \in Range(handler.answers)
    => \E c \in copies : c.revision >= call.stores

\* An older message never replaces a newer copy in a calendar of the handler's own, as
\* long as that holds no exceptions: acceptRequest() compares the revision of whichever
\* incidence of the series it finds first.
RevisionsGrow ==
  [][~setting.given /\ ~handler'.hasty /\ (\A c \in copies : ~c.exception) =>
       \A c \in copies, d \in copies' : Key(c) = Key(d) => d.revision >= c.revision]_vars

\* A request or cancellation that arrives when nothing is under way is answered, unless
\* the handler's calendar never loads.
EveryMessageAnswered ==
  \A n \in 1 .. MaxCalls :
    (call.number = n /\ call.sound) ~> (Processed # {} \/ call.number # n \/ Hangs \/ handler.crashed)
=============================================================================
