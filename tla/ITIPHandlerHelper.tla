------------------------- MODULE ITIPHandlerHelper -------------------------
(***************************************************************************)
(* Akonadi::ITIPHandlerHelper (src/src/itiphandlerhelper_p.cpp): asks the  *)
(* user whether the others are to be told of a change, posts the mail and  *)
(* reports with finished().  It reports the question at once and, when the *)
(* mail has been sent or failed, once more.                                *)
(*                                                                         *)
(* IncidenceChanger makes one helper for the questions before a change and *)
(* one for those after it: a helper is named by the change and that phase. *)
(* The operators are functions of `s`, the state of the changer, of which  *)
(* they use the fields `transactions`, the posted calls of                 *)
(* MailScheduler::performTransaction(), and `sending`, the helpers whose   *)
(* m_status is StatusSendingInvitation.                                    *)
(***************************************************************************)
EXTENDS MailClient

CONSTANT Incidences  \* the incidences considered, a set of the records below

\* What the questions depend on: who organizes the incidence, whether there are other
\* attendees, whether we accepted it, its type.
IncidenceType ==
  [organizer : {"me", "other", "none"}, invites : BOOLEAN, accepted : BOOLEAN,
   type : {"event", "todo", "journal"}]

ASSUME IncidencesAssumption == Incidences \subseteq IncidenceType

Actions  == {"Ask", "SendMessage", "DontSendMessage"}

Helper(change, phase) == [change |-> change, phase |-> phase]

SupportsGroupware(incidence) == incidence.type # "journal"

\* CalendarUtils::thatIsMe() of the organizer.
ThatIsMe(incidence) == incidence.organizer = "me"

\* An incidence without an organizer is ours.
WeAreOrganizerOf(incidence) == incidence.organizer # "other"

WeNeedToSendMailFor(incidence) == incidence.invites

\* askUserIfNeeded(): closing the question like "Don't Send" (a build with assertions
\* stops there) makes two answers.
AnswersTo(action) ==
  CASE action = "SendMessage"     -> {"Send"}
    [] action = "DontSendMessage" -> {"DontSend"}
    [] action = "Ask"             -> {"Send", "DontSend"}

\* actionFromStatus().
ActionFromStatus(status) ==
  CASE status = "Canceled" -> "DontSendMessage"
    [] status = "Success"  -> "SendMessage"
    [] OTHER               -> "Ask"

\* setDefaultAction(): the policy, then what was answered earlier in the same atomic
\* operation.
DefaultAction(policy, status) ==
  CASE policy = "Send"     -> "SendMessage"
    [] policy = "DontSend" -> "DontSendMessage"
    [] policy = "Ask"      -> ActionFromStatus(status)

\* sentInvitation(): the mail is posted; the status is what finished() carries.
SentInvitation(s, helper, item, method, answer) ==
  IF answer = "Send"
  THEN [s EXCEPT !.transactions = @ \cup {[helper |-> helper, item |-> item, method |-> method]},
                 !.sending = @ \cup {helper}]
  ELSE s

StatusOf(answer) == IF answer = "Send" THEN "Success" ELSE "Canceled"

\* sendIncidenceDeletedMessage(): is there a question?  Of our own incidence if there is
\* anyone to tell, of another's unless it is an event that we did not accept.
AsksAboutDeletion(incidence) ==
  IF WeAreOrganizerOf(incidence) THEN WeNeedToSendMailFor(incidence)
  ELSE incidence.type # "event" \/ incidence.accepted

\* handleIncidenceAboutToBeModified(): does the user see the warning?
WarnsOfModification(incidence) ==
  ~WeAreOrganizerOf(incidence) /\ incidence.type = "event"
=============================================================================
