----------------------------- MODULE Scheduler -----------------------------
(***************************************************************************)
(* Akonadi::Scheduler (src/src/scheduler_p.cpp) and MailScheduler          *)
(* (mailscheduler_p.cpp): what an iTIP message does to the calendar.       *)
(*                                                                         *)
(* All messages are about one meeting.  A copy of it is an incidence of    *)
(* the calendar with the meeting's scheduling id.  accept*() either emit   *)
(* transactionFinished() at once or ask the calendar for a change, whose   *)
(* end emits it: each operator below returns the outcomes it may have.     *)
(* Free/busy objects do not get here, the handler refuses them.            *)
(***************************************************************************)
EXTENDS Integers, FiniteSets

CONSTANT MaxRevision  \* bound on the revisions of a message

ASSUME MaxRevisionAssumption == MaxRevision \in Nat

VARIABLES
  copies,      \* the copies of the meeting in the calendar
  jobs,        \* the changes the calendar's IncidenceChanger is carrying out
  arriving,    \* created incidences the calendar's model has not shown yet
  connected    \* the scheduler listens to the calendar

calendar == <<copies, jobs, arriving, connected>>

Methods == {"Publish", "Request", "Add", "Cancel", "DeclineCounter", "Reply", "Refresh", "Counter", "No"}
Types   == {"event", "todo", "journal", "freebusy"}
Actions == {"accepted", "counter", "cancel", "reply", "request", "unknown"}

Message(action, method, type, revision, exception) ==
  [action |-> action, method |-> method, type |-> type, revision |-> revision, exception |-> exception]

\* What arrives: every action and every method, of several types and revisions.
Messages ==
  {Message("request", m, "event", 1, FALSE) : m \in Methods}
    \cup {Message(a, "Request", "event", r, x) : a \in {"accepted", "request"}, r \in 1 .. MaxRevision,
                                                x \in BOOLEAN}
    \cup {Message("accepted", "Request", "todo", 1, FALSE)}
    \cup {Message("cancel", "Cancel", t, 1, x) : t \in {"event", "journal"}, x \in BOOLEAN}
    \cup {Message("reply", m, t, 1, FALSE) : m \in {"Reply", "Counter"}, t \in {"event", "todo"}}
    \cup {Message("accepted", "Publish", t, 2, FALSE) : t \in {"event", "freebusy"}}
    \cup {Message(a, "Request", "event", 1, FALSE) : a \in {"counter", "unknown"}}

\* A copy: its uid is 0 if it is the organizer's, generated otherwise; `mine` that I am
\* not an attendee whose status is NeedsAction.
Copy(uid, msg) == [uid |-> uid, exception |-> msg.exception, revision |-> msg.revision, readOnly |-> FALSE,
                   mine |-> ~(msg.action = "request" /\ msg.method = "Request"), type |-> msg.type]

Key(c)  == <<c.uid, c.exception>>
Keys    == {Key(c) : c \in copies}
At(key) == CHOOSE c \in copies : Key(c) = key

\* createUniqueId(): not used by a copy, nor by one that is being created.
FreshUid == LET taken == {c.uid : c \in copies \cup arriving \cup {j.copy : j \in jobs}}
            IN  CHOOSE n \in 1 .. Cardinality(taken) + 1 : n \notin taken

\* An outcome: the changes the calendar takes, the result emitted at once ("none": it
\* follows the change), the copies changed in place before, and whether a mail is sent.
Outcome(changes, result) == [changes |-> changes, result |-> result, inPlace |-> {}, mail |-> FALSE]
Change(kind, copy)       == [kind |-> kind, copy |-> copy]

Emits(result)   == {Outcome({}, result)}
Takes(changes)  == {Outcome(changes, "none")} \cup Emits("Error")
WithMail(S)     == {[o EXCEPT !.mail = TRUE] : o \in S}
InPlace(c, S)   == {[o EXCEPT !.inPlace = {c}] : o \in S}

Adds(copy)      == Takes({Change("create", copy)})
Modifies(copy)  == IF Key(copy) \in Keys THEN Takes({Change("modify", copy)}) ELSE Emits("Error")

\* The changer raises SEQUENCE at once, in the incidence it is given, unless the change is
\* made under the organizer's policy, as acceptRequest() does.
Raised(c) == [c EXCEPT !.revision = @ + 1]

\* The calendar's own incidence, which now is c, is given to it.
ModifiesOwn(c) ==
  InPlace(Raised(c), {Outcome({Change("modify", Raised(c))}, "none")}) \cup InPlace(c, Emits("Error"))

\* CalendarBase::deleteIncidence() deletes the exceptions of an incidence as well.
Deletes(copy)   == Takes({Change("delete", c) : c \in {copy} \cup
                            {x \in copies : ~copy.exception /\ x.exception /\ x.uid = copy.uid}})

\* acceptPublish() adds a new incidence and emits success in one go.  Which of two
\* incidences of one revision was modified last is left open.
AcceptPublish(msg) ==
  LET newer(c)  == {msg.revision > c.revision} \cup (IF msg.revision = c.revision THEN BOOLEAN ELSE {})
      update(c) == IF c.type # msg.type THEN Emits("Error") ELSE Modifies(Raised(Copy(0, msg)))
      added     == {Outcome({Change("create", Copy(0, msg))}, "Success")}
  IN  IF <<0, FALSE>> \notin Keys THEN added \cup Emits("Error")
      ELSE LET c == At(<<0, FALSE>>)
           IN  UNION {IF isNewer THEN update(c) ELSE Emits("Success") : isNewer \in newer(c)}

\* The copies the loop of acceptRequest() stops at; the calendar returns them in no
\* particular order.
Considered(msg) == {c \in copies : ~c.readOnly /\ (c.revision > msg.revision \/ c.mine)}

\* Mutant of Outdated: an older request replaces the copy.
NeverOutdated(c, msg) == FALSE

Outdated(c, msg) == c.revision > msg.revision

\* The found copy is replaced by what arrived, or an exception is added beside it.
Replaced(c, msg) ==
  IF Outdated(c, msg) THEN Emits("Error")
  ELSE (IF c.revision = msg.revision THEN Emits("Error") ELSE {})
       \cup (IF c.type # msg.type THEN Emits("Error")
             ELSE IF msg.exception /\ <<c.uid, TRUE>> \notin Keys THEN Adds(Copy(c.uid, msg))
             ELSE Modifies(Copy(c.uid, msg)))

AcceptRequest(msg) ==
  IF Considered(msg) = {} THEN Adds(Copy(FreshUid, msg))
  ELSE UNION {Replaced(c, msg) : c \in Considered(msg)}

\* Mutant of NotFound: nobody is told.
NotFoundSilently == Emits("none")

\* acceptCancel(), its end: no copy can be removed.
NotFound == Emits("Error")

\* The exception is looked up before the message gets the uid of the copy.
AcceptCancel(msg) ==
  LET removable    == {c \in copies : ~c.readOnly /\ c.mine}
      cancelled(c) == IF <<0, TRUE>> \in Keys THEN ModifiesOwn(At(<<0, TRUE>>))
                      ELSE Adds(Copy(c.uid, msg))
  IN  IF msg.type = "journal" THEN Emits("Error")
      ELSE IF removable = {} THEN NotFound
      ELSE UNION {IF msg.exception THEN cancelled(c) ELSE Deletes(c) : c \in removable}

\* acceptReply(): the sender is an attendee, or a guest whom the user lets in, which
\* raises the revision, or turns away; the others, or the guest, may be sent a mail.
AcceptReply(msg) ==
  LET found == IF <<0, FALSE>> \in Keys THEN {At(<<0, FALSE>>)} ELSE copies
      answered(c) == ModifiesOwn(c) \cup ModifiesOwn(Raised(c))
  IN  IF found = {} THEN Emits("Success")
      ELSE UNION {answered(c) \cup WithMail(answered(c)) : c \in found}

\* MailScheduler::acceptCounterProposal(): the calendar's own incidence is overwritten
\* before the calendar is asked to change it.
AcceptCounterProposal(msg) ==
  LET key   == <<0, msg.exception>>
      found == IF key \in Keys THEN {At(key)} ELSE copies
      later(c) == [c EXCEPT !.revision = IF c.type = msg.type
                                         THEN 1 + (IF @ > msg.revision THEN @ ELSE msg.revision) ELSE @]
  IN  IF found = {} THEN Adds([Copy(0, msg) EXCEPT !.revision = @ + 1])
      ELSE UNION {ModifiesOwn(later(c)) : c \in found}

\* acceptTransaction(): the method decides.
AcceptTransaction(msg) ==
  CASE msg.method = "Publish" -> AcceptPublish(msg)
    [] msg.method = "Request" -> AcceptRequest(msg)
    [] msg.method = "Cancel"  -> AcceptCancel(msg)
    [] msg.method = "Reply"   -> AcceptReply(msg)
    [] msg.method = "Add"     -> Emits("Success")
    [] msg.method \in {"DeclineCounter", "Refresh", "Counter"} -> Emits("Error")
    [] msg.method = "No"      -> Emits("none")

-----------------------------------------------------------------------------
(* The calendar carries the changes out.                                   *)

Placed(S) == {c \in copies : \A x \in S : Key(x) # Key(c)} \cup S

Inserted(copy) == IF Key(copy) \in Keys THEN copies ELSE copies \cup {copy}

\* Mutant of Applied: the calendar always waits for its model to show what was created.
AppliedByModel(change, listens) ==
  CASE change.kind = "create" -> copies
    [] change.kind = "modify" -> IF Key(change.copy) \in Keys THEN Placed({change.copy}) ELSE copies
    [] change.kind = "delete" -> {c \in copies : Key(c) # Key(change.copy)}
    [] change.kind = "other"  -> copies

\* slotCreateFinished(), slotModifyFinished(), slotDeleteFinished(); `listens` that the
\* calendar listens for new items.  "other" is a change to another incidence.
Applied(change, listens) ==
  CASE change.kind = "create" -> IF listens THEN copies ELSE Inserted(change.copy)
    [] change.kind = "modify" -> IF Key(change.copy) \in Keys THEN Placed({change.copy}) ELSE copies
    [] change.kind = "delete" -> {c \in copies : Key(c) # Key(change.copy)}
    [] change.kind = "other"  -> copies

\* A modification of an incidence that is gone is reported as a failure.
Succeeded(change) == change.kind # "modify" \/ Key(change.copy) \in Keys
=============================================================================
