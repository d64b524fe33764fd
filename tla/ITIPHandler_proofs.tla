------------------------- MODULE ITIPHandler_proofs -------------------------
(***************************************************************************)
(* Proofs about the iTIP handler and its scheduler, for every bound on the *)
(* calls, the revisions, the crypto formats and the collections.           *)
(*                                                                         *)
(* Nothing but m_currentOperation ties a transactionFinished() to its      *)
(* call.  What the handler answers is right as long as an operation, its   *)
(* one change or mail and its one posted answer exclude each other, which  *)
(* is what the invariant says of a handler that never was hasty.           *)
(***************************************************************************)
EXTENDS ITIPHandler, FiniteSetTheorems, TLAPS

-----------------------------------------------------------------------------
(* The types.                                                              *)

Results == {"none", "Success", "Error", "Cancelled"}
Events  == {"processed", "performTransaction", "loadFinished"}
Signals == {"processed", "sent", "published", "forwarded"}
Kinds   == {"create", "modify", "delete"}

PostedCalls == [event : Events, result : Results, call : Nat]
AnswersTold == [signal : Signals, result : Results]

HandlerTypes ==
  [m_currentOperation : Operations, m_method : Methods, m_incidence : BOOLEAN,
   m_queuedInvitation : Messages \cup {NoMessage}, m_calendarLoadError : BOOLEAN, sending : BOOLEAN,
   posted : Seq(PostedCalls), by : Nat, answers : Seq(AnswersTold), misled : BOOLEAN, hasty : BOOLEAN,
   crashed : BOOLEAN]

CopyTypes == [uid : Nat, exception : BOOLEAN, revision : Nat, readOnly : BOOLEAN, mine : BOOLEAN,
              type : Types \ {"freebusy"}]

JobTypes    == [kind : Kinds \cup {"other"}, copy : CopyTypes, call : Nat]
ChangeTypes == [kind : Kinds, copy : CopyTypes]

\* The calendar has one incidence per key.
Keyed == \A c, d \in copies : Key(c) = Key(d) => c = d

CalendarTypes ==
  /\ copies \subseteq CopyTypes /\ arriving \subseteq CopyTypes
  /\ jobs \subseteq JobTypes
  /\ IsFiniteSet(copies) /\ IsFiniteSet(arriving) /\ IsFiniteSet(jobs)
  /\ connected \in BOOLEAN
  /\ \A j \in jobs : j.call <= call.number

\* A mail is a record with these fields.
MailShaped(m) ==
  /\ m = [id |-> m.id, owner |-> m.owner, call |-> m.call, composers |-> m.composers, queued |-> m.queued,
          bare |-> m.bare]
  /\ m.owner \in {"handler", "helper", "forward"}
  /\ m.composers \in Nat /\ m.queued \in Nat

MailsTyped == \A m \in mails : MailShaped(m)

CallTypes    == [number : Nat, sound : BOOLEAN, stores : Nat]
SettingTypes == [given : BOOLEAN, outlookCompat : BOOLEAN, delegate : BOOLEAN]

-----------------------------------------------------------------------------
(* The handler by itself.                                                  *)

AtMostOne(S) == \A x, y \in S : x = y

Told(h)       == {k \in DOMAIN h.answers : h.answers[k].signal = "processed"}
Pending(h, n) == {k \in DOMAIN h.posted : h.posted[k].event = "processed" /\ h.posted[k].call = n}

\* As long as no call was over too early: a message is being processed, or its answer is
\* posted, or it is given, and the helper has nothing to do.
OneAnswer(h, n) ==
  /\ \A k \in DOMAIN h.posted :
       /\ h.posted[k].event # "performTransaction"
       /\ ~(h.posted[k].event = "processed" /\ h.posted[k].result = "Success")
  /\ AtMostOne(Told(h)) /\ AtMostOne(Pending(h, n))
  /\ Told(h) = {} \/ Pending(h, n) = {}
  /\ h.m_currentOperation = "process" => Told(h) = {} /\ Pending(h, n) = {}

HandlerInv(h, n) ==
  /\ h \in HandlerTypes
  /\ h.by <= n
  /\ \A k \in DOMAIN h.posted : h.posted[k].call <= n
  /\ ~h.hasty => OneAnswer(h, n)

\* An operation, and what it has started.
Mine    == {m \in mails : m.owner = "handler"}
OneStarted ==
  /\ ~handler.misled
  /\ jobs # {} => handler.m_currentOperation = "process" /\ handler.m_queuedInvitation = NoMessage
  /\ AtMostOne(jobs)
  /\ \A j \in jobs : j.call = handler.by /\ j.kind # "other"
  /\ handler.m_queuedInvitation # NoMessage => handler.m_currentOperation = "process"
  /\ AtMostOne(Mine)
  /\ \A m \in Mine : m.call = handler.by /\ handler.m_currentOperation \in {"send", "publish"}

-----------------------------------------------------------------------------
(* The calendar.                                                           *)

\* What a click on an invitation finds.
Clicked(c) == c.uid > 0 /\ c.mine /\ ~c.readOnly

\* The copies a change puts into the calendar.
PutBy(j) == IF j.kind \in {"create", "modify"} THEN {j.copy} ELSE {}
Put      == UNION {PutBy(j) : j \in jobs}

OneSeries(S) == \A c, d \in S : Clicked(c) /\ Clicked(d) => c.uid = d.uid

Plain == \A c \in copies : ~c.exception

\* A pending modification does not take a revision back.
NotOlder ==
  Plain => \A j \in jobs : j.kind = "modify" => \A c \in copies : Key(c) = Key(j.copy) => j.copy.revision >= c.revision

\* Success of what is pending means that the calendar has what the call promises.
Stores ==
  call.stores > 0 =>
    /\ \A j \in jobs :
         /\ j.kind \in {"create", "modify"} /\ j.copy.revision >= call.stores
         /\ j.kind = "create" => Key(j.copy) \notin Keys
    /\ handler.m_queuedInvitation # NoMessage => PromisedIn(handler.m_queuedInvitation) = call.stores
    /\ Answer("processed", "Success") \in Range(handler.answers) => \E c \in copies : c.revision >= call.stores

Own  == ~setting.given
Calm == Own /\ ~handler.hasty

CalendarInv == OneSeries(copies \cup Put) /\ NotOlder /\ Stores

ITIPInv ==
  /\ HandlerInv(handler, call.number)
  /\ CalendarTypes /\ MailsTyped /\ FetchTypeOK /\ Keyed
  /\ call \in CallTypes /\ setting \in SettingTypes
  /\ Own => arriving = {}
  /\ ~handler.hasty => \A m \in mails : m.owner # "helper"
  /\ Calm => OneStarted /\ CalendarInv

-----------------------------------------------------------------------------
(* Messages, keys and ids.                                                 *)

MessageSet == [action : Actions, method : Methods, type : Types, revision : Nat, exception : BOOLEAN]

LEMMA MessageTypes ==
  ASSUME NEW msg \in Messages
  PROVE  /\ msg.action \in Actions /\ msg.method \in Methods /\ msg.type \in Types
         /\ msg.revision \in Nat /\ msg.exception \in BOOLEAN
         /\ msg # NoMessage
<1>1. \A a \in Actions, m \in Methods, t \in Types, r \in Nat, x \in BOOLEAN : Message(a, m, t, r, x) \in MessageSet
  BY DEF Message, MessageSet
<1>12. /\ \A r \in 1 .. MaxRevision : r \in Nat
       /\ \A a \in {"accepted", "request"} : a \in Actions
       /\ \A a \in {"counter", "unknown"} : a \in Actions
       /\ \A m \in {"Reply", "Counter"} : m \in Methods
       /\ \A t \in {"event", "journal"} : t \in Types
       /\ \A t \in {"event", "todo"} : t \in Types
       /\ \A t \in {"event", "freebusy"} : t \in Types
       /\ {"accepted", "request", "cancel", "reply"} \subseteq Actions
       /\ {"Request", "Cancel", "Publish"} \subseteq Methods
       /\ {"event", "todo"} \subseteq Types
       /\ 1 \in Nat /\ 2 \in Nat /\ FALSE \in BOOLEAN
  BY DEF Actions, Methods, Types
<1> DEFINE
      S1 == {Message("request", m, "event", 1, FALSE) : m \in Methods}
      S2 == {Message(a, "Request", "event", r, x) : a \in {"accepted", "request"}, r \in 1 .. MaxRevision,
                                            x \in BOOLEAN}
      S3 == {Message("accepted", "Request", "todo", 1, FALSE)}
      S4 == {Message("cancel", "Cancel", t, 1, x) : t \in {"event", "journal"}, x \in BOOLEAN}
      no == FALSE
      S5 == {Message("reply", m, t, 1, no) : m \in {"Reply", "Counter"}, t \in {"event", "todo"}}
      S6 == {Message("accepted", "Publish", t, 2, FALSE) : t \in {"event", "freebusy"}}
      S7 == {Message(a, "Request", "event", 1, FALSE) : a \in {"counter", "unknown"}}
<1>2. S1 \subseteq MessageSet
  BY <1>1, <1>12
<1>3. S2 \subseteq MessageSet
  BY <1>1, <1>12
<1>4. S3 \subseteq MessageSet
  BY <1>1, <1>12
<1>5. S4 \subseteq MessageSet
  BY <1>1, <1>12
<1>6. S5 \subseteq MessageSet
  <2>1. \A m \in {"Reply", "Counter"}, t \in {"event", "todo"} : Message("reply", m, t, 1, no) \in MessageSet
    BY <1>1, <1>12
  <2> HIDE DEF no
  <2> QED BY <2>1
<1>7. S6 \subseteq MessageSet
  BY <1>1, <1>12
<1>8. S7 \subseteq MessageSet
  <2>1. \A a \in {"counter", "unknown"} : Message(a, "Request", "event", 1, FALSE) \in MessageSet
    BY <1>1, <1>12
  <2> HIDE DEF S1, S2, S3, S4, S5, S6
  <2> QED BY <2>1
<1>9. Messages = S1 \cup S2 \cup S3 \cup S4 \cup S5 \cup S6 \cup S7
  BY DEF Messages
<1>10. msg \in MessageSet
  <2> HIDE DEF S1, S2, S3, S4, S5, S6, S7
  <2> QED BY <1>2, <1>3, <1>4, <1>5, <1>6, <1>7, <1>8, <1>9
<1>11. NoMessage.action = "none"
  BY DEF NoMessage
<1> QED BY <1>10, <1>11 DEF MessageSet, Actions

LEMMA FirstTypes ==
  ASSUME NEW readOnly \in BOOLEAN, NEW mine \in BOOLEAN
  PROVE  First(readOnly, mine) \in CopyTypes
BY DEF First, CopyTypes, Types

LEMMA CopyOfMessage ==
  ASSUME NEW uid \in Nat, NEW msg \in Messages, msg.type # "freebusy"
  PROVE  /\ Copy(uid, msg) \in CopyTypes
         /\ Key(Copy(uid, msg)) = <<uid, msg.exception>>
         /\ Copy(uid, msg).uid = uid /\ Copy(uid, msg).revision = msg.revision
         /\ Copy(uid, msg).exception = msg.exception /\ ~Copy(uid, msg).readOnly
BY MessageTypes DEF Copy, CopyTypes, Key

LEMMA KeyFound ==
  ASSUME NEW key, key \in Keys
  PROVE  At(key) \in copies /\ Key(At(key)) = key
BY DEF Keys, At

\* A new id: there are more candidates than ids taken.
LEMMA FreshUidIsNew ==
  ASSUME CalendarTypes
  PROVE  /\ FreshUid \in Nat
         /\ \A c \in copies : c.uid # FreshUid
         /\ \A x \in BOOLEAN : <<FreshUid, x>> \notin Keys
<1> DEFINE made  == {j.copy : j \in jobs}
           all   == copies \cup arriving \cup made
           taken == {c.uid : c \in all}
<1>1. IsFiniteSet(made)
  <2>1. IsFiniteSet(jobs)
    BY DEF CalendarTypes
  <2> DEFINE f == [j \in jobs |-> j.copy]
  <2>2. f \in Surjection(jobs, made)
    BY DEF Surjection
  <2> QED BY <2>1, <2>2, FS_Surjection
<1>2. IsFiniteSet(all)
  BY <1>1, FS_Union DEF CalendarTypes
<1>3. IsFiniteSet(taken)
  <2> HIDE DEF all
  <2> DEFINE f == [c \in all |-> c.uid]
  <2>1. f \in Surjection(all, taken)
    BY DEF Surjection
  <2> QED BY <1>2, <2>1, FS_Surjection
<1>4. PICK n \in Nat : n = Cardinality(taken)
  BY <1>3, FS_CardinalityType
<1>5. \E u \in 1 .. n + 1 : u \notin taken
  <2> SUFFICES ASSUME 1 .. n + 1 \subseteq taken PROVE FALSE
    OBVIOUS
  <2>1. 1 .. n + 1 \in SUBSET taken
    OBVIOUS
  <2>2. Cardinality(1 .. n + 1) <= Cardinality(taken)
    BY <1>3, <2>1, FS_Subset
  <2>3. 1 \in Int /\ n + 1 \in Int /\ ~(1 > n + 1) /\ (n + 1) - 1 + 1 = n + 1
    OBVIOUS
  <2>4. Cardinality(1 .. n + 1) = n + 1
    <3> HIDE DEF taken, all, made
    <3> QED BY <2>3, FS_Interval
  <2> QED BY <1>4, <2>2, <2>4
<1>6. FreshUid = CHOOSE u \in 1 .. n + 1 : u \notin taken
  BY <1>4 DEF FreshUid
<1>7. FreshUid \in 1 .. n + 1 /\ FreshUid \notin taken
  <2> HIDE DEF taken
  <2> QED BY <1>5, <1>6
<1>8. \A c \in copies : c.uid # FreshUid
  BY <1>7
<1> QED BY <1>7, <1>8 DEF Keys, Key

-----------------------------------------------------------------------------
(* What the scheduler does with a message.                                 *)

\* A copy that is put beside or over the others belongs to the series a click finds, and
\* is no older than what it replaces.
ClickAgrees(x) == OneSeries(copies) /\ Clicked(x) => \A c \in copies : Clicked(c) => c.uid = x.uid
GrowAgrees(x)  == Plain => \A c \in copies : Key(c) = Key(x) => x.revision >= c.revision

\* Nothing is changed in place, or one copy is, and that is what the change is about.
Puts(o) ==
  \/ /\ o.inPlace = {}
     /\ \A y \in o.changes : /\ y.kind # "delete" => ClickAgrees(y.copy)
                             /\ y.kind = "modify" => GrowAgrees(y.copy)
  \/ \E x \in CopyTypes, c \in copies :
       /\ o.inPlace = {x}
       /\ Key(x) = Key(c) /\ x.mine = c.mine /\ x.readOnly = c.readOnly /\ x.revision >= c.revision
       /\ \A y \in o.changes : y.copy = x

Shaped(o) == o = [changes |-> o.changes, result |-> o.result, inPlace |-> o.inPlace, mail |-> o.mail]

\* An outcome of a message: what is emitted at once is all there is, but for a published
\* incidence.
Sound(o, method) ==
  /\ Shaped(o)
  /\ o.result \in {"none", "Success", "Error"}
  /\ o.mail \in BOOLEAN
  /\ o.changes \subseteq ChangeTypes /\ IsFiniteSet(o.changes)
  /\ o.result # "none" => o.changes = {} \/ method = "Publish"
  /\ Puts(o)

\* An outcome of a request: its success means that the calendar has its revision.
Requested(o, revision) ==
  /\ o.inPlace = {} /\ o.result \in {"none", "Error"}
  /\ \A y \in o.changes :
       /\ y.kind \in {"create", "modify"} /\ y.copy.revision = revision
       /\ y.kind = "create" => Key(y.copy) \notin Keys

LEMMA EmitsSound ==
  ASSUME NEW r \in {"none", "Success", "Error"}, NEW o \in Emits(r), NEW method
  PROVE  Sound(o, method) /\ o.changes = {} /\ o.inPlace = {} /\ o.result = r
<1>1. o = Outcome({}, r)
  BY DEF Emits
<1>2. IsFiniteSet({})
  BY FS_EmptySet
<1>3. /\ Shaped(o)
      /\ o.changes = {} /\ o.result = r /\ o.inPlace = {} /\ o.mail \in BOOLEAN
  BY <1>1 DEF Outcome, Shaped
<1>4. Puts(o)
  BY <1>3 DEF Puts
<1> QED BY <1>2, <1>3, <1>4 DEF Sound

LEMMA TakesSound ==
  ASSUME NEW S \in SUBSET ChangeTypes, IsFiniteSet(S), NEW o \in Takes(S), NEW method,
         \A y \in S : /\ y.kind # "delete" => ClickAgrees(y.copy)
                      /\ y.kind = "modify" => GrowAgrees(y.copy)
  PROVE  /\ Sound(o, method) /\ o.inPlace = {} /\ o.result \in {"none", "Error"}
         /\ o.changes \subseteq S
<1>1. CASE o \in Emits("Error")
  BY <1>1, EmitsSound
<1>2. CASE o = Outcome(S, "none")
  <2>1. /\ Shaped(o)
        /\ o.changes = S /\ o.result = "none" /\ o.inPlace = {} /\ o.mail \in BOOLEAN
    BY <1>2 DEF Outcome, Shaped
  <2>2. Puts(o)
    BY <2>1 DEF Puts
  <2> QED BY <2>1, <2>2 DEF Sound
<1> QED BY <1>1, <1>2 DEF Takes

LEMMA ChangeOfKind ==
  ASSUME NEW kind \in Kinds, NEW copy \in CopyTypes
  PROVE  /\ {Change(kind, copy)} \in SUBSET ChangeTypes /\ IsFiniteSet({Change(kind, copy)})
         /\ \A y \in {Change(kind, copy)} : y.kind = kind /\ y.copy = copy
<1>1. IsFiniteSet({Change(kind, copy)})
  BY FS_Singleton
<1> QED BY <1>1 DEF Change, ChangeTypes

LEMMA AddsSound ==
  ASSUME NEW copy \in CopyTypes, ClickAgrees(copy), NEW o \in Adds(copy), NEW method
  PROVE  /\ Sound(o, method) /\ o.inPlace = {} /\ o.result \in {"none", "Error"}
         /\ \A y \in o.changes : y.kind = "create" /\ y.copy = copy
<1> DEFINE S == {Change("create", copy)}
<1>1. /\ S \in SUBSET ChangeTypes /\ IsFiniteSet(S)
      /\ \A y \in S : y.kind = "create" /\ y.copy = copy
  BY ChangeOfKind DEF Kinds
<1>2. o \in Takes(S)
  BY DEF Adds
<1> HIDE DEF S
<1> QED BY <1>1, <1>2, TakesSound

LEMMA ModifiesSound ==
  ASSUME NEW copy \in CopyTypes, ClickAgrees(copy), GrowAgrees(copy), NEW o \in Modifies(copy), NEW method
  PROVE  /\ Sound(o, method) /\ o.inPlace = {} /\ o.result \in {"none", "Error"}
         /\ \A y \in o.changes : y.kind = "modify" /\ y.copy = copy
<1> DEFINE S == {Change("modify", copy)}
<1>1. /\ S \in SUBSET ChangeTypes /\ IsFiniteSet(S)
      /\ \A y \in S : y.kind = "modify" /\ y.copy = copy
  BY ChangeOfKind DEF Kinds
<1>2. CASE o \in Takes(S)
  <2> HIDE DEF S
  <2> QED BY <1>1, <1>2, TakesSound
<1>3. CASE o \in Emits("Error")
  BY <1>3, EmitsSound
<1> QED BY <1>2, <1>3 DEF Modifies

LEMMA DeletesSound ==
  ASSUME CalendarTypes, NEW copy \in copies, NEW o \in Deletes(copy), NEW method
  PROVE  Sound(o, method)
<1> DEFINE gone == {copy} \cup {x \in copies : ~copy.exception /\ x.exception /\ x.uid = copy.uid}
           S    == {Change("delete", c) : c \in gone}
           f    == [c \in gone |-> Change("delete", c)]
<1>1. gone \in SUBSET copies /\ gone \subseteq CopyTypes
  BY DEF CalendarTypes
<1>2. IsFiniteSet(gone)
  <2> HIDE DEF gone
  <2> QED BY <1>1, FS_Subset DEF CalendarTypes
<1>3. IsFiniteSet(S)
  <2> HIDE DEF gone
  <2>1. f \in Surjection(gone, S)
    BY DEF Surjection
  <2> QED BY <1>2, <2>1, FS_Surjection
<1>4. S \in SUBSET ChangeTypes /\ \A y \in S : y.kind = "delete"
  <2> HIDE DEF gone
  <2> QED BY <1>1 DEF Change, ChangeTypes, Kinds
<1>5. o \in Takes(S)
  BY DEF Deletes
<1> HIDE DEF S
<1> QED BY <1>3, <1>4, <1>5, TakesSound

LEMMA WithMailSound ==
  ASSUME NEW method, NEW S, \A s \in S : Sound(s, method), NEW o \in WithMail(S)
  PROVE  Sound(o, method)
<1>1. PICK s \in S : o = [s EXCEPT !.mail = TRUE]
  BY DEF WithMail
<1>2. Sound(s, method)
  OBVIOUS
<1>3. Shaped(s)
  BY <1>2 DEF Sound
<1>4. o = [changes |-> s.changes, result |-> s.result, inPlace |-> s.inPlace, mail |-> TRUE]
  BY <1>1, <1>3 DEF Shaped
<1>5. o.changes = s.changes /\ o.result = s.result /\ o.inPlace = s.inPlace /\ o.mail = TRUE
  BY <1>4
<1>6. Puts(s) => Puts(o)
  BY <1>5 DEF Puts
<1> QED BY <1>2, <1>4, <1>5, <1>6 DEF Sound, Shaped

\* A copy that is changed in place before the calendar is asked to change it.
LEMMA InPlaceSound ==
  ASSUME NEW x \in CopyTypes, NEW c \in copies,
         Key(x) = Key(c), x.mine = c.mine, x.readOnly = c.readOnly, x.revision >= c.revision,
         NEW o \in InPlace(x, Takes({Change("modify", x)})), NEW method
  PROVE  Sound(o, method)
<1>1. PICK s \in Takes({Change("modify", x)}) : o = [s EXCEPT !.inPlace = {x}]
  BY DEF InPlace
<1>2. /\ Shaped(s)
      /\ s.result \in {"none", "Success", "Error"} /\ s.mail \in BOOLEAN
      /\ s.changes \subseteq ChangeTypes /\ IsFiniteSet(s.changes)
      /\ s.result # "none" => s.changes = {}
      /\ \A y \in s.changes : y.copy = x
  <2> DEFINE S == {Change("modify", x)}
  <2>1. /\ S \in SUBSET ChangeTypes /\ IsFiniteSet(S)
        /\ \A y \in S : y.kind = "modify" /\ y.copy = x
    BY ChangeOfKind DEF Kinds
  <2>2. s \in {Outcome(S, "none")} \cup {Outcome({}, "Error")}
    BY <1>1 DEF Takes, Emits
  <2>3. IsFiniteSet({})
    BY FS_EmptySet
  <2> HIDE DEF S
  <2>4. CASE s = Outcome(S, "none")
    BY <2>1, <2>4 DEF Outcome, Shaped
  <2>5. CASE s = Outcome({}, "Error")
    BY <2>3, <2>5 DEF Outcome, Shaped
  <2> QED BY <2>2, <2>4, <2>5
<1>3. o = [changes |-> s.changes, result |-> s.result, inPlace |-> {x}, mail |-> s.mail]
  BY <1>1, <1>2 DEF Shaped
<1>4. o.changes = s.changes /\ o.result = s.result /\ o.inPlace = {x} /\ o.mail = s.mail
  BY <1>3
<1>5. Puts(o)
  BY <1>2, <1>4 DEF Puts
<1> QED BY <1>2, <1>3, <1>4, <1>5 DEF Sound, Shaped

\* A copy with another revision is the same incidence.
LEMMA RevisedCopy ==
  ASSUME NEW c \in CopyTypes, NEW r \in Nat
  PROVE  LET x == [c EXCEPT !.revision = r]
         IN  /\ x \in CopyTypes /\ Key(x) = Key(c) /\ x.uid = c.uid /\ x.mine = c.mine
             /\ x.readOnly = c.readOnly /\ x.revision = r
BY DEF CopyTypes, Key

LEMMA RaisedCopy ==
  ASSUME NEW c \in CopyTypes
  PROVE  LET x == Raised(c)
         IN  /\ x \in CopyTypes /\ Key(x) = Key(c) /\ x.uid = c.uid /\ x.mine = c.mine
             /\ x.readOnly = c.readOnly /\ x.revision = c.revision + 1 /\ c.revision \in Nat
<1>1. c.revision \in Nat /\ c.revision + 1 \in Nat
  BY DEF CopyTypes
<1>2. Raised(c) = [c EXCEPT !.revision = c.revision + 1]
  BY DEF Raised, CopyTypes
<1> QED BY <1>1, <1>2, RevisedCopy

\* The calendar's own incidence is changed, and its change asked for.
LEMMA ModifiesOwnSound ==
  ASSUME NEW x \in CopyTypes, NEW c \in copies, c \in CopyTypes,
         Key(x) = Key(c), x.mine = c.mine, x.readOnly = c.readOnly, x.revision >= c.revision,
         NEW o \in ModifiesOwn(x), NEW method
  PROVE  Sound(o, method)
<1>1. PICK y : y = Raised(x)
  OBVIOUS
<1>2. /\ y \in CopyTypes /\ Key(y) = Key(c) /\ y.mine = c.mine /\ y.readOnly = c.readOnly
      /\ y.revision >= c.revision
  <2>1. c.revision \in Nat
    BY DEF CopyTypes
  <2> QED BY <1>1, <2>1, RaisedCopy
<1>3. \/ o \in InPlace(y, {Outcome({Change("modify", y)}, "none")})
      \/ o \in InPlace(x, Emits("Error"))
  BY <1>1 DEF ModifiesOwn
<1>4. \/ o \in InPlace(y, Takes({Change("modify", y)}))
      \/ o \in InPlace(x, Takes({Change("modify", x)}))
  BY <1>3 DEF InPlace, Takes
<1> QED BY <1>2, <1>4, InPlaceSound

LEMMA AcceptPublishSound ==
  ASSUME CalendarTypes, Keyed, NEW msg \in Messages, msg.type # "freebusy", NEW o \in AcceptPublish(msg)
  PROVE  Sound(o, "Publish")
<1> DEFINE new    == Copy(0, msg)
           raised == Raised(new)
<1>1. /\ new \in CopyTypes /\ new.uid = 0 /\ new.revision = msg.revision
      /\ Key(new) = <<0, msg.exception>> /\ msg.revision \in Nat
  BY CopyOfMessage, MessageTypes
<1>2. ClickAgrees(new)
  BY <1>1 DEF ClickAgrees, Clicked
<1>8. /\ raised \in CopyTypes /\ Key(raised) = Key(new) /\ raised.uid = 0
      /\ raised.revision = msg.revision + 1
  <2> HIDE DEF new
  <2> QED BY <1>1, RaisedCopy
<1>9. ClickAgrees(raised)
  BY <1>8 DEF ClickAgrees, Clicked
<1>3. CASE o = Outcome({Change("create", new)}, "Success")
  <2> DEFINE S == {Change("create", new)}
  <2>1. /\ S \in SUBSET ChangeTypes /\ IsFiniteSet(S)
        /\ \A y \in S : y.kind = "create" /\ y.copy = new
    BY <1>1, ChangeOfKind DEF Kinds
  <2> HIDE DEF S, new
  <2>2. /\ Shaped(o) /\ o.changes = S /\ o.result = "Success" /\ o.inPlace = {} /\ o.mail \in BOOLEAN
    BY <1>3 DEF Outcome, Shaped, S
  <2>3. Puts(o)
    BY <1>2, <2>1, <2>2 DEF Puts
  <2> QED BY <2>1, <2>2, <2>3 DEF Sound
<1>4. CASE o \in Emits("Error") \cup Emits("Success")
  BY <1>4, EmitsSound
<1>5. ASSUME NEW c \in copies, Key(c) = <<0, FALSE>>, msg.revision >= c.revision, o \in Modifies(raised)
      PROVE  Sound(o, "Publish")
  <2>1. GrowAgrees(raised)
    <3> SUFFICES ASSUME Plain, NEW d \in copies, Key(d) = Key(new) PROVE raised.revision >= d.revision
      BY <1>8 DEF GrowAgrees
    <3>1. Key(d) = <<0, FALSE>>
      <4>1. d.uid = 0 /\ d.exception = msg.exception
        BY <1>1 DEF Key
      <4>2. d.exception = FALSE
        BY DEF Plain, CalendarTypes, CopyTypes
      <4> QED BY <4>1, <4>2 DEF Key
    <3>2. d = c
      BY <1>5, <3>1 DEF Keyed
    <3>3. c.revision \in Nat
      BY <1>5 DEF CalendarTypes, CopyTypes
    <3> HIDE DEF new, raised
    <3> QED BY <1>1, <1>5, <1>8, <3>2, <3>3
  <2> HIDE DEF new, raised
  <2> QED BY <1>5, <1>8, <1>9, <2>1, ModifiesSound
<1>6. CASE <<0, FALSE>> \notin Keys
  BY <1>3, <1>4, <1>6 DEF AcceptPublish
<1>7. CASE <<0, FALSE>> \in Keys
  <2>1. PICK c : c = At(<<0, FALSE>>)
    OBVIOUS
  <2>2. c \in copies /\ Key(c) = <<0, FALSE>> /\ c.revision \in Nat
    <3>1. c \in copies /\ Key(c) = <<0, FALSE>>
      BY <1>7, <2>1, KeyFound
    <3> QED BY <3>1 DEF CalendarTypes, CopyTypes
  <2>3. \/ msg.revision >= c.revision /\ o \in Modifies(raised)
        \/ o \in Emits("Error") \cup Emits("Success")
    <3> DEFINE update == IF c.type # msg.type THEN Emits("Error") ELSE Modifies(raised)
               later  == msg.revision > c.revision
               newer  == {later} \cup (IF msg.revision = c.revision THEN BOOLEAN ELSE {})
    <3>1. o \in UNION {IF isNewer THEN update ELSE Emits("Success") : isNewer \in newer}
      BY <1>7, <2>1 DEF AcceptPublish
    <3>2. PICK isNewer \in newer : o \in (IF isNewer THEN update ELSE Emits("Success"))
      BY <3>1
    <3>3. CASE msg.revision >= c.revision
      BY <3>2, <3>3
    <3>4. CASE ~(msg.revision >= c.revision)
      <4>1. ~(msg.revision > c.revision) /\ msg.revision # c.revision
        BY <1>1, <2>2, <3>4
      <4>2. later = FALSE
        BY <4>1
      <4> HIDE DEF later
      <4>3. newer = {FALSE}
        BY <4>1, <4>2
      <4>4. isNewer = FALSE
        BY <3>2, <4>3
      <4>5. o \in Emits("Success")
        BY <3>2, <4>4
      <4> QED BY <4>5
    <3> QED BY <3>3, <3>4
  <2> QED BY <1>4, <1>5, <2>2, <2>3
<1> QED BY <1>6, <1>7

LEMMA ReplacedSound ==
  ASSUME CalendarTypes, Keyed, NEW msg \in Messages, msg.type # "freebusy",
         NEW c \in Considered(msg), NEW o \in Replaced(c, msg), NEW method
  PROVE  Sound(o, method) /\ Requested(o, msg.revision)
<1> DEFINE new == Copy(c.uid, msg)
<1>1. /\ c \in copies /\ c \in CopyTypes /\ c.revision \in Nat /\ c.uid \in Nat /\ ~c.readOnly
      /\ c.revision > msg.revision \/ c.mine
  BY DEF Considered, CalendarTypes, CopyTypes
<1>2. /\ new \in CopyTypes /\ new.uid = c.uid /\ new.revision = msg.revision /\ new.exception = msg.exception
      /\ Key(new) = <<c.uid, msg.exception>> /\ msg.revision \in Nat
  BY <1>1, CopyOfMessage, MessageTypes
<1>3. CASE o \in Emits("Error")
  BY <1>3, EmitsSound DEF Requested
<1>4. ASSUME ~Outdated(c, msg) PROVE c.mine /\ msg.revision >= c.revision /\ ClickAgrees(new)
  <2>1. c.mine /\ msg.revision >= c.revision
    BY <1>1, <1>2, <1>4 DEF Outdated
  <2>2. ClickAgrees(new)
    <3> SUFFICES ASSUME OneSeries(copies), Clicked(new), NEW d \in copies, Clicked(d) PROVE d.uid = new.uid
      BY DEF ClickAgrees
    <3>1. Clicked(c)
      BY <1>1, <1>2, <2>1 DEF Clicked
    <3> QED BY <1>1, <1>2, <3>1 DEF OneSeries
  <2> QED BY <2>1, <2>2
<1>5. CASE ~Outdated(c, msg) /\ msg.exception /\ <<c.uid, TRUE>> \notin Keys /\ o \in Adds(new)
  <2> HIDE DEF new
  <2>1. ClickAgrees(new)
    BY <1>4, <1>5
  <2>2. /\ Sound(o, method) /\ o.inPlace = {} /\ o.result \in {"none", "Error"}
        /\ \A y \in o.changes : y.kind = "create" /\ y.copy = new
    BY <1>2, <1>5, <2>1, AddsSound
  <2>3. msg.exception = TRUE
    BY <1>5, MessageTypes
  <2>4. Key(new) \notin Keys
    BY <1>2, <1>5, <2>3
  <2> QED BY <1>2, <2>2, <2>4 DEF Requested
<1>6. CASE ~Outdated(c, msg) /\ ~(msg.exception /\ <<c.uid, TRUE>> \notin Keys) /\ o \in Modifies(new)
  <2>1. GrowAgrees(new)
    <3> SUFFICES ASSUME Plain, NEW d \in copies, Key(d) = Key(new) PROVE new.revision >= d.revision
      BY DEF GrowAgrees
    <3>1. d.uid = c.uid /\ ~d.exception /\ ~c.exception
      BY <1>1, <1>2 DEF Plain, Key
    <3>2. Key(d) = Key(c)
      <4>1. d.exception \in BOOLEAN /\ c.exception \in BOOLEAN
        BY <1>1 DEF CalendarTypes, CopyTypes
      <4>2. d.exception = c.exception
        BY <3>1, <4>1
      <4> QED BY <3>1, <4>2 DEF Key
    <3>3. d = c
      BY <1>1, <3>2 DEF Keyed
    <3> QED BY <1>2, <1>4, <1>6, <3>3
  <2> HIDE DEF new
  <2>2. ClickAgrees(new)
    BY <1>4, <1>6
  <2>3. /\ Sound(o, method) /\ o.inPlace = {} /\ o.result \in {"none", "Error"}
        /\ \A y \in o.changes : y.kind = "modify" /\ y.copy = new
    BY <1>2, <1>6, <2>1, <2>2, ModifiesSound
  <2> QED BY <1>2, <2>3 DEF Requested
<1>7. \/ o \in Emits("Error")
      \/ ~Outdated(c, msg) /\ msg.exception /\ <<c.uid, TRUE>> \notin Keys /\ o \in Adds(new)
      \/ ~Outdated(c, msg) /\ ~(msg.exception /\ <<c.uid, TRUE>> \notin Keys) /\ o \in Modifies(new)
  BY DEF Replaced
<1> HIDE DEF new
<1> QED BY <1>3, <1>5, <1>6, <1>7

LEMMA AcceptRequestSound ==
  ASSUME CalendarTypes, Keyed, NEW msg \in Messages, msg.type # "freebusy", NEW o \in AcceptRequest(msg), NEW method
  PROVE  Sound(o, method) /\ Requested(o, msg.revision)
<1>1. CASE Considered(msg) = {}
  <2> DEFINE new == Copy(FreshUid, msg)
  <2>1. /\ new \in CopyTypes /\ new.revision = msg.revision
        /\ Key(new) = <<FreshUid, msg.exception>> /\ msg.exception \in BOOLEAN
    BY FreshUidIsNew, CopyOfMessage, MessageTypes
  <2>2. Key(new) \notin Keys
    BY <2>1, FreshUidIsNew
  <2>3. ClickAgrees(new)
    <3>1. \A c \in copies : ~Clicked(c)
      BY <1>1 DEF Considered, Clicked
    <3> QED BY <3>1 DEF ClickAgrees
  <2>4. o \in Adds(new)
    BY <1>1 DEF AcceptRequest
  <2> HIDE DEF new
  <2>5. /\ Sound(o, method) /\ o.inPlace = {} /\ o.result \in {"none", "Error"}
        /\ \A y \in o.changes : y.kind = "create" /\ y.copy = new
    BY <2>1, <2>3, <2>4, AddsSound
  <2> QED BY <2>1, <2>2, <2>5 DEF Requested
<1>2. CASE Considered(msg) # {}
  <2>1. PICK c \in Considered(msg) : o \in Replaced(c, msg)
    BY <1>2 DEF AcceptRequest
  <2> QED BY <2>1, ReplacedSound
<1> QED BY <1>1, <1>2

LEMMA AcceptCancelSound ==
  ASSUME CalendarTypes, Keyed, NEW msg \in Messages, msg.type # "freebusy", NEW o \in AcceptCancel(msg), NEW method
  PROVE  Sound(o, method)
<1>1. CASE o \in Emits("Error")
  BY <1>1, EmitsSound
<1>2. ASSUME NEW c \in copies, ~c.readOnly, c.mine, o \in Deletes(c) PROVE Sound(o, method)
  BY <1>2, DeletesSound
<1>3. ASSUME <<0, TRUE>> \in Keys, o \in ModifiesOwn(At(<<0, TRUE>>)) PROVE Sound(o, method)
  <2>1. PICK x \in copies : x = At(<<0, TRUE>>)
    BY <1>3, KeyFound
  <2>2. x \in CopyTypes /\ x.revision \in Nat
    BY DEF CalendarTypes, CopyTypes
  <2>3. o \in ModifiesOwn(x)
    BY <1>3, <2>1
  <2> QED BY <2>2, <2>3, ModifiesOwnSound
<1>4. ASSUME NEW c \in copies, ~c.readOnly, c.mine, o \in Adds(Copy(c.uid, msg)) PROVE Sound(o, method)
  <2> DEFINE new == Copy(c.uid, msg)
  <2>1. c.uid \in Nat
    BY DEF CalendarTypes, CopyTypes
  <2>2. new \in CopyTypes /\ new.uid = c.uid
    BY <2>1, CopyOfMessage
  <2>3. ClickAgrees(new)
    BY <1>4, <2>2 DEF ClickAgrees, Clicked, OneSeries
  <2>4. o \in Adds(new)
    BY <1>4
  <2> HIDE DEF new
  <2> QED BY <2>2, <2>3, <2>4, AddsSound
<1>5. \/ o \in Emits("Error")
      \/ <<0, TRUE>> \in Keys /\ o \in ModifiesOwn(At(<<0, TRUE>>))
      \/ \E c \in copies :
           /\ ~c.readOnly /\ c.mine
           /\ \/ o \in Deletes(c)
              \/ o \in Adds(Copy(c.uid, msg))
  BY DEF AcceptCancel, NotFound
<1> QED BY <1>1, <1>2, <1>3, <1>4, <1>5

LEMMA AcceptReplySound ==
  ASSUME CalendarTypes, Keyed, NEW msg \in Messages, NEW o \in AcceptReply(msg), NEW method
  PROVE  Sound(o, method)
<1> DEFINE found       == IF <<0, FALSE>> \in Keys THEN {At(<<0, FALSE>>)} ELSE copies
           answered(c) == ModifiesOwn(c) \cup ModifiesOwn(Raised(c))
<1>1. found \subseteq copies
  BY KeyFound
<1>2. ASSUME NEW c \in copies, NEW s \in answered(c) PROVE Sound(s, method)
  <2>1. c \in CopyTypes /\ c.revision \in Nat
    BY DEF CalendarTypes, CopyTypes
  <2>2. PICK x : x = Raised(c)
    OBVIOUS
  <2>3. /\ x \in CopyTypes /\ Key(x) = Key(c) /\ x.mine = c.mine /\ x.readOnly = c.readOnly
        /\ x.revision >= c.revision
    BY <2>1, <2>2, RaisedCopy
  <2>4. s \in ModifiesOwn(c) \/ s \in ModifiesOwn(x)
    BY <2>2
  <2> QED BY <2>1, <2>3, <2>4, ModifiesOwnSound
<1>4. ASSUME NEW c \in copies, o \in answered(c) \cup WithMail(answered(c)) PROVE Sound(o, method)
  <2>1. \A s \in answered(c) : Sound(s, method)
    BY <1>2
  <2> HIDE DEF answered
  <2> QED BY <1>4, <2>1, WithMailSound
<1>5. CASE o \in Emits("Success")
  BY <1>5, EmitsSound
<1>6. \/ o \in Emits("Success")
      \/ \E c \in found : o \in answered(c) \cup WithMail(answered(c))
  BY DEF AcceptReply
<1> HIDE DEF found, answered
<1> QED BY <1>1, <1>4, <1>5, <1>6

LEMMA AcceptCounterProposalSound ==
  ASSUME CalendarTypes, Keyed, NEW msg \in Messages, msg.type # "freebusy", NEW o \in AcceptCounterProposal(msg),
         NEW method
  PROVE  Sound(o, method)
<1> DEFINE key      == <<0, msg.exception>>
           found    == IF key \in Keys THEN {At(key)} ELSE copies
           later(c) == [c EXCEPT !.revision = IF c.type = msg.type
                                              THEN 1 + (IF @ > msg.revision THEN @ ELSE msg.revision) ELSE @]
           new      == [Copy(0, msg) EXCEPT !.revision = @ + 1]
<1>1. found \subseteq copies
  BY KeyFound
<1>2. msg.revision \in Nat
  BY MessageTypes
<1>3. ASSUME NEW c \in copies, o \in ModifiesOwn(later(c)) PROVE Sound(o, method)
  <2> DEFINE x == later(c)
             r == IF c.type = msg.type THEN 1 + (IF c.revision > msg.revision THEN c.revision ELSE msg.revision)
                  ELSE c.revision
  <2>1. c \in CopyTypes /\ c.revision \in Nat
    BY DEF CalendarTypes, CopyTypes
  <2>2. r \in Nat /\ r >= c.revision
    BY <1>2, <2>1
  <2>3. x = [c EXCEPT !.revision = r]
    BY <2>1 DEF CopyTypes
  <2>4. x \in CopyTypes /\ Key(x) = Key(c) /\ x.mine = c.mine /\ x.readOnly = c.readOnly /\ x.revision >= c.revision
    <3> HIDE DEF r, x
    <3> QED BY <2>1, <2>2, <2>3, RevisedCopy
  <2>5. o \in ModifiesOwn(x)
    BY <1>3
  <2> HIDE DEF x
  <2> QED BY <2>1, <2>4, <2>5, ModifiesOwnSound
<1>4. CASE o \in Adds(new)
  <2>1. Copy(0, msg) \in CopyTypes /\ Copy(0, msg).revision + 1 \in Nat /\ Copy(0, msg).uid = 0
    BY <1>2, CopyOfMessage
  <2>2. new = [Copy(0, msg) EXCEPT !.revision = Copy(0, msg).revision + 1]
    BY <2>1 DEF CopyTypes
  <2>3. new \in CopyTypes /\ new.uid = 0
    BY <2>1, <2>2 DEF CopyTypes
  <2>4. ClickAgrees(new)
    BY <2>3 DEF ClickAgrees, Clicked
  <2> HIDE DEF new
  <2> QED BY <1>4, <2>3, <2>4, AddsSound
<1>5. o \in Adds(new) \/ \E c \in found : o \in ModifiesOwn(later(c))
  BY DEF AcceptCounterProposal
<1> HIDE DEF found, later, new
<1> QED BY <1>1, <1>3, <1>4, <1>5

\* What the method of a message decides.
LEMMA AcceptTransactionSound ==
  ASSUME CalendarTypes, Keyed, NEW msg \in Messages, msg.type # "freebusy", NEW o \in AcceptTransaction(msg)
  PROVE  /\ Sound(o, msg.method)
         /\ msg.method = "Request" => Requested(o, msg.revision)
<1>1. CASE msg.method = "Publish"
  BY <1>1, AcceptPublishSound DEF AcceptTransaction
<1>2. CASE msg.method = "Request"
  BY <1>2, AcceptRequestSound DEF AcceptTransaction
<1>3. CASE msg.method = "Cancel"
  BY <1>3, AcceptCancelSound DEF AcceptTransaction
<1>4. CASE msg.method = "Reply"
  BY <1>4, AcceptReplySound DEF AcceptTransaction
<1>5. CASE msg.method = "Add"
  BY <1>5, EmitsSound DEF AcceptTransaction
<1>6. CASE msg.method \in {"DeclineCounter", "Refresh", "Counter"}
  BY <1>6, EmitsSound DEF AcceptTransaction
<1>7. CASE msg.method = "No"
  BY <1>7, EmitsSound DEF AcceptTransaction
<1> QED BY <1>1, <1>2, <1>3, <1>4, <1>5, <1>6, <1>7, MessageTypes DEF Methods

-----------------------------------------------------------------------------
(* What the handler says and posts.                                        *)

Success    == Answer("processed", "Success")
Succeeds(h) == Success \in Range(h.answers)

\* What no operator of the handler changes, but for those that start an operation.
Kept(h, f) ==
  /\ f \in HandlerTypes
  /\ f.by = h.by /\ f.m_queuedInvitation = h.m_queuedInvitation /\ f.misled = h.misled
  /\ h.hasty => f.hasty

LEMMA SaysKeeps ==
  ASSUME NEW h \in HandlerTypes, NEW signal \in Signals, NEW result \in Results,
         NEW f, f = Says(h, signal, result)
  PROVE  /\ Kept(h, f)
         /\ f.m_currentOperation = h.m_currentOperation /\ f.hasty = h.hasty /\ f.posted = h.posted
         /\ f.m_method = h.m_method /\ f.m_incidence = h.m_incidence
         /\ signal # "processed" => Told(f) = Told(h)
         /\ Told(h) = {} => AtMostOne(Told(f))
         /\ Succeeds(f) => Succeeds(h) \/ (signal = "processed" /\ result = "Success")
<1> DEFINE a == Answer(signal, result)
           s == h.answers
<1>1. a \in AnswersTold /\ a.signal = signal /\ a.result = result
  BY DEF Answer, AnswersTold
<1>2. s \in Seq(AnswersTold)
  BY DEF HandlerTypes
<1>3. f = [h EXCEPT !.answers = Append(s, a)]
  BY DEF Says, HandlerTypes
<1>4. Append(s, a) \in Seq(AnswersTold)
  <2> HIDE DEF a, s
  <2> QED BY <1>1, <1>2
<1>5. /\ f \in HandlerTypes /\ f.answers = Append(s, a)
      /\ f.by = h.by /\ f.m_queuedInvitation = h.m_queuedInvitation /\ f.misled = h.misled
      /\ f.m_currentOperation = h.m_currentOperation /\ f.hasty = h.hasty /\ f.posted = h.posted
      /\ f.m_method = h.m_method /\ f.m_incidence = h.m_incidence
  <2> HIDE DEF a
  <2> QED BY <1>3, <1>4 DEF HandlerTypes
<1>6. /\ DOMAIN Append(s, a) = DOMAIN s \cup {Len(s) + 1}
      /\ \A k \in DOMAIN s : Append(s, a)[k] = s[k]
      /\ Append(s, a)[Len(s) + 1] = a
      /\ Len(s) + 1 \notin DOMAIN s
  <2> HIDE DEF a, s
  <2> QED BY <1>1, <1>2
<1>7. Told(f) = Told(h) \cup {k \in {Len(s) + 1} : signal = "processed"}
  <2> HIDE DEF a
  <2> QED BY <1>1, <1>5, <1>6 DEF Told
<1>8. Succeeds(f) => Succeeds(h) \/ (signal = "processed" /\ result = "Success")
  <2> SUFFICES ASSUME Succeeds(f) PROVE Succeeds(h) \/ (signal = "processed" /\ result = "Success")
    OBVIOUS
  <2>1. PICK k \in DOMAIN Append(s, a) : Append(s, a)[k] = Success
    BY <1>5 DEF Succeeds, Range
  <2>2. CASE k \in DOMAIN s
    BY <1>6, <2>1, <2>2 DEF Succeeds, Range
  <2>3. CASE k = Len(s) + 1
    <3>1. a = Success
      BY <1>6, <2>1, <2>3
    <3>2. Success.signal = "processed" /\ Success.result = "Success"
      BY DEF Success, Answer
    <3> HIDE DEF a
    <3> QED BY <1>1, <3>1, <3>2
  <2> HIDE DEF s, a
  <2> QED BY <1>6, <2>1, <2>2, <2>3
<1>9. signal # "processed" => Told(f) = Told(h)
  BY <1>7
<1>10. Told(h) = {} => AtMostOne(Told(f))
  BY <1>7 DEF AtMostOne
<1>11. Kept(h, f)
  BY <1>5 DEF Kept
<1> QED BY <1>5, <1>8, <1>9, <1>10, <1>11

LEMMA PostsKeeps ==
  ASSUME NEW h \in HandlerTypes, NEW event \in Events, NEW result \in Results, NEW n,
         NEW f, f = Posts(h, event, result)
  PROVE  /\ Kept(h, f)
         /\ f.m_currentOperation = h.m_currentOperation /\ f.hasty = h.hasty /\ f.answers = h.answers
         /\ f.m_method = h.m_method /\ f.m_incidence = h.m_incidence
         /\ event # "processed" => Pending(f, n) = Pending(h, n)
         /\ Pending(h, n) = {} => AtMostOne(Pending(f, n))
         /\ \A k \in DOMAIN f.posted :
              \/ k \in DOMAIN h.posted /\ f.posted[k] = h.posted[k]
              \/ f.posted[k].event = event /\ f.posted[k].result = result /\ f.posted[k].call = h.by
<1> DEFINE p == [event |-> event, result |-> result, call |-> h.by]
           s == h.posted
<1>1. p \in PostedCalls /\ p.event = event /\ p.result = result /\ p.call = h.by
  BY DEF PostedCalls, HandlerTypes
<1>2. s \in Seq(PostedCalls)
  BY DEF HandlerTypes
<1>3. f = [h EXCEPT !.posted = Append(s, p)]
  BY DEF Posts, HandlerTypes
<1>4. Append(s, p) \in Seq(PostedCalls)
  <2> HIDE DEF p, s
  <2> QED BY <1>1, <1>2
<1>5. /\ f \in HandlerTypes /\ f.posted = Append(s, p)
      /\ f.by = h.by /\ f.m_queuedInvitation = h.m_queuedInvitation /\ f.misled = h.misled
      /\ f.m_currentOperation = h.m_currentOperation /\ f.hasty = h.hasty /\ f.answers = h.answers
      /\ f.m_method = h.m_method /\ f.m_incidence = h.m_incidence
  <2> HIDE DEF p
  <2> QED BY <1>3, <1>4 DEF HandlerTypes
<1>6. /\ DOMAIN Append(s, p) = DOMAIN s \cup {Len(s) + 1}
      /\ \A k \in DOMAIN s : Append(s, p)[k] = s[k]
      /\ Append(s, p)[Len(s) + 1] = p
      /\ Len(s) + 1 \notin DOMAIN s
  <2> HIDE DEF p, s
  <2> QED BY <1>1, <1>2
<1>7. Pending(f, n) = Pending(h, n) \cup {k \in {Len(s) + 1} : event = "processed" /\ h.by = n}
  <2> HIDE DEF p
  <2> QED BY <1>1, <1>5, <1>6 DEF Pending
<1>8. event # "processed" => Pending(f, n) = Pending(h, n)
  BY <1>7
<1>9. Pending(h, n) = {} => AtMostOne(Pending(f, n))
  BY <1>7 DEF AtMostOne
<1>10. Kept(h, f)
  BY <1>5 DEF Kept
<1>11. \A k \in DOMAIN f.posted :
         \/ k \in DOMAIN h.posted /\ f.posted[k] = h.posted[k]
         \/ f.posted[k].event = event /\ f.posted[k].result = result /\ f.posted[k].call = h.by
  <2> HIDE DEF p
  <2> QED BY <1>1, <1>5, <1>6
<1> QED BY <1>5, <1>8, <1>9, <1>10, <1>11

\* What is said beside the answer of a message.
Talks(h, f, n) ==
  /\ Kept(h, f) /\ HandlerInv(f, n)
  /\ f.m_currentOperation = h.m_currentOperation
  /\ ~f.hasty => f.posted = h.posted /\ Told(f) = Told(h) /\ (Succeeds(f) => Succeeds(h))

LEMMA TalkKeeps ==
  ASSUME NEW n \in Nat, NEW h, HandlerInv(h, n), NEW f, Kept(h, f),
         f.m_currentOperation = h.m_currentOperation,
         \A k \in DOMAIN f.posted : f.posted[k].call <= n,
         ~f.hasty => f.posted = h.posted /\ Told(f) = Told(h) /\ (Succeeds(f) => Succeeds(h))
  PROVE  Talks(h, f, n)
<1>1. f \in HandlerTypes /\ f.by <= n
  BY DEF Kept, HandlerInv
<1>2. ASSUME ~f.hasty PROVE OneAnswer(f, n)
  <2>1. ~h.hasty
    BY <1>2 DEF Kept
  <2>2. OneAnswer(h, n)
    BY <2>1 DEF HandlerInv
  <2>3. Pending(f, n) = Pending(h, n)
    BY <1>2 DEF Pending
  <2> QED BY <1>2, <2>2, <2>3 DEF OneAnswer
<1>3. HandlerInv(f, n)
  BY <1>1, <1>2 DEF HandlerInv
<1> QED BY <1>3 DEF Talks

LEMMA TalksOn ==
  ASSUME NEW n, NEW h, NEW g, NEW f, Talks(h, g, n), Talks(g, f, n)
  PROVE  Talks(h, f, n)
<1>1. Kept(h, f)
  BY DEF Talks, Kept
<1>2. ~f.hasty => ~g.hasty
  BY DEF Talks, Kept
<1> QED BY <1>1, <1>2 DEF Talks

LEMMA SaysTalks ==
  ASSUME NEW n \in Nat, NEW h, HandlerInv(h, n), NEW signal \in Signals, NEW result \in Results,
         signal # "processed" \/ h.hasty, NEW f, f = Says(h, signal, result)
  PROVE  Talks(h, f, n)
<1>1. h \in HandlerTypes
  BY DEF HandlerInv
<1>2. /\ Kept(h, f)
      /\ f.m_currentOperation = h.m_currentOperation /\ f.hasty = h.hasty /\ f.posted = h.posted
      /\ signal # "processed" => Told(f) = Told(h)
      /\ Succeeds(f) => Succeeds(h) \/ (signal = "processed" /\ result = "Success")
  BY <1>1, SaysKeeps
<1>3. \A k \in DOMAIN f.posted : f.posted[k].call <= n
  BY <1>2 DEF HandlerInv
<1> QED BY <1>2, <1>3, TalkKeeps

\* A call that is posted out of turn.
LEMMA PostsOutOfTurn ==
  ASSUME NEW n \in Nat, NEW h, HandlerInv(h, n), NEW event \in Events, NEW result \in Results, NEW f,
         \/ f = [Posts(h, event, result) EXCEPT !.hasty = TRUE]
         \/ f = [Posts(h, event, result) EXCEPT !.sending = TRUE, !.hasty = TRUE]
  PROVE  Talks(h, f, n) /\ f.hasty
<1>1. h \in HandlerTypes /\ h.by \in Nat /\ h.by <= n
  BY DEF HandlerInv, HandlerTypes
<1>2. PICK g : g = Posts(h, event, result)
  OBVIOUS
<1>3. /\ Kept(h, g)
      /\ g.m_currentOperation = h.m_currentOperation
      /\ \A k \in DOMAIN g.posted :
           \/ k \in DOMAIN h.posted /\ g.posted[k] = h.posted[k]
           \/ g.posted[k].event = event /\ g.posted[k].result = result /\ g.posted[k].call = h.by
  BY <1>1, <1>2, PostsKeeps
<1>4. g \in HandlerTypes
  BY <1>3 DEF Kept
<1>5. /\ f \in HandlerTypes /\ f.hasty = TRUE /\ f.posted = g.posted
      /\ f.by = g.by /\ f.m_queuedInvitation = g.m_queuedInvitation /\ f.misled = g.misled
      /\ f.m_currentOperation = g.m_currentOperation
  BY <1>2, <1>4 DEF HandlerTypes
<1>6. Kept(h, f)
  BY <1>3, <1>5 DEF Kept
<1>7. \A k \in DOMAIN f.posted : f.posted[k].call <= n
  BY <1>1, <1>3, <1>5 DEF HandlerInv
<1> QED BY <1>3, <1>5, <1>6, <1>7, TalkKeeps

LEMMA FlagTalks ==
  ASSUME NEW n \in Nat, NEW h, HandlerInv(h, n), NEW b \in BOOLEAN, NEW f,
         \/ f = [h EXCEPT !.m_incidence = b] \/ f = [h EXCEPT !.crashed = b]
         \/ f = [h EXCEPT !.sending = b] \/ f = [h EXCEPT !.m_calendarLoadError = b]
  PROVE  Talks(h, f, n)
<1>1. h \in HandlerTypes
  BY DEF HandlerInv
<1>2. /\ f \in HandlerTypes /\ f.hasty = h.hasty /\ f.posted = h.posted /\ f.answers = h.answers
      /\ f.by = h.by /\ f.m_queuedInvitation = h.m_queuedInvitation /\ f.misled = h.misled
      /\ f.m_currentOperation = h.m_currentOperation
  BY <1>1 DEF HandlerTypes
<1>3. Kept(h, f)
  BY <1>2 DEF Kept
<1>4. Told(f) = Told(h) /\ (Succeeds(f) <=> Succeeds(h))
  BY <1>2 DEF Told, Succeeds
<1>5. \A k \in DOMAIN f.posted : f.posted[k].call <= n
  BY <1>2 DEF HandlerInv
<1> QED BY <1>2, <1>3, <1>4, <1>5, TalkKeeps

LEMMA HelperTellsTalks ==
  ASSUME NEW n \in Nat, NEW h, HandlerInv(h, n), h.m_currentOperation # "process" \/ h.hasty,
         NEW success \in BOOLEAN, NEW f, f = HelperTells(h, success)
  PROVE  Talks(h, f, n)
<1> DEFINE signal == IF h.m_currentOperation = "process" THEN "processed" ELSE "sent"
<1>1. /\ signal \in Signals /\ ResultOf(success) \in Results
      /\ signal # "processed" \/ h.hasty
  BY DEF Signals, ResultOf, Results
<1>2. f = Says(h, signal, ResultOf(success))
  BY DEF HelperTells
<1> HIDE DEF signal
<1> QED BY <1>1, <1>2, SaysTalks

LEMMA NotSentTalks ==
  ASSUME NEW n \in Nat, NEW h, HandlerInv(h, n), h.m_currentOperation # "process" \/ h.hasty,
         NEW f \in NotSent(h)
  PROVE  Talks(h, f, n)
<1>1. /\ "sent" \in Signals /\ "sent" # "processed" /\ "Success" \in Results
      /\ FALSE \in BOOLEAN
  BY DEF Signals, Results
<1>2. CASE f = HelperTells(ModifyDialogClosed(h), FALSE)
  <2>1. PICK g : g = ModifyDialogClosed(h)
    OBVIOUS
  <2>2. Talks(h, g, n)
    BY <1>1, <2>1, SaysTalks DEF ModifyDialogClosed
  <2>3. HandlerInv(g, n) /\ (g.m_currentOperation # "process" \/ g.hasty)
    BY <2>2 DEF Talks, Kept
  <2>4. f = HelperTells(g, FALSE)
    BY <1>2, <2>1
  <2>5. Talks(g, f, n)
    BY <1>1, <2>3, <2>4, HelperTellsTalks
  <2> QED BY <2>2, <2>5, TalksOn
<1>3. CASE f = ModifyDialogClosed(HelperTells(h, FALSE))
  <2>1. PICK g : g = HelperTells(h, FALSE)
    OBVIOUS
  <2>2. Talks(h, g, n)
    BY <1>1, <2>1, HelperTellsTalks
  <2>3. HandlerInv(g, n)
    BY <2>2 DEF Talks
  <2>4. f = ModifyDialogClosed(g)
    BY <1>3, <2>1
  <2>5. Talks(g, f, n)
    BY <1>1, <2>3, <2>4, SaysTalks DEF ModifyDialogClosed
  <2> QED BY <2>2, <2>5, TalksOn
<1> QED BY <1>2, <1>3 DEF NotSent

LEMMA UpdatesTalk ==
  ASSUME NEW n \in Nat, NEW h, HandlerInv(h, n), h.m_currentOperation # "process" \/ h.hasty,
         NEW f \in Updates(h)
  PROVE  Talks(h, f, n)
<1> DEFINE sent == SendsInvitation(h)
           all  == NotSent(h) \cup (IF h.m_currentOperation = "none" THEN {HelperTells(sent, TRUE)} ELSE NotSent(sent))
<1>1. Talks(h, sent, n) /\ sent.hasty
  <2>1. "performTransaction" \in Events /\ "none" \in Results
    BY DEF Events, Results
  <2> QED BY <2>1, PostsOutOfTurn DEF SendsInvitation
<1>2. ASSUME NEW u \in all PROVE Talks(h, u, n)
  <2>1. HandlerInv(sent, n)
    BY <1>1 DEF Talks
  <2>2. CASE u \in NotSent(h)
    BY <2>2, NotSentTalks
  <2>3. CASE u = HelperTells(sent, TRUE)
    <3> HIDE DEF sent
    <3>1. Talks(sent, u, n)
      BY <1>1, <2>1, <2>3, HelperTellsTalks
    <3> QED BY <1>1, <3>1, TalksOn
  <2>4. CASE u \in NotSent(sent)
    <3> HIDE DEF sent
    <3>1. Talks(sent, u, n)
      BY <1>1, <2>1, <2>4, NotSentTalks
    <3> QED BY <1>1, <3>1, TalksOn
  <2> QED BY <1>2, <2>2, <2>3, <2>4
<1>3. CASE h.m_incidence
  <2>1. PICK u \in all : f = [u EXCEPT !.m_incidence = FALSE]
    BY <1>3 DEF Updates
  <2>2. Talks(h, u, n)
    BY <1>2
  <2>3. Talks(u, f, n)
    BY <2>1, <2>2, FlagTalks DEF Talks
  <2> QED BY <2>2, <2>3, TalksOn
<1>4. CASE ~h.m_incidence
  BY <1>4, FlagTalks DEF Updates
<1> QED BY <1>3, <1>4

-----------------------------------------------------------------------------
(* The end of an operation.                                                *)

\* The operation is over, and what waited for it may be told.
Finished(h, f, n, result, number) ==
  /\ HandlerInv(f, n)
  /\ f.by = h.by /\ f.m_queuedInvitation = h.m_queuedInvitation
  /\ h.hasty => f.hasty
  /\ f.m_currentOperation = (IF result = "none" THEN h.m_currentOperation ELSE "none")
  /\ f.misled => h.misled \/ (h.m_currentOperation # "none" /\ number # h.by)
  /\ ~f.hasty =>
       /\ f.posted = h.posted
       /\ Succeeds(f) => Succeeds(h) \/ (h.m_currentOperation = "process" /\ result = "Success")

LEMMA OverKeeps ==
  ASSUME NEW n \in Nat, NEW h, HandlerInv(h, n), NEW f, f = Over(h)
  PROVE  /\ HandlerInv(f, n) /\ Kept(h, f)
         /\ f.m_currentOperation = "none" /\ f.m_method = h.m_method
         /\ f.posted = h.posted /\ f.answers = h.answers /\ f.hasty = h.hasty
         /\ ~h.hasty /\ h.m_currentOperation = "process" => Told(f) = {} /\ Pending(f, n) = {}
<1>1. h \in HandlerTypes
  BY DEF HandlerInv
<1>2. /\ f \in HandlerTypes /\ f.hasty = h.hasty /\ f.posted = h.posted /\ f.answers = h.answers
      /\ f.by = h.by /\ f.m_queuedInvitation = h.m_queuedInvitation /\ f.misled = h.misled
      /\ f.m_currentOperation = "none" /\ f.m_method = h.m_method
  BY <1>1 DEF HandlerTypes, Over, Operations
<1>3. Told(f) = Told(h) /\ Pending(f, n) = Pending(h, n)
  BY <1>2 DEF Told, Pending
<1>4. ~h.hasty => OneAnswer(h, n)
  BY DEF HandlerInv
<1>5. ~f.hasty => OneAnswer(f, n)
  BY <1>2, <1>3, <1>4 DEF OneAnswer
<1>6. HandlerInv(f, n)
  BY <1>2, <1>5 DEF HandlerInv
<1> QED BY <1>2, <1>3, <1>4, <1>6 DEF Kept, OneAnswer

LEMMA FinishProcessEnds ==
  ASSUME NEW n \in Nat, NEW h, HandlerInv(h, n), h.m_currentOperation = "none",
         ~h.hasty => Told(h) = {} /\ Pending(h, n) = {},
         NEW result \in Results, NEW f \in FinishProcess(h, result)
  PROVE  /\ HandlerInv(f, n) /\ Kept(h, f) /\ f.m_currentOperation = "none"
         /\ ~f.hasty => f.posted = h.posted /\ (Succeeds(f) => Succeeds(h) \/ result = "Success")
<1>1. CASE result = "Success" /\ h.m_method = "Counter"
  <2>1. f \in Updates(h)
    BY <1>1 DEF FinishProcess
  <2>2. Talks(h, f, n)
    BY <2>1, UpdatesTalk
  <2> QED BY <2>2 DEF Talks
<1>2. CASE ~(result = "Success" /\ h.m_method = "Counter")
  <2>1. f = Says(h, "processed", result)
    BY <1>2 DEF FinishProcess
  <2>2. h \in HandlerTypes /\ "processed" \in Signals
    BY DEF HandlerInv, Signals
  <2>3. /\ Kept(h, f)
        /\ f.m_currentOperation = h.m_currentOperation /\ f.hasty = h.hasty /\ f.posted = h.posted
        /\ Told(h) = {} => AtMostOne(Told(f))
        /\ Succeeds(f) => Succeeds(h) \/ result = "Success"
    BY <2>1, <2>2, SaysKeeps
  <2>4. f \in HandlerTypes /\ f.by = h.by
    BY <2>3 DEF Kept
  <2>5. ASSUME ~f.hasty PROVE OneAnswer(f, n)
    <3>1. OneAnswer(h, n)
      BY <2>3, <2>5 DEF HandlerInv
    <3>2. Pending(f, n) = {}
      BY <2>3, <2>5 DEF Pending
    <3>3. AtMostOne(Told(f)) /\ AtMostOne(Pending(f, n))
      BY <2>3, <2>5, <3>2 DEF AtMostOne
    <3> QED BY <2>3, <3>1, <3>2, <3>3 DEF OneAnswer
  <2>6. HandlerInv(f, n)
    BY <2>3, <2>4, <2>5 DEF HandlerInv
  <2> QED BY <2>3, <2>6
<1> QED BY <1>1, <1>2

LEMMA FinishOther ==
  ASSUME NEW n \in Nat, NEW h, HandlerInv(h, n), NEW signal \in Signals \ {"processed"}, NEW result,
         NEW f, f = Says(h, signal, ResultOf(result = "Success"))
  PROVE  Talks(h, f, n)
<1>1. ResultOf(result = "Success") \in Results
  BY DEF ResultOf, Results
<1> QED BY <1>1, SaysTalks

LEMMA SchedulerFinishes ==
  ASSUME NEW n \in Nat, NEW h, HandlerInv(h, n), NEW result \in Results, result # "none",
         NEW f \in OnSchedulerFinished(h, result), NEW number
  PROVE  Finished(h, f, n, result, number) /\ f.misled = h.misled
<1> DEFINE o == Over(h)
<1>1. /\ HandlerInv(o, n) /\ Kept(h, o)
      /\ o.m_currentOperation = "none" /\ o.posted = h.posted /\ o.answers = h.answers /\ o.hasty = h.hasty
      /\ ~h.hasty /\ h.m_currentOperation = "process" => Told(o) = {} /\ Pending(o, n) = {}
  BY OverKeeps
<1>2. Succeeds(o) <=> Succeeds(h)
  BY <1>1 DEF Succeeds
<1>3. h.m_currentOperation \in Operations
  BY DEF HandlerInv, HandlerTypes
<1>4. /\ "sent" \in Signals \ {"processed"} /\ "published" \in Signals \ {"processed"}
  BY DEF Signals
<1>5. CASE h.m_currentOperation = "none"
  <2>1. f = h
    BY <1>5 DEF OnSchedulerFinished
  <2> QED BY <1>5, <2>1 DEF Finished
<1>6. CASE h.m_currentOperation = "process"
  <2>1. f \in FinishProcess(o, result)
    BY <1>6 DEF OnSchedulerFinished
  <2> HIDE DEF o
  <2>2. ~o.hasty => Told(o) = {} /\ Pending(o, n) = {}
    BY <1>1, <1>6
  <2>3. /\ HandlerInv(f, n) /\ Kept(o, f) /\ f.m_currentOperation = "none"
        /\ ~f.hasty => f.posted = o.posted /\ (Succeeds(f) => Succeeds(o) \/ result = "Success")
    BY <1>1, <2>1, <2>2, FinishProcessEnds
  <2> QED BY <1>1, <1>2, <1>6, <2>3 DEF Finished, Kept
<1>7. CASE h.m_currentOperation \in {"send", "publish"}
  <2>1. \/ f = Says(o, "sent", ResultOf(result = "Success"))
        \/ f = Says(o, "published", ResultOf(result = "Success"))
    BY <1>7 DEF OnSchedulerFinished, FinishSendiTIPMessage, FinishPublishInformation
  <2> HIDE DEF o
  <2>2. Talks(o, f, n)
    BY <1>1, <1>4, <2>1, FinishOther
  <2> QED BY <1>1, <1>2, <1>7, <2>2 DEF Finished, Kept, Talks
<1> QED BY <1>3, <1>5, <1>6, <1>7 DEF Operations

LEMMA TransactionFinishes ==
  ASSUME NEW n \in Nat, NEW h, HandlerInv(h, n), NEW result \in Results, NEW number,
         NEW f \in TransactionFinished(h, result, number)
  PROVE  Finished(h, f, n, result, number)
<1> DEFINE strange == h.m_currentOperation # "none" /\ number # h.by
<1>1. PICK g \in (IF result = "none" THEN {h} ELSE OnSchedulerFinished(h, result)) :
        f = [g EXCEPT !.misled = g.misled \/ strange]
  BY DEF TransactionFinished
<1>2. Finished(h, g, n, result, number) /\ g.misled = h.misled
  <2>1. CASE result = "none"
    BY <1>1, <2>1 DEF Finished
  <2>2. CASE result # "none"
    BY <1>1, <2>2, SchedulerFinishes
  <2> QED BY <2>1, <2>2
<1>3. g \in HandlerTypes /\ HandlerInv(g, n)
  BY <1>2 DEF Finished, HandlerInv
<1>4. PICK b \in BOOLEAN : b = (g.misled \/ strange)
  OBVIOUS
<1> HIDE DEF strange
<1>5. /\ f \in HandlerTypes /\ f.misled = b /\ f.hasty = g.hasty /\ f.posted = g.posted /\ f.answers = g.answers
      /\ f.by = g.by /\ f.m_queuedInvitation = g.m_queuedInvitation
      /\ f.m_currentOperation = g.m_currentOperation
  <2>1. f = [g EXCEPT !.misled = b]
    BY <1>1, <1>4
  <2> QED BY <1>3, <2>1 DEF HandlerTypes
<1>6. HandlerInv(f, n)
  <2>1. Told(f) = Told(g) /\ Pending(f, n) = Pending(g, n)
    BY <1>5 DEF Told, Pending
  <2> QED BY <1>3, <1>5, <2>1 DEF HandlerInv, OneAnswer
<1>7. Succeeds(f) <=> Succeeds(g)
  BY <1>5 DEF Succeeds
<1>8. f.misled => h.misled \/ strange
  BY <1>2, <1>4, <1>5
<1> QED BY <1>2, <1>5, <1>6, <1>7, <1>8 DEF Finished, strange

\* The helper's answers, when it has been hasty.
LEMMA HelperFinishes ==
  ASSUME NEW n \in Nat, NEW h, HandlerInv(h, n), h.hasty, NEW success \in BOOLEAN,
         NEW f \in HelperFinished(h, success)
  PROVE  Talks(h, f, n)
<1>1. ResultOf(success) \in Results /\ "processed" \in Signals
  BY DEF ResultOf, Results, Signals
<1>2. CASE h.m_currentOperation # "process"
  <2>1. f = HelperTells(h, success)
    BY <1>2 DEF HelperFinished
  <2> QED BY <2>1, HelperTellsTalks
<1>3. CASE f \in Updates(h)
  BY <1>3, UpdatesTalk
<1>4. CASE f = Says(h, "processed", ResultOf(success))
  BY <1>1, <1>4, SaysTalks
<1> QED BY <1>2, <1>3, <1>4 DEF HelperFinished, FinishProcess

LEMMA HelperSchedulerFinishes ==
  ASSUME NEW n \in Nat, NEW h, HandlerInv(h, n), h.hasty, NEW success \in BOOLEAN,
         NEW f \in HelperSchedulerFinished(h, success)
  PROVE  Talks(h, f, n)
<1>1. PICK g : g = [h EXCEPT !.sending = FALSE]
  OBVIOUS
<1>2. Talks(h, g, n)
  BY <1>1, FlagTalks
<1>3. HandlerInv(g, n) /\ g.hasty
  BY <1>2 DEF Talks, Kept
<1>4. f \in HelperFinished(g, success)
  BY <1>1 DEF HelperSchedulerFinished
<1>5. Talks(g, f, n)
  BY <1>3, <1>4, HelperFinishes
<1> QED BY <1>2, <1>5, TalksOn

-----------------------------------------------------------------------------
(* Mails.                                                                  *)

LEMMA ComposedBound ==
  ASSUME NEW asked, NEW x \in Composed(asked)
  PROVE  x.composers \in 0 .. MaxFormats + 1
<1> DEFINE bare(sign, encrypt) ==
             \/ asked.sign /\ sign.decision = "plain" /\ ~sign.declined
             \/ asked.encrypt /\ encrypt.decision = "plain" /\ ~encrypt.declined
           count(sign, encrypt) ==
             IF "abort" \in {sign.decision, encrypt.decision} THEN {0}
             ELSE IF "protect" \in {sign.decision, encrypt.decision} THEN 0 .. MaxFormats
             ELSE {1}
           made(sign, encrypt) == {[composers |-> n, bare |-> bare(sign, encrypt)] : n \in count(sign, encrypt)}
<1>1. PICK sign \in Verdicts(asked.sign), encrypt \in Verdicts(asked.encrypt) : x \in made(sign, encrypt)
  <2>1. x \in UNION {made(sign, encrypt) : sign \in Verdicts(asked.sign), encrypt \in Verdicts(asked.encrypt)}
    BY DEF Composed
  <2> HIDE DEF made
  <2> QED BY <2>1
<1>2. PICK n \in count(sign, encrypt) : x.composers = n
  <2> HIDE DEF bare, count
  <2> QED BY <1>1
<1>3. count(sign, encrypt) \subseteq 0 .. MaxFormats + 1
  BY MaxFormatsAssumption
<1> QED BY <1>2, <1>3

LEMMA NewMailShaped ==
  ASSUME NEW owner, NEW number, NEW m \in NewMails(owner, number)
  PROVE  /\ m = [id |-> m.id, owner |-> m.owner, call |-> m.call, composers |-> m.composers, queued |-> m.queued,
                 bare |-> m.bare]
         /\ m.owner = owner /\ m.call = number
         /\ m.composers \in 0 .. MaxFormats + 1 /\ m.queued = 0
<1>1. PICK x \in Composed([sign |-> FALSE, encrypt |-> FALSE]) : m = Mail(owner, number, x)
  BY DEF NewMails
<1>2. x.composers \in 0 .. MaxFormats + 1
  BY ComposedBound
<1> QED BY <1>1, <1>2 DEF Mail

\* A mail is refused at once, or it is one of the owner's about the call.
PerformedBy(owner, number, accepted, refused) ==
  \/ mails' = mails /\ handler' \in refused
  \/ /\ handler' \in accepted
     /\ \E m : m.owner = owner /\ m.call = number /\ mails' \in {mails, mails \cup {m}}

LEMMA PerformsTells ==
  ASSUME MailsTyped, NEW owner \in {"handler", "helper", "forward"}, NEW number, NEW accepted, NEW refused,
         Performs(owner, number, accepted, refused)
  PROVE  MailsTyped' /\ PerformedBy(owner, number, accepted, refused)
<1>1. CASE mails' = mails /\ handler' \in refused
  BY <1>1 DEF PerformedBy, MailsTyped
<1>2. CASE handler' \in accepted /\ \E m \in NewMails(owner, number) : Sent(m)
  <2>1. PICK m \in NewMails(owner, number) : Sent(m)
    BY <1>2
  <2>2. /\ m = [id |-> m.id, owner |-> m.owner, call |-> m.call, composers |-> m.composers, queued |-> m.queued,
                bare |-> m.bare]
        /\ m.owner = owner /\ m.call = number
        /\ m.composers \in 0 .. MaxFormats + 1 /\ m.queued = 0
    BY NewMailShaped
  <2>3. CASE Ended(m)
    <3>1. mails' = mails
      BY <2>1, <2>3 DEF Sent
    <3> QED BY <1>2, <2>2, <3>1 DEF PerformedBy, MailsTyped
  <2>4. CASE ~Ended(m)
    <3>1. mails' = mails \cup {m}
      BY <2>1, <2>4 DEF Sent
    <3>2. m.composers \in Nat /\ m.queued \in Nat
      BY <2>2, MaxFormatsAssumption
    <3>3. MailShaped(m)
      BY <2>2, <3>2 DEF MailShaped
    <3> QED BY <1>2, <2>2, <3>1, <3>3 DEF PerformedBy, MailsTyped
  <2> QED BY <2>3, <2>4
<1> QED BY <1>1, <1>2 DEF Performs

\* A mail goes on, or is gone.
LEMMA BecomeTells ==
  ASSUME MailsTyped, NEW m \in mails, NEW k \in Nat, NEW q \in Nat, NEW n, n = [m EXCEPT !.composers = k, !.queued = q], Become(m, n)
  PROVE  /\ MailsTyped'
         /\ \/ mails' = mails \ {m}
            \/ k + q > 0 /\ \E x : x.owner = m.owner /\ x.call = m.call /\ mails' = (mails \ {m}) \cup {x}
<1>1. /\ m = [id |-> m.id, owner |-> m.owner, call |-> m.call, composers |-> m.composers, queued |-> m.queued,
              bare |-> m.bare]
      /\ m.owner \in {"handler", "helper", "forward"}
  BY DEF MailsTyped, MailShaped
<1>2. n = [id |-> m.id, owner |-> m.owner, call |-> m.call, composers |-> k, queued |-> q, bare |-> m.bare]
  BY <1>1
<1>3. CASE Ended(n)
  <2>1. k = 0 /\ q = 0
    BY <1>2, <1>3 DEF Ended
  <2>2. {n} \ {x \in {n} : Ended(x)} = {}
    BY <1>3
  <2>3. mails' = mails \ {m}
    BY <2>2 DEF Become
  <2>4. MailsTyped'
    BY <2>3 DEF MailsTyped
  <2> QED BY <2>1, <2>3, <2>4
<1>4. CASE ~Ended(n)
  <2>1. mails' = (mails \ {m}) \cup {n}
    BY <1>4 DEF Become
  <2>2. k + q > 0
    BY <1>2, <1>4 DEF Ended
  <2>3. MailShaped(n)
    BY <1>1, <1>2 DEF MailShaped
  <2>4. MailsTyped'
    BY <2>1, <2>3 DEF MailsTyped
  <2> QED BY <1>2, <2>1, <2>2, <2>4
<1> QED BY <1>3, <1>4

LEMMA ComposeTells ==
  ASSUME MailsTyped, NEW m \in mails, Compose(m)
  PROVE  /\ MailsTyped'
         /\ \/ mails' = mails \ {m}
            \/ \E n : n.owner = m.owner /\ n.call = m.call /\ mails' = (mails \ {m}) \cup {n}
<1>1. MailShaped(m)
  BY DEF MailsTyped
<1>2. PICK made \in 0 .. MaxResults : Become(m, [m EXCEPT !.composers = @ - 1, !.queued = @ + made])
  BY DEF Compose
<1>3. m.composers > 0 /\ m.composers \in Nat /\ m.queued \in Nat
  BY <1>1 DEF Compose, MailShaped
<1>4. PICK k \in Nat, q \in Nat : k = m.composers - 1 /\ q = m.queued + made
  BY <1>3, MaxResultsAssumption
<1>5. PICK n : n = [m EXCEPT !.composers = k, !.queued = q]
  OBVIOUS
<1>6. [m EXCEPT !.composers = @ - 1, !.queued = @ + made] = n
  BY <1>1, <1>4, <1>5 DEF MailShaped
<1> QED BY <1>2, <1>5, <1>6, BecomeTells

LEMMA QueuedTells ==
  ASSUME MailsTyped, NEW m \in mails, Queued(m)
  PROVE  /\ MailsTyped'
         /\ \/ mails' = mails \ {m}
            \/ /\ m.composers + m.queued > 1
               /\ \E n : n.owner = m.owner /\ n.call = m.call /\ mails' = (mails \ {m}) \cup {n}
<1>1. MailShaped(m)
  BY DEF MailsTyped
<1>2. m.queued > 0 /\ m.composers \in Nat /\ m.queued \in Nat
  BY <1>1 DEF Queued, MailShaped
<1>3. PICK k \in Nat, q \in Nat : k = m.composers /\ q = m.queued - 1
  BY <1>2
<1>4. PICK n : n = [m EXCEPT !.composers = k, !.queued = q]
  OBVIOUS
<1>5. [m EXCEPT !.queued = @ - 1] = n
  BY <1>1, <1>3, <1>4 DEF MailShaped
<1>7. Become(m, n)
  BY <1>5 DEF Queued
<1>9. /\ MailsTyped'
      /\ \/ mails' = mails \ {m}
         \/ k + q > 0 /\ \E x : x.owner = m.owner /\ x.call = m.call /\ mails' = (mails \ {m}) \cup {x}
  BY <1>4, <1>7, BecomeTells
<1>10. k + q > 0 => m.composers + m.queued > 1
  BY <1>2, <1>3
<1> QED BY <1>9, <1>10

-----------------------------------------------------------------------------
(* A message is accepted.                                                  *)

\* An older message never replaces a newer copy.
Grows == \A c \in copies, d \in copies' : Key(c) = Key(d) => d.revision >= c.revision

LEMMA CopiesRest ==
  ASSUME CalendarTypes, Keyed, copies' = copies
  PROVE  Keyed' /\ Grows
<1>1. \A c \in copies : c.revision \in Nat
  BY DEF CalendarTypes, CopyTypes
<1>2. Keyed'
  BY DEF Keyed
<1>3. Grows
  BY <1>1 DEF Grows, Keyed
<1> QED BY <1>2, <1>3

\* One copy takes the place of another.
LEMMA OneIsPlaced ==
  ASSUME CalendarTypes, Keyed, NEW x \in CopyTypes, copies' = Placed({x})
  PROVE  /\ copies' \subseteq CopyTypes /\ IsFiniteSet(copies') /\ Keyed'
         /\ x \in copies' /\ \A c \in copies' : c = x \/ (c \in copies /\ Key(c) # Key(x))
<1> DEFINE rest == {c \in copies : Key(c) # Key(x)}
<1>1. copies' = rest \cup {x}
  BY DEF Placed
<1>2. IsFiniteSet(rest)
  <2>1. rest \in SUBSET copies /\ IsFiniteSet(copies)
    BY DEF CalendarTypes
  <2> HIDE DEF rest
  <2> QED BY <2>1, FS_Subset
<1>3. IsFiniteSet(copies')
  <2> HIDE DEF rest
  <2> QED BY <1>1, <1>2, FS_AddElement
<1>4. copies' \subseteq CopyTypes
  BY <1>1 DEF CalendarTypes
<1>5. Keyed'
  BY <1>1 DEF Keyed, Key
<1> QED BY <1>1, <1>3, <1>4, <1>5

LEMMA AtMostOneOf ==
  ASSUME NEW S, IsFiniteSet(S), Cardinality(S) <= 1
  PROVE  AtMostOne(S)
<1>1. PICK k \in Nat : k = Cardinality(S)
  BY FS_CardinalityType
<1>2. CASE k = 0
  BY <1>1, <1>2, FS_EmptySet DEF AtMostOne
<1>3. CASE k = 1
  <2>1. \E x : S = {x}
    BY <1>1, <1>3, FS_Singleton
  <2> QED BY <2>1 DEF AtMostOne
<1> QED BY <1>1, <1>2, <1>3

\* The copies and changes after an outcome.
LEMMA OutcomeStep ==
  ASSUME CalendarTypes, Keyed, NEW method, NEW o, Sound(o, method), NEW by \in Nat,
         copies' = Placed(o.inPlace),
         jobs' = jobs \cup {[kind |-> x.kind, copy |-> x.copy, call |-> by] : x \in o.changes},
         connected' \in BOOLEAN, arriving' = arriving,
         call.number <= call'.number, by <= call'.number, call.number \in Nat, call'.number \in Nat
  PROVE  CalendarTypes' /\ Keyed' /\ Grows
<1> DEFINE made == {[kind |-> x.kind, copy |-> x.copy, call |-> by] : x \in o.changes}
<1>1. o.changes \subseteq ChangeTypes /\ IsFiniteSet(o.changes) /\ Puts(o)
  BY DEF Sound
<1>2. made \subseteq JobTypes /\ \A j \in made : j.call = by
  BY <1>1 DEF ChangeTypes, JobTypes
<1>3. IsFiniteSet(made)
  <2> DEFINE f == [x \in o.changes |-> [kind |-> x.kind, copy |-> x.copy, call |-> by]]
  <2>1. f \in Surjection(o.changes, made)
    BY DEF Surjection
  <2> QED BY <1>1, <2>1, FS_Surjection
<1>4. IsFiniteSet(jobs') /\ jobs' \subseteq JobTypes
  <2>1. jobs' = jobs \cup made
    OBVIOUS
  <2>2. IsFiniteSet(jobs) /\ jobs \subseteq JobTypes
    BY DEF CalendarTypes
  <2> HIDE DEF made
  <2>3. IsFiniteSet(jobs \cup made)
    BY <1>3, <2>2, FS_Union
  <2> QED BY <1>2, <2>1, <2>2, <2>3
<1>5. \A j \in jobs' : j.call <= call'.number
  <2>1. \A j \in jobs : j.call \in Nat /\ j.call <= call.number
    BY DEF CalendarTypes, JobTypes
  <2>2. jobs' = jobs \cup made
    OBVIOUS
  <2> HIDE DEF made
  <2> QED BY <1>2, <2>1, <2>2
<1>6. copies' \subseteq CopyTypes /\ IsFiniteSet(copies') /\ Keyed' /\ Grows
  <2>1. CASE o.inPlace = {}
    <3>1. copies' = copies
      BY <2>1 DEF Placed
    <3> QED BY <3>1, CopiesRest DEF CalendarTypes
  <2>2. ASSUME NEW x \in CopyTypes, NEW c \in copies, o.inPlace = {x}, Key(x) = Key(c), x.revision >= c.revision
        PROVE  copies' \subseteq CopyTypes /\ IsFiniteSet(copies') /\ Keyed' /\ Grows
    <3>1. copies' = Placed({x})
      BY <2>2
    <3>2. /\ copies' \subseteq CopyTypes /\ IsFiniteSet(copies') /\ Keyed'
          /\ x \in copies' /\ \A d \in copies' : d = x \/ (d \in copies /\ Key(d) # Key(x))
      BY <3>1, OneIsPlaced
    <3>3. Grows
      <4> SUFFICES ASSUME NEW a \in copies, NEW d \in copies', Key(a) = Key(d) PROVE d.revision >= a.revision
        BY DEF Grows
      <4>1. CASE d = x
        <5>1. a = c
          BY <2>2, <4>1 DEF Keyed
        <5> QED BY <2>2, <4>1, <5>1
      <4>2. CASE d \in copies
        <5>1. a = d /\ a.revision \in Nat
          BY <4>2 DEF Keyed, CalendarTypes, CopyTypes
        <5> QED BY <5>1
      <4> QED BY <3>2, <4>1, <4>2
    <3> QED BY <3>2, <3>3
  <2> QED BY <1>1, <2>1, <2>2 DEF Puts
<1> QED BY <1>4, <1>5, <1>6 DEF CalendarTypes

\* What an outcome with one change leaves pending agrees with the calendar.
LEMMA OutcomeAgrees ==
  ASSUME CalendarTypes, Keyed, OneSeries(copies), jobs = {}, NEW method, NEW o, Sound(o, method), NEW by \in Nat,
         AtMostOne(o.changes),
         copies' = Placed(o.inPlace),
         jobs' = jobs \cup {[kind |-> x.kind, copy |-> x.copy, call |-> by] : x \in o.changes}
  PROVE  OneSeries(copies \cup Put)' /\ NotOlder'
<1>1. \A j \in jobs' : \E y \in o.changes : j.kind = y.kind /\ j.copy = y.copy
  OBVIOUS
<1>2. \A x \in Put' : \E y \in o.changes : y.kind # "delete" /\ x = y.copy
  BY <1>1 DEF Put, PutBy
<1>3. CASE o.inPlace = {} /\ \A y \in o.changes : /\ y.kind # "delete" => ClickAgrees(y.copy)
                                                  /\ y.kind = "modify" => GrowAgrees(y.copy)
  <2>1. copies' = copies
    BY <1>3 DEF Placed
  <2>2. OneSeries(copies \cup Put)'
    <3> SUFFICES ASSUME NEW a \in copies' \cup Put', NEW b \in copies' \cup Put', Clicked(a), Clicked(b)
                 PROVE  a.uid = b.uid
      BY DEF OneSeries, Clicked
    <3>1. \A x \in Put' : Clicked(x) => \A c \in copies : Clicked(c) => c.uid = x.uid
      BY <1>2, <1>3 DEF ClickAgrees
    <3>2. \A x, y \in Put' : x = y
      BY <1>2 DEF AtMostOne
    <3>3. CASE a \in copies /\ b \in copies
      BY <3>3 DEF OneSeries
    <3>4. CASE a \in Put' /\ b \in Put'
      BY <3>2, <3>4
    <3>5. CASE a \in copies /\ b \in Put'
      BY <3>1, <3>5
    <3>6. CASE a \in Put' /\ b \in copies
      BY <3>1, <3>6
    <3> QED BY <2>1, <3>3, <3>4, <3>5, <3>6
  <2>3. NotOlder'
    BY <1>1, <1>3, <2>1 DEF NotOlder, GrowAgrees, Plain, Key
  <2> QED BY <2>2, <2>3
<1>4. ASSUME NEW x \in CopyTypes, NEW c \in copies, o.inPlace = {x},
             Key(x) = Key(c), x.mine = c.mine, x.readOnly = c.readOnly,
             \A y \in o.changes : y.copy = x
      PROVE  OneSeries(copies \cup Put)' /\ NotOlder'
  <2>1. copies' = Placed({x})
    BY <1>4
  <2>2. x \in copies' /\ \A d \in copies' : d = x \/ (d \in copies /\ Key(d) # Key(x))
    BY <2>1, OneIsPlaced
  <2>3. \A d \in Put' : d = x
    BY <1>2, <1>4
  <2>4. Clicked(x) => Clicked(c) /\ x.uid = c.uid
    BY <1>4 DEF Clicked, Key
  <2>5. OneSeries(copies \cup Put)'
    <3> SUFFICES ASSUME NEW a \in copies' \cup Put', NEW b \in copies' \cup Put', Clicked(a), Clicked(b)
                 PROVE  a.uid = b.uid
      BY DEF OneSeries, Clicked
    <3>1. /\ a = x \/ a \in copies
          /\ b = x \/ b \in copies
      BY <2>2, <2>3
    <3> QED BY <2>4, <3>1 DEF OneSeries
  <2>6. NotOlder'
    <3> SUFFICES ASSUME NEW j \in jobs', NEW d \in copies', Key(d) = Key(j.copy) PROVE j.copy.revision >= d.revision
      BY DEF NotOlder, Key
    <3>1. j.copy = x
      BY <1>1, <1>4
    <3>2. d = x /\ x.revision \in Nat
      BY <2>2, <3>1 DEF CopyTypes
    <3> QED BY <3>1, <3>2
  <2> QED BY <2>5, <2>6
<1> QED BY <1>3, <1>4 DEF Sound, Puts

\* What is about to process a message.
Ready(h) ==
  /\ HandlerInv(h, call'.number) /\ h.m_currentOperation = "process"
  /\ handler.hasty => h.hasty
  /\ Own /\ ~h.hasty =>
       ~h.misled /\ jobs = {} /\ h.m_queuedInvitation = NoMessage /\ Mine = {} /\ ~Succeeds(h)

\* What goes with any call.
CallGoesOn ==
  /\ call' \in CallTypes /\ call.number <= call'.number
  /\ setting' = setting /\ FetchTypeOK'

LEMMA HastyKeeps ==
  ASSUME NEW n \in Nat, NEW h, HandlerInv(h, n), NEW b \in BOOLEAN, h.hasty => b,
         NEW f, f = [h EXCEPT !.hasty = b]
  PROVE  /\ HandlerInv(f, n) /\ Kept(h, f) /\ f.hasty = b
         /\ f.m_currentOperation = h.m_currentOperation /\ f.posted = h.posted /\ f.answers = h.answers
         /\ Succeeds(f) <=> Succeeds(h)
<1>1. h \in HandlerTypes
  BY DEF HandlerInv
<1>2. /\ f \in HandlerTypes /\ f.hasty = b /\ f.posted = h.posted /\ f.answers = h.answers
      /\ f.by = h.by /\ f.m_queuedInvitation = h.m_queuedInvitation /\ f.misled = h.misled
      /\ f.m_currentOperation = h.m_currentOperation
  BY <1>1 DEF HandlerTypes
<1>3. Told(f) = Told(h) /\ Pending(f, n) = Pending(h, n)
  BY <1>2 DEF Told, Pending
<1> QED BY <1>2, <1>3 DEF HandlerInv, OneAnswer, Kept, Succeeds

LEMMA ComesTells ==
  ASSUME MailsTyped, NEW n \in Nat, NEW h, HandlerInv(h, n), NEW o, o.result \in Results,
         o.mail => h.hasty, NEW connects, Comes(h, o, connects)
  PROVE  /\ MailsTyped' /\ HandlerInv(handler', n)
         /\ h.hasty => handler'.hasty
         /\ ~h.hasty => mails' = mails /\ Finished(h, handler', n, o.result, h.by)
<1> DEFINE ends(S) == UNION {TransactionFinished(i, o.result, h.by) : i \in S}
           refused == TransactionFinished(h, "Error", h.by)
<1>0. "Error" \in Results
  BY DEF Results
<1>1. ASSUME NEW g, HandlerInv(g, n), NEW f \in TransactionFinished(g, o.result, h.by)
      PROVE  Finished(g, f, n, o.result, h.by)
  BY <1>1, TransactionFinishes
<1>2. ASSUME NEW f \in ends({h}) PROVE Finished(h, f, n, o.result, h.by)
  BY <1>1, <1>2
<1>3. ASSUME NEW f \in ends(refused) PROVE HandlerInv(f, n) /\ (h.hasty => f.hasty)
  <2>1. PICK g \in refused : f \in TransactionFinished(g, o.result, h.by)
    BY <1>3
  <2>2. Finished(h, g, n, "Error", h.by)
    BY <1>0, TransactionFinishes
  <2>3. HandlerInv(g, n)
    BY <2>2 DEF Finished
  <2>4. Finished(g, f, n, o.result, h.by)
    BY <1>1, <2>1, <2>3
  <2> QED BY <2>2, <2>4 DEF Finished
<1>4. CASE ~o.mail
  <2>1. mails' = mails /\ handler' \in ends({h})
    BY <1>4 DEF Comes
  <2>2. Finished(h, handler', n, o.result, h.by)
    BY <1>2, <2>1
  <2> QED BY <2>1, <2>2 DEF MailsTyped, Finished
<1>5. CASE o.mail
  <2>1. Performs("handler", h.by, ends({h}), ends(refused))
    BY <1>5 DEF Comes
  <2> HIDE DEF ends, refused
  <2>2. MailsTyped' /\ PerformedBy("handler", h.by, ends({h}), ends(refused))
    BY <2>1, PerformsTells
  <2>3. handler' \in ends({h}) \cup ends(refused)
    BY <2>2 DEF PerformedBy
  <2>4. HandlerInv(handler', n) /\ (h.hasty => handler'.hasty)
    BY <1>2, <1>3, <2>3 DEF Finished
  <2> QED BY <1>5, <2>2, <2>4
<1> QED BY <1>4, <1>5

LEMMA AcceptsStep ==
  ASSUME ITIPInv, CallGoesOn, NEW h, Ready(h), NEW msg \in Messages, NEW outcomes, NEW connects \in BOOLEAN,
         \A o \in outcomes : /\ Sound(o, msg.method)
                             /\ call'.stores > 0 /\ Own /\ ~h.hasty => Requested(o, call'.stores),
         Accepts(h, msg, outcomes, connects)
  PROVE  ITIPInv' /\ Grows
<1> DEFINE n == call'.number
<1>1. PICK o \in outcomes : Comes([h EXCEPT !.hasty = h.hasty \/ Hasty(msg, o)], o, connects)
  BY DEF Accepts
<1>2. PICK b \in BOOLEAN : b = (h.hasty \/ Hasty(msg, o))
  OBVIOUS
<1>3. PICK g : g = [h EXCEPT !.hasty = b]
  OBVIOUS
<1>4. Comes(g, o, connects)
  BY <1>1, <1>2, <1>3
<1>5. Sound(o, msg.method) /\ (call'.stores > 0 /\ Own /\ ~h.hasty => Requested(o, call'.stores))
  BY <1>1
<1>6. n \in Nat /\ call.number \in Nat /\ call.number <= n /\ call' \in CallTypes
  BY DEF CallGoesOn, CallTypes, ITIPInv
<1>7. HandlerInv(h, n) /\ h.m_currentOperation = "process" /\ (handler.hasty => h.hasty)
  BY DEF Ready
<1>8. /\ HandlerInv(g, n) /\ Kept(h, g) /\ g.hasty = b
      /\ g.m_currentOperation = "process" /\ (Succeeds(g) <=> Succeeds(h))
  <2>1. h.hasty => b
    BY <1>2
  <2> HIDE DEF n
  <2> QED BY <1>3, <1>6, <1>7, <2>1, HastyKeeps
<1>9. o.result \in Results /\ (o.mail => g.hasty)
  BY <1>2, <1>5, <1>8 DEF Sound, Results, Hasty
<1>10. MailsTyped
  BY DEF ITIPInv
<1>11. /\ MailsTyped' /\ HandlerInv(handler', n)
       /\ g.hasty => handler'.hasty
       /\ ~g.hasty => mails' = mails /\ Finished(g, handler', n, o.result, g.by)
  <2> HIDE DEF n
  <2> QED BY <1>4, <1>6, <1>8, <1>9, <1>10, ComesTells
<1>12. /\ copies' = Placed(o.inPlace)
       /\ jobs' = jobs \cup {[kind |-> x.kind, copy |-> x.copy, call |-> g.by] : x \in o.changes}
       /\ connected' = (connected \/ connects) /\ arriving' = arriving
  BY <1>4 DEF Comes
<1>13. g.by \in Nat /\ g.by <= n
  BY <1>8 DEF HandlerInv, HandlerTypes
<1>14. CalendarTypes' /\ Keyed' /\ Grows
  <2>1. CalendarTypes /\ Keyed
    BY DEF ITIPInv
  <2>2. connected' \in BOOLEAN
    BY <1>12
  <2> QED BY <1>5, <1>6, <1>12, <1>13, <2>1, <2>2, OutcomeStep
<1>15. ASSUME Calm' PROVE OneStarted' /\ CalendarInv'
  <2>1. /\ Own /\ ~g.hasty /\ ~h.hasty /\ ~handler.hasty /\ Calm /\ ~Hasty(msg, o)
    BY <1>2, <1>7, <1>8, <1>11, <1>15 DEF Calm, Own, CallGoesOn
  <2>2. mails' = mails /\ Finished(g, handler', n, o.result, g.by)
    BY <1>11, <2>1
  <2>3. ~h.misled /\ jobs = {} /\ h.m_queuedInvitation = NoMessage /\ Mine = {} /\ ~Succeeds(h)
    BY <2>1 DEF Ready
  <2>4. AtMostOne(o.changes)
    <3>1. IsFiniteSet(o.changes)
      BY <1>5 DEF Sound
    <3>2. ~(Cardinality(o.changes) > 1) /\ Cardinality(o.changes) \in Nat
      BY <2>1, <3>1, FS_CardinalityType DEF Hasty
    <3>3. Cardinality(o.changes) <= 1
      BY <3>2
    <3> QED BY <3>1, <3>3, AtMostOneOf
  <2>5. o.result # "none" => o.changes = {}
    BY <1>5, <2>1 DEF Sound, Hasty
  <2>6. /\ handler'.by = g.by /\ handler'.m_queuedInvitation = NoMessage /\ ~handler'.misled
        /\ handler'.m_currentOperation = (IF o.result = "none" THEN "process" ELSE "none")
        /\ Succeeds(handler') => o.result = "Success"
    BY <1>8, <1>15, <2>2, <2>3 DEF Finished, Kept, Calm
  <2>7. \A j \in jobs' : \E y \in o.changes : j.kind = y.kind /\ j.copy = y.copy /\ j.call = g.by
    BY <1>12, <2>3
  <2>8. \A j \in jobs' : j.call = handler'.by /\ j.kind # "other"
    BY <1>5, <2>6, <2>7 DEF Sound, ChangeTypes, Kinds
  <2>9. AtMostOne(jobs')
    BY <1>12, <2>3, <2>4 DEF AtMostOne
  <2>10. jobs' # {} => handler'.m_currentOperation = "process"
    BY <2>5, <2>6, <2>7
  <2>11. Mine' = {}
    BY <2>2, <2>3 DEF Mine
  <2>12. OneStarted'
    BY <2>6, <2>8, <2>9, <2>10, <2>11 DEF OneStarted, AtMostOne
  <2>13. OneSeries(copies \cup Put)' /\ NotOlder'
    <3>1. CalendarTypes /\ Keyed /\ OneSeries(copies)
      BY <2>1 DEF ITIPInv, CalendarInv, OneSeries
    <3> QED BY <1>5, <1>12, <1>13, <2>3, <2>4, <3>1, OutcomeAgrees
  <2>14. Stores'
    <3> SUFFICES ASSUME call'.stores > 0
                 PROVE  /\ \A j \in jobs' :
                             /\ j.kind \in {"create", "modify"} /\ j.copy.revision >= call'.stores
                             /\ j.kind = "create" => Key(j.copy) \notin Keys'
                        /\ ~Succeeds(handler')
      BY <2>6 DEF Stores, Key, Succeeds, Success, Answer
    <3>1. Requested(o, call'.stores)
      BY <1>5, <2>1
    <3>2. copies' = copies
      BY <1>12, <3>1 DEF Requested, Placed
    <3>3. Keys' = Keys
      BY <3>2 DEF Keys, Key
    <3>4. call'.stores \in Nat
      BY <1>6 DEF CallTypes
    <3>5. ASSUME NEW j \in jobs'
          PROVE  /\ j.kind \in {"create", "modify"} /\ j.copy.revision >= call'.stores
                 /\ j.kind = "create" => Key(j.copy) \notin Keys'
      <4>1. PICK y \in o.changes : j.kind = y.kind /\ j.copy = y.copy
        BY <2>7
      <4> QED BY <3>1, <3>3, <3>4, <4>1 DEF Requested
    <3> QED BY <2>6, <3>1, <3>5 DEF Requested
  <2> QED BY <2>12, <2>13, <2>14 DEF CalendarInv
<1>16. ~handler'.hasty => \A m \in mails' : m.owner # "helper"
  BY <1>2, <1>7, <1>8, <1>11 DEF ITIPInv
<1>17. Own' => arriving' = {}
  BY <1>12 DEF CallGoesOn, Own, ITIPInv
<1> QED BY <1>6, <1>11, <1>14, <1>15, <1>16, <1>17 DEF ITIPInv, CallGoesOn

-----------------------------------------------------------------------------
(* Steps that leave the calendar alone.                                    *)

LEMMA CalendarRests ==
  ASSUME ITIPInv, CallGoesOn, UNCHANGED calendar,
         MailsTyped', HandlerInv(handler', call'.number), handler.hasty => handler'.hasty,
         ~handler'.hasty => \A m \in mails' : m.owner # "helper",
         Calm' => OneStarted' /\ Stores'
  PROVE  ITIPInv' /\ Grows
<1>1. copies' = copies /\ jobs' = jobs /\ arriving' = arriving /\ connected' = connected
  BY DEF calendar
<1>2. CalendarTypes'
  <2>1. \A j \in jobs : j.call <= call.number /\ j.call \in Nat
    BY DEF ITIPInv, CalendarTypes, JobTypes
  <2>2. call.number \in Nat /\ call'.number \in Nat
    BY DEF ITIPInv, CallGoesOn, CallTypes
  <2>3. \A j \in jobs' : j.call <= call'.number
    BY <1>1, <2>1, <2>2 DEF CallGoesOn
  <2> QED BY <1>1, <2>3 DEF ITIPInv, CalendarTypes
<1>3. Keyed' /\ Grows
  BY <1>1, CopiesRest DEF ITIPInv
<1>4. Own' = Own
  BY DEF Own, CallGoesOn
<1>5. Calm' => CalendarInv'
  <2> SUFFICES ASSUME Calm' PROVE CalendarInv'
    OBVIOUS
  <2>1. Calm
    BY <1>4 DEF Calm
  <2>2. OneSeries(copies \cup Put) /\ NotOlder
    BY <2>1 DEF ITIPInv, CalendarInv
  <2>3. Put' = Put
    BY <1>1 DEF Put, PutBy
  <2>4. OneSeries(copies \cup Put)'
    BY <1>1, <2>2, <2>3 DEF OneSeries, Clicked
  <2>5. NotOlder'
    BY <1>1, <2>2 DEF NotOlder, Plain, Key
  <2> QED BY <2>4, <2>5 DEF CalendarInv
<1> QED BY <1>1, <1>2, <1>3, <1>4, <1>5 DEF ITIPInv, CallGoesOn

\* The operation goes on as it was.
LEMMA StillStarted ==
  ASSUME OneStarted, jobs' = jobs,
         handler'.by = handler.by, handler'.m_queuedInvitation = handler.m_queuedInvitation,
         handler'.m_currentOperation = handler.m_currentOperation, handler'.misled = handler.misled,
         AtMostOne(Mine'), \A m \in Mine' : \E x \in Mine : x.call = m.call
  PROVE  OneStarted'
BY DEF OneStarted, AtMostOne

LEMMA MineRests ==
  ASSUME mails' = mails
  PROVE  Mine' = Mine
BY DEF Mine

\* What success stands for is as it was.
LEMMA StoresRest ==
  ASSUME Stores, UNCHANGED calendar, call' = call,
         handler'.m_queuedInvitation \in {handler.m_queuedInvitation, NoMessage},
         Succeeds(handler') => Succeeds(handler)
  PROVE  Stores'
<1>1. copies' = copies /\ jobs' = jobs
  BY DEF calendar
<1>2. Keys' = Keys
  BY <1>1 DEF Keys, Key
<1> QED BY <1>1, <1>2 DEF Stores, Key, Succeeds, Success, Answer, PromisedIn

\* A step of an operation that goes on as it was.
LEMMA KeptStep ==
  ASSUME ITIPInv, UNCHANGED calendar, setting' = setting, FetchTypeOK', call' = call,
         HandlerInv(handler', call.number), Kept(handler, handler'),
         handler'.m_currentOperation = handler.m_currentOperation,
         ~handler'.hasty => (Succeeds(handler') => Succeeds(handler)),
         MailsTyped', ~handler'.hasty => \A m \in mails' : m.owner # "helper",
         Calm => AtMostOne(Mine') /\ \A m \in Mine' : \E x \in Mine : x.call = m.call
  PROVE  ITIPInv' /\ Grows
<1>1. CallGoesOn
  BY DEF CallGoesOn, ITIPInv, CallTypes
<1>2. HandlerInv(handler', call'.number) /\ (handler.hasty => handler'.hasty)
  BY DEF Kept
<1>3. ASSUME Calm' PROVE OneStarted' /\ Stores'
  <2>1. Calm /\ ~handler'.hasty
    BY <1>2, <1>3 DEF Calm, Own
  <2>2. OneStarted /\ Stores
    BY <2>1 DEF ITIPInv, CalendarInv
  <2>3. jobs' = jobs
    BY DEF calendar
  <2>4. OneStarted'
    BY <2>1, <2>2, <2>3, StillStarted DEF Kept
  <2>5. Stores'
    BY <2>1, <2>2, StoresRest DEF Kept
  <2> QED BY <2>4, <2>5
<1> QED BY <1>1, <1>2, <1>3, CalendarRests

\* The mails are as they were.
LEMMA MailsRest ==
  ASSUME ITIPInv, mails' = mails, handler.hasty => handler'.hasty
  PROVE  /\ MailsTyped'
         /\ ~handler'.hasty => \A m \in mails' : m.owner # "helper"
         /\ Calm => AtMostOne(Mine') /\ \A m \in Mine' : \E x \in Mine : x.call = m.call
<1>1. Mine' = Mine
  BY MineRests
<1> QED BY <1>1 DEF ITIPInv, MailsTyped, OneStarted

-----------------------------------------------------------------------------
(* A message is processed.                                                 *)

\* Nothing is started, and nothing succeeds.
LEMMA NothingStarts ==
  ASSUME ITIPInv, CallGoesOn, NEW h, Ready(h), UNCHANGED <<calendar, mails>>,
         HandlerInv(handler', call'.number), Kept(h, handler'),
         ~handler'.hasty => (Succeeds(handler') => Succeeds(h))
  PROVE  ITIPInv' /\ Grows
<1>1. MailsTyped'
  BY DEF ITIPInv, MailsTyped
<1>2. handler.hasty => handler'.hasty
  BY DEF Ready, Kept
<1>3. ~handler'.hasty => \A m \in mails' : m.owner # "helper"
  BY <1>2 DEF ITIPInv
<1>4. ASSUME Calm' PROVE OneStarted' /\ Stores'
  <2>1. Own /\ ~h.hasty
    BY <1>4 DEF Calm, Own, Kept, CallGoesOn
  <2>2. ~h.misled /\ jobs = {} /\ h.m_queuedInvitation = NoMessage /\ Mine = {} /\ ~Succeeds(h)
    BY <2>1 DEF Ready
  <2>3. jobs' = {} /\ Mine' = {}
    BY <2>2, MineRests DEF calendar
  <2>4. ~handler'.misled /\ handler'.m_queuedInvitation = NoMessage /\ ~Succeeds(handler')
    BY <1>4, <2>2 DEF Kept, Calm
  <2> QED BY <2>3, <2>4 DEF OneStarted, AtMostOne, Stores, Succeeds, Success, Answer
<1> QED BY <1>1, <1>2, <1>3, <1>4, CalendarRests

LEMMA RefusesStep ==
  ASSUME ITIPInv, CallGoesOn, NEW h, Ready(h), Silently(Refuses(h))
  PROVE  ITIPInv' /\ Grows
<1> DEFINE n == call'.number
<1>1. PICK o : o = Over(h)
  OBVIOUS
<1>2. n \in Nat /\ HandlerInv(h, n) /\ h.m_currentOperation = "process"
  BY DEF CallGoesOn, CallTypes, Ready
<1>3. /\ HandlerInv(o, n) /\ Kept(h, o)
      /\ o.posted = h.posted /\ o.answers = h.answers /\ o.hasty = h.hasty /\ o.m_currentOperation = "none"
      /\ ~h.hasty => Told(o) = {} /\ Pending(o, n) = {}
  BY <1>1, <1>2, OverKeeps
<1>4. handler' = Posts(o, "processed", "Error") /\ UNCHANGED <<calendar, mails>>
  BY <1>1 DEF Silently, Refuses, PostsAnswer, Over
<1>5. o \in HandlerTypes /\ "processed" \in Events /\ "Error" \in Results
  BY <1>3 DEF HandlerInv, Events, Results
<1>6. /\ Kept(o, handler') /\ handler'.m_currentOperation = o.m_currentOperation
      /\ handler'.hasty = o.hasty /\ handler'.answers = o.answers
      /\ Pending(o, n) = {} => AtMostOne(Pending(handler', n))
      /\ \A k \in DOMAIN handler'.posted :
           \/ k \in DOMAIN o.posted /\ handler'.posted[k] = o.posted[k]
           \/ /\ handler'.posted[k].event = "processed" /\ handler'.posted[k].result = "Error"
              /\ handler'.posted[k].call = o.by
  BY <1>4, <1>5, PostsKeeps
<1>7. Told(handler') = Told(o)
  BY <1>6 DEF Told
<1>8. ASSUME ~handler'.hasty PROVE OneAnswer(handler', n)
  <2>1. OneAnswer(o, n) /\ Told(o) = {} /\ Pending(o, n) = {}
    BY <1>3, <1>6, <1>8 DEF HandlerInv
  <2>2. \A k \in DOMAIN handler'.posted :
          /\ handler'.posted[k].event # "performTransaction"
          /\ ~(handler'.posted[k].event = "processed" /\ handler'.posted[k].result = "Success")
    BY <1>6, <2>1 DEF OneAnswer
  <2> QED BY <1>3, <1>6, <1>7, <2>1, <2>2 DEF OneAnswer, AtMostOne
<1>9. HandlerInv(handler', n)
  <2>1. handler' \in HandlerTypes /\ handler'.by = o.by
    BY <1>6 DEF Kept
  <2>2. \A k \in DOMAIN handler'.posted : handler'.posted[k].call <= n
    BY <1>3, <1>6 DEF HandlerInv
  <2> QED BY <1>3, <1>8, <2>1, <2>2 DEF HandlerInv
<1>10. Kept(h, handler')
  BY <1>3, <1>6 DEF Kept
<1>11. Succeeds(handler') => Succeeds(h)
  BY <1>3, <1>6 DEF Succeeds
<1> QED BY <1>4, <1>9, <1>10, <1>11, NothingStarts

\* Answered with the operation left in progress, or an update that is sent.
LEMMA OpenStep ==
  ASSUME ITIPInv, CallGoesOn, NEW h, Ready(h), NEW result \in Results,
         \/ Silently(LeavesOpen(h, result))
         \/ handler' \in HelperFinished(SendsInvitation(h), TRUE) /\ UNCHANGED <<calendar, mails>>
  PROVE  ITIPInv' /\ Grows
<1> DEFINE n == call'.number
<1>1. n \in Nat /\ HandlerInv(h, n)
  BY DEF CallGoesOn, CallTypes, Ready
<1>2. UNCHANGED <<calendar, mails>>
  BY DEF Silently
<1>3. Talks(h, handler', n) /\ handler'.hasty
  <2>1. CASE Silently(LeavesOpen(h, result))
    <3>1. handler' = [Posts(h, "processed", result) EXCEPT !.hasty = TRUE]
      BY <2>1 DEF Silently, LeavesOpen, PostsAnswer
    <3>2. "processed" \in Events
      BY DEF Events
    <3> QED BY <1>1, <3>1, <3>2, PostsOutOfTurn
  <2>2. CASE handler' \in HelperFinished(SendsInvitation(h), TRUE)
    <3>1. PICK g : g = SendsInvitation(h)
      OBVIOUS
    <3>2. g = [Posts(h, "performTransaction", "none") EXCEPT !.sending = TRUE, !.hasty = TRUE]
      BY <3>1 DEF SendsInvitation
    <3>3. "performTransaction" \in Events /\ "none" \in Results
      BY DEF Events, Results
    <3>4. Talks(h, g, n) /\ g.hasty
      BY <1>1, <3>2, <3>3, PostsOutOfTurn
    <3>5. HandlerInv(g, n)
      BY <3>4 DEF Talks
    <3>6. PICK success \in BOOLEAN : handler' \in HelperFinished(g, success)
      BY <2>2, <3>1
    <3>7. Talks(g, handler', n)
      BY <1>1, <3>4, <3>5, <3>6, HelperFinishes
    <3> QED BY <3>4, <3>7, TalksOn DEF Talks, Kept
  <2> QED BY <2>1, <2>2
<1> QED BY <1>2, <1>3, NothingStarts DEF Talks

\* The message becomes known.
LEMMA KnownReady ==
  ASSUME NEW h, Ready(h), CallGoesOn, NEW method \in Methods, NEW b \in BOOLEAN,
         NEW f, f = [h EXCEPT !.m_method = method, !.m_incidence = b]
  PROVE  Ready(f) /\ f.hasty = h.hasty
<1> DEFINE n == call'.number
<1>1. h \in HandlerTypes /\ HandlerInv(h, n)
  BY DEF Ready, HandlerInv
<1>2. /\ f \in HandlerTypes /\ f.hasty = h.hasty /\ f.posted = h.posted /\ f.answers = h.answers
      /\ f.by = h.by /\ f.m_queuedInvitation = h.m_queuedInvitation /\ f.misled = h.misled
      /\ f.m_currentOperation = h.m_currentOperation
  BY <1>1 DEF HandlerTypes
<1>3. Told(f) = Told(h) /\ Pending(f, n) = Pending(h, n)
  BY <1>2 DEF Told, Pending
<1>4. HandlerInv(f, n)
  BY <1>1, <1>2, <1>3 DEF HandlerInv, OneAnswer
<1> QED BY <1>2, <1>4 DEF Ready, Succeeds

LEMMA ProcessStep ==
  ASSUME ITIPInv, CallGoesOn, NEW h, Ready(h), NEW msg \in Messages,
         call'.stores > 0 /\ Own /\ ~h.hasty => PromisedIn(msg) = call'.stores,
         Process(h, msg)
  PROVE  ITIPInv' /\ Grows
<1>1. PICK no \in BOOLEAN : no = FALSE
  OBVIOUS
<1>2. PICK yes \in BOOLEAN : yes = TRUE
  OBVIOUS
<1>3. msg.method \in Methods /\ msg.action \in Actions
  BY MessageTypes
<1>4. PICK known : known = [h EXCEPT !.m_method = msg.method, !.m_incidence = TRUE]
  OBVIOUS
<1>5. Ready(known) /\ known.hasty = h.hasty
  BY <1>3, <1>4, KnownReady
<1>6. CalendarTypes /\ Keyed
  BY DEF ITIPInv
<1>7. "Success" \in Results /\ "Error" \in Results /\ "Cancelled" \in Results
  BY DEF Results
<1>8. ASSUME NEW outcomes, NEW connects \in BOOLEAN, msg.type # "freebusy",
             \A o \in outcomes : Sound(o, msg.method) /\ (call'.stores > 0 /\ Own /\ ~h.hasty => Requested(o, call'.stores)),
             Accepts(known, msg, outcomes, connects)
      PROVE  ITIPInv' /\ Grows
  BY <1>5, <1>8, AcceptsStep
<1>9. call'.stores > 0 /\ Own /\ ~h.hasty => msg.action \in {"accepted", "request"} /\ msg.method = "Request" /\ msg.revision = call'.stores
  <2>1. call'.stores \in Nat
    BY DEF CallGoesOn, CallTypes
  <2> QED BY <2>1 DEF PromisedIn
<1>10. CASE h.m_calendarLoadError
  <2>1. Silently(Refuses(h))
    BY <1>10 DEF Process
  <2> QED BY <2>1, RefusesStep
<1>11. CASE ~h.m_calendarLoadError /\ msg.type = "freebusy"
  <2>1. PICK g : g = [h EXCEPT !.m_method = msg.method, !.m_incidence = FALSE]
    OBVIOUS
  <2>2. Silently(Refuses(g))
    BY <1>11, <2>1 DEF Process
  <2>3. Ready(g)
    BY <1>3, <2>1, KnownReady
  <2> QED BY <2>2, <2>3, RefusesStep
<1>12. CASE ~h.m_calendarLoadError /\ msg.type # "freebusy"
  <2>1. \/ /\ \/ msg.action \in {"accepted", "request"}
              \/ msg.action = "counter"
              \/ msg.action = "reply" /\ msg.method # "Counter"
           /\ Accepts(known, msg, AcceptTransaction(msg), TRUE)
        \/ Counters(known)
        \/ msg.action = "cancel" /\ Silently(LeavesOpen(known, "Success"))
        \/ msg.action = "cancel" /\ Accepts(known, msg, AcceptCancel(msg), TRUE)
        \/ msg.action = "reply" /\ Accepts(known, msg, AcceptCounterProposal(msg), FALSE)
        \/ Silently(Refuses(known))
    BY <1>3, <1>4, <1>12 DEF Process, Actions
  <2>2. CASE Accepts(known, msg, AcceptTransaction(msg), TRUE)
    <3>1. \A o \in AcceptTransaction(msg) : Sound(o, msg.method) /\ (msg.method = "Request" => Requested(o, msg.revision))
      BY <1>6, <1>12, AcceptTransactionSound
    <3>2. Accepts(known, msg, AcceptTransaction(msg), yes)
      BY <1>2, <2>2
    <3>3. \A o \in AcceptTransaction(msg) : call'.stores > 0 /\ Own /\ ~h.hasty => Requested(o, call'.stores)
      BY <1>9, <3>1
    <3> QED BY <1>8, <1>12, <3>1, <3>2, <3>3
  <2>3. CASE Counters(known)
    <3>1. \/ Silently(LeavesOpen(known, "Cancelled"))
          \/ Silently(LeavesOpen(known, "Error"))
          \/ handler' \in HelperFinished(SendsInvitation(known), TRUE) /\ UNCHANGED <<calendar, mails>>
      BY <2>3 DEF Counters, Silently
    <3> QED BY <1>5, <1>7, <3>1, OpenStep
  <2>4. CASE Silently(LeavesOpen(known, "Success"))
    BY <1>5, <1>7, <2>4, OpenStep
  <2>5. CASE msg.action = "cancel" /\ Accepts(known, msg, AcceptCancel(msg), TRUE)
    <3>1. \A o \in AcceptCancel(msg) : Sound(o, msg.method)
      BY <1>6, <1>12, AcceptCancelSound
    <3>2. Accepts(known, msg, AcceptCancel(msg), yes)
      BY <1>2, <2>5
    <3> QED BY <1>8, <1>9, <1>12, <2>5, <3>1, <3>2
  <2>6. CASE msg.action = "reply" /\ Accepts(known, msg, AcceptCounterProposal(msg), FALSE)
    <3>1. \A o \in AcceptCounterProposal(msg) : Sound(o, msg.method)
      BY <1>6, <1>12, AcceptCounterProposalSound
    <3>2. Accepts(known, msg, AcceptCounterProposal(msg), no)
      BY <1>1, <2>6
    <3> QED BY <1>8, <1>9, <1>12, <2>6, <3>1, <3>2
  <2>7. CASE Silently(Refuses(known))
    BY <1>5, <2>7, RefusesStep
  <2> QED BY <2>1, <2>2, <2>3, <2>4, <2>5, <2>6, <2>7
<1> QED BY <1>10, <1>11, <1>12

-----------------------------------------------------------------------------
(* The application's calls.                                                *)

LEMMA FreshTells ==
  ASSUME ITIPInv, NEW n \in Nat, n = call.number + 1, NEW f, f = Fresh
  PROVE  /\ HandlerInv(f, n) /\ Kept(handler, f) /\ f.hasty = handler.hasty
         /\ f.m_currentOperation = handler.m_currentOperation /\ f.posted = handler.posted
         /\ Told(f) = {} /\ Pending(f, n) = {} /\ ~Succeeds(f)
<1>1. HandlerInv(handler, call.number) /\ handler \in HandlerTypes /\ call.number \in Nat
  BY DEF ITIPInv, HandlerInv, CallTypes
<1>2. << >> \in Seq(AnswersTold)
  OBVIOUS
<1>3. /\ f \in HandlerTypes /\ f.hasty = handler.hasty /\ f.posted = handler.posted /\ f.answers = << >>
      /\ f.by = handler.by /\ f.m_queuedInvitation = handler.m_queuedInvitation /\ f.misled = handler.misled
      /\ f.m_currentOperation = handler.m_currentOperation
  BY <1>1, <1>2 DEF Fresh, HandlerTypes
<1>4. Told(f) = {} /\ ~Succeeds(f)
  BY <1>3 DEF Told, Succeeds, Range
<1>5. \A k \in DOMAIN f.posted : f.posted[k].call \in Nat /\ f.posted[k].call <= call.number
  <2>1. PICK p \in Seq(PostedCalls) : p = handler.posted
    BY <1>1 DEF HandlerTypes
  <2>2. \A k \in DOMAIN p : p[k] \in PostedCalls
    BY <2>1
  <2>3. \A k \in DOMAIN p : p[k].call <= call.number
    BY <1>1, <2>1 DEF HandlerInv
  <2> QED BY <1>3, <2>1, <2>2, <2>3 DEF PostedCalls
<1>6. Pending(f, n) = {}
  BY <1>1, <1>5 DEF Pending
<1>7. \A k \in DOMAIN f.posted : f.posted[k].call <= n
  BY <1>1, <1>5
<1>8. f.by <= n
  BY <1>1, <1>3 DEF HandlerInv, HandlerTypes
<1>9. ~f.hasty => OneAnswer(f, n)
  BY <1>1, <1>3, <1>4, <1>6 DEF HandlerInv, OneAnswer, AtMostOne
<1> QED BY <1>3, <1>4, <1>6, <1>7, <1>8, <1>9 DEF HandlerInv, Kept

LEMMA StartsTells ==
  ASSUME ITIPInv, NEW n \in Nat, n = call.number + 1, NEW operation \in Operations,
         NEW f, f = Starts(operation)
  PROVE  /\ HandlerInv(f, n) /\ f.hasty = handler.hasty /\ f.by = n
         /\ f.m_queuedInvitation = handler.m_queuedInvitation /\ f.misled = handler.misled
         /\ f.m_currentOperation = operation
         /\ Told(f) = {} /\ Pending(f, n) = {} /\ ~Succeeds(f)
<1>1. PICK g : g = Fresh
  OBVIOUS
<1>2. /\ HandlerInv(g, n) /\ Kept(handler, g) /\ g.hasty = handler.hasty
      /\ Told(g) = {} /\ Pending(g, n) = {} /\ ~Succeeds(g)
  BY <1>1, FreshTells
<1>3. f = [g EXCEPT !.m_currentOperation = operation, !.by = n]
  BY <1>1 DEF Starts
<1>4. g \in HandlerTypes
  BY <1>2 DEF HandlerInv
<1>5. /\ f \in HandlerTypes /\ f.hasty = g.hasty /\ f.posted = g.posted /\ f.answers = g.answers
      /\ f.by = n /\ f.m_queuedInvitation = g.m_queuedInvitation /\ f.misled = g.misled
      /\ f.m_currentOperation = operation
  BY <1>3, <1>4 DEF HandlerTypes
<1>6. Told(f) = {} /\ Pending(f, n) = {} /\ ~Succeeds(f)
  BY <1>2, <1>5 DEF Told, Pending, Succeeds
<1>7. HandlerInv(f, n)
  BY <1>2, <1>5, <1>6 DEF HandlerInv, OneAnswer, AtMostOne
<1> QED BY <1>2, <1>5, <1>6, <1>7 DEF Kept

\* Without an operation nothing is under way.
LEMMA IdleHasNothing ==
  ASSUME ITIPInv, Calm, handler.m_currentOperation = "none"
  PROVE  ~handler.misled /\ jobs = {} /\ handler.m_queuedInvitation = NoMessage /\ Mine = {}
BY DEF ITIPInv, OneStarted

LEMMA PreparedTypes ==
  ASSUME FetchTypeOK, Prepared \/ UNCHANGED fetching
  PROVE  FetchTypeOK'
<1>1. CASE UNCHANGED fetching
  BY <1>1 DEF FetchTypeOK, fetching
<1>2. CASE Construct
  BY <1>2 DEF FetchTypeOK, Construct
<1> QED BY <1>1, <1>2 DEF Prepared

LEMMA BeginsTells ==
  ASSUME ITIPInv, NEW sound, NEW stores \in Nat, Begins(sound, stores), setting' = setting, FetchTypeOK'
  PROVE  CallGoesOn /\ call'.number = call.number + 1 /\ call'.stores = stores /\ call'.number \in Nat
<1>1. call.number \in Nat
  BY DEF ITIPInv, CallTypes
<1>2. PICK b \in BOOLEAN : b = (sound /\ Quiet)
  OBVIOUS
<1>3. call' = [number |-> call.number + 1, sound |-> b, stores |-> stores]
  BY <1>2 DEF Begins
<1> QED BY <1>1, <1>3 DEF CallGoesOn, CallTypes

\* A call that is no operation.
LEMMA FreshStep ==
  ASSUME ITIPInv, CallGoesOn, call'.number = call.number + 1, call'.stores = 0, UNCHANGED calendar,
         NEW g, g = Fresh, Talks(g, handler', call'.number),
         MailsTyped', ~handler.hasty => \A m \in mails' : m.owner # "helper", Mine' = Mine
  PROVE  ITIPInv' /\ Grows
<1> DEFINE n == call'.number
<1>1. n \in Nat /\ n = call.number + 1
  BY DEF CallGoesOn, CallTypes
<1>2. /\ HandlerInv(g, n) /\ Kept(handler, g) /\ g.hasty = handler.hasty
      /\ g.m_currentOperation = handler.m_currentOperation
      /\ ~Succeeds(g)
  BY <1>1, FreshTells
<1>3. HandlerInv(handler', n) /\ (handler.hasty => handler'.hasty)
  BY <1>2 DEF Talks, Kept
<1>4. ASSUME Calm' PROVE OneStarted' /\ Stores'
  <2>1. Calm
    BY <1>3, <1>4 DEF Calm, Own, CallGoesOn
  <2>2. OneStarted /\ jobs' = jobs
    BY <2>1 DEF ITIPInv, calendar
  <2>3. AtMostOne(Mine') /\ \A m \in Mine' : \E x \in Mine : x.call = m.call
    BY <2>2 DEF OneStarted
  <2>4. OneStarted'
    BY <1>2, <2>2, <2>3, StillStarted DEF Talks, Kept
  <2>5. Stores'
    BY DEF Stores
  <2> QED BY <2>4, <2>5
<1> QED BY <1>3, <1>4, CalendarRests

\* A mail is sent, or it is refused at once.
LEMMA MailStarts ==
  ASSUME ITIPInv, CallGoesOn, call'.number = call.number + 1, call'.stores = 0, UNCHANGED calendar,
         handler.m_currentOperation = "none", NEW operation \in {"send", "publish"},
         NEW h, h = Starts(operation),
         Performs("handler", h.by, {h}, TransactionFinished(h, "Error", h.by))
  PROVE  ITIPInv' /\ Grows
<1> DEFINE n == call'.number
<1>1. n \in Nat /\ n = call.number + 1 /\ operation \in Operations /\ "Error" \in Results /\ MailsTyped
  BY DEF CallGoesOn, CallTypes, Operations, Results, ITIPInv
<1>2. /\ HandlerInv(h, n) /\ h.hasty = handler.hasty
      /\ h.m_queuedInvitation = handler.m_queuedInvitation /\ h.misled = handler.misled
      /\ h.m_currentOperation = operation /\ ~Succeeds(h)
  BY <1>1, StartsTells
<1>3. MailsTyped' /\ PerformedBy("handler", h.by, {h}, TransactionFinished(h, "Error", h.by))
  BY <1>1, PerformsTells
<1>4. \/ handler' = h /\ \E m : m.owner = "handler" /\ m.call = h.by /\ mails' \in {mails, mails \cup {m}}
      \/ Finished(h, handler', n, "Error", h.by) /\ mails' = mails
  <2>1. ASSUME handler' \in TransactionFinished(h, "Error", h.by) PROVE Finished(h, handler', n, "Error", h.by)
    <3> HIDE DEF n
    <3> QED BY <1>1, <1>2, <2>1, TransactionFinishes
  <2> QED BY <1>3, <2>1 DEF PerformedBy
<1>5. /\ HandlerInv(handler', n) /\ (handler.hasty => handler'.hasty)
      /\ handler'.by = h.by /\ handler'.m_queuedInvitation = h.m_queuedInvitation
      /\ handler'.misled => h.misled
      /\ ~handler'.hasty => ~Succeeds(handler')
  BY <1>2, <1>4 DEF Finished
<1>6. ~handler'.hasty => \A m \in mails' : m.owner # "helper"
  BY <1>4, <1>5 DEF ITIPInv
<1>7. ASSUME Calm' PROVE OneStarted' /\ Stores'
  <2>1. Calm
    BY <1>5, <1>7 DEF Calm, Own, CallGoesOn
  <2>2. ~handler.misled /\ jobs = {} /\ handler.m_queuedInvitation = NoMessage /\ Mine = {}
    BY <2>1, IdleHasNothing
  <2>3. jobs' = {}
    BY <2>2 DEF calendar
  <2>4. AtMostOne(Mine') /\ \A m \in Mine' : m.call = handler'.by /\ handler'.m_currentOperation \in {"send", "publish"}
    BY <1>2, <1>4, <2>2 DEF Mine, AtMostOne
  <2>5. OneStarted'
    BY <1>2, <1>5, <2>2, <2>3, <2>4 DEF OneStarted, AtMostOne
  <2>6. Stores'
    BY DEF Stores
  <2> QED BY <2>5, <2>6
<1> QED BY <1>3, <1>5, <1>6, <1>7, CalendarRests

LEMMA ProcessiTIPMessageStep ==
  ASSUME ITIPInv, NEW msg \in Messages, ProcessiTIPMessage(msg)
  PROVE  ITIPInv' /\ Grows
<1> DEFINE n == call'.number
<1>1. setting' = setting /\ FetchTypeOK'
  <2>1. Prepared \/ UNCHANGED fetching
    BY DEF ProcessiTIPMessage
  <2> QED BY <2>1, PreparedTypes DEF ProcessiTIPMessage, ITIPInv
<1>2. PromisedIn(msg) \in Nat
  BY MessageTypes DEF PromisedIn
<1>3. CallGoesOn /\ n = call.number + 1 /\ call'.stores = PromisedIn(msg) /\ n \in Nat
  <2>1. Begins(Promised(msg), PromisedIn(msg))
    BY DEF ProcessiTIPMessage
  <2> QED BY <1>1, <1>2, <2>1, BeginsTells
<1>4. CASE handler.m_currentOperation # "none"
  <2>1. PICK g : g = Fresh
    OBVIOUS
  <2>2. PICK o : o = Over(g)
    OBVIOUS
  <2>3. PICK yes \in BOOLEAN : yes = TRUE
    OBVIOUS
  <2>4. handler' = [o EXCEPT !.hasty = yes] /\ UNCHANGED <<calendar, mails>>
    BY <1>4, <2>1, <2>2, <2>3 DEF ProcessiTIPMessage, Silently
  <2>5. HandlerInv(g, n)
    BY <1>3, <2>1, FreshTells
  <2>6. HandlerInv(o, n)
    BY <1>3, <2>2, <2>5, OverKeeps
  <2>7. HandlerInv(handler', n) /\ handler'.hasty
    <3> HIDE DEF n
    <3> QED BY <1>3, <2>3, <2>4, <2>6, HastyKeeps
  <2>8. MailsTyped'
    BY <2>4 DEF MailsTyped, ITIPInv
  <2> QED BY <1>3, <2>4, <2>7, <2>8, CalendarRests DEF Calm
<1>5. CASE handler.m_currentOperation = "none"
  <2>1. PICK h : h = Starts("process")
    OBVIOUS
  <2>2. /\ HandlerInv(h, n) /\ h.hasty = handler.hasty /\ h.by = n
        /\ h.m_queuedInvitation = handler.m_queuedInvitation /\ h.misled = handler.misled
        /\ h.m_currentOperation = "process"
        /\ Told(h) = {} /\ Pending(h, n) = {} /\ ~Succeeds(h)
    <3>1. "process" \in Operations
      BY DEF Operations
    <3> QED BY <1>3, <2>1, <3>1, StartsTells
  <2>3. Own /\ ~h.hasty => ~h.misled /\ jobs = {} /\ h.m_queuedInvitation = NoMessage /\ Mine = {}
    BY <1>5, <2>2, IdleHasNothing DEF Calm
  <2>4. CASE Loaded
    <3>1. Process(h, msg)
      BY <1>5, <2>1, <2>4 DEF ProcessiTIPMessage
    <3>2. Ready(h)
      BY <2>2, <2>3 DEF Ready
    <3> QED BY <1>3, <3>1, <3>2, ProcessStep
  <2>5. CASE ~Loaded
    <3>1. handler' = [h EXCEPT !.m_queuedInvitation = msg] /\ UNCHANGED <<calendar, mails>>
      BY <1>5, <2>1, <2>5 DEF ProcessiTIPMessage, Silently
    <3>2. h \in HandlerTypes
      BY <2>2 DEF HandlerInv
    <3>3. /\ handler' \in HandlerTypes /\ handler'.hasty = h.hasty /\ handler'.posted = h.posted
          /\ handler'.answers = h.answers /\ handler'.by = h.by /\ handler'.misled = h.misled
          /\ handler'.m_currentOperation = "process" /\ handler'.m_queuedInvitation = msg
      BY <2>2, <3>1, <3>2 DEF HandlerTypes
    <3>4. Told(handler') = {} /\ Pending(handler', n) = {} /\ ~Succeeds(handler')
      BY <2>2, <3>3 DEF Told, Pending, Succeeds
    <3>5. HandlerInv(handler', n)
      BY <2>2, <3>3, <3>4 DEF HandlerInv, OneAnswer, AtMostOne
    <3>6. MailsTyped'
      BY <3>1 DEF MailsTyped, ITIPInv
    <3>7. ASSUME Calm' PROVE OneStarted' /\ Stores'
      <4>1. ~h.misled /\ jobs = {} /\ Mine = {}
        BY <1>3, <2>3, <3>3, <3>7 DEF Calm, Own, CallGoesOn
      <4>2. jobs' = {} /\ Mine' = {}
        BY <3>1, <4>1, MineRests DEF calendar
      <4>3. OneStarted'
        BY <3>3, <4>1, <4>2 DEF OneStarted, AtMostOne
      <4>4. Stores'
        BY <1>3, <3>3, <3>4, <4>2 DEF Stores, Succeeds, Success, Answer, PromisedIn
      <4> QED BY <4>3, <4>4
    <3>8. ~handler'.hasty => \A m \in mails' : m.owner # "helper"
      BY <2>2, <3>1, <3>3 DEF ITIPInv
    <3> QED BY <1>3, <2>2, <3>1, <3>3, <3>5, <3>6, <3>7, <3>8, CalendarRests
  <2> QED BY <2>4, <2>5
<1> QED BY <1>4, <1>5

LEMMA FreshTalks ==
  ASSUME ITIPInv, NEW n \in Nat, n = call.number + 1, NEW g, g = Fresh,
         NEW f, \/ f = g
                \/ \E signal \in Signals \ {"processed"}, result \in Results : f = Says(g, signal, result)
  PROVE  Talks(g, f, n)
<1>1. HandlerInv(g, n)
  BY FreshTells
<1>2. CASE f = g
  BY <1>1, <1>2 DEF Talks, Kept, HandlerInv
<1>3. ASSUME NEW signal \in Signals \ {"processed"}, NEW result \in Results, f = Says(g, signal, result)
      PROVE  Talks(g, f, n)
  BY <1>1, <1>3, SaysTalks
<1> QED BY <1>2, <1>3

\* Sending, publishing and forwarding.
LEMMA MailCallsStep ==
  ASSUME ITIPInv, SendiTIPMessage \/ PublishInformation \/ SendAsICalendar
  PROVE  ITIPInv' /\ Grows
<1> DEFINE n == call'.number
<1>1. setting' = setting /\ FetchTypeOK'
  <2>1. Prepared \/ UNCHANGED fetching
    BY DEF SendiTIPMessage, PublishInformation, SendAsICalendar
  <2> QED BY <2>1, PreparedTypes DEF SendiTIPMessage, PublishInformation, SendAsICalendar, ITIPInv
<1>2. CallGoesOn /\ n = call.number + 1 /\ call'.stores = 0 /\ n \in Nat
  <2>1. PICK no \in BOOLEAN : no = FALSE
    OBVIOUS
  <2>2. Begins(no, 0)
    BY <2>1 DEF SendiTIPMessage, PublishInformation, SendAsICalendar
  <2> QED BY <1>1, <2>2, BeginsTells
<1>3. PICK g : g = Fresh
  OBVIOUS
<1>4. /\ {"sent", "published", "forwarded"} \subseteq Signals \ {"processed"}
      /\ "Success" \in Results /\ "Error" \in Results /\ MailsTyped
  BY DEF Signals, Results, ITIPInv
<1>5. ASSUME UNCHANGED <<calendar, mails>>,
             \/ handler' = g
             \/ \E signal \in Signals \ {"processed"}, result \in Results : handler' = Says(g, signal, result)
      PROVE  ITIPInv' /\ Grows
  <2>1. Talks(g, handler', n)
    BY <1>2, <1>3, <1>5, FreshTalks
  <2>2. MailsTyped' /\ Mine' = Mine /\ (~handler.hasty => \A m \in mails' : m.owner # "helper")
    BY <1>4, <1>5, MineRests DEF MailsTyped, ITIPInv
  <2> QED BY <1>2, <1>3, <1>5, <2>1, <2>2, FreshStep
<1>6. CASE SendiTIPMessage
  <2>1. CASE Silently(g)
    BY <1>5, <2>1 DEF Silently
  <2>2. ASSUME NEW h, h = Starts("send"), UNCHANGED calendar,
               Performs("handler", h.by, {h}, TransactionFinished(h, "Error", h.by))
        PROVE  ITIPInv' /\ Grows
    <3>1. handler.m_currentOperation = "none"
      BY <1>6 DEF SendiTIPMessage
    <3> QED BY <1>2, <2>2, <3>1, MailStarts
  <2> QED BY <1>3, <1>6, <2>1, <2>2 DEF SendiTIPMessage
<1>7. CASE PublishInformation
  <2>1. CASE Silently(Says(g, "published", "Success"))
    BY <1>4, <1>5, <2>1 DEF Silently
  <2>2. ASSUME NEW h, h = Starts("publish"), UNCHANGED calendar,
               Performs("handler", h.by, {h}, TransactionFinished(h, "Error", h.by))
        PROVE  ITIPInv' /\ Grows
    <3>1. handler.m_currentOperation = "none"
      BY <1>7 DEF PublishInformation
    <3> QED BY <1>2, <2>2, <3>1, MailStarts
  <2> QED BY <1>3, <1>7, <2>1, <2>2 DEF PublishInformation
<1>8. CASE SendAsICalendar
  <2>1. CASE Silently(g)
    BY <1>5, <2>1 DEF Silently
  <2>2. CASE Performs("forward", 0, {g}, {FinishSendAsICalendar(g, "Error")}) /\ UNCHANGED calendar
    <3>1. MailsTyped' /\ PerformedBy("forward", 0, {g}, {FinishSendAsICalendar(g, "Error")})
      BY <1>4, <2>2, PerformsTells
    <3>2. handler' = g \/ handler' = Says(g, "forwarded", "Error")
      BY <3>1 DEF PerformedBy, FinishSendAsICalendar, ResultOf
    <3>3. Talks(g, handler', n)
      BY <1>2, <1>3, <1>4, <3>2, FreshTalks
    <3>4. \A m \in mails' : m \in mails \/ m.owner = "forward"
      BY <3>1 DEF PerformedBy
    <3>5. \A m \in mails : m \in mails'
      BY <3>1 DEF PerformedBy
    <3>6. Mine' = Mine
      BY <3>4, <3>5 DEF Mine
    <3>7. ~handler.hasty => \A m \in mails' : m.owner # "helper"
      BY <3>4 DEF ITIPInv
    <3> QED BY <1>2, <1>3, <2>2, <3>1, <3>3, <3>6, <3>7, FreshStep
  <2> QED BY <1>3, <1>8, <2>1, <2>2 DEF SendAsICalendar
<1> QED BY <1>6, <1>7, <1>8

-----------------------------------------------------------------------------
(* Posted calls.                                                           *)

\* The first posted call is taken.
LEMMA TailTells ==
  ASSUME ITIPInv, handler.posted # << >>,
         NEW first, first = Head(handler.posted),
         NEW f, f = [handler EXCEPT !.posted = Tail(handler.posted)]
  PROVE  /\ HandlerInv(f, call.number) /\ Kept(handler, f)
         /\ f.m_currentOperation = handler.m_currentOperation /\ f.hasty = handler.hasty
         /\ Succeeds(f) <=> Succeeds(handler)
         /\ Told(f) = Told(handler)
         /\ first \in PostedCalls /\ first.call <= call.number
         /\ ~handler.hasty => first.event # "performTransaction"
         /\ ~handler.hasty /\ first.event = "processed" /\ first.call = call.number =>
              /\ Told(f) = {} /\ Pending(f, call.number) = {} /\ f.m_currentOperation # "process"
              /\ first.result # "Success"
<1>1. handler \in HandlerTypes /\ HandlerInv(handler, call.number)
  BY DEF ITIPInv, HandlerInv
<1>2. PICK p \in Seq(PostedCalls) : p = handler.posted
  BY <1>1 DEF HandlerTypes
<1>3. PICK q \in Seq(PostedCalls) : q = Tail(p)
  <2>1. p # << >>
    BY <1>2
  <2>2. Tail(p) \in Seq(PostedCalls)
    BY <2>1
  <2> QED BY <2>2
<1>4. /\ first \in PostedCalls /\ 1 \in DOMAIN p /\ p[1] = first
      /\ \A k \in DOMAIN q : k \in Nat /\ k + 1 \in DOMAIN p /\ k + 1 # 1 /\ q[k] = p[k + 1]
  <2>1. p # << >>
    BY <1>2
  <2> QED BY <1>2, <1>3, <2>1
<1>5. f = [handler EXCEPT !.posted = q]
  BY <1>2, <1>3
<1>6. /\ f \in HandlerTypes /\ f.hasty = handler.hasty /\ f.posted = q /\ f.answers = handler.answers
      /\ f.by = handler.by /\ f.m_queuedInvitation = handler.m_queuedInvitation /\ f.misled = handler.misled
      /\ f.m_currentOperation = handler.m_currentOperation
  BY <1>1, <1>5 DEF HandlerTypes
<1>7. Told(f) = Told(handler) /\ (Succeeds(f) <=> Succeeds(handler))
  BY <1>6 DEF Told, Succeeds
<1>8. \A k \in Pending(f, call.number) : k \in Nat /\ k + 1 # 1 /\ k + 1 \in Pending(handler, call.number)
  BY <1>2, <1>4, <1>6 DEF Pending
<1>9. \A k \in DOMAIN f.posted : f.posted[k].call <= call.number
  BY <1>1, <1>2, <1>4, <1>6 DEF HandlerInv
<1>10. ASSUME ~handler.hasty PROVE OneAnswer(f, call.number)
  <2>1. OneAnswer(handler, call.number)
    BY <1>1, <1>10 DEF HandlerInv
  <2>2. AtMostOne(Pending(f, call.number))
    <3> SUFFICES ASSUME NEW x \in Pending(f, call.number), NEW y \in Pending(f, call.number) PROVE x = y
      BY DEF AtMostOne
    <3>1. x + 1 = y + 1 /\ x \in Nat /\ y \in Nat
      BY <1>8, <2>1 DEF OneAnswer, AtMostOne
    <3> QED BY <3>1
  <2>3. \A k \in DOMAIN f.posted :
          /\ f.posted[k].event # "performTransaction"
          /\ ~(f.posted[k].event = "processed" /\ f.posted[k].result = "Success")
    BY <1>2, <1>4, <1>6, <2>1 DEF OneAnswer
  <2>4. Pending(handler, call.number) = {} => Pending(f, call.number) = {}
    BY <1>8
  <2> QED BY <1>6, <1>7, <2>1, <2>2, <2>3, <2>4 DEF OneAnswer
<1>11. HandlerInv(f, call.number)
  BY <1>1, <1>6, <1>9, <1>10 DEF HandlerInv
<1>12. first.call <= call.number
  BY <1>1, <1>2, <1>4 DEF HandlerInv
<1>13. ~handler.hasty => first.event # "performTransaction"
  BY <1>1, <1>2, <1>4 DEF HandlerInv, OneAnswer
<1>14. ASSUME ~handler.hasty, first.event = "processed", first.call = call.number
       PROVE  /\ Told(f) = {} /\ Pending(f, call.number) = {} /\ f.m_currentOperation # "process"
              /\ first.result # "Success"
  <2>1. OneAnswer(handler, call.number)
    BY <1>1, <1>14 DEF HandlerInv
  <2>2. 1 \in Pending(handler, call.number)
    BY <1>2, <1>4, <1>14 DEF Pending
  <2>3. Pending(f, call.number) = {}
    BY <1>8, <2>1, <2>2 DEF OneAnswer, AtMostOne
  <2>4. first.result # "Success"
    BY <1>2, <1>4, <1>14, <2>1 DEF OneAnswer
  <2> QED BY <1>6, <1>7, <2>1, <2>2, <2>3, <2>4 DEF OneAnswer
<1> QED BY <1>4, <1>6, <1>7, <1>11, <1>12, <1>13, <1>14 DEF Kept

\* The posted answer is given.
LEMMA AnswerGiven ==
  ASSUME NEW n \in Nat, NEW h, HandlerInv(h, n), NEW result \in Results,
         ~h.hasty => Told(h) = {} /\ Pending(h, n) = {} /\ h.m_currentOperation # "process" /\ result # "Success",
         NEW f, f = Says(h, "processed", result)
  PROVE  /\ HandlerInv(f, n) /\ Kept(h, f) /\ f.m_currentOperation = h.m_currentOperation
         /\ ~f.hasty => (Succeeds(f) => Succeeds(h))
<1>1. h \in HandlerTypes /\ "processed" \in Signals
  BY DEF HandlerInv, Signals
<1>2. /\ Kept(h, f)
      /\ f.m_currentOperation = h.m_currentOperation /\ f.hasty = h.hasty /\ f.posted = h.posted
      /\ Told(h) = {} => AtMostOne(Told(f))
      /\ Succeeds(f) => Succeeds(h) \/ result = "Success"
  BY <1>1, SaysKeeps
<1>3. Pending(f, n) = Pending(h, n)
  BY <1>2 DEF Pending
<1>4. ~f.hasty => OneAnswer(f, n)
  BY <1>2, <1>3 DEF OneAnswer, HandlerInv, AtMostOne
<1>5. HandlerInv(f, n)
  BY <1>2, <1>4 DEF HandlerInv, Kept
<1> QED BY <1>2, <1>5

LEMMA PostedCallStep ==
  ASSUME ITIPInv, PostedCall
  PROVE  ITIPInv' /\ Grows
<1> DEFINE n == call.number
<1>1. PICK first : first = Head(handler.posted)
  OBVIOUS
<1>2. PICK h : h = [handler EXCEPT !.posted = Tail(handler.posted)]
  OBVIOUS
<1>3. /\ HandlerInv(h, n) /\ Kept(handler, h)
      /\ h.m_currentOperation = handler.m_currentOperation /\ h.hasty = handler.hasty
      /\ Succeeds(h) <=> Succeeds(handler)
      /\ Told(h) = Told(handler)
      /\ first \in PostedCalls /\ first.call <= n
      /\ ~handler.hasty => first.event # "performTransaction"
      /\ ~handler.hasty /\ first.event = "processed" /\ first.call = n =>
           /\ Told(h) = {} /\ Pending(h, n) = {} /\ h.m_currentOperation # "process"
           /\ first.result # "Success"
  <2>1. handler.posted # << >>
    BY DEF PostedCall
  <2> QED BY <1>1, <1>2, <2>1, TailTells
<1>4. setting' = setting /\ FetchTypeOK' /\ call' = call /\ n \in Nat
  BY DEF PostedCall, ITIPInv, FetchTypeOK, fetching, CallTypes
<1>5. first.event \in Events /\ first.result \in Results
  BY <1>3 DEF PostedCalls
<1>6. ASSUME UNCHANGED <<calendar, mails>>, HandlerInv(handler', n), Kept(h, handler'),
             handler'.m_currentOperation = h.m_currentOperation,
             ~handler'.hasty => (Succeeds(handler') => Succeeds(h))
      PROVE  ITIPInv' /\ Grows
  <2>1. Kept(handler, handler')
    BY <1>3, <1>6 DEF Kept
  <2>2. /\ MailsTyped'
        /\ ~handler'.hasty => \A m \in mails' : m.owner # "helper"
        /\ Calm => AtMostOne(Mine') /\ \A m \in Mine' : \E x \in Mine : x.call = m.call
    BY <1>6, <2>1, MailsRest DEF Kept
  <2> QED BY <1>3, <1>4, <1>6, <2>1, <2>2, KeptStep
<1>7. ASSUME UNCHANGED <<calendar, mails>>, Talks(h, handler', n)
      PROVE  ITIPInv' /\ Grows
  BY <1>6, <1>7 DEF Talks
<1>8. Silently(h) => Talks(h, handler', n) /\ UNCHANGED <<calendar, mails>>
  BY <1>3 DEF Silently, Talks, Kept, HandlerInv
<1>9. CASE first.event = "processed"
  <2>1. Silently(h) \/ (Silently(Says(h, "processed", first.result)) /\ first.call = n)
    BY <1>1, <1>2, <1>9 DEF PostedCall
  <2>2. ASSUME Silently(Says(h, "processed", first.result)), first.call = n
        PROVE  ITIPInv' /\ Grows
    <3>1. handler' = Says(h, "processed", first.result) /\ UNCHANGED <<calendar, mails>>
      BY <2>2 DEF Silently
    <3>2. ~h.hasty => Told(h) = {} /\ Pending(h, n) = {} /\ h.m_currentOperation # "process" /\ first.result # "Success"
      BY <1>3, <1>9, <2>2
    <3>3. /\ HandlerInv(handler', n) /\ Kept(h, handler') /\ handler'.m_currentOperation = h.m_currentOperation
          /\ ~handler'.hasty => (Succeeds(handler') => Succeeds(h))
      <4> HIDE DEF n
      <4> QED BY <1>3, <1>4, <1>5, <3>1, <3>2, AnswerGiven
    <3> QED BY <1>6, <3>1, <3>3
  <2> QED BY <1>7, <1>8, <2>1, <2>2
<1>10. CASE first.event = "performTransaction"
  <2>1. handler.hasty /\ h.hasty
    BY <1>3, <1>10
  <2>2. PICK no \in BOOLEAN : no = FALSE
    OBVIOUS
  <2>3. Performs("helper", 0, {h}, HelperSchedulerFinished(h, no)) /\ UNCHANGED calendar
    BY <1>1, <1>2, <1>10, <2>2 DEF PostedCall
  <2>4. MailsTyped' /\ PerformedBy("helper", 0, {h}, HelperSchedulerFinished(h, no))
    BY <2>3, PerformsTells DEF ITIPInv
  <2>5. Talks(h, handler', n)
    <3>1. CASE handler' = h
      BY <1>3, <3>1 DEF Talks, Kept, HandlerInv
    <3>2. CASE handler' \in HelperSchedulerFinished(h, no)
      <4> HIDE DEF n
      <4> QED BY <1>3, <1>4, <2>1, <2>2, <3>2, HelperSchedulerFinishes
    <3> QED BY <2>4, <3>1, <3>2 DEF PerformedBy
  <2>6. handler'.hasty /\ ~Calm
    BY <2>1, <2>5 DEF Talks, Kept, Calm
  <2>7. Kept(handler, handler')
    BY <1>3, <2>5 DEF Talks, Kept
  <2> QED BY <1>3, <1>4, <2>3, <2>4, <2>5, <2>6, <2>7, KeptStep DEF Talks
<1>11. CASE first.event = "loadFinished"
  <2>1. PICK success \in BOOLEAN : success = (first.result = "Success")
    OBVIOUS
  <2>2. OnLoadFinished(h, success)
    BY <1>1, <1>2, <1>11, <2>1 DEF PostedCall
  <2>3. PICK msg : msg = h.m_queuedInvitation
    OBVIOUS
  <2>4. h \in HandlerTypes /\ msg \in Messages \cup {NoMessage} /\ h.m_currentOperation \in Operations
    BY <1>3, <2>3 DEF HandlerInv, HandlerTypes
  <2>5. PICK yes \in BOOLEAN : yes = TRUE
    OBVIOUS
  <2>6. CASE h.m_currentOperation = "process" /\ success /\ msg = NoMessage
    <3>1. handler' = [h EXCEPT !.crashed = yes] /\ UNCHANGED <<calendar, mails>>
      BY <2>2, <2>3, <2>5, <2>6 DEF OnLoadFinished, Silently
    <3>2. Talks(h, handler', n)
      <4> HIDE DEF n
      <4> QED BY <1>3, <1>4, <2>5, <3>1, FlagTalks
    <3> QED BY <1>7, <3>1, <3>2
  <2>7. CASE h.m_currentOperation = "process" /\ success /\ msg # NoMessage
    <3>1. PICK g : g = [h EXCEPT !.m_queuedInvitation = NoMessage]
      OBVIOUS
    <3>2. Process(g, msg) /\ msg \in Messages
      BY <2>2, <2>3, <2>4, <2>7, <3>1 DEF OnLoadFinished
    <3>3. /\ g \in HandlerTypes /\ g.hasty = h.hasty /\ g.posted = h.posted /\ g.answers = h.answers
          /\ g.by = h.by /\ g.misled = h.misled
          /\ g.m_currentOperation = "process" /\ g.m_queuedInvitation = NoMessage
      BY <2>4, <2>7, <3>1 DEF HandlerTypes
    <3>4. Told(g) = Told(h) /\ Pending(g, n) = Pending(h, n) /\ (Succeeds(g) <=> Succeeds(h))
      BY <3>3 DEF Told, Pending, Succeeds
    <3>5. HandlerInv(g, n)
      BY <1>3, <2>7, <3>3, <3>4 DEF HandlerInv, OneAnswer
    <3>6. ASSUME ~g.hasty PROVE ~Succeeds(g)
      <4>1. Told(h) = {}
        BY <1>3, <2>7, <3>3, <3>6 DEF HandlerInv, OneAnswer
      <4>2. h.answers \in Seq(AnswersTold)
        BY <2>4 DEF HandlerTypes
      <4> QED BY <3>4, <4>1, <4>2 DEF Told, Succeeds, Success, Answer, Range
    <3>7. Own /\ ~g.hasty => ~g.misled /\ jobs = {} /\ Mine = {}
      BY <1>3, <2>3, <2>7, <3>3 DEF ITIPInv, Calm, OneStarted, Kept
    <3>8. Ready(g) /\ CallGoesOn
      BY <1>3, <1>4, <3>3, <3>5, <3>6, <3>7 DEF Ready, CallGoesOn, ITIPInv, CallTypes
    <3>9. call'.stores > 0 /\ Own /\ ~g.hasty => PromisedIn(msg) = call'.stores
      BY <1>3, <1>4, <2>3, <2>7, <3>3 DEF ITIPInv, Calm, CalendarInv, Stores, Kept
    <3> QED BY <3>2, <3>8, <3>9, ProcessStep
  <2>8. CASE h.m_currentOperation = "process" /\ ~success
    <3>1. PICK g : g = Says(h, "processed", "Error")
      OBVIOUS
    <3>2. handler' = [g EXCEPT !.hasty = yes] /\ UNCHANGED <<calendar, mails>>
      BY <2>2, <2>3, <2>5, <2>8, <3>1 DEF OnLoadFinished, Silently
    <3>3. Kept(h, g) /\ g.m_currentOperation = h.m_currentOperation /\ g.posted = h.posted
      <4>1. "processed" \in Signals /\ "Error" \in Results
        BY DEF Signals, Results
      <4> QED BY <2>4, <3>1, <4>1, SaysKeeps
    <3>4. /\ handler' \in HandlerTypes /\ handler'.hasty /\ handler'.posted = h.posted /\ handler'.by = h.by
          /\ handler'.m_queuedInvitation = h.m_queuedInvitation /\ handler'.misled = h.misled
          /\ handler'.m_currentOperation = h.m_currentOperation
      BY <2>5, <3>2, <3>3 DEF HandlerTypes, Kept
    <3>5. HandlerInv(handler', n) /\ Kept(h, handler')
      BY <1>3, <3>4 DEF HandlerInv, Kept
    <3> QED BY <1>6, <3>2, <3>4, <3>5
  <2>9. CASE h.m_currentOperation = "send"
    <3>1. PICK b \in BOOLEAN : Silently([h EXCEPT !.crashed = b])
      BY <2>2, <2>9 DEF OnLoadFinished
    <3>2. handler' = [h EXCEPT !.crashed = b] /\ UNCHANGED <<calendar, mails>>
      BY <3>1 DEF Silently
    <3>3. Talks(h, handler', n)
      <4> HIDE DEF n
      <4> QED BY <1>3, <1>4, <3>2, FlagTalks
    <3> QED BY <1>7, <3>2, <3>3
  <2>10. CASE h.m_currentOperation \in {"none", "publish"}
    <3>1. PICK b \in BOOLEAN : b = (h.m_calendarLoadError \/ ~success)
      OBVIOUS
    <3>2. handler' = [h EXCEPT !.m_calendarLoadError = b] /\ UNCHANGED <<calendar, mails>>
      BY <2>2, <2>10, <3>1 DEF OnLoadFinished, Silently
    <3>3. Talks(h, handler', n)
      <4> HIDE DEF n
      <4> QED BY <1>3, <1>4, <3>2, FlagTalks
    <3> QED BY <1>7, <3>2, <3>3
  <2> QED BY <2>4, <2>6, <2>7, <2>8, <2>9, <2>10 DEF Operations
<1> QED BY <1>5, <1>9, <1>10, <1>11 DEF Events

-----------------------------------------------------------------------------
(* What happens by itself.                                                 *)

LEMMA LoadEndsStep ==
  ASSUME ITIPInv, NEW success \in BOOLEAN, LoadEnds(success)
  PROVE  ITIPInv' /\ Grows
<1> DEFINE n == call.number
<1>1. PICK result \in Results : result = ResultOf(success)
  BY DEF ResultOf, Results
<1>2. handler' = Posts(handler, "loadFinished", result) /\ UNCHANGED <<calendar, mails>>
  BY <1>1 DEF LoadEnds, Silently
<1>3. setting' = setting /\ call' = call /\ FetchTypeOK'
  <2>1. SearchJobFinished(success) /\ setting' = setting /\ call' = call
    BY DEF LoadEnds
  <2>2. FetchTypeOK'
    <3>1. isLoading' = FALSE /\ fetch' = "over" /\ jobCount' = 0
      BY <2>1 DEF SearchJobFinished
    <3>2. jobCount' \in 0 .. MaxCollections
      BY <3>1, MaxCollectionsAssumption
    <3> QED BY <3>1, <3>2 DEF FetchTypeOK
  <2> QED BY <2>1, <2>2
<1>4. handler \in HandlerTypes /\ HandlerInv(handler, n) /\ "loadFinished" \in Events
  BY DEF ITIPInv, HandlerInv, Events
<1>5. /\ Kept(handler, handler')
      /\ handler'.m_currentOperation = handler.m_currentOperation /\ handler'.hasty = handler.hasty
      /\ handler'.answers = handler.answers
      /\ Pending(handler', n) = Pending(handler, n)
      /\ \A k \in DOMAIN handler'.posted :
           \/ k \in DOMAIN handler.posted /\ handler'.posted[k] = handler.posted[k]
           \/ handler'.posted[k].event = "loadFinished" /\ handler'.posted[k].call = handler.by
  BY <1>2, <1>4, PostsKeeps
<1>6. Told(handler') = Told(handler) /\ (Succeeds(handler') <=> Succeeds(handler))
  BY <1>5 DEF Told, Succeeds
<1>7. ~handler'.hasty => OneAnswer(handler', n)
  <2> SUFFICES ASSUME ~handler'.hasty PROVE OneAnswer(handler', n)
    OBVIOUS
  <2>1. OneAnswer(handler, n)
    BY <1>4, <1>5 DEF HandlerInv
  <2>2. \A k \in DOMAIN handler'.posted :
          /\ handler'.posted[k].event # "performTransaction"
          /\ ~(handler'.posted[k].event = "processed" /\ handler'.posted[k].result = "Success")
    BY <1>5, <2>1 DEF OneAnswer
  <2> QED BY <1>5, <1>6, <2>1, <2>2 DEF OneAnswer
<1>8. HandlerInv(handler', n)
  BY <1>4, <1>5, <1>7 DEF HandlerInv, Kept
<1>9. /\ MailsTyped'
      /\ ~handler'.hasty => \A m \in mails' : m.owner # "helper"
      /\ Calm => AtMostOne(Mine') /\ \A m \in Mine' : \E x \in Mine : x.call = m.call
  BY <1>2, <1>5, MailsRest
<1> QED BY <1>2, <1>3, <1>5, <1>6, <1>8, <1>9, KeptStep

\* The handler has nothing to do with it.
LEMMA HandlerRests ==
  ASSUME ITIPInv, handler' = handler
  PROVE  HandlerInv(handler', call.number) /\ Kept(handler, handler') /\ handler.hasty = handler'.hasty
BY DEF ITIPInv, Kept, HandlerInv

LEMMA FetchGoesOnStep ==
  ASSUME ITIPInv, FetchGoesOn
  PROVE  ITIPInv' /\ Grows
<1>1. UNCHANGED calendar /\ mails' = mails /\ setting' = setting /\ handler' = handler /\ call' = call
  BY DEF FetchGoesOn
<1>2. FetchTypeOK'
  <2>1. FetchTypeOK /\ MaxCollections \in Nat
    BY MaxCollectionsAssumption DEF ITIPInv
  <2>2. CASE CollectionsListed
    BY <2>1, <2>2 DEF CollectionsListed, FetchTypeOK
  <2>3. CASE ItemsFetched
    BY <2>1, <2>3 DEF ItemsFetched, FetchTypeOK
  <2> QED BY <2>2, <2>3 DEF FetchGoesOn
<1>3. HandlerInv(handler', call.number) /\ Kept(handler, handler') /\ handler.hasty = handler'.hasty
  BY <1>1, HandlerRests
<1>4. /\ MailsTyped'
      /\ ~handler'.hasty => \A m \in mails' : m.owner # "helper"
      /\ Calm => AtMostOne(Mine') /\ \A m \in Mine' : \E x \in Mine : x.call = m.call
  BY <1>1, <1>3, MailsRest
<1> QED BY <1>1, <1>2, <1>3, <1>4, KeptStep

\* A step that concerns a shared calendar only.
LEMMA SharedStep ==
  ASSUME ITIPInv, setting.given, CalendarTypes', Keyed',
         UNCHANGED <<mails, fetching, setting, handler, call>>
  PROVE  ITIPInv'
<1>1. HandlerInv(handler', call'.number) /\ handler'.hasty = handler.hasty
  BY HandlerRests
<1>2. MailsTyped' /\ (~handler'.hasty => \A m \in mails' : m.owner # "helper")
  BY <1>1, MailsRest
<1>3. FetchTypeOK'
  BY DEF ITIPInv, FetchTypeOK, fetching
<1>4. ~Own'
  BY DEF Own
<1> QED BY <1>1, <1>2, <1>3, <1>4 DEF ITIPInv, Calm

LEMMA UserChangeStep ==
  ASSUME ITIPInv, UserChange
  PROVE  ITIPInv' /\ Grows
<1>1. /\ jobs' = jobs \cup {[kind |-> "other", copy |-> First(FALSE, TRUE), call |-> 0]}
      /\ copies' = copies /\ arriving' = arriving /\ connected' = connected
      /\ UNCHANGED <<mails, fetching, setting, handler, call>> /\ setting.given
  BY DEF UserChange
<1>2. Keyed' /\ Grows
  BY <1>1, CopiesRest DEF ITIPInv
<1>3. PICK x \in CopyTypes : x = First(FALSE, TRUE)
  BY FirstTypes
<1>4. PICK j : j = [kind |-> "other", copy |-> x, call |-> 0]
  OBVIOUS
<1>5. j \in JobTypes /\ j.call = 0
  BY <1>4 DEF JobTypes
<1>6. jobs' = jobs \cup {j}
  BY <1>1, <1>3, <1>4
<1>7. CalendarTypes /\ call.number \in Nat
  BY DEF ITIPInv, CallTypes
<1>8. IsFiniteSet(jobs')
  <2>1. IsFiniteSet(jobs)
    BY <1>7 DEF CalendarTypes
  <2> QED BY <1>6, <2>1, FS_AddElement
<1>9. jobs' \subseteq JobTypes /\ \A y \in jobs' : y.call <= call'.number
  <2>1. call' = call /\ j.call <= call.number
    BY <1>1, <1>5, <1>7
  <2> QED BY <1>5, <1>6, <1>7, <2>1 DEF CalendarTypes
<1>10. CalendarTypes'
  BY <1>1, <1>7, <1>8, <1>9 DEF CalendarTypes
<1> QED BY <1>1, <1>2, <1>10, SharedStep

\* An incidence is added under a key of its own.
LEMMA InsertedTells ==
  ASSUME CalendarTypes, Keyed, NEW copy \in CopyTypes, copies' = Inserted(copy)
  PROVE  /\ copies' \subseteq CopyTypes /\ IsFiniteSet(copies') /\ Keyed' /\ Grows
         /\ copies \subseteq copies'
         /\ Key(copy) \notin Keys => copies' = copies \cup {copy}
<1>1. copies' = copies \/ (copies' = copies \cup {copy} /\ Key(copy) \notin Keys)
  BY DEF Inserted
<1>2. IsFiniteSet(copies')
  <2>1. IsFiniteSet(copies)
    BY DEF CalendarTypes
  <2>2. IsFiniteSet(copies \cup {copy})
    BY <2>1, FS_AddElement
  <2> QED BY <1>1, <2>1, <2>2
<1>3. copies' \subseteq CopyTypes
  BY <1>1 DEF CalendarTypes
<1>4. Keyed'
  BY <1>1 DEF Keyed, Keys, Key
<1>5. Grows
  <2> SUFFICES ASSUME NEW c \in copies, NEW d \in copies', Key(c) = Key(d) PROVE d.revision >= c.revision
    BY DEF Grows
  <2>1. c = d
    BY <1>1, <1>4 DEF Keyed, Key
  <2>2. c.revision \in Nat
    BY DEF CalendarTypes, CopyTypes
  <2> QED BY <2>1, <2>2
<1> QED BY <1>1, <1>2, <1>3, <1>4, <1>5 DEF Inserted

LEMMA ArriveStep ==
  ASSUME ITIPInv, NEW copy \in arriving, Arrive(copy)
  PROVE  ITIPInv' /\ Grows
<1>1. /\ copies' = Inserted(copy) /\ arriving' = arriving \ {copy} /\ jobs' = jobs /\ connected' = connected
      /\ UNCHANGED <<mails, fetching, setting, handler, call>>
  BY DEF Arrive
<1>2. setting.given /\ CalendarTypes /\ Keyed /\ copy \in CopyTypes
  BY DEF ITIPInv, Own, CalendarTypes
<1>3. copies' \subseteq CopyTypes /\ IsFiniteSet(copies') /\ Keyed' /\ Grows
  BY <1>1, <1>2, InsertedTells
<1>4. IsFiniteSet(arriving') /\ arriving' \subseteq CopyTypes
  <2>1. IsFiniteSet(arriving) /\ arriving' \in SUBSET arriving /\ arriving \subseteq CopyTypes
    BY <1>1, <1>2 DEF CalendarTypes
  <2>2. IsFiniteSet(arriving')
    BY <2>1, FS_Subset
  <2> QED BY <2>1, <2>2
<1>5. CalendarTypes'
  BY <1>1, <1>2, <1>3, <1>4 DEF CalendarTypes
<1> QED BY <1>1, <1>2, <1>3, <1>5, SharedStep

\* The handler's own mails after one of them has gone on or has gone.
LEMMA MineGoesOn ==
  ASSUME AtMostOne(Mine), NEW m \in mails,
         \/ mails' = mails \ {m}
         \/ \E n : n.owner = m.owner /\ n.call = m.call /\ mails' = (mails \ {m}) \cup {n}
  PROVE  AtMostOne(Mine') /\ \A y \in Mine' : \E x \in Mine : x.call = y.call
<1>1. CASE mails' = mails \ {m}
  BY <1>1 DEF Mine, AtMostOne
<1>2. ASSUME NEW n, n.owner = m.owner, n.call = m.call, mails' = (mails \ {m}) \cup {n}
      PROVE  AtMostOne(Mine') /\ \A y \in Mine' : \E x \in Mine : x.call = y.call
  <2>1. \A y \in Mine' : (y = n /\ m \in Mine) \/ (y \in Mine /\ y # m)
    BY <1>2 DEF Mine
  <2> QED BY <1>2, <2>1 DEF AtMostOne
<1> QED BY <1>1, <1>2

LEMMA ComposingStep ==
  ASSUME ITIPInv, NEW m \in mails, Composing(m)
  PROVE  ITIPInv' /\ Grows
<1>1. /\ UNCHANGED calendar /\ setting' = setting /\ handler' = handler /\ call' = call /\ UNCHANGED fetching
      /\ Compose(m)
  BY DEF Composing
<1>2. FetchTypeOK'
  BY <1>1 DEF ITIPInv, FetchTypeOK, fetching
<1>3. HandlerInv(handler', call.number) /\ Kept(handler, handler') /\ handler.hasty = handler'.hasty
  BY <1>1, HandlerRests
<1>4. /\ MailsTyped'
      /\ \/ mails' = mails \ {m}
         \/ \E n : n.owner = m.owner /\ n.call = m.call /\ mails' = (mails \ {m}) \cup {n}
  BY <1>1, ComposeTells DEF ITIPInv
<1>5. ~handler'.hasty => \A x \in mails' : x.owner # "helper"
  BY <1>3, <1>4 DEF ITIPInv
<1>6. Calm => AtMostOne(Mine') /\ \A y \in Mine' : \E x \in Mine : x.call = y.call
  <2>1. Calm => AtMostOne(Mine)
    BY DEF ITIPInv, OneStarted
  <2> QED BY <1>4, <2>1, MineGoesOn
<1> QED BY <1>1, <1>2, <1>3, <1>4, <1>5, <1>6, KeptStep

LEMMA QueueingStep ==
  ASSUME ITIPInv, NEW m \in mails, Queueing(m)
  PROVE  ITIPInv' /\ Grows
<1> DEFINE n == call.number
<1>1. /\ UNCHANGED calendar /\ setting' = setting /\ call' = call /\ UNCHANGED fetching /\ Queued(m)
  BY DEF Queueing
<1>2. FetchTypeOK' /\ CallGoesOn /\ n \in Nat /\ call'.number = n /\ HandlerInv(handler, n)
  <2>1. FetchTypeOK'
    BY <1>1 DEF ITIPInv, FetchTypeOK, fetching
  <2> QED BY <1>1, <2>1 DEF ITIPInv, CallGoesOn, CallTypes
<1>3. /\ MailsTyped'
      /\ \/ mails' = mails \ {m}
         \/ /\ m.composers + m.queued > 1
            /\ \E x : x.owner = m.owner /\ x.call = m.call /\ mails' = (mails \ {m}) \cup {x}
  BY <1>1, QueuedTells DEF ITIPInv
<1>4. PICK success \in BOOLEAN :
        handler' \in CASE m.owner = "handler" ->
                            TransactionFinished([handler EXCEPT !.hasty = @ \/ m.composers + m.queued > 1],
                                                ResultOf(success), m.call)
                       [] m.owner = "helper"  -> HelperSchedulerFinished(handler, success)
                       [] m.owner = "forward" -> {FinishSendAsICalendar(handler, ResultOf(success))}
  BY DEF Queueing
<1>5. ResultOf(success) \in Results /\ ResultOf(success) # "none"
  BY DEF ResultOf, Results
<1>6. ~handler.hasty => \A x \in mails' : x.owner # "helper"
  BY <1>3 DEF ITIPInv
<1>7. Calm => AtMostOne(Mine') /\ \A y \in Mine' : \E x \in Mine : x.call = y.call
  <2>1. Calm => AtMostOne(Mine)
    BY DEF ITIPInv, OneStarted
  <2> QED BY <1>3, <2>1, MineGoesOn
<1>8. ASSUME Talks(handler, handler', n) PROVE ITIPInv' /\ Grows
  BY <1>1, <1>2, <1>3, <1>6, <1>7, <1>8, KeptStep DEF Talks, Kept
<1>9. CASE m.owner = "helper"
  <2>1. handler.hasty
    BY <1>9 DEF ITIPInv
  <2>2. handler' \in HelperSchedulerFinished(handler, success)
    BY <1>4, <1>9
  <2>3. Talks(handler, handler', n)
    <3> HIDE DEF n
    <3> QED BY <1>2, <2>1, <2>2, HelperSchedulerFinishes
  <2> QED BY <1>8, <2>3
<1>10. CASE m.owner = "forward"
  <2>1. PICK result \in Results : result = ResultOf(ResultOf(success) = "Success")
    BY DEF ResultOf, Results
  <2>2. handler' = Says(handler, "forwarded", result)
    BY <1>4, <1>10, <2>1 DEF FinishSendAsICalendar
  <2>3. "forwarded" \in Signals /\ "forwarded" # "processed"
    BY DEF Signals
  <2>4. Talks(handler, handler', n)
    <3> HIDE DEF n
    <3> QED BY <1>2, <2>2, <2>3, SaysTalks
  <2> QED BY <1>8, <2>4
<1>11. CASE m.owner = "handler"
  <2>1. PICK b \in BOOLEAN : b = (handler.hasty \/ m.composers + m.queued > 1)
    OBVIOUS
  <2>2. PICK g : g = [handler EXCEPT !.hasty = b]
    OBVIOUS
  <2>3. handler' \in TransactionFinished(g, ResultOf(success), m.call)
    BY <1>4, <1>11, <2>1, <2>2
  <2>4. /\ HandlerInv(g, n) /\ Kept(handler, g) /\ g.hasty = b
        /\ g.m_currentOperation = handler.m_currentOperation /\ (Succeeds(g) <=> Succeeds(handler))
    <3>1. handler.hasty => b
      BY <2>1
    <3> HIDE DEF n
    <3> QED BY <1>2, <2>2, <3>1, HastyKeeps
  <2>5. Finished(g, handler', n, ResultOf(success), m.call)
    <3> HIDE DEF n
    <3> QED BY <1>2, <1>5, <2>3, <2>4, TransactionFinishes
  <2>6. HandlerInv(handler', n) /\ (handler.hasty => handler'.hasty)
    BY <2>1, <2>4, <2>5 DEF Finished
  <2>7. ASSUME Calm' PROVE OneStarted' /\ Stores'
    <3>1. Calm /\ ~g.hasty /\ ~(m.composers + m.queued > 1)
      BY <1>1, <2>1, <2>4, <2>5, <2>7 DEF Calm, Own, Finished
    <3>2. OneStarted /\ Stores /\ m \in Mine
      BY <1>11, <3>1 DEF ITIPInv, CalendarInv, Mine
    <3>3. m.call = handler.by /\ handler.m_currentOperation \in {"send", "publish"}
      BY <3>2 DEF OneStarted
    <3>4. jobs = {} /\ handler.m_queuedInvitation = NoMessage /\ ~handler.misled
      BY <3>2, <3>3 DEF OneStarted
    <3>5. Mine' = {}
      BY <1>3, <3>1, <3>2 DEF OneStarted, AtMostOne, Mine
    <3>6. /\ ~handler'.misled /\ handler'.m_queuedInvitation = NoMessage
          /\ Succeeds(handler') => Succeeds(handler)
      BY <2>4, <2>5, <2>7, <3>3, <3>4 DEF Finished, Kept, Calm
    <3>7. OneStarted'
      <4>1. jobs' = {}
        BY <1>1, <3>4 DEF calendar
      <4> QED BY <3>5, <3>6, <4>1 DEF OneStarted, AtMostOne
    <3>8. Stores'
      BY <1>1, <3>2, <3>6, StoresRest
    <3> QED BY <3>7, <3>8
  <2> QED BY <1>1, <1>2, <1>3, <1>6, <2>6, <2>7, CalendarRests
<1> QED BY <1>9, <1>10, <1>11 DEF ITIPInv, MailsTyped, MailShaped

LEMMA AppliedTells ==
  ASSUME CalendarTypes, Keyed, NEW j \in jobs, NEW listens \in BOOLEAN, copies' = Applied(j, listens)
  PROVE  /\ copies' \subseteq CopyTypes /\ IsFiniteSet(copies') /\ Keyed'
         /\ \A c \in copies' : c \in copies \/ (j.kind \in {"create", "modify"} /\ c = j.copy)
         /\ Plain /\ NotOlder => Grows
         /\ j.kind = "create" /\ ~listens /\ Key(j.copy) \notin Keys => j.copy \in copies'
         /\ j.kind = "modify" /\ Key(j.copy) \in Keys => j.copy \in copies'
<1>1. j.kind \in {"create", "modify", "delete", "other"} /\ j.copy \in CopyTypes
  BY DEF CalendarTypes, JobTypes, Kinds
<1>2. copies \subseteq CopyTypes /\ IsFiniteSet(copies)
  BY DEF CalendarTypes
<1>3. CASE copies' = copies /\ j.kind # "create" /\ (j.kind = "modify" => Key(j.copy) \notin Keys)
  BY <1>2, <1>3, CopiesRest
<1>4. CASE copies' = copies /\ j.kind = "create" /\ listens
  BY <1>2, <1>4, CopiesRest
<1>5. CASE copies' = Inserted(j.copy) /\ j.kind = "create"
  <2>1. /\ copies' \subseteq CopyTypes /\ IsFiniteSet(copies') /\ Keyed' /\ Grows
        /\ copies \subseteq copies'
        /\ Key(j.copy) \notin Keys => copies' = copies \cup {j.copy}
    BY <1>1, <1>5, InsertedTells
  <2>2. \A c \in copies' : c \in copies \/ c = j.copy
    BY <1>5 DEF Inserted
  <2> QED BY <1>5, <2>1, <2>2
<1>6. CASE copies' = Placed({j.copy}) /\ j.kind = "modify"
  <2>1. PICK x \in CopyTypes : x = j.copy
    BY <1>1
  <2>2. copies' = Placed({x})
    BY <1>6, <2>1
  <2>3. /\ copies' \subseteq CopyTypes /\ IsFiniteSet(copies') /\ Keyed'
        /\ x \in copies' /\ \A c \in copies' : c = x \/ (c \in copies /\ Key(c) # Key(x))
    BY <2>2, OneIsPlaced
  <2>4. ASSUME Plain, NotOlder PROVE Grows
    <3> SUFFICES ASSUME NEW a \in copies, NEW d \in copies', Key(a) = Key(d) PROVE d.revision >= a.revision
      BY DEF Grows
    <3>1. CASE d = x
      BY <1>6, <2>1, <2>4, <3>1 DEF NotOlder
    <3>2. CASE d \in copies
      <4>1. a = d /\ a.revision \in Nat
        BY <1>2, <3>2 DEF Keyed, CopyTypes
      <4> QED BY <4>1
    <3> QED BY <2>3, <3>1, <3>2
  <2> QED BY <1>6, <2>1, <2>3, <2>4
<1>7. CASE copies' = {c \in copies : Key(c) # Key(j.copy)} /\ j.kind = "delete"
  <2>1. copies' \in SUBSET copies
    BY <1>7
  <2>2. IsFiniteSet(copies')
    BY <1>2, <2>1, FS_Subset
  <2>3. Keyed'
    BY <2>1 DEF Keyed, Key
  <2>4. Grows
    <3> SUFFICES ASSUME NEW a \in copies, NEW d \in copies', Key(a) = Key(d) PROVE d.revision >= a.revision
      BY DEF Grows
    <3>1. a = d /\ a.revision \in Nat
      BY <1>2, <2>1 DEF Keyed, CopyTypes
    <3> QED BY <3>1
  <2> QED BY <1>2, <1>7, <2>1, <2>2, <2>3, <2>4
<1>8. \/ copies' = copies /\ j.kind # "create" /\ (j.kind = "modify" => Key(j.copy) \notin Keys)
      \/ copies' = copies /\ j.kind = "create" /\ listens
      \/ copies' = Inserted(j.copy) /\ j.kind = "create"
      \/ copies' = Placed({j.copy}) /\ j.kind = "modify"
      \/ copies' = {c \in copies : Key(c) # Key(j.copy)} /\ j.kind = "delete"
  BY <1>1 DEF Applied
<1> QED BY <1>3, <1>4, <1>5, <1>6, <1>7, <1>8

\* A change that is over: the operation ends by it, and the calendar has it.
LEMMA JobDoneStep ==
  ASSUME ITIPInv, NEW j \in jobs, JobDone(j)
  PROVE  ITIPInv' /\ (Calm' /\ Plain => Grows)
<1> DEFINE n == call.number
<1>1. PICK success \in BOOLEAN :
        LET done == success /\ Succeeded(j)
        IN  /\ copies' = IF done THEN Applied(j, setting.given) ELSE copies
            /\ arriving' = IF done /\ setting.given /\ j.kind = "create" THEN arriving \cup {j.copy} ELSE arriving
            /\ UNCHANGED call
            /\ \E result \in IF done THEN {"Success"} ELSE IF j.kind = "create" THEN {"Error", "Cancelled"} ELSE {"Error"} :
                 handler' \in IF connected THEN TransactionFinished(handler, result, j.call) ELSE {handler}
  BY DEF JobDone
<1>2. PICK done \in BOOLEAN : done = (success /\ Succeeded(j))
  OBVIOUS
<1>3. /\ copies' = IF done THEN Applied(j, setting.given) ELSE copies
      /\ arriving' = IF done /\ setting.given /\ j.kind = "create" THEN arriving \cup {j.copy} ELSE arriving
      /\ call' = call
  BY <1>1, <1>2
<1>4. PICK result \in Results :
        /\ result = "Success" => done
        /\ handler' \in IF connected THEN TransactionFinished(handler, result, j.call) ELSE {handler}
  BY <1>1, <1>2 DEF Results
<1>5. jobs' = jobs \ {j} /\ connected' = connected /\ mails' = mails /\ UNCHANGED fetching /\ setting' = setting
  BY DEF JobDone
<1>6. /\ CalendarTypes /\ Keyed /\ n \in Nat /\ HandlerInv(handler, n)
      /\ j.copy \in CopyTypes /\ setting.given \in BOOLEAN
  BY DEF ITIPInv, CallTypes, CalendarTypes, JobTypes, SettingTypes
<1>7. PICK ended \in Results : /\ Finished(handler, handler', n, ended, j.call)
                               /\ ended = "Success" => done
  <2>1. CASE connected
    <3>1. handler' \in TransactionFinished(handler, result, j.call)
      BY <1>4, <2>1
    <3>2. Finished(handler, handler', n, result, j.call)
      <4> HIDE DEF n
      <4> QED BY <1>6, <3>1, TransactionFinishes
    <3> QED BY <1>4, <3>2
  <2>2. CASE ~connected
    <3>1. handler' = handler /\ "none" \in Results
      BY <1>4, <2>2 DEF Results
    <3>2. Finished(handler, handler', n, "none", j.call)
      BY <1>6, <3>1 DEF Finished
    <3> QED BY <3>1, <3>2
  <2> QED BY <2>1, <2>2
<1>8. HandlerInv(handler', n) /\ (handler.hasty => handler'.hasty)
  BY <1>7 DEF Finished
<1>9. /\ copies' \subseteq CopyTypes /\ IsFiniteSet(copies') /\ Keyed'
      /\ \A c \in copies' : c \in copies \/ (j.kind \in {"create", "modify"} /\ c = j.copy)
      /\ Plain /\ NotOlder => Grows
      /\ done /\ j.kind = "create" /\ ~setting.given /\ Key(j.copy) \notin Keys => j.copy \in copies'
      /\ done /\ j.kind = "modify" => j.copy \in copies'
  <2>1. CASE done
    <3>1. copies' = Applied(j, setting.given)
      BY <1>3, <2>1
    <3>2. j.kind = "modify" => Key(j.copy) \in Keys
      BY <1>2, <2>1 DEF Succeeded
    <3> QED BY <1>6, <3>1, <3>2, AppliedTells
  <2>2. CASE ~done
    <3>1. copies' = copies
      BY <1>3, <2>2
    <3> QED BY <1>6, <2>2, <3>1, CopiesRest DEF CalendarTypes
  <2> QED BY <2>1, <2>2
<1>10. CalendarTypes'
  <2>1. IsFiniteSet(arriving') /\ arriving' \subseteq CopyTypes
    <3>1. IsFiniteSet(arriving) /\ arriving \subseteq CopyTypes
      BY <1>6 DEF CalendarTypes
    <3>2. IsFiniteSet(arriving \cup {j.copy})
      BY <3>1, FS_AddElement
    <3> QED BY <1>3, <1>6, <3>1, <3>2
  <2>2. IsFiniteSet(jobs')
    <3>1. jobs' \in SUBSET jobs /\ IsFiniteSet(jobs)
      BY <1>5, <1>6 DEF CalendarTypes
    <3> QED BY <3>1, FS_Subset
  <2>3. jobs' \subseteq JobTypes /\ \A x \in jobs' : x.call <= call'.number
    BY <1>3, <1>5, <1>6 DEF CalendarTypes
  <2> QED BY <1>5, <1>6, <1>9, <2>1, <2>2, <2>3 DEF CalendarTypes
<1>11. Own' => arriving' = {}
  BY <1>3, <1>5 DEF ITIPInv, Own
<1>12. Calm' => Calm
  BY <1>5, <1>8 DEF Calm, Own
<1>13. ASSUME Calm' PROVE OneStarted' /\ CalendarInv'
  <2>1. /\ Calm /\ ~handler'.hasty /\ ~handler.hasty /\ ~setting.given
        /\ OneStarted /\ OneSeries(copies \cup Put) /\ Stores
    BY <1>5, <1>12, <1>13 DEF ITIPInv, Calm, Own, CalendarInv
  <2>2. /\ ~handler.misled /\ handler.m_currentOperation = "process" /\ handler.m_queuedInvitation = NoMessage
        /\ j.call = handler.by /\ Mine = {}
    BY <2>1 DEF OneStarted
  <2>3. jobs' = {}
    BY <1>5, <2>1 DEF OneStarted, AtMostOne
  <2>4. /\ ~handler'.misled /\ handler'.m_queuedInvitation = NoMessage
        /\ Succeeds(handler') => Succeeds(handler) \/ done
    BY <1>7, <2>1, <2>2 DEF Finished
  <2>5. Mine' = {}
    BY <1>5, <2>2, MineRests
  <2>6. OneStarted'
    BY <2>3, <2>4, <2>5 DEF OneStarted, AtMostOne
  <2>7. OneSeries(copies \cup Put)'
    <3>1. Put' = {}
      BY <2>3 DEF Put
    <3>2. j.kind \in {"create", "modify"} => j.copy \in Put
      BY DEF Put, PutBy
    <3>3. \A c \in copies' : c \in copies \cup Put
      BY <1>9, <3>2
    <3> QED BY <2>1, <3>1, <3>3 DEF OneSeries, Clicked
  <2>8. NotOlder'
    BY <2>3 DEF NotOlder
  <2>9. Stores'
    <3> SUFFICES ASSUME call.stores > 0, Succeeds(handler') PROVE \E c \in copies' : c.revision >= call.stores
      BY <1>3, <2>3, <2>4 DEF Stores, Succeeds, Success, Answer
    <3>1. ~Succeeds(handler)
      <4>1. Told(handler) = {} /\ handler.answers \in Seq(AnswersTold)
        BY <1>6, <2>1, <2>2 DEF HandlerInv, OneAnswer, HandlerTypes
      <4> QED BY <4>1 DEF Told, Succeeds, Success, Answer, Range
    <3>2. done
      BY <2>4, <3>1
    <3>3. /\ j.kind \in {"create", "modify"} /\ j.copy.revision >= call.stores
          /\ j.kind = "create" => Key(j.copy) \notin Keys
      BY <2>1 DEF Stores
    <3>4. j.copy \in copies'
      BY <1>9, <2>1, <3>2, <3>3
    <3> QED BY <3>3, <3>4
  <2> QED BY <2>6, <2>7, <2>8, <2>9 DEF CalendarInv
<1>14. MailsTyped' /\ (~handler'.hasty => \A m \in mails' : m.owner # "helper")
  BY <1>5, <1>8, MailsRest
<1>15. FetchTypeOK'
  BY <1>5 DEF ITIPInv, FetchTypeOK, fetching
<1>16. ITIPInv'
  BY <1>3, <1>5, <1>8, <1>9, <1>10, <1>11, <1>13, <1>14, <1>15 DEF ITIPInv
<1>17. Calm' /\ Plain => Grows
  BY <1>9, <1>12 DEF ITIPInv, CalendarInv
<1> QED BY <1>16, <1>17

-----------------------------------------------------------------------------
(* The invariant.                                                          *)

LEMMA InitInv == Init => ITIPInv
<1> SUFFICES ASSUME Init PROVE ITIPInv
  OBVIOUS
<1>1. handler = [m_currentOperation |-> "none", m_method |-> "No", m_incidence |-> FALSE,
                 m_queuedInvitation |-> NoMessage, m_calendarLoadError |-> FALSE, sending |-> FALSE,
                 posted |-> << >>, by |-> 0, answers |-> << >>, misled |-> FALSE, hasty |-> FALSE,
                 crashed |-> FALSE]
  BY DEF Init
<1>2. call.number = 0 /\ call.stores = 0 /\ call \in CallTypes
  BY DEF Init, CallTypes
<1>3. setting \in SettingTypes
  BY DEF Init, SettingTypes
<1>4. /\ << >> \in Seq(PostedCalls) /\ << >> \in Seq(AnswersTold)
      /\ "none" \in Operations /\ "No" \in Methods
  BY DEF Operations, Methods
<1>5. handler \in HandlerTypes
  BY <1>1, <1>4 DEF HandlerTypes
<1>6. /\ handler.posted = << >> /\ handler.answers = << >> /\ handler.by = 0 /\ ~handler.hasty /\ ~handler.misled
      /\ handler.m_currentOperation = "none" /\ handler.m_queuedInvitation = NoMessage
  BY <1>1
<1>7. Told(handler) = {} /\ Pending(handler, call.number) = {}
  BY <1>6 DEF Told, Pending
<1>8. HandlerInv(handler, call.number)
  BY <1>2, <1>5, <1>6, <1>7 DEF HandlerInv, OneAnswer, AtMostOne
<1>9. jobs = {} /\ arriving = {} /\ connected \in BOOLEAN /\ mails = {}
  BY DEF Init
<1>10. \E x \in CopyTypes : copies \in {{}, {x}}
  <2>1. First(FALSE, TRUE) \in CopyTypes /\ First(FALSE, FALSE) \in CopyTypes /\ First(TRUE, TRUE) \in CopyTypes
    BY FirstTypes
  <2> QED BY <2>1 DEF Init
<1>11. PICK x \in CopyTypes : copies \in {{}, {x}}
  BY <1>10
<1>12. IsFiniteSet(copies) /\ IsFiniteSet({})
  <2>1. IsFiniteSet({})
    BY FS_EmptySet
  <2>2. IsFiniteSet({x})
    BY FS_Singleton
  <2> QED BY <1>11, <2>1, <2>2
<1>13. CalendarTypes /\ Keyed
  BY <1>9, <1>11, <1>12 DEF CalendarTypes, Keyed
<1>14. MailsTyped
  BY <1>9 DEF MailsTyped
<1>15. FetchTypeOK
  <2>1. isLoading = FALSE /\ fetch = "none" /\ jobCount = 0
    BY DEF Init, FetchInit
  <2>2. jobCount \in 0 .. MaxCollections
    BY <2>1, MaxCollectionsAssumption
  <2> QED BY <2>1, <2>2 DEF FetchTypeOK
<1>16. OneStarted
  BY <1>6, <1>9 DEF OneStarted, AtMostOne, Mine
<1>17. CalendarInv
  <2>1. Put = {}
    BY <1>9 DEF Put
  <2> QED BY <1>2, <1>9, <1>11, <2>1 DEF CalendarInv, OneSeries, NotOlder, Stores
<1> QED BY <1>2, <1>3, <1>8, <1>9, <1>13, <1>14, <1>15, <1>16, <1>17 DEF ITIPInv

LEMMA NextStep ==
  ASSUME ITIPInv, Next
  PROVE  ITIPInv' /\ (Calm' /\ Plain => Grows)
<1>1. CASE Calls
  <2>1. ASSUME NEW msg \in Messages, ProcessiTIPMessage(msg) PROVE ITIPInv' /\ Grows
    BY <2>1, ProcessiTIPMessageStep
  <2> QED BY <1>1, <2>1, MailCallsStep DEF Calls
<1>2. CASE PostedCall
  BY <1>2, PostedCallStep
<1>3. CASE Loads
  BY <1>3, FetchGoesOnStep, LoadEndsStep DEF Loads
<1>4. ASSUME NEW j \in jobs, JobDone(j) PROVE ITIPInv' /\ (Calm' /\ Plain => Grows)
  BY <1>4, JobDoneStep
<1>5. ASSUME NEW copy \in arriving, Arrive(copy) PROVE ITIPInv' /\ Grows
  BY <1>5, ArriveStep
<1>6. CASE UserChange
  BY <1>6, UserChangeStep
<1>7. ASSUME NEW m \in mails, Composing(m) \/ Queueing(m) PROVE ITIPInv' /\ Grows
  BY <1>7, ComposingStep, QueueingStep
<1> QED BY <1>1, <1>2, <1>3, <1>4, <1>5, <1>6, <1>7 DEF Next

LEMMA StutterStep ==
  ASSUME ITIPInv, UNCHANGED vars
  PROVE  ITIPInv'
<1>1. UNCHANGED calendar /\ UNCHANGED fetching /\ mails' = mails /\ setting' = setting /\ handler' = handler /\ call' = call
  BY DEF vars
<1>2. HandlerInv(handler', call.number) /\ Kept(handler, handler') /\ handler.hasty = handler'.hasty
  BY <1>1, HandlerRests
<1>3. /\ MailsTyped'
      /\ ~handler'.hasty => \A m \in mails' : m.owner # "helper"
      /\ Calm => AtMostOne(Mine') /\ \A m \in Mine' : \E x \in Mine : x.call = m.call
  BY <1>1, <1>2, MailsRest
<1>4. FetchTypeOK'
  BY <1>1 DEF ITIPInv, FetchTypeOK, fetching
<1> QED BY <1>1, <1>2, <1>3, <1>4, KeptStep

\* As long as no call was over too early, a handler with a calendar of its own has one
\* operation under way, with one change, mail or posted answer of its call, and what
\* that change puts into the calendar belongs there (m_currentOperation, posted calls,
\* onSchedulerFinished()).
THEOREM Invariance == Spec => []ITIPInv
<1>1. ITIPInv /\ [Next]_vars => ITIPInv'
  BY NextStep, StutterStep
<1> QED BY <1>1, InitInv, PTL DEF Spec

-----------------------------------------------------------------------------
(* The properties.                                                         *)

LEMMA OneElement ==
  ASSUME NEW S, AtMostOne(S)
  PROVE  IsFiniteSet(S) /\ Cardinality(S) <= 1
<1>1. CASE S = {}
  BY <1>1, FS_EmptySet
<1>2. ASSUME NEW x \in S PROVE IsFiniteSet(S) /\ Cardinality(S) <= 1
  <2>1. S = {x}
    BY DEF AtMostOne
  <2>2. IsFiniteSet({x}) /\ Cardinality({x}) = 1
    BY FS_Singleton
  <2> QED BY <2>1, <2>2
<1> QED BY <1>1, <1>2

\* As long as no call was over too early, a call is answered by one
\* iTipMessageProcessed(), and with a calendar of its own the handler ends an operation
\* by what that operation started.
THEOREM OneAnswerPerCall == Spec => []AnsweredOnce
<1>1. ITIPInv => AnsweredOnce
  <2> SUFFICES ASSUME ITIPInv PROVE AnsweredOnce
    OBVIOUS
  <2>1. OwnAnswer
    BY DEF OwnAnswer, ITIPInv, Calm, Own, OneStarted
  <2>2. ASSUME ~handler.hasty PROVE Cardinality(Processed) <= 1
    <3>1. AtMostOne(Processed)
      BY <2>2 DEF ITIPInv, HandlerInv, OneAnswer, Told, Processed
    <3> QED BY <3>1, OneElement
  <2> QED BY <2>1, <2>2 DEF AnsweredOnce
<1> QED BY <1>1, Invariance, PTL

LEMMA InvTypes == ITIPInv => TypeOK
<1> SUFFICES ASSUME ITIPInv PROVE TypeOK
  OBVIOUS
<1>1. /\ handler.m_currentOperation \in Operations /\ handler.m_method \in Methods
      /\ handler.m_queuedInvitation \in Messages \cup {NoMessage}
  BY DEF ITIPInv, HandlerInv, HandlerTypes
<1>2. \A c \in copies \cup arriving : c.uid \in Nat /\ c.revision \in Nat /\ c.type \in Types \ {"freebusy"}
  BY DEF ITIPInv, CalendarTypes, CopyTypes
<1>3. \A j \in jobs : j.kind \in {"create", "modify", "delete", "other"} /\ j.call \in 0 .. call.number
  BY DEF ITIPInv, CalendarTypes, JobTypes, Kinds, CallTypes
<1>4. \A m \in mails : m.composers \in Nat /\ m.queued \in Nat
  BY DEF ITIPInv, MailsTyped, MailShaped
<1> QED BY <1>1, <1>2, <1>3, <1>4 DEF ITIPInv, TypeOK, Keyed

LEMMA InvNoDuplicates == ITIPInv => NoDuplicates
<1> SUFFICES ASSUME ITIPInv, ~setting.given, ~handler.hasty
             PROVE  Cardinality({c \in copies : c.uid > 0 /\ ~c.exception /\ c.mine /\ ~c.readOnly}) <= 1
  BY InvTypes DEF NoDuplicates
<1> DEFINE S == {c \in copies : c.uid > 0 /\ ~c.exception /\ c.mine /\ ~c.readOnly}
<1>1. OneSeries(copies) /\ Keyed /\ copies \subseteq CopyTypes
  BY DEF ITIPInv, Calm, Own, CalendarInv, OneSeries, CalendarTypes
<1>2. AtMostOne(S)
  <2> SUFFICES ASSUME NEW c \in S, NEW d \in S PROVE c = d
    BY DEF AtMostOne
  <2>1. c.uid = d.uid
    BY <1>1 DEF OneSeries, Clicked
  <2>2. c.exception = d.exception
    BY <1>1 DEF CopyTypes
  <2> QED BY <1>1, <2>1, <2>2 DEF Keyed, Key
<1> QED BY <1>2, OneElement

\* A request that was answered with success is in the calendar, and clicking on an
\* invitation more than once leaves one copy: acceptRequest(), createFinished() and
\* modifyFinished() on a calendar of the handler's own.
THEOREM SuccessIsInTheCalendar == Spec => []SuccessIsStored
<1>1. ITIPInv => SuccessIsStored
  BY InvNoDuplicates DEF SuccessIsStored, ITIPInv, Calm, Own, CalendarInv, Stores
<1> QED BY <1>1, Invariance, PTL

\* An older message never replaces a newer copy in a calendar of the handler's own that
\* holds no exceptions (the comparison of the revisions in acceptRequest()).
THEOREM RevisionsOnlyGrow == Spec => RevisionsGrow
<1> DEFINE Grown == ~setting.given /\ ~handler'.hasty /\ (\A c \in copies : ~c.exception) =>
                      \A c \in copies, d \in copies' : Key(c) = Key(d) => d.revision >= c.revision
<1>1. ITIPInv /\ [Next]_vars => [Grown]_vars
  <2> SUFFICES ASSUME ITIPInv, Next, ~setting.given, ~handler'.hasty, \A c \in copies : ~c.exception
               PROVE  \A c \in copies, d \in copies' : Key(c) = Key(d) => d.revision >= c.revision
    OBVIOUS
  <2>1. Calm' /\ Plain
    <3>1. setting' = setting
      BY DEF Next, Calls, ProcessiTIPMessage, SendiTIPMessage, PublishInformation, SendAsICalendar, PostedCall,
             Loads, FetchGoesOn, LoadEnds, JobDone, Arrive, UserChange, Composing, Queueing
    <3> QED BY <3>1 DEF Calm, Own, Plain
  <2>2. Grows
    BY <2>1, NextStep
  <2> QED BY <2>2 DEF Grows
<1>2. Spec => [][Grown]_vars
  BY <1>1, Invariance, PTL DEF Spec
<1> QED BY <1>2 DEF RevisionsGrow
=============================================================================
