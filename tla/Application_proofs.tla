------------------------- MODULE Application_proofs -------------------------
(***************************************************************************)
(* Proofs about Application, for every set of items, calendars and         *)
(* collections and every bound on calls and failures.                      *)
(*                                                                         *)
(* One part of the application is looked at in each behaviour, and the     *)
(* steps of the others leave its state alone: the lemmas *Elsewhere and    *)
(* *NotTodos say what each group of actions may change.  Each part then    *)
(* has an inductive invariant of its own: PublishInv for the publishing of *)
(* the user's list, CollectionsInv for the collections of the calendar,    *)
(* HelperInv for the virtual collections of invitations, and CallsInv for  *)
(* what is asked of the to-do list and of the importer; LostInv adds to it *)
(* what a cut has copied before the server deletes it.                     *)
(***************************************************************************)
EXTENDS Application, SequenceTheorems, FiniteSetTheorems, WellFoundedInduction, TLAPS

-----------------------------------------------------------------------------
(* The history.                                                            *)

PastFields == {"calls", "failures", "lost", "hurried", "late", "refused", "stuck", "toggled",
               "crossed", "misread", "removed", "owed", "misjudged"}

Shape == DOMAIN past = PastFields /\ past.failures \in Nat

LEMMA TodoStepFacts ==
  ASSUME Shape, NEW t, NEW calls, NEW failures \in {0, 1}, NEW lost, NEW settled, NEW late, NEW stuck,
         Step(t, calls, failures, lost, settled, late, stuck)
  PROVE  /\ Shape' /\ past'.failures >= past.failures
         /\ UNCHANGED <<part, importer, helper, etm, publisher>>
         /\ past'.owed = past.owed /\ past'.misjudged = past.misjudged
         /\ past'.misread = past.misread /\ past'.removed = past.removed
         /\ past'.toggled = past.toggled /\ past'.crossed = past.crossed
<1> DEFINE asked == DeletionsAsked(t) \ DeletionsAsked(todos) # {}
           news  == {t.posted[n] : n \in Len(todos.posted) + 1 .. Len(t.posted)}
           bad   == {a \in news : a.kind = "modify" /\ ~a.ok}
<1> DEFINE c1 == past.calls + calls
           c2 == past.lost \cup lost
           c3 == IF asked THEN past.hurried \cup Unsettled(todos) ELSE past.hurried
           c4 == IF asked THEN past.late \cup Unsettled(todos) \cup BeingDeleted(todos) \cup late
                 ELSE past.late \cup late
           c5 == (past.refused \cup UNION {a.items : a \in bad}) \ settled
           c6 == past.stuck \/ stuck
<1>1. past' = [past EXCEPT !.calls = c1, !.failures = past.failures + failures, !.lost = c2,
                           !.hurried = c3, !.late = c4, !.refused = c5, !.stuck = c6]
  BY DEF Step
<1> HIDE DEF asked, news, bad, c1, c2, c3, c4, c5, c6
<1>2. past.failures + failures \in Nat /\ past.failures + failures >= past.failures
  BY DEF Shape
<1>3. UNCHANGED <<part, importer, helper, etm, publisher>>
  BY DEF Step
<1>4. /\ DOMAIN past' = DOMAIN past /\ past'.failures = past.failures + failures
      /\ past'.owed = past.owed /\ past'.misjudged = past.misjudged
      /\ past'.misread = past.misread /\ past'.removed = past.removed
      /\ past'.toggled = past.toggled /\ past'.crossed = past.crossed
  BY <1>1 DEF Shape, PastFields
<1> QED BY <1>2, <1>3, <1>4 DEF Shape

\* What the steps of the other parts leave alone.
Elsewhere ==
  /\ Shape' /\ past'.failures >= past.failures
  /\ UNCHANGED <<part, publisher>>
  /\ past'.owed = past.owed /\ past'.misjudged = past.misjudged

LEMMA TodoElsewhere ==
  ASSUME Shape, TodoNext
  PROVE  /\ Elsewhere /\ UNCHANGED <<helper, etm>> /\ past'.misread = past.misread
         /\ past'.removed = past.removed /\ past'.toggled = past.toggled /\ past'.crossed = past.crossed
<1> DEFINE Goal == /\ Elsewhere /\ UNCHANGED <<helper, etm>> /\ past'.misread = past.misread
                   /\ past'.removed = past.removed /\ past'.toggled = past.toggled
                   /\ past'.crossed = past.crossed
<1>1. ASSUME NEW t, NEW calls, NEW failures \in {0, 1}, NEW lost, NEW settled, NEW late, NEW stuck,
             Step(t, calls, failures, lost, settled, late, stuck)
      PROVE  Goal
  BY <1>1, TodoStepFacts DEF Elsewhere
<1>2. ASSUME NEW t, NEW late, UserStep(t, late)
      PROVE  Goal
  BY <1>1, <1>2 DEF UserStep
<1> HIDE DEF Goal
<1>3. ASSUME UserOfTodos
      PROVE  Goal
  BY <1>2, <1>3 DEF UserOfTodos, Edit, Check, Drop, CutTodo, Purge
<1>4. ASSUME QuestionAnswered
      PROVE  Goal
  BY <1>1, <1>4 DEF QuestionAnswered, AnswerQuestion
<1>5. ASSUME PurgeCalendarLoaded
      PROVE  Goal
  <2>1. PICK success \in BOOLEAN : CalendarLoaded(success)
    BY <1>5 DEF PurgeCalendarLoaded
  <2>2. (IF success THEN 0 ELSE 1) \in {0, 1}
    OBVIOUS
  <2> QED BY <1>1, <2>1, <2>2 DEF CalendarLoaded
<1>6. ASSUME Server
      PROVE  Goal
  <2>1. PICK ok \in BOOLEAN : Serve(ok)
    BY <1>6 DEF Server
  <2> DEFINE n == IF ok \/ ~CanSucceed(todos) THEN 0 ELSE 1
  <2>2. n \in {0, 1}
    OBVIOUS
  <2>3. \E lost, settled : Step(JobEnds(todos, ok), 0, n, lost, settled, {}, FALSE)
    BY <2>1 DEF Serve
  <2> HIDE DEF n
  <2> QED BY <1>1, <2>2, <2>3
<1>7. ASSUME Deliver
      PROVE  Goal
  BY <1>1, <1>7 DEF Deliver
<1>8. ASSUME Notify
      PROVE  Goal
  BY <1>1, <1>8 DEF Notify
<1> QED BY <1>3, <1>4, <1>5, <1>6, <1>7, <1>8 DEF TodoNext, Goal

LEMMA ImportElsewhere ==
  ASSUME Shape, ImportNext
  PROVE  /\ Elsewhere /\ UNCHANGED <<helper, etm>> /\ past'.misread = past.misread
         /\ past'.removed = past.removed /\ past'.toggled = past.toggled /\ past'.crossed = past.crossed
<1> DEFINE Goal == /\ Elsewhere /\ UNCHANGED <<helper, etm>> /\ past'.misread = past.misread
                   /\ past'.removed = past.removed /\ past'.toggled = past.toggled
                   /\ past'.crossed = past.crossed
<1>1. ASSUME NEW s, NEW calls, NEW failures \in {0, 1}, ImportStep(s, calls, failures)
      PROVE  Goal
  BY <1>1 DEF Shape, ImportStep, PastFields, Elsewhere
<1> HIDE DEF Goal
<1>2. ASSUME NEW s, ImportCall(s)
      PROVE  Goal
  BY <1>1, <1>2 DEF ImportCall
<1>3. ASSUME NEW failed \in BOOLEAN, DownloadOver(failed)
      PROVE  Goal
  BY <1>1, <1>3 DEF DownloadOver
<1>4. ASSUME NEW id, NEW ok \in BOOLEAN, IncidenceCreated(id, ok)
      PROVE  Goal
  BY <1>1, <1>4 DEF IncidenceCreated
<1>5. ASSUME NEW n, NEW given, NEW usable, ImportFile(n, given, usable)
      PROVE  Goal
  BY <1>2, <1>5 DEF ImportFile
<1>6. ASSUME ImportFileAsResource PROVE Goal
  BY <1>2, <1>6 DEF ImportFileAsResource
<1>7. ASSUME ImportUrl PROVE Goal
  BY <1>2, <1>7 DEF ImportUrl
<1>8. ASSUME ImportEnds PROVE Goal
  BY <1>1, <1>8 DEF ImportEnds, ImportDialogClosed
<1>9. ASSUME AgentCreated PROVE Goal
  BY <1>1, <1>9 DEF AgentCreated
<1>10. ASSUME DataArrives PROVE Goal
  BY <1>1, <1>10 DEF DataArrives
<1>11. ASSUME CreationOver PROVE Goal
  BY <1>4, <1>11 DEF CreationOver
<1>12. ASSUME CreationTold PROVE Goal
  BY <1>1, <1>12 DEF CreationTold
<1>13. Goal
  BY <1>3, <1>5, <1>6, <1>7, <1>8, <1>9, <1>10, <1>11, <1>12 DEF ImportNext
<1> QED BY <1>13 DEF Goal

\* A step of the virtual collections or of the calendar's collections.
LEMMA SearchElsewhere ==
  ASSUME Shape, SearchNext
  PROVE  Elsewhere /\ UNCHANGED etm /\ past'.misread = past.misread /\ past'.removed = past.removed
<1> DEFINE Goal == Elsewhere /\ UNCHANGED etm /\ past'.misread = past.misread /\ past'.removed = past.removed
<1>1. ASSUME Enable PROVE Goal
  <2> DEFINE crossed == past.crossed \/ (past.toggled /\ helper.session # <<>>)
  <2>1. past' = [past EXCEPT !.calls = @ + 1, !.toggled = TRUE, !.crossed = crossed]
    BY <1>1 DEF Enable, HelperStep
  <2> HIDE DEF crossed
  <2>2. UNCHANGED <<part, publisher, etm>>
    BY <1>1 DEF Enable, HelperStep
  <2> QED BY <2>1, <2>2 DEF Shape, PastFields, Elsewhere
<1>2. ASSUME ChangeIdentities PROVE Goal
  BY <1>2 DEF ChangeIdentities, HelperStep, Shape, PastFields, Elsewhere
<1>3. ASSUME NEW ok \in BOOLEAN, SearchJob(ok)
      PROVE  Goal
  <2> DEFINE n == IF ok \/ ~CanBeDone(helper, Head(helper.session)) THEN past.failures ELSE past.failures + 1
  <2>1. n \in Nat /\ n >= past.failures
    BY DEF Shape
  <2>2. past' = [past EXCEPT !.failures = n] /\ UNCHANGED <<part, publisher, etm>>
    BY <1>3 DEF SearchJob, HelperStep
  <2> HIDE DEF n
  <2> QED BY <2>1, <2>2 DEF Shape, PastFields, Elsewhere
<1> QED BY <1>1, <1>2, <1>3 DEF SearchNext

LEMMA CollectionsElsewhere ==
  ASSUME Shape, CollectionsNext
  PROVE  Elsewhere /\ UNCHANGED helper /\ past'.toggled = past.toggled /\ past'.crossed = past.crossed
<1> DEFINE Goal == /\ Elsewhere /\ UNCHANGED helper /\ past'.toggled = past.toggled
                   /\ past'.crossed = past.crossed
<1>1. ASSUME NEW s, NEW event, NEW misread, ModelStep(s, event, misread)
      PROVE  Goal
  <2> DEFINE removed == past.removed \/ Listed(etm) \ Listed(s) # {}
             calls == IF event THEN past.calls + 1 ELSE past.calls
  <2>1. past' = [past EXCEPT !.misread = misread, !.removed = removed, !.calls = calls]
    BY <1>1 DEF ModelStep
  <2> HIDE DEF removed, calls
  <2>2. UNCHANGED <<part, publisher, helper>>
    BY <1>1 DEF ModelStep
  <2> QED BY <2>1, <2>2 DEF Shape, PastFields, Elsewhere
<1> HIDE DEF Goal
<1>2. \E s, event, misread : ModelStep(s, event, misread)
  BY DEF CollectionsNext, CollectionsInserted, CollectionsRemoved, ChangeRights, ItemsArrive,
     CollectionPopulated, TreeFetched
<1>3. Goal
  BY <1>1, <1>2
<1> QED BY <1>3 DEF Goal

-----------------------------------------------------------------------------
(* Publishing the free/busy list.                                          *)

PublisherType ==
  [calendar : Calendars \cup {NoCalendar}, heard : SUBSET Calendars, url : UrlKinds, auto : BOOLEAN,
   broken : BOOLEAN, uploading : BOOLEAN, timer : BOOLEAN, posted : Int,
   boxes : Seq({"empty", "invalid"}), jobs : Int, sent : SUBSET UrlKinds, asking : Int, mails : Int]

\* What an upload and its timer tell: no upload is forgotten, and none begins twice.
Uploads(s, failures) ==
  /\ s \in PublisherType /\ s.sent \subseteq {"valid"}
  /\ s.timer => s.uploading
  /\ s.jobs <= 1 /\ (~s.uploading => s.jobs <= 0)
  /\ s.uploading => s.sent # {} \/ failures > 0

\* The inductive invariant: a valid URL is taken for broken only by mistake.
PublishInv ==
  /\ Shape /\ Uploads(publisher, past.failures)
  /\ past.owed \in BOOLEAN /\ past.misjudged \in BOOLEAN
  /\ publisher.broken /\ publisher.url = "valid" => past.misjudged
  /\ past.owed /\ past.failures = 0 => OneUploadOnly
  /\ part # "publish" => ~publisher.uploading

LEMMA PublisherUploads ==
  ASSUME NEW s, NEW n \in Nat, NEW m \in Nat, Uploads(s, n), NEW fileOpen \in BOOLEAN, fileOpen \/ m > 0, m >= n
  PROVE  LET t == PublishFreeBusy(s, fileOpen)
         IN  /\ Uploads(t, m) /\ t.url = s.url /\ t.broken = s.broken /\ (s.uploading => t = s)
             /\ s.calendar # NoCalendar /\ s.url = "valid" /\ ~s.broken /\ ~s.uploading => t.jobs > s.jobs \/ m > 0
<1> DEFINE t == PublishFreeBusy(s, fileOpen)
<1>1. s \in PublisherType /\ UrlKinds = {"empty", "invalid", "valid"}
  BY DEF Uploads, UrlKinds
<1>2. CASE s.uploading \/ s.calendar = NoCalendar
  BY <1>1, <1>2 DEF PublishFreeBusy, Uploads
<1>3. CASE ~s.uploading /\ s.calendar # NoCalendar /\ s.url = "empty"
  <2>1. t = [s EXCEPT !.boxes = Append(@, "empty")]
    BY <1>3 DEF PublishFreeBusy
  <2>2. Append(s.boxes, "empty") \in Seq({"empty", "invalid"})
    BY <1>1 DEF PublisherType
  <2> QED BY <1>1, <1>3, <2>1, <2>2 DEF Uploads, PublisherType
<1>4. CASE ~s.uploading /\ s.calendar # NoCalendar /\ s.url # "empty" /\ s.broken
  BY <1>1, <1>4 DEF PublishFreeBusy, Uploads
<1>5. CASE ~s.uploading /\ s.calendar # NoCalendar /\ ~s.broken /\ s.url = "invalid"
  <2>1. t = [s EXCEPT !.boxes = Append(@, "invalid")]
    BY <1>5 DEF PublishFreeBusy
  <2>2. Append(s.boxes, "invalid") \in Seq({"empty", "invalid"})
    BY <1>1 DEF PublisherType
  <2> QED BY <1>1, <1>5, <2>1, <2>2 DEF Uploads, PublisherType
<1>6. CASE ~s.uploading /\ s.calendar # NoCalendar /\ ~s.broken /\ s.url = "valid"
  <2>1. t = Uploaded(s, fileOpen)
    BY <1>6 DEF PublishFreeBusy
  <2> DEFINE r == [s EXCEPT !.uploading = TRUE, !.timer = FALSE]
  <2>2. /\ r \in PublisherType /\ r.uploading /\ ~r.timer /\ r.jobs = s.jobs /\ r.sent = s.sent
        /\ r.url = s.url /\ r.broken = s.broken
    BY <1>1 DEF PublisherType
  <2>3. s.jobs <= 0 /\ s.sent \subseteq {"valid"} /\ s.jobs \in Int
    BY <1>1, <1>6 DEF Uploads, PublisherType
  <2>4. CASE fileOpen
    <3>1. t = [r EXCEPT !.jobs = s.jobs + 1, !.sent = s.sent \cup {"valid"}]
      BY <1>6, <2>1, <2>2, <2>4 DEF Uploaded
    <3> HIDE DEF r, t
    <3>2. s.jobs + 1 \in Int /\ s.jobs + 1 <= 1 /\ s.sent \cup {"valid"} \in SUBSET UrlKinds
      BY <1>1, <2>3
    <3>3. /\ t \in PublisherType /\ t.jobs = s.jobs + 1 /\ t.sent = s.sent \cup {"valid"}
          /\ t.uploading /\ ~t.timer /\ t.url = r.url /\ t.broken = r.broken
      BY <2>2, <3>1, <3>2 DEF PublisherType
    <3>4. Uploads(t, m)
      BY <2>3, <3>2, <3>3 DEF Uploads
    <3>5. t.url = s.url /\ t.broken = s.broken /\ t.jobs > s.jobs
      BY <2>2, <2>3, <3>3
    <3> QED BY <1>6, <3>4, <3>5 DEF t
  <2>5. CASE ~fileOpen
    BY <1>6, <2>1, <2>2, <2>3, <2>5 DEF Uploaded, Uploads, t
  <2> QED BY <2>4, <2>5
<1>7. s.url \in UrlKinds
  BY <1>1 DEF PublisherType
<1> QED BY <1>1, <1>2, <1>3, <1>4, <1>5, <1>6, <1>7

LEMMA AutomaticUploads ==
  ASSUME NEW s, NEW n \in Nat, NEW m \in Nat, Uploads(s, n), NEW fileOpen \in BOOLEAN, fileOpen \/ m > 0, m >= n
  PROVE  LET t == UploadFreeBusy(s, fileOpen)
         IN  /\ Uploads(t, m) /\ t.url = s.url /\ t.broken = s.broken
             /\ s.uploading /\ s.timer => t.uploading /\ t.timer
             /\ Due(s) /\ ~s.broken => t.jobs > s.jobs \/ (t.uploading /\ t.timer) \/ m > 0
<1> DEFINE t == UploadFreeBusy(s, fileOpen)
<1>1. s \in PublisherType
  BY DEF Uploads
<1>2. CASE ~s.auto \/ s.url = "empty" \/ s.timer
  BY <1>2 DEF UploadFreeBusy, Uploads, Due
<1>3. CASE ~(~s.auto \/ s.url = "empty" \/ s.timer) /\ s.uploading
  <2>1. t = [s EXCEPT !.timer = TRUE]
    BY <1>3 DEF UploadFreeBusy
  <2>2. /\ t \in PublisherType /\ t.timer /\ t.uploading = s.uploading /\ t.sent = s.sent
        /\ t.jobs = s.jobs /\ t.url = s.url /\ t.broken = s.broken
    BY <1>1, <2>1 DEF PublisherType
  <2> HIDE DEF t
  <2>3. Uploads(t, m)
    BY <1>3, <2>2 DEF Uploads
  <2> QED BY <1>3, <2>2, <2>3 DEF Uploads, Due, t
<1>4. CASE ~(~s.auto \/ s.url = "empty" \/ s.timer) /\ ~s.uploading
  BY <1>4, PublisherUploads DEF UploadFreeBusy, Due, t
<1> QED BY <1>2, <1>3, <1>4

\* A step of the publisher: what it owes and what it takes for broken.
LEMMA PublishStepKeeps ==
  ASSUME PublishInv, NEW s, NEW calls \in {0, 1}, NEW failures \in {0, 1}, NEW owed \in BOOLEAN,
         NEW misjudged \in BOOLEAN, PublishStep(s, calls, failures, owed, misjudged),
         Uploads(s, past.failures + failures), OneUploadOnly => s.uploading /\ s.timer,
         s.broken /\ s.url = "valid" => misjudged,
         owed /\ failures = 0 => s.jobs > publisher.jobs \/ (s.uploading /\ s.timer) \/ past.failures > 0
  PROVE  PublishInv'
<1> DEFINE n == past.failures + failures
           o == (past.owed \/ owed) /\ ~(s.jobs > publisher.jobs)
<1>1. /\ DOMAIN past = PastFields /\ past.failures \in Nat /\ past.owed \in BOOLEAN
      /\ past.owed /\ past.failures = 0 => OneUploadOnly
  BY DEF PublishInv, Shape
<1>2. n \in Nat /\ (n = 0 => past.failures = 0 /\ failures = 0)
  BY <1>1
<1>3. past' = [past EXCEPT !.calls = @ + calls, !.failures = n, !.owed = o, !.misjudged = misjudged]
  BY DEF PublishStep
<1>4. publisher' = s /\ part' = "publish"
  BY DEF PublishStep
<1>5. o \in BOOLEAN /\ (o => (past.owed \/ owed) /\ ~(s.jobs > publisher.jobs))
  BY <1>1
<1>6. Uploads(s, n)
  OBVIOUS
<1> HIDE DEF n, o
<1>7. DOMAIN past' = PastFields /\ past'.failures = n /\ past'.owed = o /\ past'.misjudged = misjudged
  BY <1>1, <1>3 DEF PastFields
<1>8. Shape' /\ Uploads(publisher', past'.failures)
  BY <1>2, <1>4, <1>6, <1>7 DEF Shape
<1>9. past'.owed /\ past'.failures = 0 => OneUploadOnly'
  BY <1>1, <1>2, <1>4, <1>5, <1>7 DEF OneUploadOnly
<1> QED BY <1>4, <1>5, <1>7, <1>8, <1>9 DEF PublishInv, Uploads

LEMMA UploadingKeeps ==
  ASSUME PublishInv, NEW s, NEW fileOpen \in BOOLEAN, NEW calls \in {0, 1}, NEW owed \in BOOLEAN,
         Uploading(s, fileOpen, calls, owed),
         \A m \in Nat : (fileOpen \/ m > 0) /\ m >= past.failures => Uploads(s, m),
         OneUploadOnly => s.uploading /\ s.timer, s.url = publisher.url, s.broken = publisher.broken,
         owed => publisher.url = "valid",
         \A m \in Nat : (fileOpen \/ m > 0) /\ m >= past.failures /\ owed /\ ~publisher.broken =>
           s.jobs > publisher.jobs \/ (s.uploading /\ s.timer) \/ m > 0
  PROVE  PublishInv'
<1> DEFINE n == IF fileOpen THEN 0 ELSE 1
           o == owed /\ ~past.misjudged
<1>1. /\ past.failures \in Nat /\ past.misjudged \in BOOLEAN
      /\ publisher.broken /\ publisher.url = "valid" => past.misjudged
  BY DEF PublishInv, Shape
<1>2. /\ n \in {0, 1} /\ past.failures + n \in Nat /\ past.failures + n >= past.failures
      /\ fileOpen \/ past.failures + n > 0
  BY <1>1
<1>3. PublishStep(s, calls, n, o, past.misjudged)
  BY DEF Uploading
<1>4. o \in BOOLEAN /\ (o => owed /\ ~past.misjudged)
  BY <1>1
<1> HIDE DEF n, o
<1>5. Uploads(s, past.failures + n)
  BY <1>2
<1>6. o /\ n = 0 => s.jobs > publisher.jobs \/ (s.uploading /\ s.timer) \/ past.failures > 0
  <2> SUFFICES ASSUME o, n = 0
               PROVE  s.jobs > publisher.jobs \/ (s.uploading /\ s.timer) \/ past.failures > 0
    OBVIOUS
  <2>1. owed /\ ~past.misjudged
    BY <1>4
  <2>2. past.failures + n = past.failures
    BY <1>1
  <2>3. ~publisher.broken => s.jobs > publisher.jobs \/ (s.uploading /\ s.timer) \/ past.failures > 0
    BY <1>1, <1>2, <2>1, <2>2
  <2>4. publisher.url = "valid" => ~publisher.broken
    BY <1>1, <2>1
  <2> QED BY <2>1, <2>3, <2>4
<1> QED BY <1>1, <1>2, <1>3, <1>4, <1>5, <1>6, PublishStepKeeps

LEMMA PublishTyped ==
  ASSUME PublishInv
  PROVE  /\ past.failures \in Nat /\ past.misjudged \in BOOLEAN /\ publisher \in PublisherType
         /\ Uploads(publisher, past.failures) /\ past.failures + 0 = past.failures
         /\ Due(publisher) \in BOOLEAN /\ FALSE \in BOOLEAN /\ 0 \in {0, 1} /\ 1 \in {0, 1}
         /\ publisher.broken /\ publisher.url = "valid" => past.misjudged
BY DEF PublishInv, Shape, Uploads, Due

\* An action that publishes nothing.
LEMMA QuietKeeps ==
  ASSUME PublishInv, NEW s, NEW calls \in {0, 1}, NEW misjudged \in BOOLEAN,
         PublishStep(s, calls, 0, FALSE, misjudged), s \in PublisherType,
         s.sent = publisher.sent, s.timer = publisher.timer, s.uploading = publisher.uploading,
         s.jobs <= publisher.jobs, s.broken /\ s.url = "valid" => misjudged
  PROVE  PublishInv'
<1>1. Uploads(publisher, past.failures) /\ past.failures + 0 = past.failures /\ publisher.jobs \in Int
  BY PublishTyped DEF PublisherType
<1>2. s.jobs \in Int
  BY DEF PublisherType
<1>3. s.jobs <= 1 /\ (~s.uploading => s.jobs <= 0)
  BY <1>1, <1>2 DEF Uploads
<1>4. Uploads(s, past.failures)
  BY <1>1, <1>3 DEF Uploads
<1>5. Uploads(s, past.failures + 0)
  BY <1>1, <1>4
<1> QED BY <1>5, PublishStepKeeps DEF OneUploadOnly

LEMMA PublishNextKeeps ==
  ASSUME PublishInv, PublishNext
  PROVE  PublishInv'
<1>1. /\ past.failures \in Nat /\ past.misjudged \in BOOLEAN /\ publisher \in PublisherType
      /\ Uploads(publisher, past.failures)
      /\ Due(publisher) \in BOOLEAN /\ 0 \in {0, 1} /\ 1 \in {0, 1}
      /\ publisher.broken /\ publisher.url = "valid" => past.misjudged
  BY PublishTyped
<1>2. ASSUME NEW c \in Calendars \cup {NoCalendar}, CalendarSet(c)
      PROVE  PublishInv'
  <2>1. PICK s : s = SetCalendar(publisher, c)
    OBVIOUS
  <2>2. PublishStep(s, 1, 0, FALSE, past.misjudged)
    BY <1>2, <2>1 DEF CalendarSet
  <2>3. /\ s \in PublisherType /\ s.sent = publisher.sent /\ s.timer = publisher.timer
        /\ s.uploading = publisher.uploading /\ s.jobs = publisher.jobs /\ s.url = publisher.url
        /\ s.broken = publisher.broken
    <3> DEFINE h == IF c = NoCalendar THEN publisher.heard ELSE publisher.heard \cup {c}
               p == publisher.posted + 1
    <3>1. s = [publisher EXCEPT !.calendar = c, !.heard = h, !.posted = p]
      BY <2>1 DEF SetCalendar
    <3>2. h \in SUBSET Calendars /\ p \in Int /\ c \in Calendars \cup {NoCalendar}
      BY <1>1, <1>2 DEF PublisherType
    <3> HIDE DEF h, p
    <3>3. s \in PublisherType
      BY <1>1, <3>1, <3>2 DEF PublisherType
    <3>4. /\ s.sent = publisher.sent /\ s.timer = publisher.timer
          /\ s.uploading = publisher.uploading /\ s.jobs = publisher.jobs /\ s.url = publisher.url
          /\ s.broken = publisher.broken
      BY <1>1, <3>1 DEF PublisherType
    <3> QED BY <3>3, <3>4
  <2>4. s.jobs <= publisher.jobs
    BY <1>1, <2>3 DEF PublisherType
  <2> QED BY <1>1, <2>2, <2>3, <2>4, QuietKeeps
<1>3. ASSUME NEW fileOpen \in BOOLEAN, NEW c, CalendarChanged(c, fileOpen)
      PROVE  PublishInv'
  <2>1. PICK s : s = UploadFreeBusy(publisher, fileOpen)
    OBVIOUS
  <2>2. Uploading(s, fileOpen, 1, Due(publisher))
    BY <1>3, <2>1 DEF CalendarChanged
  <2>3. ASSUME NEW m \in Nat, fileOpen \/ m > 0, m >= past.failures
        PROVE  /\ Uploads(s, m) /\ s.url = publisher.url /\ s.broken = publisher.broken
               /\ OneUploadOnly => s.uploading /\ s.timer
               /\ Due(publisher) /\ ~publisher.broken => s.jobs > publisher.jobs \/ (s.uploading /\ s.timer) \/ m > 0
    BY <1>1, <2>1, <2>3, AutomaticUploads DEF OneUploadOnly
  <2>4. past.failures + 1 \in Nat /\ past.failures + 1 > 0 /\ past.failures + 1 >= past.failures
    BY <1>1
  <2>5. s.url = publisher.url /\ s.broken = publisher.broken /\ (OneUploadOnly => s.uploading /\ s.timer)
    BY <2>3, <2>4
  <2>6. Due(publisher) => publisher.url = "valid"
    BY DEF Due
  <2> QED BY <1>1, <2>2, <2>3, <2>5, <2>6, UploadingKeeps
<1>4. ASSUME NEW fileOpen \in BOOLEAN, SingleShot(fileOpen)
      PROVE  PublishInv'
  <2>0. PICK r : r = [publisher EXCEPT !.posted = @ - 1]
    OBVIOUS
  <2>1. PICK s : s = UploadFreeBusy(r, fileOpen)
    OBVIOUS
  <2>2. Uploading(s, fileOpen, 0, Due(publisher))
    BY <1>4, <2>0, <2>1 DEF SingleShot
  <2>3. /\ r \in PublisherType /\ r.calendar = publisher.calendar /\ r.auto = publisher.auto
        /\ r.url = publisher.url /\ r.broken = publisher.broken /\ r.sent = publisher.sent
        /\ r.timer = publisher.timer /\ r.uploading = publisher.uploading /\ r.jobs = publisher.jobs
    BY <1>1, <2>0 DEF PublisherType
  <2>4. Uploads(r, past.failures) /\ (Due(r) <=> Due(publisher))
    BY <1>1, <2>3 DEF Uploads, Due
  <2>5. ASSUME NEW m \in Nat, fileOpen \/ m > 0, m >= past.failures
        PROVE  /\ Uploads(s, m) /\ s.url = r.url /\ s.broken = r.broken
               /\ r.uploading /\ r.timer => s.uploading /\ s.timer
               /\ Due(r) /\ ~r.broken => s.jobs > r.jobs \/ (s.uploading /\ s.timer) \/ m > 0
    BY <1>1, <2>1, <2>4, <2>5, AutomaticUploads
  <2>6. past.failures + 1 \in Nat /\ past.failures + 1 > 0 /\ past.failures + 1 >= past.failures
    BY <1>1
  <2>7. s.url = publisher.url /\ s.broken = publisher.broken /\ (OneUploadOnly => s.uploading /\ s.timer)
    BY <2>3, <2>5, <2>6 DEF OneUploadOnly
  <2>8. Due(publisher) => publisher.url = "valid"
    BY DEF Due
  <2>9. \A m \in Nat : (fileOpen \/ m > 0) /\ m >= past.failures /\ Due(publisher) /\ ~publisher.broken =>
           s.jobs > publisher.jobs \/ (s.uploading /\ s.timer) \/ m > 0
    BY <2>3, <2>4, <2>5
  <2> QED BY <1>1, <2>2, <2>5, <2>7, <2>8, <2>9, UploadingKeeps
<1>5. ASSUME NEW fileOpen \in BOOLEAN, NEW calls \in {0, 1}, NEW s, s = PublishFreeBusy(publisher, fileOpen),
             Uploading(s, fileOpen, calls, FALSE)
      PROVE  PublishInv'
  <2>1. ASSUME NEW m \in Nat, fileOpen \/ m > 0, m >= past.failures
        PROVE  /\ Uploads(s, m) /\ s.url = publisher.url /\ s.broken = publisher.broken
               /\ OneUploadOnly => s.uploading /\ s.timer
    BY <1>1, <1>5, <2>1, PublisherUploads DEF OneUploadOnly
  <2>2. past.failures + 1 \in Nat /\ past.failures + 1 > 0 /\ past.failures + 1 >= past.failures
    BY <1>1
  <2>3. s.url = publisher.url /\ s.broken = publisher.broken /\ (OneUploadOnly => s.uploading /\ s.timer)
    BY <2>1, <2>2
  <2> QED BY <1>5, <2>1, <2>3, UploadingKeeps
<1>6. ASSUME NEW fileOpen \in BOOLEAN, PublishNow(fileOpen)
      PROVE  PublishInv'
  BY <1>1, <1>5, <1>6 DEF PublishNow
<1>7. ASSUME NEW fileOpen \in BOOLEAN, TimerFires(fileOpen)
      PROVE  PublishInv'
  BY <1>1, <1>5, <1>7 DEF TimerFires, TimerEvent
<1>8. ASSUME NEW url \in UrlKinds, NEW auto \in BOOLEAN, ChangeSettings(url, auto)
      PROVE  PublishInv'
  <2>1. PICK s : s = SettingsChanged(publisher, url, auto)
    OBVIOUS
  <2>2. PublishStep(s, 1, 0, FALSE, FALSE)
    BY <1>8, <2>1 DEF ChangeSettings
  <2>3. PICK r : r = [publisher EXCEPT !.url = url, !.auto = auto]
    OBVIOUS
  <2>4. /\ r \in PublisherType /\ r.sent = publisher.sent /\ r.timer = publisher.timer /\ r.url = url
        /\ r.uploading = publisher.uploading /\ r.jobs = publisher.jobs
    BY <1>1, <2>3 DEF PublisherType
  <2>5. s = [r EXCEPT !.broken = (url # "valid")]
    BY <2>1, <2>3, <2>4 DEF SettingsChanged, CheckFreeBusyUrl
  <2>6. PICK b \in BOOLEAN : b <=> url # "valid"
    OBVIOUS
  <2>7. s = [r EXCEPT !.broken = b]
    BY <2>5, <2>6
  <2>8. /\ s \in PublisherType /\ s.sent = publisher.sent /\ s.timer = publisher.timer
        /\ s.uploading = publisher.uploading /\ s.jobs = publisher.jobs /\ s.url = url /\ s.broken = b
    BY <2>4, <2>7 DEF PublisherType
  <2>9. s.jobs <= publisher.jobs
    BY <1>1, <2>8 DEF PublisherType
  <2> QED BY <1>1, <2>2, <2>6, <2>8, <2>9, QuietKeeps
<1>9. ASSUME CloseUrlBox
      PROVE  PublishInv'
  <2> DEFINE invalid == Last(publisher.boxes) = "invalid"
             misjudged == past.misjudged \/ (invalid /\ publisher.url = "valid")
             broken == publisher.broken \/ invalid
  <2>1. PICK s : s = [publisher EXCEPT !.boxes = Front(publisher.boxes), !.broken = broken]
    OBVIOUS
  <2>2. PublishStep(s, 0, 0, FALSE, misjudged)
    BY <1>9, <2>1 DEF CloseUrlBox, UrlBoxClosed
  <2>3. Front(publisher.boxes) \in Seq({"empty", "invalid"})
    BY <1>1, <1>9 DEF PublisherType, CloseUrlBox, Front
  <2>4. misjudged \in BOOLEAN /\ broken \in BOOLEAN
    BY <1>1 DEF PublisherType
  <2>5. broken /\ publisher.url = "valid" => misjudged
    BY <1>1
  <2> HIDE DEF invalid, misjudged, broken
  <2>6. /\ s \in PublisherType /\ s.sent = publisher.sent /\ s.timer = publisher.timer
        /\ s.uploading = publisher.uploading /\ s.jobs = publisher.jobs /\ s.url = publisher.url
        /\ s.broken = broken
    BY <1>1, <2>1, <2>3, <2>4 DEF PublisherType
  <2>7. s.jobs <= publisher.jobs
    BY <1>1, <2>6 DEF PublisherType
  <2> QED BY <1>1, <2>2, <2>4, <2>5, <2>6, <2>7, QuietKeeps
<1>10. ASSUME NEW s, NEW calls \in {0, 1}, PublishStep(s, calls, 0, FALSE, past.misjudged),
              s \in PublisherType, s.sent = publisher.sent, s.timer = publisher.timer,
              s.uploading = publisher.uploading, s.jobs <= publisher.jobs,
              s.url = publisher.url, s.broken = publisher.broken
       PROVE  PublishInv'
  BY <1>1, <1>10, QuietKeeps
<1>11. publisher.jobs <= publisher.jobs /\ publisher.jobs - 1 <= publisher.jobs
  BY <1>1 DEF PublisherType
<1>12. ASSUME UploadEnds
       PROVE  PublishInv'
  <2>0. PICK n : n = publisher.jobs - 1
    OBVIOUS
  <2>1. PICK s : s = [publisher EXCEPT !.jobs = n]
    OBVIOUS
  <2>2. PublishStep(s, 0, 0, FALSE, past.misjudged)
    BY <1>12, <2>0, <2>1 DEF UploadEnds
  <2>3. n \in Int /\ n <= publisher.jobs
    BY <1>1, <1>11, <2>0 DEF PublisherType
  <2>4. s \in PublisherType
    BY <1>1, <2>1, <2>3 DEF PublisherType
  <2>5. /\ s.sent = publisher.sent /\ s.timer = publisher.timer
        /\ s.uploading = publisher.uploading /\ s.jobs = n /\ s.url = publisher.url
        /\ s.broken = publisher.broken
    BY <1>1, <2>1 DEF PublisherType
  <2> QED BY <1>1, <1>10, <2>2, <2>3, <2>4, <2>5
<1>13. ASSUME MailNow
       PROVE  PublishInv'
  <2>1. PICK s : s = MailFreeBusy(publisher)
    OBVIOUS
  <2>2. PublishStep(s, 1, 0, FALSE, past.misjudged)
    BY <1>13, <2>1 DEF MailNow
  <2>3. /\ s \in PublisherType /\ s.sent = publisher.sent /\ s.timer = publisher.timer
        /\ s.uploading = publisher.uploading /\ s.jobs = publisher.jobs /\ s.url = publisher.url
        /\ s.broken = publisher.broken
    <3>1. PICK n : n = publisher.asking + 1
      OBVIOUS
    <3>2. n \in Int
      BY <1>1, <3>1 DEF PublisherType
    <3>3. s = publisher \/ s = [publisher EXCEPT !.asking = n]
      BY <2>1, <3>1 DEF MailFreeBusy
    <3>4. [publisher EXCEPT !.asking = n] \in PublisherType
      BY <1>1, <3>2 DEF PublisherType
    <3> QED BY <1>1, <3>3, <3>4 DEF PublisherType
  <2> QED BY <1>1, <1>10, <1>11, <2>2, <2>3
<1>14. ASSUME MailSent
       PROVE  PublishInv'
  <2>1. PICK s : s = ProcessMailSchedulerResult(publisher)
    OBVIOUS
  <2>2. PublishStep(s, 0, 0, FALSE, past.misjudged)
    BY <1>14, <2>1 DEF MailSent
  <2>3. /\ s \in PublisherType /\ s.sent = publisher.sent /\ s.timer = publisher.timer
        /\ s.uploading = publisher.uploading /\ s.jobs = publisher.jobs /\ s.url = publisher.url
        /\ s.broken = publisher.broken
    BY <1>1, <2>1 DEF PublisherType, ProcessMailSchedulerResult
  <2> QED BY <1>1, <1>10, <1>11, <2>2, <2>3
<1>15. ASSUME NEW accepted \in BOOLEAN, ClosePublishDialog(accepted)
       PROVE  PublishInv'
  <2>1. PICK s : s = PublishDialogClosed(publisher, accepted)
    OBVIOUS
  <2>2. PublishStep(s, 0, 0, FALSE, past.misjudged)
    BY <1>15, <2>1 DEF ClosePublishDialog
  <2>3. /\ s \in PublisherType /\ s.sent = publisher.sent /\ s.timer = publisher.timer
        /\ s.uploading = publisher.uploading /\ s.jobs = publisher.jobs /\ s.url = publisher.url
        /\ s.broken = publisher.broken
    <3> DEFINE n == IF accepted THEN publisher.mails + 1 ELSE publisher.mails
               p == publisher.asking - 1
    <3>1. s = [publisher EXCEPT !.asking = p, !.mails = n]
      BY <2>1 DEF PublishDialogClosed
    <3>2. n \in Int /\ p \in Int
      BY <1>1 DEF PublisherType
    <3> HIDE DEF n, p
    <3>3. s \in PublisherType
      BY <1>1, <3>1, <3>2 DEF PublisherType
    <3>4. /\ s.sent = publisher.sent /\ s.timer = publisher.timer
          /\ s.uploading = publisher.uploading /\ s.jobs = publisher.jobs /\ s.url = publisher.url
          /\ s.broken = publisher.broken
      BY <1>1, <3>1 DEF PublisherType
    <3> QED BY <3>3, <3>4
  <2> QED BY <1>1, <1>10, <1>11, <2>2, <2>3
<1> QED BY <1>2, <1>3, <1>4, <1>6, <1>7, <1>8, <1>9, <1>12, <1>13, <1>14, <1>15 DEF PublishNext

LEMMA InitPublish == Init => PublishInv
<1> SUFFICES ASSUME Init PROVE PublishInv
  OBVIOUS
<1>1. Shape /\ past.owed = FALSE /\ past.misjudged = FALSE
  BY DEF Init, Shape, PastFields
<1>2. PICK url \in UrlKinds, auto \in BOOLEAN : publisher = NewPublisher(url, auto)
  BY DEF Init, UrlKinds
<1>3. <<>> \in Seq({"empty", "invalid"})
  OBVIOUS
<1>4. /\ publisher \in PublisherType /\ publisher.sent = {} /\ publisher.timer = FALSE
      /\ publisher.uploading = FALSE /\ publisher.jobs = 0 /\ publisher.broken = FALSE
  BY <1>2, <1>3 DEF NewPublisher, PublisherType
<1>5. past.failures \in Nat /\ past.owed \in BOOLEAN /\ past.misjudged \in BOOLEAN
  BY <1>1 DEF Shape
<1>6. Uploads(publisher, past.failures)
  BY <1>4, <1>5 DEF Uploads
<1>7. ~publisher.broken /\ ~past.owed /\ ~publisher.uploading
  BY <1>1, <1>4
<1> QED BY <1>1, <1>5, <1>6, <1>7 DEF PublishInv

LEMMA ElsewherePublished ==
  ASSUME PublishInv, Elsewhere
  PROVE  PublishInv'
BY DEF PublishInv, Elsewhere, Shape, Uploads, OneUploadOnly

LEMMA NextPublish ==
  ASSUME PublishInv, [Next]_vars
  PROVE  PublishInv'
<1>1. Shape
  BY DEF PublishInv
<1>2. CASE TodoNext
  BY <1>1, <1>2, TodoElsewhere, ElsewherePublished
<1>3. CASE ImportNext
  BY <1>1, <1>3, ImportElsewhere, ElsewherePublished
<1>4. CASE SearchNext
  BY <1>1, <1>4, SearchElsewhere, ElsewherePublished
<1>5. CASE CollectionsNext
  BY <1>1, <1>5, CollectionsElsewhere, ElsewherePublished
<1>6. CASE PublishNext
  BY <1>6, PublishNextKeeps
<1>7. CASE UNCHANGED vars
  BY <1>7 DEF vars, PublishInv, Shape, Uploads, OneUploadOnly
<1> QED BY <1>2, <1>3, <1>4, <1>5, <1>6, <1>7 DEF Next

\* Publishing the list: the timer runs only during an upload, an upload begins once and is
\* of a list that was sent or could not be written, and a valid URL is held for broken
\* only when the box about an earlier one was closed after the settings were corrected.
THEOREM PublishInvariance == Spec => []PublishInv
<1>1. PublishInv /\ [Next]_vars => PublishInv'
  BY NextPublish
<1> QED BY InitPublish, <1>1, PTL DEF Spec

\* Whatever the order of settings, boxes, calendars and uploads: an upload begins for each
\* list that is owed to a valid URL, but for those after the first upload of the session;
\* to no other URL, and one at a time.
THEOREM ListIsSent == Spec => []ListIsPublished
<1>1. PublishInv => ListIsPublished
  BY DEF PublishInv, ListIsPublished, Uploads
<1> QED BY PublishInvariance, <1>1, PTL

-----------------------------------------------------------------------------
(* The collections of the calendar.                                        *)

\* The rows of two lists of rows, and of a part of one.
LEMMA JoinedRows ==
  ASSUME NEW S, NEW q \in Seq(S), NEW r \in Seq(S)
  PROVE  q \o r \in Seq(S) /\ ToSet(q \o r) = ToSet(q) \cup ToSet(r)
<1>1. /\ q \o r \in Seq(S) /\ Len(q \o r) = Len(q) + Len(r)
      /\ \A i \in 1 .. Len(q) + Len(r) : (q \o r)[i] = IF i <= Len(q) THEN q[i] ELSE r[i - Len(q)]
  BY ConcatProperties
<1>2. /\ Len(q) \in Nat /\ DOMAIN q = 1 .. Len(q) /\ Len(r) \in Nat /\ DOMAIN r = 1 .. Len(r)
      /\ DOMAIN (q \o r) = 1 .. Len(q) + Len(r)
  BY <1>1, LenProperties
<1>3. ASSUME NEW i \in DOMAIN (q \o r)
      PROVE  (q \o r)[i] \in ToSet(q) \cup ToSet(r)
  <2>1. CASE i <= Len(q)
    BY <1>1, <1>2, <2>1 DEF ToSet
  <2>2. CASE ~(i <= Len(q))
    BY <1>1, <1>2, <2>2 DEF ToSet
  <2> QED BY <2>1, <2>2
<1>4. ASSUME NEW i \in DOMAIN q
      PROVE  q[i] \in ToSet(q \o r)
  BY <1>1, <1>2 DEF ToSet
<1>5. ASSUME NEW i \in DOMAIN r
      PROVE  r[i] \in ToSet(q \o r)
  <2>1. i + Len(q) \in DOMAIN (q \o r) /\ (q \o r)[i + Len(q)] = r[i]
    BY <1>1, <1>2
  <2> QED BY <2>1 DEF ToSet
<1>6. ToSet(q \o r) \subseteq ToSet(q) \cup ToSet(r)
  BY <1>3 DEF ToSet
<1>7. ToSet(q) \subseteq ToSet(q \o r) /\ ToSet(r) \subseteq ToSet(q \o r)
  BY <1>4, <1>5 DEF ToSet
<1> QED BY <1>1, <1>6, <1>7

LEMMA PartOfRows ==
  ASSUME NEW S, NEW q \in Seq(S), NEW a \in Int, NEW b \in Int, a >= 1, b <= Len(q)
  PROVE  SubSeq(q, a, b) \in Seq(S) /\ ToSet(SubSeq(q, a, b)) = {q[i] : i \in a .. b}
<1>1. Len(q) \in Nat /\ DOMAIN q = 1 .. Len(q) /\ \A i \in 1 .. Len(q) : q[i] \in S
  BY LenProperties, ElementOfSeq
<1>2. \A i \in a .. b : q[i] \in S
  BY <1>1
<1> DEFINE r == SubSeq(q, a, b)
<1>3. /\ r \in Seq(S) /\ Len(r) = (IF a <= b THEN b - a + 1 ELSE 0)
      /\ \A i \in 1 .. b - a + 1 : r[i] = q[a + i - 1]
  BY <1>2, SubSeqProperties
<1> HIDE DEF r
<1>4. DOMAIN r = 1 .. Len(r)
  BY <1>3, LenProperties
<1>5. DOMAIN r = 1 .. b - a + 1
  BY <1>3, <1>4
<1>6. ASSUME NEW i \in DOMAIN r PROVE r[i] \in {q[j] : j \in a .. b}
  BY <1>3, <1>5
<1>7. ASSUME NEW i \in a .. b PROVE q[i] \in ToSet(r)
  <2>1. i - a + 1 \in DOMAIN r /\ r[i - a + 1] = q[a + (i - a + 1) - 1]
    BY <1>3, <1>5
  <2>2. a + (i - a + 1) - 1 = i
    OBVIOUS
  <2> QED BY <2>1, <2>2 DEF ToSet
<1>8. ToSet(r) = {q[i] : i \in a .. b}
  BY <1>6, <1>7 DEF ToSet
<1> QED BY <1>3, <1>8 DEF r

EtmType ==
  [rows : Seq(Collections), writable : SUBSET Collections, map : [Collections -> {Unknown, "write", "read"}],
   filled : SUBSET Collections, here : SUBSET Collections, readOnly : SUBSET Collections,
   fetched : BOOLEAN, isLoading : BOOLEAN, own : BOOLEAN]

\* A collection is populated only while it is listed, and what the map knows is listed
\* until a collection leaves the model.
KnownRows(s, misread, removed) ==
  /\ s \in EtmType
  /\ \A c \in Listed(s) \ misread : s.map[c] = Rights(s, c)
  /\ s.readOnly = s.here \ s.writable
  /\ s.filled \subseteq Listed(s) /\ (~s.fetched => s.filled = {})
  /\ removed \/ \A c \in Collections : s.map[c] # Unknown => c \in Listed(s)
  /\ s.fetched /\ Listed(s) # {} /\ Listed(s) \subseteq s.filled /\ ~removed => ~s.isLoading

\* A calendar that shares the model of another hears no monitor: nothing is said of it.
Shared(s) == "own" \in DOMAIN s /\ s.own = FALSE

CollectionsInv ==
  /\ Shape /\ past.removed \in BOOLEAN
  /\ Shared(etm) \/ (etm.own /\ KnownRows(etm, past.misread, past.removed))

LEMMA EtmFacts ==
  ASSUME NEW s \in EtmType
  PROVE  /\ s.rows \in Seq(Collections) /\ s.writable \in SUBSET Collections
         /\ s.map \in [Collections -> {Unknown, "write", "read"}]
         /\ s.filled \in SUBSET Collections /\ s.here \in SUBSET Collections
         /\ s.readOnly \in SUBSET Collections /\ s.fetched \in BOOLEAN /\ s.isLoading \in BOOLEAN
         /\ s.own \in BOOLEAN /\ Listed(s) \subseteq Collections
         /\ \A c : Rights(s, c) \in {Unknown, "write", "read"} /\ Rights(s, c) # Unknown
BY LenProperties, ElementOfSeq DEF EtmType, Listed, ToSet, Rights, Unknown

LEMMA InsertedKnown ==
  ASSUME NEW s, NEW misread, NEW removed \in BOOLEAN, KnownRows(s, misread, removed),
         NEW n \in Nat, n <= Len(s.rows), NEW cs \in Seq(Collections), cs # <<>>,
         ToSet(cs) \cap Listed(s) = {}
  PROVE  LET t == RowsInserted(s, n, cs)
         IN  KnownRows(t, misread \ ToSet(cs), removed) /\ Listed(t) = Listed(s) \cup ToSet(cs) /\ t.own = s.own
<1> DEFINE t == RowsInserted(s, n, cs)
           q == SubSeq(s.rows, 1, n) \o cs \o SubSeq(s.rows, n + 1, Len(s.rows))
           map == [c \in Collections |-> IF c \in ToSet(cs) THEN Rights(s, c) ELSE s.map[c]]
<1>1. /\ s \in EtmType /\ s.rows \in Seq(Collections) /\ s.map \in [Collections -> {Unknown, "write", "read"}]
      /\ \A c : Rights(s, c) \in {Unknown, "write", "read"} /\ Rights(s, c) # Unknown
      /\ Listed(s) \subseteq Collections
  BY EtmFacts DEF KnownRows
<1>2. Len(s.rows) \in Nat /\ DOMAIN s.rows = 1 .. Len(s.rows)
  BY <1>1, LenProperties
<1>3. q \in Seq(Collections) /\ ToSet(q) = Listed(s) \cup ToSet(cs)
  <2>0. /\ s.rows \in Seq(Collections) /\ 1 \in Int /\ 1 >= 1 /\ n \in Int /\ n <= Len(s.rows)
        /\ n + 1 \in Int /\ n + 1 >= 1 /\ Len(s.rows) \in Int /\ Len(s.rows) <= Len(s.rows)
    BY <1>1, <1>2
  <2>1. PICK a : a = SubSeq(s.rows, 1, n)
    OBVIOUS
  <2>2. PICK b : b = SubSeq(s.rows, n + 1, Len(s.rows))
    OBVIOUS
  <2>3. a \in Seq(Collections) /\ ToSet(a) = {s.rows[i] : i \in 1 .. n}
    BY <2>0, <2>1, PartOfRows
  <2>4. b \in Seq(Collections) /\ ToSet(b) = {s.rows[i] : i \in n + 1 .. Len(s.rows)}
    <3>1. /\ SubSeq(s.rows, n + 1, Len(s.rows)) \in Seq(Collections)
          /\ ToSet(SubSeq(s.rows, n + 1, Len(s.rows))) = {s.rows[i] : i \in n + 1 .. Len(s.rows)}
      BY <2>0, PartOfRows
    <3> QED BY <2>2, <3>1
  <2>5. ToSet(a) \cup ToSet(b) = Listed(s)
    <3>1. Listed(s) = {s.rows[i] : i \in 1 .. Len(s.rows)}
      BY <1>2 DEF Listed, ToSet
    <3>2. 1 .. Len(s.rows) = 1 .. n \cup n + 1 .. Len(s.rows)
      BY <1>2
    <3> QED BY <2>3, <2>4, <3>1, <3>2
  <2>6. PICK d : d = a \o cs
    OBVIOUS
  <2>7. d \in Seq(Collections) /\ ToSet(d) = ToSet(a) \cup ToSet(cs)
    BY <2>3, <2>6, JoinedRows
  <2>8. d \o b \in Seq(Collections) /\ ToSet(d \o b) = ToSet(d) \cup ToSet(b)
    BY <2>4, <2>7, JoinedRows
  <2>9. q = d \o b
    BY <2>1, <2>2, <2>6
  <2> HIDE DEF q
  <2> QED BY <2>5, <2>7, <2>8, <2>9
<1>4. map \in [Collections -> {Unknown, "write", "read"}]
  BY <1>1
<1>5. \A c \in Collections : map[c] = IF c \in ToSet(cs) THEN Rights(s, c) ELSE s.map[c]
  OBVIOUS
<1>6. t = [s EXCEPT !.rows = q, !.map = map]
  BY DEF RowsInserted
<1> HIDE DEF q, map, t
<1>7. /\ t \in EtmType /\ t.rows = q /\ t.map = map /\ t.writable = s.writable /\ t.filled = s.filled
      /\ t.here = s.here /\ t.readOnly = s.readOnly /\ t.fetched = s.fetched
      /\ t.isLoading = s.isLoading /\ t.own = s.own
  BY <1>1, <1>3, <1>4, <1>6 DEF EtmType
<1>8. Listed(t) = Listed(s) \cup ToSet(cs) /\ Listed(t) \subseteq Collections
  BY <1>3, <1>7, EtmFacts DEF Listed
<1>9. \A c : Rights(t, c) = Rights(s, c)
  BY <1>7 DEF Rights
<1>10. \A c \in Listed(t) \ (misread \ ToSet(cs)) : t.map[c] = Rights(t, c)
  BY <1>5, <1>7, <1>8, <1>9 DEF KnownRows
<1>11. ~(Listed(t) \subseteq t.filled)
  <2>1. PICK c : c \in ToSet(cs)
    <3>1. Len(cs) \in Nat \ {0} /\ DOMAIN cs = 1 .. Len(cs)
      BY EmptySeq, LenProperties
    <3>2. 1 \in DOMAIN cs
      BY <3>1
    <3> QED BY <3>2 DEF ToSet
  <2> QED BY <1>7, <1>8, <2>1 DEF KnownRows
<1>12. removed \/ \A c \in Collections : t.map[c] # Unknown => c \in Listed(t)
  BY <1>5, <1>7, <1>8 DEF KnownRows
<1>13. t.readOnly = t.here \ t.writable /\ t.filled \subseteq Listed(t) /\ (~t.fetched => t.filled = {})
  BY <1>7, <1>8 DEF KnownRows
<1>14. KnownRows(t, misread \ ToSet(cs), removed)
  BY <1>7, <1>10, <1>11, <1>12, <1>13 DEF KnownRows
<1> QED BY <1>7, <1>8, <1>14 DEF t

\* The collections whose rows came to the place of removed ones, and were taken for gone.
Misread(s, t, misread) == misread \cup {c \in Listed(t) : t.map[c] # s.map[c]}
Left(s, t, removed) == removed \/ Listed(s) \ Listed(t) # {}

LEMMA RemovedKnown ==
  ASSUME NEW s, NEW misread, NEW removed \in BOOLEAN, KnownRows(s, misread, removed),
         NEW first \in Nat \ {0}, NEW last \in Nat, first <= last, last <= Len(s.rows)
  PROVE  LET t == RowsRemoved(s, first, last)
         IN  /\ KnownRows(t, Misread(s, t, misread), Left(s, t, removed))
             /\ t.own = s.own
<1> DEFINE t == RowsRemoved(s, first, last)
           q == SubSeq(s.rows, 1, first - 1) \o SubSeq(s.rows, last + 1, Len(s.rows))
           gone == ToSet(SubSeq(s.rows, first, last))
           read == ToSet(SubSeq(q, first, IF last < Len(q) THEN last ELSE Len(q)))
           here == s.here \ gone
           filled == s.filled \ gone
           readOnly == s.readOnly \ gone
           map == [c \in Collections |-> IF c \in read THEN Unknown ELSE s.map[c]]
<1>1. /\ s \in EtmType /\ s.rows \in Seq(Collections) /\ s.map \in [Collections -> {Unknown, "write", "read"}]
      /\ s.filled \in SUBSET Collections /\ s.here \in SUBSET Collections /\ s.readOnly \in SUBSET Collections
      /\ s.fetched \in BOOLEAN
      /\ \A c : Rights(s, c) \in {Unknown, "write", "read"} /\ Rights(s, c) # Unknown
      /\ Listed(s) \subseteq Collections
  BY EtmFacts DEF KnownRows
<1>2. Len(s.rows) \in Nat /\ DOMAIN s.rows = 1 .. Len(s.rows)
  BY <1>1, LenProperties
<1>3. q \in Seq(Collections) /\ Listed(s) = ToSet(q) \cup gone
  <2>1. PICK a : a = SubSeq(s.rows, 1, first - 1)
    OBVIOUS
  <2>2. PICK b : b = SubSeq(s.rows, last + 1, Len(s.rows))
    OBVIOUS
  <2>0. /\ s.rows \in Seq(Collections) /\ 1 \in Int /\ 1 >= 1 /\ first - 1 \in Int /\ first - 1 <= Len(s.rows)
        /\ last + 1 \in Int /\ last + 1 >= 1 /\ Len(s.rows) \in Int /\ Len(s.rows) <= Len(s.rows)
    BY <1>1, <1>2
  <2>3. a \in Seq(Collections) /\ ToSet(a) = {s.rows[i] : i \in 1 .. first - 1}
    BY <2>0, <2>1, PartOfRows
  <2>4. b \in Seq(Collections) /\ ToSet(b) = {s.rows[i] : i \in last + 1 .. Len(s.rows)}
    BY <2>0, <2>2, PartOfRows
  <2>5. gone = {s.rows[i] : i \in first .. last}
    BY <2>0, PartOfRows
  <2>6. a \o b \in Seq(Collections) /\ ToSet(a \o b) = ToSet(a) \cup ToSet(b)
    BY <2>3, <2>4, JoinedRows
  <2>7. q = a \o b
    BY <2>1, <2>2
  <2>8. Listed(s) = {s.rows[i] : i \in 1 .. Len(s.rows)}
    BY <1>2 DEF Listed, ToSet
  <2> HIDE DEF q, gone
  <2>9. 1 .. Len(s.rows) = 1 .. first - 1 \cup first .. last \cup last + 1 .. Len(s.rows)
    BY <1>2
  <2>10. Listed(s) = ToSet(a) \cup gone \cup ToSet(b)
    BY <2>3, <2>4, <2>5, <2>8, <2>9
  <2> QED BY <2>6, <2>7, <2>10
<1>4. gone # {}
  <2>1. gone = {s.rows[i] : i \in first .. last} /\ first \in first .. last
    BY <1>1, <1>2, PartOfRows
  <2> HIDE DEF gone
  <2> QED BY <2>1
<1>5. map \in [Collections -> {Unknown, "write", "read"}]
  BY <1>1
<1>6. \A c \in Collections : map[c] = Unknown \/ map[c] = s.map[c]
  OBVIOUS
<1>7. t = [s EXCEPT !.rows = q, !.here = here, !.filled = filled, !.readOnly = readOnly, !.map = map]
  BY DEF RowsRemoved
<1> HIDE DEF t, q, gone, read, map
<1>8. here \in SUBSET Collections /\ filled \in SUBSET Collections /\ readOnly \in SUBSET Collections
  BY <1>1
<1> HIDE DEF here, filled, readOnly
<1>9. t \in EtmType
  BY <1>1, <1>3, <1>5, <1>7, <1>8 DEF EtmType
<1>10. /\ t.rows = q /\ t.map = map /\ t.writable = s.writable /\ t.filled = filled
       /\ t.here = here /\ t.readOnly = readOnly /\ t.fetched = s.fetched
       /\ t.own = s.own
  BY <1>1, <1>7 DEF EtmType
<1>11. Listed(t) = ToSet(q) /\ Listed(t) \subseteq Collections
  BY <1>9, <1>10, EtmFacts DEF Listed
<1>12. \A c : Rights(t, c) = Rights(s, c)
  BY <1>10 DEF Rights
<1> DEFINE wrong == misread \cup {c \in Listed(t) : t.map[c] # s.map[c]}
           left == removed \/ Listed(s) \ Listed(t) # {}
<1>13. \A c \in Listed(t) \ wrong : t.map[c] = Rights(t, c)
  BY <1>3, <1>11, <1>12 DEF KnownRows
<1>14. t.readOnly = t.here \ t.writable
  BY <1>10 DEF KnownRows, here, readOnly
<1>15. t.filled \subseteq Listed(t) /\ (~t.fetched => t.filled = {})
  BY <1>3, <1>10, <1>11 DEF KnownRows, filled
<1>16. left \/ \A c \in Collections : t.map[c] # Unknown => c \in Listed(t)
  BY <1>6, <1>10 DEF KnownRows
<1>17. Listed(t) \subseteq t.filled => left
  BY <1>3, <1>4, <1>10, <1>11 DEF filled
<1> HIDE DEF wrong, left
<1>18. KnownRows(t, wrong, left)
  BY <1>9, <1>13, <1>14, <1>15, <1>16, <1>17 DEF KnownRows
<1> QED BY <1>10, <1>18 DEF t, wrong, left, Misread, Left

LEMMA RightsKnown ==
  ASSUME NEW s, NEW misread, NEW removed \in BOOLEAN, KnownRows(s, misread, removed), s.own,
         NEW c \in Listed(s)
  PROVE  LET t == RightsChanged(s, c)
         IN  KnownRows(t, misread \ {c}, removed) /\ Listed(t) = Listed(s) /\ t.own = s.own
<1> DEFINE w == IF c \in s.writable THEN s.writable \ {c} ELSE s.writable \cup {c}
           r == [s EXCEPT !.writable = w]
           o == IF c \notin s.here THEN s.readOnly
                ELSE IF c \in w THEN s.readOnly \ {c} ELSE s.readOnly \cup {c}
           u == [r EXCEPT !.readOnly = o]
           v == Rights(u, c)
           map == [s.map EXCEPT ![c] = v]
           t == RightsChanged(s, c)
<1>1. /\ s \in EtmType /\ s.rows \in Seq(Collections) /\ s.map \in [Collections -> {Unknown, "write", "read"}]
      /\ s.writable \in SUBSET Collections /\ s.here \in SUBSET Collections /\ s.readOnly \in SUBSET Collections
      /\ c \in Collections
  BY EtmFacts DEF KnownRows
<1>2. w \in SUBSET Collections /\ o \in SUBSET Collections
  BY <1>1
<1>3. o = s.here \ w
  BY <1>1 DEF KnownRows
<1>4. \A d : d # c => (d \in w <=> d \in s.writable)
  OBVIOUS
<1> HIDE DEF w, o
<1>5. /\ r \in EtmType /\ r.writable = w /\ r.own = s.own /\ r.here = s.here /\ r.readOnly = s.readOnly
      /\ r.map = s.map /\ r.rows = s.rows /\ r.filled = s.filled /\ r.fetched = s.fetched
      /\ r.isLoading = s.isLoading
  BY <1>1, <1>2 DEF EtmType
<1> HIDE DEF r
<1>6. /\ u \in EtmType /\ u.writable = w /\ u.own = s.own /\ u.here = s.here /\ u.readOnly = o
      /\ u.map = s.map /\ u.rows = s.rows /\ u.filled = s.filled /\ u.fetched = s.fetched
      /\ u.isLoading = s.isLoading
  BY <1>2, <1>5 DEF EtmType
<1>7. OnCollectionChanged(r, c) = u
  <2>1. CASE c \notin s.here
    BY <1>5, <2>1 DEF OnCollectionChanged, o, EtmType
  <2>2. CASE c \in s.here
    BY <1>5, <2>2 DEF OnCollectionChanged, o
  <2> QED BY <2>1, <2>2
<1>8. t = OnDataChanged(u, c)
  BY <1>7 DEF RightsChanged, r, w
<1> HIDE DEF u, t
<1>9. v \in {Unknown, "write", "read"} /\ v # Unknown
  BY <1>6, EtmFacts
<1> HIDE DEF v
<1>10. /\ map \in [Collections -> {Unknown, "write", "read"}] /\ map[c] = v
       /\ \A d \in Collections : d # c => map[d] = s.map[d]
  BY <1>1, <1>9
<1>11. t = [u EXCEPT !.map = map]
  BY <1>6, <1>8 DEF OnDataChanged, v
<1> HIDE DEF map
<1>12. /\ t \in EtmType /\ t.writable = w /\ t.own = s.own /\ t.here = s.here /\ t.readOnly = o
       /\ t.map = map /\ t.rows = s.rows /\ t.filled = s.filled /\ t.fetched = s.fetched
       /\ t.isLoading = s.isLoading
  BY <1>6, <1>10, <1>11 DEF EtmType
<1>13. Listed(t) = Listed(s) /\ Listed(t) \subseteq Collections
  BY <1>12, EtmFacts DEF Listed
<1>14. Rights(t, c) = v /\ \A d : d # c => Rights(t, d) = Rights(s, d)
  BY <1>4, <1>6, <1>12 DEF Rights, v
<1>15. \A d \in Listed(t) \ (misread \ {c}) : t.map[d] = Rights(t, d)
  BY <1>10, <1>12, <1>13, <1>14 DEF KnownRows
<1>16. removed \/ \A d \in Collections : t.map[d] # Unknown => d \in Listed(t)
  BY <1>10, <1>12, <1>13 DEF KnownRows
<1>17. /\ t.readOnly = t.here \ t.writable
       /\ t.filled \subseteq Listed(t) /\ (~t.fetched => t.filled = {})
       /\ t.fetched /\ Listed(t) # {} /\ Listed(t) \subseteq t.filled /\ ~removed => ~t.isLoading
  BY <1>3, <1>12, <1>13 DEF KnownRows
<1>18. KnownRows(t, misread \ {c}, removed)
  BY <1>12, <1>15, <1>16, <1>17 DEF KnownRows
<1> QED BY <1>12, <1>13, <1>18 DEF t

LEMMA ItemsKnown ==
  ASSUME NEW s, NEW misread, NEW removed \in BOOLEAN, KnownRows(s, misread, removed), NEW c \in Listed(s)
  PROVE  LET t == ItemsAdded(s, c)
         IN  KnownRows(t, misread, removed) /\ Listed(t) = Listed(s) /\ t.own = s.own
<1> DEFINE here == s.here \cup {c}
           o == IF c \in s.writable THEN s.readOnly \ {c} ELSE s.readOnly \cup {c}
           t == ItemsAdded(s, c)
<1>1. /\ s \in EtmType /\ s.here \in SUBSET Collections /\ s.readOnly \in SUBSET Collections
      /\ c \in Collections
  BY EtmFacts DEF KnownRows
<1>2. here \in SUBSET Collections /\ o \in SUBSET Collections
  BY <1>1
<1>3. o = here \ s.writable
  BY <1>1 DEF KnownRows
<1>4. t = [s EXCEPT !.here = here, !.readOnly = o]
  BY DEF ItemsAdded
<1> HIDE DEF here, o, t
<1>5. /\ t \in EtmType /\ t.writable = s.writable /\ t.own = s.own /\ t.here = here /\ t.readOnly = o
      /\ t.map = s.map /\ t.rows = s.rows /\ t.filled = s.filled /\ t.fetched = s.fetched
      /\ t.isLoading = s.isLoading
  BY <1>1, <1>2, <1>4 DEF EtmType
<1>6. Listed(t) = Listed(s) /\ \A d : Rights(t, d) = Rights(s, d)
  BY <1>5 DEF Listed, Rights
<1>7. KnownRows(t, misread, removed)
  BY <1>3, <1>5, <1>6 DEF KnownRows
<1> QED BY <1>5, <1>6, <1>7 DEF t

LEMMA FetchedKnown ==
  ASSUME NEW s, NEW misread, NEW removed \in BOOLEAN, KnownRows(s, misread, removed), ~s.fetched
  PROVE  LET t == [s EXCEPT !.fetched = TRUE]
         IN  KnownRows(t, misread, removed) /\ Listed(t) = Listed(s) /\ t.own = s.own
<1> DEFINE t == [s EXCEPT !.fetched = TRUE]
<1>1. s \in EtmType
  BY DEF KnownRows
<1>2. /\ t \in EtmType /\ t.writable = s.writable /\ t.own = s.own /\ t.here = s.here
      /\ t.readOnly = s.readOnly /\ t.map = s.map /\ t.rows = s.rows /\ t.filled = s.filled
      /\ t.fetched = TRUE /\ t.isLoading = s.isLoading
  BY <1>1 DEF EtmType
<1> HIDE DEF t
<1>3. Listed(t) = Listed(s) /\ \A d : Rights(t, d) = Rights(s, d)
  BY <1>2 DEF Listed, Rights
<1>4. KnownRows(t, misread, removed)
  BY <1>2, <1>3 DEF KnownRows
<1> QED BY <1>2, <1>3, <1>4 DEF t

LEMMA PopulatedKnown ==
  ASSUME NEW s, NEW misread, NEW removed \in BOOLEAN, KnownRows(s, misread, removed), s.fetched,
         NEW c \in Listed(s)
  PROVE  LET t == OnCollectionPopulated(s, c)
         IN  KnownRows(t, misread, removed) /\ Listed(t) = Listed(s) /\ t.own = s.own
<1> DEFINE filled == s.filled \cup {c}
           r == [s EXCEPT !.filled = filled]
           loading == ~r.fetched \/ \E d \in Collections : r.map[d] # Unknown /\ d \notin r.filled
           t == OnCollectionPopulated(s, c)
<1>1. s \in EtmType /\ s.filled \in SUBSET Collections /\ c \in Collections
  BY EtmFacts DEF KnownRows
<1>2. filled \in SUBSET Collections
  BY <1>1
<1>3. t = [r EXCEPT !.isLoading = loading]
  BY DEF OnCollectionPopulated, UpdateLoadingState
<1>4. /\ r \in EtmType /\ r.writable = s.writable /\ r.own = s.own /\ r.here = s.here
      /\ r.readOnly = s.readOnly /\ r.map = s.map /\ r.rows = s.rows /\ r.filled = filled
      /\ r.fetched = s.fetched
  BY <1>1, <1>2 DEF EtmType
<1> HIDE DEF r
<1>5. loading \in BOOLEAN
  OBVIOUS
<1>6. removed \/ (\A d \in Collections : s.map[d] # Unknown => d \in Listed(s))
  BY DEF KnownRows
<1>7. loading => \E d \in Collections : s.map[d] # Unknown /\ d \notin filled
  BY <1>4
<1> HIDE DEF loading, t, filled
<1>8. /\ t \in EtmType /\ t.writable = s.writable /\ t.own = s.own /\ t.here = s.here
      /\ t.readOnly = s.readOnly /\ t.map = s.map /\ t.rows = s.rows /\ t.filled = filled
      /\ t.fetched = s.fetched /\ t.isLoading = loading
  BY <1>3, <1>4, <1>5 DEF EtmType
<1>9. Listed(t) = Listed(s) /\ \A d : Rights(t, d) = Rights(s, d)
  BY <1>8 DEF Listed, Rights
<1>10. Listed(t) \subseteq t.filled /\ ~removed => ~t.isLoading
  BY <1>6, <1>7, <1>8, <1>9
<1>11. t.filled \subseteq Listed(t) /\ (~t.fetched => t.filled = {})
  BY <1>8, <1>9 DEF KnownRows, filled
<1>12. KnownRows(t, misread, removed)
  BY <1>8, <1>9, <1>10, <1>11 DEF KnownRows
<1> QED BY <1>8, <1>9, <1>12 DEF t

\* A calendar that shares a model goes on sharing it.
LEMMA SharedStays ==
  ASSUME NEW s, Shared(s), NEW n, NEW cs, NEW first, NEW last, NEW c
  PROVE  /\ Shared(RowsInserted(s, n, cs)) /\ Shared(RowsRemoved(s, first, last))
         /\ Shared(RightsChanged(s, c)) /\ Shared(ItemsAdded(s, c)) /\ Shared(OnCollectionPopulated(s, c))
         /\ Shared([s EXCEPT !.fetched = TRUE])
<1>1. ASSUME NEW t, Shared(t), NEW v
      PROVE  /\ Shared([t EXCEPT !.rows = v]) /\ Shared([t EXCEPT !.map = v]) /\ Shared([t EXCEPT !.filled = v])
             /\ Shared([t EXCEPT !.here = v]) /\ Shared([t EXCEPT !.readOnly = v])
             /\ Shared([t EXCEPT !.writable = v]) /\ Shared([t EXCEPT !.isLoading = v])
             /\ Shared([t EXCEPT !.fetched = v])
  BY <1>1 DEF Shared
<1>2. Shared(RowsInserted(s, n, cs))
  BY DEF RowsInserted, Shared
<1>3. Shared(RowsRemoved(s, first, last))
  BY DEF RowsRemoved, Shared
<1>4. Shared(RightsChanged(s, c))
  <2> DEFINE w == IF c \in s.writable THEN s.writable \ {c} ELSE s.writable \cup {c}
  <2>1. PICK t : t = [s EXCEPT !.writable = w]
    OBVIOUS
  <2>2. Shared(t)
    BY <1>1, <2>1
  <2>3. OnCollectionChanged(t, c) = t
    BY <2>2 DEF OnCollectionChanged, Shared
  <2>4. RightsChanged(s, c) = OnDataChanged(t, c)
    BY <2>1, <2>3 DEF RightsChanged
  <2>5. OnDataChanged(t, c) = [t EXCEPT !.map = [t.map EXCEPT ![c] = Rights(t, c)]]
    BY DEF OnDataChanged
  <2>6. Shared([t EXCEPT !.map = [t.map EXCEPT ![c] = Rights(t, c)]])
    BY <1>1, <2>2
  <2> QED BY <2>4, <2>5, <2>6
<1>5. Shared(ItemsAdded(s, c))
  BY DEF ItemsAdded, Shared
<1>6. Shared(OnCollectionPopulated(s, c))
  <2>1. PICK t : t = [s EXCEPT !.filled = s.filled \cup {c}]
    OBVIOUS
  <2>2. Shared(t)
    BY <1>1, <2>1
  <2>3. PICK loading : OnCollectionPopulated(s, c) = [t EXCEPT !.isLoading = loading]
    BY <2>1 DEF OnCollectionPopulated, UpdateLoadingState
  <2>4. Shared([t EXCEPT !.isLoading = loading])
    BY <1>1, <2>2
  <2> QED BY <2>3, <2>4
<1> QED BY <1>1, <1>2, <1>3, <1>4, <1>5, <1>6

LEMMA ModelStepKeeps ==
  ASSUME CollectionsInv, NEW s, NEW event, NEW misread, ModelStep(s, event, misread),
         Shared(etm) => Shared(s),
         etm.own => s.own /\ KnownRows(s, misread, past.removed \/ Listed(etm) \ Listed(s) # {})
  PROVE  CollectionsInv'
<1> DEFINE removed == past.removed \/ Listed(etm) \ Listed(s) # {}
           calls == IF event THEN past.calls + 1 ELSE past.calls
<1>1. past' = [past EXCEPT !.misread = misread, !.removed = removed, !.calls = calls] /\ etm' = s
  BY DEF ModelStep
<1>2. Shape /\ past.removed \in BOOLEAN /\ (Shared(etm) \/ (etm.own /\ KnownRows(etm, past.misread, past.removed)))
  BY DEF CollectionsInv
<1>3. removed \in BOOLEAN
  BY <1>2
<1>4. Shared(s) \/ (s.own /\ KnownRows(s, misread, removed))
  BY <1>2
<1> HIDE DEF removed, calls
<1>5. /\ DOMAIN past' = PastFields /\ past'.failures = past.failures
      /\ past'.misread = misread /\ past'.removed = removed
  BY <1>1, <1>2 DEF Shape, PastFields
<1>6. Shape'
  BY <1>2, <1>5 DEF Shape
<1>7. Shared(etm') \/ (etm'.own /\ KnownRows(etm', past'.misread, past'.removed))
  BY <1>1, <1>4, <1>5
<1> QED BY <1>3, <1>5, <1>6, <1>7 DEF CollectionsInv

LEMMA CollectionsNextKeeps ==
  ASSUME CollectionsInv, CollectionsNext
  PROVE  CollectionsInv'
<1>1. /\ past.removed \in BOOLEAN
      /\ Shared(etm) => ~etm.own
      /\ etm.own => KnownRows(etm, past.misread, past.removed)
  BY DEF CollectionsInv, Shared
<1>2. ASSUME NEW s, NEW event, NEW misread, ModelStep(s, event, misread), Shared(etm) => Shared(s),
             etm.own => s.own = etm.own /\ KnownRows(s, misread, past.removed) /\ Listed(etm) \ Listed(s) = {}
      PROVE  CollectionsInv'
  BY <1>1, <1>2, ModelStepKeeps
<1>3. ASSUME NEW n \in 0 .. Cardinality(Collections),
             NEW cs \in UNION {[1 .. k -> Collections] : k \in 1 .. 2}, CollectionsInserted(n, cs)
      PROVE  CollectionsInv'
  <2>1. PICK k \in 1 .. 2 : cs \in [1 .. k -> Collections]
    OBVIOUS
  <2>2. cs \in Seq(Collections) /\ cs # <<>>
    BY <2>1
  <2>3. PICK s : s = RowsInserted(etm, n, cs)
    OBVIOUS
  <2>4. /\ ToSet(cs) \cap Listed(etm) = {} /\ n <= Len(etm.rows)
        /\ ModelStep(s, FALSE, past.misread \ ToSet(cs))
    BY <1>3, <2>3 DEF CollectionsInserted
  <2>5. Shared(etm) => Shared(s)
    BY <2>3, SharedStays
  <2>6. n \in Nat
    OBVIOUS
  <2>7. etm.own => /\ s.own = etm.own /\ KnownRows(s, past.misread \ ToSet(cs), past.removed)
                   /\ Listed(s) = Listed(etm) \cup ToSet(cs)
    <3> SUFFICES ASSUME etm.own
                 PROVE  /\ s.own = etm.own /\ KnownRows(s, past.misread \ ToSet(cs), past.removed)
                        /\ Listed(s) = Listed(etm) \cup ToSet(cs)
      OBVIOUS
    <3>1. KnownRows(etm, past.misread, past.removed) /\ past.removed \in BOOLEAN
      BY <1>1
    <3>2. LET t == RowsInserted(etm, n, cs)
          IN  KnownRows(t, past.misread \ ToSet(cs), past.removed) /\ Listed(t) = Listed(etm) \cup ToSet(cs) /\ t.own = etm.own
      BY <2>2, <2>4, <2>6, <3>1, InsertedKnown
    <3> QED BY <2>3, <3>2
  <2>8. etm.own => Listed(etm) \ Listed(s) = {}
    BY <2>7
  <2> QED BY <1>2, <2>4, <2>5, <2>7, <2>8
<1>4. ASSUME NEW first \in 1 .. Cardinality(Collections), NEW last \in 1 .. Cardinality(Collections),
             CollectionsRemoved(first, last)
      PROVE  CollectionsInv'
  <2>1. PICK s : s = RowsRemoved(etm, first, last)
    OBVIOUS
  <2>2. PICK misread : misread = past.misread \cup {c \in Listed(s) : s.map[c] # etm.map[c]}
    OBVIOUS
  <2>3. first <= last /\ last <= Len(etm.rows) /\ ModelStep(s, TRUE, misread)
    BY <1>4, <2>1, <2>2 DEF CollectionsRemoved
  <2>4. Shared(etm) => Shared(s)
    BY <2>1, SharedStays
  <2>5. first \in Nat \ {0} /\ last \in Nat
    OBVIOUS
  <2>6. etm.own => /\ s.own = etm.own
                   /\ KnownRows(s, misread, past.removed \/ Listed(etm) \ Listed(s) # {})
    <3> SUFFICES ASSUME etm.own
                 PROVE  /\ s.own = etm.own
                        /\ KnownRows(s, misread, past.removed \/ Listed(etm) \ Listed(s) # {})
      OBVIOUS
    <3>1. KnownRows(etm, past.misread, past.removed) /\ past.removed \in BOOLEAN
      BY <1>1
    <3>2. LET t == RowsRemoved(etm, first, last)
          IN  /\ KnownRows(t, Misread(etm, t, past.misread), Left(etm, t, past.removed))
              /\ t.own = etm.own
      BY <2>3, <2>5, <3>1, RemovedKnown
    <3> QED BY <2>1, <2>2, <3>2 DEF Misread, Left
  <2> QED BY <2>3, <2>4, <2>6, ModelStepKeeps
<1>5. ASSUME NEW c \in Collections, ChangeRights(c)
      PROVE  CollectionsInv'
  <2>1. PICK s : s = RightsChanged(etm, c)
    OBVIOUS
  <2>2. c \in Listed(etm) /\ ModelStep(s, TRUE, past.misread \ {c})
    BY <1>5, <2>1 DEF ChangeRights
  <2>3. Shared(etm) => Shared(s)
    BY <2>1, SharedStays
  <2>4. etm.own => s.own = etm.own /\ KnownRows(s, past.misread \ {c}, past.removed) /\ Listed(s) = Listed(etm)
    BY <1>1, <2>1, <2>2, RightsKnown
  <2>5. etm.own => Listed(etm) \ Listed(s) = {}
    BY <2>4
  <2> QED BY <1>2, <2>2, <2>3, <2>4, <2>5
<1>6. ASSUME NEW c \in Collections, ItemsArrive(c)
      PROVE  CollectionsInv'
  <2>1. PICK s : s = ItemsAdded(etm, c)
    OBVIOUS
  <2>2. c \in Listed(etm) /\ ModelStep(s, FALSE, past.misread)
    BY <1>6, <2>1 DEF ItemsArrive
  <2>3. Shared(etm) => Shared(s)
    BY <2>1, SharedStays
  <2>4. etm.own => s.own = etm.own /\ KnownRows(s, past.misread, past.removed) /\ Listed(s) = Listed(etm)
    BY <1>1, <2>1, <2>2, ItemsKnown
  <2>5. etm.own => Listed(etm) \ Listed(s) = {}
    BY <2>4
  <2> QED BY <1>2, <2>2, <2>3, <2>4, <2>5
<1>7. ASSUME NEW c \in Collections, CollectionPopulated(c)
      PROVE  CollectionsInv'
  <2>1. PICK s : s = OnCollectionPopulated(etm, c)
    OBVIOUS
  <2>2. c \in Listed(etm) /\ etm.fetched /\ ModelStep(s, FALSE, past.misread)
    BY <1>7, <2>1 DEF CollectionPopulated
  <2>3. Shared(etm) => Shared(s)
    BY <2>1, SharedStays
  <2>4. etm.own => s.own = etm.own /\ KnownRows(s, past.misread, past.removed) /\ Listed(s) = Listed(etm)
    BY <1>1, <2>1, <2>2, PopulatedKnown
  <2>5. etm.own => Listed(etm) \ Listed(s) = {}
    BY <2>4
  <2> QED BY <1>2, <2>2, <2>3, <2>4, <2>5
<1>8. ASSUME TreeFetched
      PROVE  CollectionsInv'
  <2>1. PICK s : s = [etm EXCEPT !.fetched = TRUE]
    OBVIOUS
  <2>2. ~etm.fetched /\ ModelStep(s, FALSE, past.misread)
    BY <1>8, <2>1 DEF TreeFetched
  <2>3. Shared(etm) => Shared(s)
    BY <2>1, SharedStays
  <2>4. etm.own => s.own = etm.own /\ KnownRows(s, past.misread, past.removed) /\ Listed(s) = Listed(etm)
    BY <1>1, <2>1, <2>2, FetchedKnown
  <2>5. etm.own => Listed(etm) \ Listed(s) = {}
    BY <2>4
  <2> QED BY <1>2, <2>2, <2>3, <2>4, <2>5
<1> QED BY <1>3, <1>4, <1>5, <1>6, <1>7, <1>8 DEF CollectionsNext

\* The actions of the other parts leave the collections alone.
LEMMA ElsewhereCollections ==
  ASSUME CollectionsInv, Shape', UNCHANGED etm, past'.misread = past.misread, past'.removed = past.removed
  PROVE  CollectionsInv'
BY DEF CollectionsInv

LEMMA PublishElsewhere ==
  ASSUME Shape, PublishNext
  PROVE  /\ Shape' /\ past'.failures >= past.failures /\ UNCHANGED <<part, todos, importer, helper, etm>>
         /\ past'.misread = past.misread /\ past'.removed = past.removed
         /\ past'.toggled = past.toggled /\ past'.crossed = past.crossed
<1> DEFINE Goal == /\ Shape' /\ past'.failures >= past.failures
                   /\ UNCHANGED <<part, todos, importer, helper, etm>>
                   /\ past'.misread = past.misread /\ past'.removed = past.removed
                   /\ past'.toggled = past.toggled /\ past'.crossed = past.crossed
<1>1. ASSUME NEW s, NEW calls, NEW failures \in {0, 1}, NEW owed, NEW misjudged,
             PublishStep(s, calls, failures, owed, misjudged)
      PROVE  Goal
  <2> DEFINE n == past.failures + failures
             o == (past.owed \/ owed) /\ ~(s.jobs > publisher.jobs)
             k == past.calls + calls
  <2>1. n \in Nat /\ n >= past.failures
    BY DEF Shape
  <2>2. past' = [past EXCEPT !.calls = k, !.failures = n, !.owed = o, !.misjudged = misjudged]
    BY <1>1 DEF PublishStep
  <2>3. UNCHANGED <<part, todos, importer, helper, etm>>
    BY <1>1 DEF PublishStep
  <2> HIDE DEF n, o, k
  <2>4. /\ DOMAIN past' = PastFields /\ past'.failures = n
        /\ past'.misread = past.misread /\ past'.removed = past.removed
        /\ past'.toggled = past.toggled /\ past'.crossed = past.crossed
    BY <2>2 DEF Shape, PastFields
  <2>5. Shape' /\ past'.failures >= past.failures
    BY <2>1, <2>4 DEF Shape
  <2> QED BY <2>3, <2>4, <2>5
<1> HIDE DEF Goal
<1>2. ASSUME NEW s, NEW fileOpen \in BOOLEAN, NEW calls, NEW owed, Uploading(s, fileOpen, calls, owed)
      PROVE  Goal
  BY <1>1, <1>2 DEF Uploading
<1>3. ASSUME \/ \E c \in Calendars \cup {NoCalendar} : CalendarSet(c)
             \/ CloseUrlBox \/ UploadEnds \/ MailNow \/ MailSent
             \/ \E url \in UrlKinds, auto \in BOOLEAN : ChangeSettings(url, auto)
             \/ \E accepted \in BOOLEAN : ClosePublishDialog(accepted)
      PROVE  Goal
  BY <1>1, <1>3 DEF CalendarSet, CloseUrlBox, UploadEnds, MailNow, MailSent, ChangeSettings, ClosePublishDialog
<1>4. ASSUME NEW fileOpen \in BOOLEAN,
             \/ SingleShot(fileOpen) \/ PublishNow(fileOpen) \/ TimerFires(fileOpen)
             \/ \E c \in Calendars : CalendarChanged(c, fileOpen)
      PROVE  Goal
  BY <1>2, <1>4 DEF SingleShot, PublishNow, TimerFires, CalendarChanged
<1>5. Goal
  BY <1>3, <1>4 DEF PublishNext
<1> QED BY <1>5 DEF Goal

LEMMA NextCollections ==
  ASSUME CollectionsInv, [Next]_vars
  PROVE  CollectionsInv'
<1>1. Shape
  BY DEF CollectionsInv
<1>2. CASE TodoNext
  BY <1>1, <1>2, TodoElsewhere, ElsewhereCollections DEF Elsewhere
<1>3. CASE ImportNext
  BY <1>1, <1>3, ImportElsewhere, ElsewhereCollections DEF Elsewhere
<1>4. CASE SearchNext
  BY <1>1, <1>4, SearchElsewhere, ElsewhereCollections DEF Elsewhere
<1>5. CASE CollectionsNext
  BY <1>5, CollectionsNextKeeps
<1>6. CASE PublishNext
  BY <1>1, <1>6, PublishElsewhere, ElsewhereCollections
<1>7. CASE UNCHANGED vars
  BY <1>7 DEF vars, CollectionsInv, Shape
<1> QED BY <1>2, <1>3, <1>4, <1>5, <1>6, <1>7 DEF Next

LEMMA InitCollections == Init => CollectionsInv
<1> SUFFICES ASSUME Init PROVE CollectionsInv
  OBVIOUS
<1>1. Shape /\ past.removed = FALSE
  BY DEF Init, Shape, PastFields
<1>2. \E w \in SUBSET Collections : etm = NewCalendar(w) \/ etm = SharingCalendar(w)
  BY DEF Init
<1>3. PICK w \in SUBSET Collections : etm = NewCalendar(w) \/ etm = SharingCalendar(w)
  BY <1>2
<1>4. CASE etm = SharingCalendar(w)
  BY <1>1, <1>4 DEF SharingCalendar, Shared, CollectionsInv
<1>5. CASE etm = NewCalendar(w)
  <2>1. <<>> \in Seq(Collections) /\ DOMAIN <<>> = {}
    OBVIOUS
  <2>2. PICK map : map = [c \in Collections |-> Unknown]
    OBVIOUS
  <2>3. map \in [Collections -> {Unknown, "write", "read"}] /\ \A c \in Collections : map[c] = Unknown
    BY <2>2
  <2>4. etm = [rows |-> <<>>, writable |-> w, map |-> map, filled |-> {}, here |-> {}, readOnly |-> {},
               fetched |-> FALSE, isLoading |-> TRUE, own |-> TRUE]
    BY <1>5, <2>2 DEF NewCalendar
  <2>5. /\ etm \in EtmType /\ etm.own = TRUE /\ etm.rows = <<>> /\ etm.map = map
        /\ etm.filled = {} /\ etm.here = {} /\ etm.readOnly = {} /\ etm.fetched = FALSE
    BY <2>1, <2>3, <2>4 DEF EtmType
  <2>6. Listed(etm) = {}
    BY <2>1, <2>5 DEF Listed, ToSet
  <2>7. KnownRows(etm, past.misread, past.removed)
    BY <2>3, <2>5, <2>6 DEF KnownRows
  <2> QED BY <1>1, <2>5, <2>7 DEF CollectionsInv
<1> QED BY <1>3, <1>4, <1>5

\* The collections of a calendar with a model of its own: what onRowsInserted(),
\* onRowsRemoved(), onDataChanged() and onCollectionPopulated() keep in mCollectionMap and
\* in the read-only flags, in whatever order they come.
THEOREM CollectionsInvariance == Spec => []CollectionsInv
<1>1. CollectionsInv /\ [Next]_vars => CollectionsInv'
  BY NextCollections
<1> QED BY InitCollections, <1>1, PTL DEF Spec

\* hasRight() and the read-only flag of an incidence tell the collection's present rights,
\* but for the rows that onRowsRemoved() reads in the place of those removed, and the
\* calendar is no longer loading once all its collections are populated.
THEOREM CollectionsAreTold == Spec => []CollectionsAreKnown
<1>1. CollectionsInv => CollectionsAreKnown
  <2> SUFFICES ASSUME CollectionsInv, part = "collections", etm.own
               PROVE  /\ \A c \in Listed(etm) \ past.misread : HasRight(etm, c) <=> c \in etm.writable
                      /\ etm.readOnly = etm.here \ etm.writable
                      /\ etm.fetched /\ Listed(etm) # {} /\ Listed(etm) \subseteq etm.filled /\ ~past.removed
                           => ~etm.isLoading
    BY DEF CollectionsAreKnown
  <2>1. KnownRows(etm, past.misread, past.removed)
    BY DEF CollectionsInv, Shared
  <2>2. \A c : Rights(etm, c) = "write" <=> c \in etm.writable
    BY DEF Rights
  <2> QED BY <2>1, <2>2 DEF KnownRows, HasRight
<1> QED BY CollectionsInvariance, <1>1, PTL

-----------------------------------------------------------------------------
(* The virtual collections of invitations.                                 *)

JobType ==
  {j \in [kind : {"fetch", "create", "modify", "delete"}, name : Names \cup {""}, folder : Nat, query : Nat] :
     j.kind = "fetch" \/ j.name \in Names}

HelperType ==
  [enabled : BOOLEAN, handle : [Names -> Nat], session : Seq(JobType),
   folders : [Names -> [id : Nat, query : Nat]], next : Nat \ {0}, identities : Nat]

HasJob(q, kind, n) == \E k \in DOMAIN q : q[k].kind = kind /\ q[k].name = n
Fetching(s) == \E k \in DOMAIN s.session : s.session[k].kind = "fetch"

\* A deletion is of a collection that is there and no longer known, once, and before all else.
Deletions(s) ==
  LET q == s.session
  IN  \A k \in DOMAIN q : q[k].kind = "delete" =>
        /\ q[k].folder = s.folders[q[k].name].id /\ s.handle[q[k].name] = NoFolder
        /\ \A m \in DOMAIN q : m < k => q[m].kind = "delete" /\ q[m].name # q[k].name

\* The collection is searched for the present addresses, or will be in the end.
Updates(q, n) == {k \in DOMAIN q : q[k].kind = "modify" /\ q[k].name = n}
Current(s, n) ==
  \/ Updates(s.session, n) = {} /\ s.folders[n].query = s.identities
  \/ \E k \in Updates(s.session, n) : /\ s.session[k].query = s.identities
                                      /\ \A m \in Updates(s.session, n) : m <= k

\* While enabled, all but the collections that are `behind` are there and up to date in the end.
Showing(s, behind) ==
  /\ s \in HelperType /\ s.enabled = TRUE /\ Deletions(s)
  /\ (\E n \in Names : HasJob(s.session, "delete", n)) => Fetching(s)
  /\ \A n \in Names : s.handle[n] # NoFolder => s.handle[n] = s.folders[n].id
  /\ Fetching(s) \/ \A n \in Names : s.handle[n] = s.folders[n].id
  /\ \A k \in DOMAIN s.session : s.session[k].kind = "modify" =>
       s.session[k].folder = s.handle[s.session[k].name] /\ s.session[k].folder # NoFolder
  /\ \A n \in Names \ behind : /\ s.handle[n] # NoFolder => Current(s, n)
                               /\ s.handle[n] = NoFolder => Fetching(s) \/ HasJob(s.session, "create", n)

\* While disabled, all but the collections that are `left` are gone in the end.
Hiding(s, left) ==
  /\ s \in HelperType /\ s.enabled = FALSE /\ Deletions(s)
  /\ \A n \in left : s.handle[n] = s.folders[n].id /\ ~HasJob(s.session, "delete", n)
  /\ \A n \in Names \ left : s.handle[n] = NoFolder
  /\ \/ /\ \A k \in DOMAIN s.session : s.session[k].kind = "delete"
        /\ \A n \in Names \ left : s.folders[n].id # NoFolder => HasJob(s.session, "delete", n)
     \/ left = {} /\ Len(s.session) = 1 /\ s.session[1].kind = "fetch"

HelperInv ==
  /\ Shape /\ past.toggled \in BOOLEAN /\ past.crossed \in BOOLEAN
  /\ past.failures = 0 /\ ~past.crossed =>
       (Showing(helper, {}) /\ past.toggled) \/ Hiding(helper, {})

LEMMA HelperFields ==
  ASSUME NEW s \in HelperType
  PROVE  /\ s.enabled \in BOOLEAN /\ s.handle \in [Names -> Nat] /\ s.session \in Seq(JobType)
         /\ s.folders \in [Names -> [id : Nat, query : Nat]] /\ s.next \in Nat \ {0} /\ s.identities \in Nat
         /\ \A n \in Names : s.handle[n] \in Nat /\ s.folders[n].id \in Nat /\ s.folders[n].query \in Nat
BY DEF HelperType

LEMMA JobFields ==
  ASSUME NEW j \in JobType
  PROVE  /\ j.kind \in {"fetch", "create", "modify", "delete"} /\ j.folder \in Nat /\ j.query \in Nat
         /\ j.kind # "fetch" => j.name \in Names
BY DEF JobType

LEMMA JobsTyped ==
  ASSUME NEW n \in Names, NEW folder \in Nat, NEW query \in Nat, NEW kind \in {"create", "modify", "delete"}
  PROVE  /\ JobFor(kind, n, folder, query) \in JobType
         /\ JobFor(kind, n, folder, query).kind = kind /\ JobFor(kind, n, folder, query).name = n
         /\ JobFor(kind, n, folder, query).folder = folder /\ JobFor(kind, n, folder, query).query = query
BY DEF JobFor, JobType

\* The jobs of q and one more.
Longer(q, r, job) ==
  /\ Len(q) \in Nat /\ DOMAIN q = 1 .. Len(q) /\ DOMAIN r = 1 .. Len(q) + 1
  /\ \A k \in DOMAIN q : r[k] = q[k] /\ k \in DOMAIN r /\ k < Len(q) + 1 /\ k \in Nat
  /\ Len(q) + 1 \in DOMAIN r /\ r[Len(q) + 1] = job
  /\ \A k \in DOMAIN r : k \in DOMAIN q \/ k = Len(q) + 1

LEMMA AppendIsLonger ==
  ASSUME NEW q \in Seq(JobType), NEW job \in JobType
  PROVE  Longer(q, Append(q, job), job) /\ Append(q, job) \in Seq(JobType)
BY LenProperties DEF Longer

LEMMA JobsOfLonger ==
  ASSUME NEW q, NEW r, NEW job, Longer(q, r, job)
  PROVE  /\ \A kind, n : HasJob(r, kind, n) <=> HasJob(q, kind, n) \/ (job.kind = kind /\ job.name = n)
         /\ (\E k \in DOMAIN r : r[k].kind = "fetch") <=> (\E k \in DOMAIN q : q[k].kind = "fetch") \/ job.kind = "fetch"
<1>1. ASSUME NEW kind, NEW n
      PROVE  HasJob(r, kind, n) <=> HasJob(q, kind, n) \/ (job.kind = kind /\ job.name = n)
  BY DEF Longer, HasJob
<1> QED BY <1>1 DEF Longer

\* The jobs of q but for the first.
Shorter(q, r) ==
  /\ 1 \in DOMAIN q /\ r \in Seq(JobType)
  /\ \A k \in DOMAIN q : k \in Nat /\ (k = 1 \/ (k > 1 /\ k - 1 \in DOMAIN r /\ r[k - 1] = q[k]))
  /\ \A k \in DOMAIN r : k \in Nat /\ k + 1 \in DOMAIN q /\ k + 1 > 1 /\ r[k] = q[k + 1]

LEMMA TailIsShorter ==
  ASSUME NEW q \in Seq(JobType), q # <<>>
  PROVE  Shorter(q, Tail(q)) /\ Head(q) = q[1] /\ q[1] \in JobType
<1>1. /\ Len(q) \in Nat \ {0} /\ DOMAIN q = 1 .. Len(q)
  BY EmptySeq, LenProperties
<1>2. /\ Tail(q) \in Seq(JobType) /\ Len(Tail(q)) = Len(q) - 1
      /\ \A k \in 1 .. Len(Tail(q)) : Tail(q)[k] = q[k + 1]
  BY HeadTailProperties
<1>3. DOMAIN Tail(q) = 1 .. Len(q) - 1
  BY <1>2, LenProperties
<1>4. 1 \in DOMAIN q /\ Head(q) = q[1]
  BY <1>1
<1>5. q[1] \in JobType
  BY <1>1, ElementOfSeq
<1> DEFINE r == Tail(q)
<1>6. DOMAIN r = 1 .. Len(q) - 1 /\ \A k \in 1 .. Len(q) - 1 : r[k] = q[k + 1]
  BY <1>2, <1>3
<1> HIDE DEF r
<1>7. ASSUME NEW k \in DOMAIN q
      PROVE  k \in Nat /\ (k = 1 \/ (k > 1 /\ k - 1 \in DOMAIN r /\ r[k - 1] = q[k]))
  BY <1>1, <1>6
<1>8. ASSUME NEW k \in DOMAIN r
      PROVE  k \in Nat /\ k + 1 \in DOMAIN q /\ k + 1 > 1 /\ r[k] = q[k + 1]
  BY <1>1, <1>6
<1>9. r \in Seq(JobType)
  BY <1>2 DEF r
<1>10. Shorter(q, r)
  BY <1>4, <1>7, <1>8, <1>9 DEF Shorter
<1> QED BY <1>4, <1>5, <1>10 DEF r

LEMMA JobsOfShorter ==
  ASSUME NEW q, NEW r, Shorter(q, r)
  PROVE  /\ \A kind, n : HasJob(r, kind, n) => HasJob(q, kind, n)
         /\ \A kind, n : HasJob(q, kind, n) => HasJob(r, kind, n) \/ (q[1].kind = kind /\ q[1].name = n)
         /\ (\E k \in DOMAIN r : r[k].kind = "fetch") => \E k \in DOMAIN q : q[k].kind = "fetch"
         /\ (\E k \in DOMAIN q : q[k].kind = "fetch") => q[1].kind = "fetch" \/ \E k \in DOMAIN r : r[k].kind = "fetch"
<1>1. ASSUME NEW kind, NEW n, HasJob(r, kind, n)
      PROVE  HasJob(q, kind, n)
  BY <1>1 DEF Shorter, HasJob
<1>2. ASSUME NEW kind, NEW n, HasJob(q, kind, n)
      PROVE  HasJob(r, kind, n) \/ (q[1].kind = kind /\ q[1].name = n)
  BY <1>2 DEF Shorter, HasJob
<1> QED BY <1>1, <1>2 DEF Shorter

\* Deletions, when a job is added that is none.
LEMMA DeletionsOfLonger ==
  ASSUME NEW s, NEW t, NEW job, Deletions(s), Longer(s.session, t.session, job), job.kind # "delete",
         \A n \in Names : HasJob(s.session, "delete", n) =>
           t.folders[n].id = s.folders[n].id /\ t.handle[n] = s.handle[n],
         s \in HelperType
  PROVE  Deletions(t)
<1> SUFFICES ASSUME NEW k \in DOMAIN t.session, t.session[k].kind = "delete"
             PROVE  /\ t.session[k].folder = t.folders[t.session[k].name].id
                    /\ t.handle[t.session[k].name] = NoFolder
                    /\ \A m \in DOMAIN t.session : m < k =>
                         t.session[m].kind = "delete" /\ t.session[m].name # t.session[k].name
  BY DEF Deletions
<1>1. k \in DOMAIN s.session /\ t.session[k] = s.session[k] /\ k < Len(s.session) + 1 /\ k \in Nat
  BY DEF Longer
<1>2. s.session[k] \in JobType /\ s.session[k].name \in Names
  BY <1>1, HelperFields, ElementOfSeq, JobFields DEF Longer
<1>3. HasJob(s.session, "delete", s.session[k].name)
  BY <1>1 DEF HasJob
<1>4. /\ s.session[k].folder = s.folders[s.session[k].name].id /\ s.handle[s.session[k].name] = NoFolder
      /\ \A m \in DOMAIN s.session : m < k => s.session[m].kind = "delete" /\ s.session[m].name # s.session[k].name
  BY <1>1 DEF Deletions
<1>5. ASSUME NEW m \in DOMAIN t.session, m < k
      PROVE  t.session[m].kind = "delete" /\ t.session[m].name # t.session[k].name
  BY <1>1, <1>4, <1>5 DEF Longer
<1> QED BY <1>1, <1>2, <1>3, <1>4, <1>5

LEMMA UpdateKeeps ==
  ASSUME NEW s, NEW behind \in SUBSET Names, Showing(s, behind), NEW n \in Names
  PROVE  Showing(UpdateSearchCollection(s, n), behind \ {n})
<1> DEFINE kind == IF s.handle[n] = NoFolder THEN "create" ELSE "modify"
           t == UpdateSearchCollection(s, n)
           q == s.session
<1>1. PICK job : job = JobFor(kind, n, s.handle[n], s.identities)
  OBVIOUS
<1>2. /\ s \in HelperType /\ s.enabled = TRUE /\ q \in Seq(JobType)
      /\ s.handle[n] \in Nat /\ s.identities \in Nat
  BY HelperFields DEF Showing
<1>3. kind \in {"create", "modify", "delete"} /\ (kind = "create" <=> s.handle[n] = NoFolder)
      /\ (kind = "modify" <=> s.handle[n] # NoFolder)
  OBVIOUS
<1> HIDE DEF kind
<1>4. /\ job \in JobType /\ job.kind = kind /\ job.name = n /\ job.folder = s.handle[n]
      /\ job.query = s.identities
  BY <1>1, <1>2, <1>3, JobsTyped
<1>5. t = [s EXCEPT !.session = Append(q, job)]
  BY <1>1 DEF UpdateSearchCollection, Asked, kind
<1> HIDE DEF t, q
<1>6. PICK r : r = Append(q, job)
  OBVIOUS
<1>7. Longer(q, r, job) /\ r \in Seq(JobType)
  BY <1>2, <1>4, <1>6, AppendIsLonger
<1>8. /\ t \in HelperType /\ t.session = r /\ t.enabled = TRUE /\ t.handle = s.handle /\ t.folders = s.folders
      /\ t.identities = s.identities
  BY <1>2, <1>5, <1>6, <1>7 DEF HelperType
<1>9. /\ \A k, m : HasJob(r, k, m) <=> HasJob(q, k, m) \/ (job.kind = k /\ job.name = m)
      /\ (\E k \in DOMAIN r : r[k].kind = "fetch") <=> (\E k \in DOMAIN q : q[k].kind = "fetch") \/ job.kind = "fetch"
  BY <1>7, JobsOfLonger
<1>10. job.kind # "delete" /\ job.kind # "fetch"
  BY <1>3, <1>4
<1>11. Fetching(t) <=> Fetching(s)
  BY <1>8, <1>9, <1>10 DEF Fetching, q
<1>12. Deletions(t)
  BY <1>2, <1>7, <1>8, <1>10, DeletionsOfLonger DEF q, Showing
<1>13. (\E m \in Names : HasJob(t.session, "delete", m)) => Fetching(t)
  BY <1>8, <1>9, <1>10, <1>11 DEF Showing, q
<1>14. /\ \A m \in Names : t.handle[m] # NoFolder => t.handle[m] = t.folders[m].id
       /\ Fetching(t) \/ \A m \in Names : t.handle[m] = t.folders[m].id
  BY <1>8, <1>11 DEF Showing
<1>15. ASSUME NEW k \in DOMAIN r, r[k].kind = "modify"
       PROVE  r[k].folder = t.handle[r[k].name] /\ r[k].folder # NoFolder
  <2>1. CASE k \in DOMAIN q
    BY <1>7, <1>8, <1>15, <2>1 DEF Longer, Showing, q
  <2>2. CASE k = Len(q) + 1
    BY <1>3, <1>4, <1>7, <1>8, <1>15, <2>2 DEF Longer
  <2> QED BY <1>7, <2>1, <2>2 DEF Longer
<1>16. t.handle[n] # NoFolder => Current(t, n)
  <2> SUFFICES ASSUME t.handle[n] # NoFolder PROVE Current(t, n)
    OBVIOUS
  <2>1. job.kind = "modify"
    BY <1>3, <1>4, <1>8
  <2> DEFINE l == Len(q) + 1
  <2>2. l \in DOMAIN r /\ r[l] = job /\ \A m \in DOMAIN r : m <= l
    BY <1>7 DEF Longer
  <2> HIDE DEF l
  <2>3. l \in Updates(r, n) /\ \A m \in Updates(r, n) : m <= l
    BY <1>4, <2>1, <2>2 DEF Updates
  <2> QED BY <1>4, <1>8, <2>2, <2>3 DEF Current
<1>17. t.handle[n] = NoFolder => HasJob(r, "create", n)
  BY <1>3, <1>4, <1>8, <1>9
<1>18. ASSUME NEW m \in Names \ behind, m # n
       PROVE  /\ t.handle[m] # NoFolder => Current(t, m)
              /\ t.handle[m] = NoFolder => Fetching(t) \/ HasJob(t.session, "create", m)
  <2>1. Updates(r, m) = Updates(q, m) /\ \A k \in Updates(q, m) : r[k] = q[k]
    BY <1>4, <1>7, <1>18 DEF Updates, Longer
  <2>2. Current(s, m) => Current(t, m)
    BY <1>8, <2>1 DEF Current, q
  <2>3. /\ s.handle[m] # NoFolder => Current(s, m)
        /\ s.handle[m] = NoFolder => Fetching(s) \/ HasJob(q, "create", m)
    BY <1>18 DEF Showing, q
  <2> QED BY <1>8, <1>9, <1>11, <2>2, <2>3
<1>19. ASSUME NEW m \in Names \ (behind \ {n})
       PROVE  /\ t.handle[m] # NoFolder => Current(t, m)
              /\ t.handle[m] = NoFolder => Fetching(t) \/ HasJob(t.session, "create", m)
  BY <1>8, <1>16, <1>17, <1>18
<1>20. Showing(t, behind \ {n})
  BY <1>8, <1>12, <1>13, <1>14, <1>15, <1>19 DEF Showing
<1> QED BY <1>20 DEF t

LEMMA UpdatedAll ==
  ASSUME NEW s, Showing(s, Names)
  PROVE  Showing(UpdateInvitations(s), {})
<1>1. "OpenInvitations" \in Names /\ "DeclinedInvitations" \in Names
      /\ (Names \ {"OpenInvitations"}) \ {"DeclinedInvitations"} = {}
  BY DEF Names
<1>2. PICK t : t = UpdateSearchCollection(s, "OpenInvitations")
  OBVIOUS
<1>3. Showing(t, Names \ {"OpenInvitations"})
  BY <1>1, <1>2, UpdateKeeps
<1>4. Showing(UpdateSearchCollection(t, "DeclinedInvitations"), (Names \ {"OpenInvitations"}) \ {"DeclinedInvitations"})
  BY <1>1, <1>3, UpdateKeeps
<1> QED BY <1>1, <1>2, <1>4 DEF UpdateInvitations

\* One collection less to remove.
LEMMA DismissedKeeps ==
  ASSUME NEW s, NEW left \in SUBSET Names, Hiding(s, left), NEW n \in left
  PROVE  Hiding(Dismissed(s, n), left \ {n})
<1> DEFINE q == s.session
<1>1. /\ s \in HelperType /\ s.enabled = FALSE /\ Deletions(s) /\ q \in Seq(JobType)
      /\ s.handle \in [Names -> Nat] /\ s.handle[n] \in Nat /\ n \in Names
      /\ \A m \in left : s.handle[m] = s.folders[m].id /\ ~HasJob(q, "delete", m)
      /\ \A m \in Names \ left : s.handle[m] = NoFolder
      /\ \A k \in DOMAIN q : q[k].kind = "delete"
      /\ \A m \in Names \ left : s.folders[m].id # NoFolder => HasJob(q, "delete", m)
  BY HelperFields DEF Hiding
<1> HIDE DEF q
<1>2. CASE s.handle[n] = NoFolder
  BY <1>1, <1>2 DEF Dismissed, Hiding, q
<1>3. CASE s.handle[n] # NoFolder
  <2>1. PICK job : job = JobFor("delete", n, s.handle[n], 0)
    OBVIOUS
  <2>2. PICK handle : handle = [s.handle EXCEPT ![n] = NoFolder]
    OBVIOUS
  <2>3. PICK r : r = Append(q, job)
    OBVIOUS
  <2>4. PICK t : t = [s EXCEPT !.session = r, !.handle = handle]
    OBVIOUS
  <2>5. Dismissed(s, n) = t
    <3>1. Dismissed(s, n) = [Asked(s, job) EXCEPT !.handle[n] = NoFolder]
      BY <1>3, <2>1 DEF Dismissed
    <3>2. PICK u : u = [s EXCEPT !.session = r]
      OBVIOUS
    <3>3. Asked(s, job) = u
      BY <2>3, <3>2 DEF Asked, q
    <3>4. u.handle = s.handle
      BY <1>1, <3>2 DEF HelperType
    <3>5. [u EXCEPT !.handle[n] = NoFolder] = [u EXCEPT !.handle = handle]
      BY <2>2, <3>4
    <3> QED BY <2>4, <3>1, <3>2, <3>3, <3>5
  <2>6. 0 \in Nat /\ NoFolder \in Nat
    BY DEF NoFolder
  <2>7. /\ job \in JobType /\ job.kind = "delete" /\ job.name = n /\ job.folder = s.handle[n]
    BY <1>1, <2>1, <2>6, JobsTyped
  <2>8. /\ handle \in [Names -> Nat] /\ handle[n] = NoFolder
        /\ \A m \in Names : m # n => handle[m] = s.handle[m]
    BY <1>1, <2>2, <2>6
  <2>9. Longer(q, r, job) /\ r \in Seq(JobType)
    BY <1>1, <2>3, <2>7, AppendIsLonger
  <2>10. /\ t \in HelperType /\ t.session = r /\ t.handle = handle /\ t.enabled = FALSE /\ t.folders = s.folders
    BY <1>1, <2>4, <2>8, <2>9 DEF HelperType
  <2>11. \A k, m : HasJob(r, k, m) <=> HasJob(q, k, m) \/ (job.kind = k /\ job.name = m)
    BY <2>9, JobsOfLonger
  <2>12. \A k \in DOMAIN r : r[k].kind = "delete"
    BY <1>1, <2>7, <2>9 DEF Longer
  <2>13. \A k \in DOMAIN q : q[k].name # n
    BY <1>1 DEF HasJob
  <2>14. \A k \in DOMAIN q : q[k].name \in Names
    BY <1>1, <2>9, ElementOfSeq, JobFields DEF Longer
  <2>15. ASSUME NEW k \in DOMAIN r
         PROVE  /\ r[k].folder = t.folders[r[k].name].id /\ t.handle[r[k].name] = NoFolder
                /\ \A m \in DOMAIN r : m < k => r[m].kind = "delete" /\ r[m].name # r[k].name
    <3>1. CASE k \in DOMAIN q
      <4>1. /\ r[k] = q[k] /\ k < Len(q) + 1 /\ k \in Nat /\ q[k].name \in Names /\ q[k].name # n
            /\ Len(q) \in Nat
        BY <2>9, <2>13, <2>14, <3>1 DEF Longer
      <4>2. /\ q[k].folder = s.folders[q[k].name].id /\ s.handle[q[k].name] = NoFolder
            /\ \A m \in DOMAIN q : m < k => q[m].kind = "delete" /\ q[m].name # q[k].name
        BY <1>1, <3>1 DEF Deletions, q
      <4>3. \A m \in DOMAIN r : m < k => m \in DOMAIN q /\ r[m] = q[m]
        BY <2>9, <4>1 DEF Longer
      <4> QED BY <2>8, <2>10, <4>1, <4>2, <4>3
    <3>2. CASE k = Len(q) + 1
      <4>1. r[k] = job
        BY <2>9, <3>2 DEF Longer
      <4>2. \A m \in DOMAIN r : m < k => m \in DOMAIN q /\ r[m] = q[m]
        BY <2>9, <3>2 DEF Longer
      <4>3. job.folder = s.folders[n].id
        BY <1>1, <2>7
      <4> QED BY <2>7, <2>8, <2>10, <2>12, <2>13, <4>1, <4>2, <4>3
    <3> QED BY <2>9, <3>1, <3>2 DEF Longer
  <2>16. Deletions(t)
    BY <2>10, <2>15 DEF Deletions
  <2>17. \A m \in left \ {n} : t.handle[m] = t.folders[m].id /\ ~HasJob(r, "delete", m)
    BY <1>1, <2>7, <2>8, <2>10, <2>11
  <2>18. \A m \in Names \ (left \ {n}) : /\ t.handle[m] = NoFolder
                                         /\ t.folders[m].id # NoFolder => HasJob(r, "delete", m)
    BY <1>1, <2>7, <2>8, <2>10, <2>11
  <2>19. Hiding(t, left \ {n})
    BY <2>10, <2>12, <2>16, <2>17, <2>18 DEF Hiding
  <2> QED BY <2>5, <2>19
<1> QED BY <1>2, <1>3

LEMMA RemovedAll ==
  ASSUME NEW s, Hiding(s, Names)
  PROVE  Hiding(RemoveSearchCollections(s), {})
<1>1. "OpenInvitations" \in Names /\ "DeclinedInvitations" \in Names \ {"OpenInvitations"}
      /\ (Names \ {"OpenInvitations"}) \ {"DeclinedInvitations"} = {}
  BY DEF Names
<1>2. PICK t : t = Dismissed(s, "OpenInvitations")
  OBVIOUS
<1>3. Hiding(t, Names \ {"OpenInvitations"})
  BY <1>1, <1>2, DismissedKeeps
<1>4. Hiding(Dismissed(t, "DeclinedInvitations"), (Names \ {"OpenInvitations"}) \ {"DeclinedInvitations"})
  BY <1>1, <1>3, DismissedKeeps
<1> QED BY <1>1, <1>2, <1>4 DEF RemoveSearchCollections

\* The first job is over.
LEMMA HelperPops ==
  ASSUME NEW s \in HelperType, s.session # <<>>, NEW r, r = Tail(s.session), NEW job, job = Head(s.session)
  PROVE  /\ [s EXCEPT !.session = Tail(@)] = [s EXCEPT !.session = r]
         /\ [s EXCEPT !.session = r] \in HelperType
         /\ Shorter(s.session, r) /\ job = s.session[1] /\ job \in JobType
BY HelperFields, TailIsShorter DEF Shorter, HelperType

\* What remains of the deletions: of other collections than that of the first job.
LEMMA DeletionsOfShorter ==
  ASSUME NEW s, NEW t, Deletions(s), Shorter(s.session, t.session),
         \A n \in Names : HasJob(t.session, "delete", n) => t.handle[n] = s.handle[n],
         \A n \in Names : t.folders[n].id = s.folders[n].id \/ ~HasJob(t.session, "delete", n)
                            \/ (s.session[1].kind = "delete" /\ s.session[1].name = n)
  PROVE  Deletions(t)
<1> DEFINE q == s.session
           r == t.session
<1> SUFFICES ASSUME NEW k \in DOMAIN r, r[k].kind = "delete"
             PROVE  /\ r[k].folder = t.folders[r[k].name].id /\ t.handle[r[k].name] = NoFolder
                    /\ \A m \in DOMAIN r : m < k => r[m].kind = "delete" /\ r[m].name # r[k].name
  BY DEF Deletions
<1>1. k \in Nat /\ k + 1 \in DOMAIN q /\ k + 1 > 1 /\ r[k] = q[k + 1] /\ 1 \in DOMAIN q /\ r \in Seq(JobType)
  BY DEF Shorter
<1> HIDE DEF q
<1>2. /\ q[k + 1].folder = s.folders[q[k + 1].name].id /\ s.handle[q[k + 1].name] = NoFolder
      /\ \A m \in DOMAIN q : m < k + 1 => q[m].kind = "delete" /\ q[m].name # q[k + 1].name
  BY <1>1 DEF Deletions, q
<1>3. r[k].name \in Names
  BY <1>1, LenProperties, ElementOfSeq, JobFields
<1>4. HasJob(r, "delete", r[k].name)
  BY DEF HasJob
<1>5. q[1].name # r[k].name
  BY <1>1, <1>2
<1>6. ASSUME NEW m \in DOMAIN r, m < k
      PROVE  r[m].kind = "delete" /\ r[m].name # r[k].name
  BY <1>1, <1>2, <1>6 DEF Shorter, q
<1>7. t.handle[r[k].name] = NoFolder /\ r[k].folder = t.folders[r[k].name].id
  BY <1>1, <1>2, <1>3, <1>4, <1>5 DEF q
<1> QED BY <1>6, <1>7

LEMMA NoDeletionsBehind ==
  ASSUME NEW s, Deletions(s), 1 \in DOMAIN s.session, DOMAIN s.session \subseteq Nat \ {0},
         s.session[1].kind # "delete"
  PROVE  \A n : ~HasJob(s.session, "delete", n)
BY DEF HasJob, Deletions

\* A modification that is done, or a job that is none.
LEMMA CurrentOfShorter ==
  ASSUME NEW s, NEW t, NEW n, Current(s, n), Shorter(s.session, t.session), t.identities = s.identities,
         t.folders[n].query = IF s.session[1].kind = "modify" /\ s.session[1].name = n THEN s.session[1].query
                              ELSE s.folders[n].query
  PROVE  Current(t, n)
<1> DEFINE q == s.session
           r == t.session
<1>1. /\ 1 \in DOMAIN q /\ \A k \in DOMAIN q : k \in Nat /\ (k = 1 \/ (k > 1 /\ k - 1 \in DOMAIN r /\ r[k - 1] = q[k]))
      /\ \A k \in DOMAIN r : k \in Nat /\ k + 1 \in DOMAIN q /\ k + 1 > 1 /\ r[k] = q[k + 1]
  BY DEF Shorter
<1> HIDE DEF q, r
<1>2. \A k \in Updates(r, n) : k \in Nat /\ k + 1 \in Updates(q, n)
  BY <1>1 DEF Updates
<1>3. \A k \in Updates(q, n) : k \in Nat /\ (k = 1 \/ (k > 1 /\ k - 1 \in Updates(r, n) /\ r[k - 1] = q[k]))
  BY <1>1 DEF Updates
<1>4. 1 \in Updates(q, n) <=> q[1].kind = "modify" /\ q[1].name = n
  BY <1>1 DEF Updates
<1>5. CASE Updates(q, n) = {} /\ s.folders[n].query = s.identities
  BY <1>2, <1>4, <1>5 DEF q, Current, r
<1>6. ASSUME NEW k \in Updates(q, n), q[k].query = s.identities, \A m \in Updates(q, n) : m <= k
      PROVE  Current(t, n)
  <2>1. CASE k = 1
    <3>1. Updates(r, n) = {}
      <4>1. ASSUME NEW m \in Updates(r, n) PROVE FALSE
        BY <1>1, <1>2, <1>6, <2>1 DEF Updates
      <4> QED BY <4>1
    <3>2. t.folders[n].query = t.identities
      BY <1>4, <1>6, <2>1 DEF q
    <3> QED BY <3>1, <3>2 DEF Current, r
  <2>2. CASE k # 1
    BY <1>2, <1>3, <1>6, <2>2 DEF Current, r
  <2> QED BY <2>1, <2>2
<1> QED BY <1>5, <1>6 DEF Current, q

\* A job other than a listing is over that leaves the known collections as they are.
LEMMA PopShows ==
  ASSUME NEW s, NEW t \in HelperType, Showing(s, {}), Shorter(s.session, t.session), s.session[1].kind # "fetch",
         t.enabled = s.enabled, t.handle = s.handle, t.identities = s.identities,
         \A n \in Names : t.folders[n].id =
           IF s.session[1].kind = "delete" /\ s.session[1].name = n THEN NoFolder ELSE s.folders[n].id,
         \A n \in Names : s.handle[n] # NoFolder => t.folders[n].query =
           IF s.session[1].kind = "modify" /\ s.session[1].name = n THEN s.session[1].query ELSE s.folders[n].query,
         \A n \in Names : s.session[1].kind = "create" /\ s.session[1].name = n => s.handle[n] # NoFolder \/ Fetching(s)
  PROVE  Showing(t, {})
<1> DEFINE q == s.session
           r == t.session
<1>1. /\ \A kind, n : HasJob(r, kind, n) => HasJob(q, kind, n)
      /\ \A kind, n : HasJob(q, kind, n) => HasJob(r, kind, n) \/ (q[1].kind = kind /\ q[1].name = n)
  BY JobsOfShorter
<1>2. Fetching(t) <=> Fetching(s)
  BY JobsOfShorter DEF Fetching
<1>3. 1 \in DOMAIN q
  BY DEF Shorter
<1> HIDE DEF q, r
<1>4. \A n \in Names : q[1].kind = "delete" /\ q[1].name = n => s.handle[n] = NoFolder
  BY <1>3 DEF Showing, Deletions, q
<1>5. Deletions(t)
  BY DeletionsOfShorter DEF Showing
<1>6. (\E n \in Names : HasJob(r, "delete", n)) => Fetching(t)
  BY <1>1, <1>2 DEF Showing, q
<1>7. /\ \A n \in Names : t.handle[n] # NoFolder => t.handle[n] = t.folders[n].id
      /\ Fetching(t) \/ \A n \in Names : t.handle[n] = t.folders[n].id
  BY <1>2, <1>4 DEF Showing, q
<1>8. ASSUME NEW k \in DOMAIN r, r[k].kind = "modify"
      PROVE  r[k].folder = t.handle[r[k].name] /\ r[k].folder # NoFolder
  BY <1>8 DEF Shorter, q, r, Showing
<1>9. ASSUME NEW n \in Names, t.handle[n] # NoFolder
      PROVE  Current(t, n)
  BY <1>9, CurrentOfShorter DEF Showing
<1>10. ASSUME NEW n \in Names, t.handle[n] = NoFolder
       PROVE  Fetching(t) \/ HasJob(r, "create", n)
  BY <1>1, <1>2, <1>10 DEF Showing, q
<1>11. t.enabled = TRUE
  BY DEF Showing
<1> QED BY <1>5, <1>6, <1>7, <1>8, <1>9, <1>10, <1>11 DEF Showing, r

\* A listing is answered while enabled.
LEMMA FetchedShows ==
  ASSUME NEW s, Showing(s, {}), s.session # <<>>, Head(s.session).kind = "fetch"
  PROVE  Showing(SearchJobEnds(s, TRUE), {})
<1>1. PICK r : r = Tail(s.session)
  OBVIOUS
<1>2. PICK job : job = Head(s.session)
  OBVIOUS
<1>3. s \in HelperType /\ s.enabled = TRUE /\ Deletions(s)
  BY DEF Showing
<1>4. PICK u : u = [s EXCEPT !.session = r]
  OBVIOUS
<1>5. /\ [s EXCEPT !.session = Tail(@)] = u /\ u \in HelperType
      /\ Shorter(s.session, r) /\ job = s.session[1] /\ job \in JobType
  BY <1>1, <1>2, <1>3, <1>4, HelperPops
<1>6. u.session = r /\ u.handle = s.handle /\ u.folders = s.folders /\ u.enabled = TRUE /\ u.identities = s.identities
  BY <1>3, <1>4 DEF HelperType
<1> DEFINE found == [n \in Names |-> IF TRUE /\ u.folders[n].id # NoFolder THEN u.folders[n].id ELSE u.handle[n]]
<1>7. PICK handle : handle = found
  OBVIOUS
<1>8. PICK t : t = [u EXCEPT !.handle = handle]
  OBVIOUS
<1>9. Served(u, job) = u
  BY <1>2 DEF Served
<1>10. SearchJobEnds(s, TRUE) = OnSearchCollectionsFetched(u, TRUE)
  BY <1>2, <1>5, <1>9 DEF SearchJobEnds
<1>11. \A n \in Names : u.folders[n].id \in Nat /\ u.handle[n] \in Nat
  BY <1>5, HelperFields
<1>12. handle \in [Names -> Nat] /\ \A n \in Names : handle[n] = u.folders[n].id
  BY <1>6, <1>7, <1>11 DEF Showing
<1>13. t \in HelperType /\ t.session = r /\ t.handle = handle /\ t.folders = s.folders /\ t.enabled = TRUE
  BY <1>5, <1>6, <1>8, <1>12 DEF HelperType
<1>14. OnSearchCollectionsFetched(u, TRUE) = UpdateInvitations(t)
  BY <1>7, <1>8, <1>13 DEF OnSearchCollectionsFetched
<1>15. \A n : ~HasJob(r, "delete", n)
  <2>1. DOMAIN s.session \subseteq Nat \ {0} /\ 1 \in DOMAIN s.session
    BY <1>3, <1>5, HelperFields, LenProperties DEF Shorter
  <2>2. \A n : ~HasJob(s.session, "delete", n)
    BY <1>2, <1>3, <1>5, <2>1, NoDeletionsBehind
  <2> QED BY <1>5, <2>2, JobsOfShorter
<1>16. Deletions(t)
  BY <1>13, <1>15 DEF HasJob, Deletions
<1>17. ASSUME NEW k \in DOMAIN r, r[k].kind = "modify"
       PROVE  r[k].folder = t.handle[r[k].name] /\ r[k].folder # NoFolder
  <2>1. k + 1 \in DOMAIN s.session /\ r[k] = s.session[k + 1]
    BY <1>5 DEF Shorter
  <2>2. r[k].folder = s.handle[r[k].name] /\ r[k].folder # NoFolder
    BY <1>17, <2>1 DEF Showing
  <2>3. r[k].name \in Names
    BY <1>5, <1>17, LenProperties, ElementOfSeq, JobFields DEF Shorter
  <2>4. s.handle[r[k].name] = s.folders[r[k].name].id
    BY <2>2, <2>3 DEF Showing
  <2> QED BY <1>6, <1>12, <1>13, <2>2, <2>3, <2>4
<1>18. Showing(t, Names)
  BY <1>6, <1>12, <1>13, <1>15, <1>16, <1>17 DEF Showing
<1>19. Showing(UpdateInvitations(t), {})
  BY <1>18, UpdatedAll
<1> QED BY <1>10, <1>14, <1>19

\* A listing is answered while disabled.
LEMMA FetchedHides ==
  ASSUME NEW s, Hiding(s, {}), s.session # <<>>, Head(s.session).kind = "fetch"
  PROVE  Hiding(SearchJobEnds(s, TRUE), {})
<1>1. PICK r : r = Tail(s.session)
  OBVIOUS
<1>2. PICK job : job = Head(s.session)
  OBVIOUS
<1>3. s \in HelperType /\ s.enabled = FALSE /\ \A n \in Names : s.handle[n] = NoFolder
  BY DEF Hiding
<1>4. PICK u : u = [s EXCEPT !.session = r]
  OBVIOUS
<1>5. /\ [s EXCEPT !.session = Tail(@)] = u /\ u \in HelperType
      /\ Shorter(s.session, r) /\ job = s.session[1] /\ job \in JobType
  BY <1>1, <1>2, <1>3, <1>4, HelperPops
<1>6. u.session = r /\ u.handle = s.handle /\ u.folders = s.folders /\ u.enabled = FALSE
  BY <1>3, <1>4 DEF HelperType
<1> DEFINE found == [n \in Names |-> IF TRUE /\ u.folders[n].id # NoFolder THEN u.folders[n].id ELSE u.handle[n]]
<1>7. PICK handle : handle = found
  OBVIOUS
<1>8. PICK t : t = [u EXCEPT !.handle = handle]
  OBVIOUS
<1>9. Served(u, job) = u
  BY <1>2 DEF Served
<1>10. SearchJobEnds(s, TRUE) = OnSearchCollectionsFetched(u, TRUE)
  BY <1>2, <1>5, <1>9 DEF SearchJobEnds
<1>11. \A n \in Names : u.folders[n].id \in Nat /\ u.handle[n] = NoFolder
  BY <1>3, <1>5, <1>6, HelperFields
<1>12. handle \in [Names -> Nat] /\ \A n \in Names : handle[n] = u.folders[n].id
  BY <1>7, <1>11 DEF NoFolder
<1>13. t \in HelperType /\ t.session = r /\ t.handle = handle /\ t.folders = s.folders /\ t.enabled = FALSE
  BY <1>5, <1>6, <1>8, <1>12 DEF HelperType
<1>14. OnSearchCollectionsFetched(u, TRUE) = RemoveSearchCollections(t)
  BY <1>7, <1>8, <1>13 DEF OnSearchCollectionsFetched
<1>15. DOMAIN r = {}
  <2>1. s.session[1].kind # "delete" /\ 1 \in DOMAIN s.session
    BY <1>2, <1>5 DEF Shorter
  <2>2. Len(s.session) = 1
    BY <2>1 DEF Hiding
  <2>3. s.session \in Seq(JobType)
    BY <1>3, HelperFields
  <2>4. DOMAIN s.session = 1 .. 1
    BY <2>2, <2>3, LenProperties
  <2> QED BY <1>5, <2>4 DEF Shorter
<1>16. Hiding(t, Names)
  BY <1>6, <1>12, <1>13, <1>15 DEF Deletions, HasJob, Hiding
<1>17. Hiding(RemoveSearchCollections(t), {})
  BY <1>16, RemovedAll
<1> QED BY <1>10, <1>14, <1>17

\* A deletion is over while disabled.
LEMMA DeletedHides ==
  ASSUME NEW s, Hiding(s, {}), s.session # <<>>, Head(s.session).kind # "fetch"
  PROVE  CanBeDone(s, Head(s.session)) /\ Hiding(SearchJobEnds(s, TRUE), {})
<1>1. PICK r : r = Tail(s.session)
  OBVIOUS
<1>2. PICK job : job = Head(s.session)
  OBVIOUS
<1>3. s \in HelperType /\ s.enabled = FALSE /\ Deletions(s) /\ \A n \in Names : s.handle[n] = NoFolder
  BY DEF Hiding
<1>4. PICK u : u = [s EXCEPT !.session = r]
  OBVIOUS
<1>5. /\ [s EXCEPT !.session = Tail(@)] = u /\ u \in HelperType
      /\ Shorter(s.session, r) /\ job = s.session[1] /\ job \in JobType /\ 1 \in DOMAIN s.session
  <2>1. /\ [s EXCEPT !.session = Tail(@)] = u /\ u \in HelperType
        /\ Shorter(s.session, r) /\ job = s.session[1] /\ job \in JobType
    BY <1>1, <1>2, <1>3, <1>4, HelperPops
  <2> QED BY <2>1 DEF Shorter
<1>6. u.session = r /\ u.handle = s.handle /\ u.folders = s.folders /\ u.enabled = FALSE
  BY <1>3, <1>4 DEF HelperType
<1>7. /\ \A k \in DOMAIN s.session : s.session[k].kind = "delete"
      /\ \A n \in Names : s.folders[n].id # NoFolder => HasJob(s.session, "delete", n)
  BY <1>2, <1>5 DEF Hiding
<1>8. job.kind = "delete" /\ job.name \in Names /\ job.folder = s.folders[job.name].id
  BY <1>3, <1>5, <1>7, JobFields DEF Deletions
<1> DEFINE none == [id |-> NoFolder, query |-> 0]
           gone == [u.folders EXCEPT ![job.name] = none]
<1>9. PICK folders : folders = gone
  OBVIOUS
<1>10. PICK t : t = [u EXCEPT !.folders = folders]
  OBVIOUS
<1>11. SearchJobEnds(s, TRUE) = t
  BY <1>2, <1>5, <1>8, <1>9, <1>10 DEF SearchJobEnds, Served
<1>12. /\ folders \in [Names -> [id : Nat, query : Nat]] /\ folders[job.name].id = NoFolder
       /\ \A n \in Names : n # job.name => folders[n] = s.folders[n]
  BY <1>3, <1>6, <1>8, <1>9, HelperFields DEF NoFolder
<1>13. /\ t \in HelperType /\ t.session = r /\ t.handle = s.handle /\ t.folders = folders
       /\ t.enabled = FALSE
  BY <1>5, <1>6, <1>10, <1>12 DEF HelperType
<1>14. Deletions(t)
  BY <1>3, <1>5, <1>8, <1>12, <1>13, DeletionsOfShorter
<1>15. \A k \in DOMAIN r : r[k].kind = "delete"
  BY <1>5, <1>7 DEF Shorter
<1>16. ASSUME NEW n \in Names, t.folders[n].id # NoFolder
       PROVE  HasJob(r, "delete", n)
  BY <1>5, <1>7, <1>12, <1>13, <1>16, JobsOfShorter
<1>17. Hiding(t, {})
  BY <1>3, <1>13, <1>14, <1>15, <1>16 DEF Hiding
<1>18. CanBeDone(s, job)
  BY <1>8 DEF CanBeDone, Exists
<1> QED BY <1>2, <1>11, <1>17, <1>18

\* A modification is over while enabled.
LEMMA ModifiedShows ==
  ASSUME NEW s, Showing(s, {}), s.session # <<>>, Head(s.session).kind = "modify"
  PROVE  CanBeDone(s, Head(s.session)) /\ Showing(SearchJobEnds(s, TRUE), {})
<1>1. PICK r : r = Tail(s.session)
  OBVIOUS
<1>2. PICK job : job = Head(s.session)
  OBVIOUS
<1>3. s \in HelperType /\ s.enabled = TRUE
  BY DEF Showing
<1>4. PICK u : u = [s EXCEPT !.session = r]
  OBVIOUS
<1>5. /\ [s EXCEPT !.session = Tail(@)] = u /\ u \in HelperType
      /\ Shorter(s.session, r) /\ job = s.session[1] /\ job \in JobType
  BY <1>1, <1>2, <1>3, <1>4, HelperPops
<1>6. u.session = r /\ u.handle = s.handle /\ u.folders = s.folders /\ u.enabled = TRUE /\ u.identities = s.identities
  BY <1>3, <1>4 DEF HelperType
<1>7. job.name \in Names /\ job.query \in Nat
  BY <1>2, <1>5, JobFields
<1>8. job.folder = s.folders[job.name].id
  <2>1. 1 \in DOMAIN s.session
    BY <1>5 DEF Shorter
  <2>2. job.folder = s.handle[job.name] /\ job.folder # NoFolder
    BY <1>2, <1>5, <2>1 DEF Showing
  <2> QED BY <1>7, <2>2 DEF Showing
<1> DEFINE one == [s.folders[job.name] EXCEPT !.query = job.query]
           done == [s.folders EXCEPT ![job.name] = one]
<1>9. PICK folders : folders = done
  OBVIOUS
<1>10. PICK t : t = [u EXCEPT !.folders = folders]
  OBVIOUS
<1>11. SearchJobEnds(s, TRUE) = t
  BY <1>2, <1>5, <1>6, <1>9, <1>10 DEF Served, SearchJobEnds
<1>12. /\ folders \in [Names -> [id : Nat, query : Nat]]
       /\ folders[job.name].query = job.query /\ folders[job.name].id = s.folders[job.name].id
       /\ \A n \in Names : n # job.name => folders[n] = s.folders[n]
  <2>1. s.folders \in [Names -> [id : Nat, query : Nat]]
    BY <1>3, HelperFields
  <2>2. one \in [id : Nat, query : Nat] /\ one.query = job.query /\ one.id = s.folders[job.name].id
    BY <1>7, <2>1
  <2> HIDE DEF one
  <2> QED BY <1>7, <1>9, <2>1, <2>2
<1>13. /\ t \in HelperType /\ t.session = r /\ t.handle = s.handle /\ t.folders = folders
       /\ t.enabled = s.enabled /\ t.identities = s.identities
  BY <1>3, <1>5, <1>6, <1>10, <1>12 DEF HelperType
<1>14. \A n \in Names : t.folders[n].id = s.folders[n].id
  BY <1>12, <1>13
<1>15. \A n \in Names : t.folders[n].query = IF job.name = n THEN job.query ELSE s.folders[n].query
  BY <1>12, <1>13
<1>16. Showing(t, {})
  <2>1. s.session[1].kind = "modify" /\ s.session[1] = job
    BY <1>2, <1>5
  <2>2. Shorter(s.session, t.session)
    BY <1>5, <1>13
  <2>3. \A n \in Names : t.folders[n].id =
          IF s.session[1].kind = "delete" /\ s.session[1].name = n THEN NoFolder ELSE s.folders[n].id
    BY <1>14, <2>1
  <2>4. \A n \in Names : s.handle[n] # NoFolder => t.folders[n].query =
          IF s.session[1].kind = "modify" /\ s.session[1].name = n THEN s.session[1].query ELSE s.folders[n].query
    BY <1>15, <2>1
  <2> QED BY <1>13, <2>1, <2>2, <2>3, <2>4, PopShows
<1>17. CanBeDone(s, job)
  BY <1>2, <1>8 DEF CanBeDone, Exists
<1> QED BY <1>2, <1>11, <1>16, <1>17

\* A deletion of before is over while enabled.
LEMMA DeletedShows ==
  ASSUME NEW s, Showing(s, {}), s.session # <<>>, Head(s.session).kind = "delete"
  PROVE  CanBeDone(s, Head(s.session)) /\ Showing(SearchJobEnds(s, TRUE), {})
<1>1. PICK r : r = Tail(s.session)
  OBVIOUS
<1>2. PICK job : job = Head(s.session)
  OBVIOUS
<1>3. s \in HelperType /\ s.enabled = TRUE /\ Deletions(s)
  BY DEF Showing
<1>4. PICK u : u = [s EXCEPT !.session = r]
  OBVIOUS
<1>5. /\ [s EXCEPT !.session = Tail(@)] = u /\ u \in HelperType
      /\ Shorter(s.session, r) /\ job = s.session[1] /\ job \in JobType
  BY <1>1, <1>2, <1>3, <1>4, HelperPops
<1>6. u.session = r /\ u.handle = s.handle /\ u.folders = s.folders /\ u.enabled = TRUE /\ u.identities = s.identities
  BY <1>3, <1>4 DEF HelperType
<1>7. job.name \in Names
  BY <1>2, <1>5, JobFields
<1>8. job.folder = s.folders[job.name].id /\ s.handle[job.name] = NoFolder
  BY <1>2, <1>3, <1>5 DEF Shorter, Deletions
<1> DEFINE none == [id |-> NoFolder, query |-> 0]
           gone == [s.folders EXCEPT ![job.name] = none]
<1>9. PICK folders : folders = gone
  OBVIOUS
<1>10. PICK t : t = [u EXCEPT !.folders = folders]
  OBVIOUS
<1>11. SearchJobEnds(s, TRUE) = t
  BY <1>2, <1>5, <1>6, <1>9, <1>10 DEF Served, SearchJobEnds
<1>12. /\ folders \in [Names -> [id : Nat, query : Nat]] /\ folders[job.name].id = NoFolder
       /\ \A n \in Names : n # job.name => folders[n] = s.folders[n]
  BY <1>3, <1>7, <1>9, HelperFields DEF NoFolder
<1>13. /\ t \in HelperType /\ t.session = r /\ t.handle = s.handle /\ t.folders = folders
       /\ t.enabled = s.enabled /\ t.identities = s.identities
  BY <1>3, <1>5, <1>6, <1>10, <1>12 DEF HelperType
<1>14. \A n \in Names : t.folders[n].id = IF job.name = n THEN NoFolder ELSE s.folders[n].id
  BY <1>12, <1>13
<1>15. \A n \in Names : s.handle[n] # NoFolder => t.folders[n].query = s.folders[n].query
  BY <1>8, <1>12, <1>13
<1>16. Showing(t, {})
  <2>1. s.session[1].kind = "delete" /\ s.session[1] = job
    BY <1>2, <1>5
  <2>2. Shorter(s.session, t.session)
    BY <1>5, <1>13
  <2>3. \A n \in Names : t.folders[n].id =
          IF s.session[1].kind = "delete" /\ s.session[1].name = n THEN NoFolder ELSE s.folders[n].id
    BY <1>14, <2>1
  <2>4. \A n \in Names : s.handle[n] # NoFolder => t.folders[n].query =
          IF s.session[1].kind = "modify" /\ s.session[1].name = n THEN s.session[1].query ELSE s.folders[n].query
    BY <1>15, <2>1
  <2> QED BY <1>13, <2>1, <2>2, <2>3, <2>4, PopShows
<1>17. CanBeDone(s, job)
  BY <1>2, <1>8 DEF CanBeDone, Exists
<1> QED BY <1>2, <1>11, <1>16, <1>17

\* A second creation is refused: the collection is there.
LEMMA RefusedShows ==
  ASSUME NEW s, Showing(s, {}), s.session # <<>>, Head(s.session).kind = "create", ~CanBeDone(s, Head(s.session))
  PROVE  Showing(SearchJobEnds(s, FALSE), {})
<1>1. PICK r : r = Tail(s.session)
  OBVIOUS
<1>2. PICK job : job = Head(s.session)
  OBVIOUS
<1>3. s \in HelperType /\ s.enabled = TRUE
  BY DEF Showing
<1>4. PICK t : t = [s EXCEPT !.session = r]
  OBVIOUS
<1>5. /\ [s EXCEPT !.session = Tail(@)] = t /\ t \in HelperType
      /\ Shorter(s.session, r) /\ job = s.session[1] /\ job \in JobType
  BY <1>1, <1>2, <1>3, <1>4, HelperPops
<1>6. t.session = r /\ t.handle = s.handle /\ t.folders = s.folders /\ t.enabled = s.enabled /\ t.identities = s.identities
  BY <1>3, <1>4 DEF HelperType
<1>7. job.name \in Names
  BY <1>2, <1>5, JobFields
<1>8. s.folders[job.name].id # NoFolder
  BY <1>2 DEF CanBeDone
<1>9. s.handle[job.name] # NoFolder \/ Fetching(s)
  BY <1>7, <1>8 DEF Showing
<1>10. SearchJobEnds(s, FALSE) = t
  BY <1>2, <1>5 DEF SearchJobEnds
<1>11. Showing(t, {})
  <2>1. s.session[1].kind = "create" /\ s.session[1].name = job.name
    BY <1>2, <1>5
  <2>2. \A n \in Names : s.session[1].kind = "create" /\ s.session[1].name = n => s.handle[n] # NoFolder \/ Fetching(s)
    BY <1>9, <2>1
  <2>3. /\ \A n \in Names : t.folders[n].id = s.folders[n].id
        /\ \A n \in Names : s.handle[n] # NoFolder => t.folders[n].query = s.folders[n].query
    BY <1>6
  <2>4. Shorter(s.session, t.session)
    BY <1>5, <1>6
  <2> QED BY <1>5, <1>6, <2>1, <2>2, <2>3, <2>4, PopShows
<1> QED BY <1>10, <1>11

\* A creation succeeds: the collection is known, and searched anew.
LEMMA CreatedShows ==
  ASSUME NEW s, Showing(s, {}), s.session # <<>>, Head(s.session).kind = "create", CanBeDone(s, Head(s.session))
  PROVE  Showing(SearchJobEnds(s, TRUE), {})
<1>1. PICK r : r = Tail(s.session)
  OBVIOUS
<1>2. PICK job : job = Head(s.session)
  OBVIOUS
<1>3. s \in HelperType /\ s.enabled = TRUE /\ Deletions(s)
  BY DEF Showing
<1>4. PICK u : u = [s EXCEPT !.session = r]
  OBVIOUS
<1>5. /\ [s EXCEPT !.session = Tail(@)] = u /\ u \in HelperType
      /\ Shorter(s.session, r) /\ job = s.session[1] /\ job \in JobType
  BY <1>1, <1>2, <1>3, <1>4, HelperPops
<1>6. /\ u.session = r /\ u.handle = s.handle /\ u.folders = s.folders /\ u.enabled = TRUE
      /\ u.identities = s.identities /\ u.next = s.next
  BY <1>3, <1>4 DEF HelperType
<1>7. /\ job.name \in Names /\ job.query \in Nat /\ s.next \in Nat \ {0}
      /\ s.folders \in [Names -> [id : Nat, query : Nat]] /\ s.handle \in [Names -> Nat]
  BY <1>2, <1>3, <1>5, HelperFields, JobFields
<1>8. s.folders[job.name].id = NoFolder
  BY <1>2 DEF CanBeDone
<1>9. s.handle[job.name] = NoFolder
  BY <1>7, <1>8 DEF Showing
<1> DEFINE new == [id |-> s.next, query |-> job.query]
           more == [s.folders EXCEPT ![job.name] = new]
           known == [s.handle EXCEPT ![job.name] = s.next]
<1>10. PICK folders : folders = more
  OBVIOUS
<1>11. PICK handle : handle = known
  OBVIOUS
<1>12. PICK v : v = [u EXCEPT !.folders = folders, !.next = s.next + 1]
  OBVIOUS
<1>13. PICK t : t = [v EXCEPT !.handle = handle]
  OBVIOUS
<1>14. /\ folders \in [Names -> [id : Nat, query : Nat]] /\ folders[job.name].id = s.next
       /\ \A n \in Names : n # job.name => folders[n] = s.folders[n]
  BY <1>7, <1>10
<1>15. /\ handle \in [Names -> Nat] /\ handle[job.name] = s.next
       /\ \A n \in Names : n # job.name => handle[n] = s.handle[n]
  BY <1>7, <1>11
<1>16. /\ v \in HelperType /\ v.session = r /\ v.handle = s.handle /\ v.folders = folders
       /\ v.enabled = TRUE /\ v.identities = s.identities
  <2>1. s.next + 1 \in Nat \ {0}
    BY <1>7
  <2> QED BY <1>5, <1>6, <1>12, <1>14, <2>1 DEF HelperType
<1>17. /\ t \in HelperType /\ t.session = r /\ t.handle = handle /\ t.folders = folders
       /\ t.enabled = TRUE /\ t.identities = s.identities
  BY <1>13, <1>15, <1>16 DEF HelperType
<1>18. SearchJobEnds(s, TRUE) = UpdateSearchCollection(t, job.name)
  <2>1. Served(u, job) = v
    BY <1>2, <1>6, <1>10, <1>12 DEF Served
  <2>2. SearchJobEnds(s, TRUE) = CreateSearchJobFinished(v, job.name)
    BY <1>2, <1>5, <2>1 DEF SearchJobEnds
  <2>3. [v EXCEPT !.handle[job.name] = v.folders[job.name].id] = t
    BY <1>11, <1>13, <1>14, <1>16
  <2> QED BY <2>2, <2>3 DEF CreateSearchJobFinished
<1>19. /\ \A kind, n : HasJob(r, kind, n) => HasJob(s.session, kind, n)
       /\ \A kind, n : HasJob(s.session, kind, n) => HasJob(r, kind, n) \/ (job.kind = kind /\ job.name = n)
  BY <1>5, JobsOfShorter
<1>20. Fetching(t) <=> Fetching(s)
  BY <1>2, <1>5, <1>17, JobsOfShorter DEF Fetching
<1>21. \A n : ~HasJob(r, "delete", n)
  <2>1. DOMAIN s.session \subseteq Nat \ {0} /\ 1 \in DOMAIN s.session
    BY <1>3, <1>5, HelperFields, LenProperties DEF Shorter
  <2>2. \A n : ~HasJob(s.session, "delete", n)
    BY <1>2, <1>3, <1>5, <2>1, NoDeletionsBehind
  <2> QED BY <1>19, <2>2
<1>22. Deletions(t)
  BY <1>17, <1>21 DEF HasJob, Deletions
<1>23. /\ \A n \in Names : t.handle[n] # NoFolder => t.handle[n] = t.folders[n].id
       /\ Fetching(t) \/ \A n \in Names : t.handle[n] = t.folders[n].id
  BY <1>14, <1>15, <1>17, <1>20 DEF Showing
<1>24. ASSUME NEW k \in DOMAIN r, r[k].kind = "modify"
       PROVE  r[k].folder = t.handle[r[k].name] /\ r[k].folder # NoFolder
  <2>1. k + 1 \in DOMAIN s.session /\ r[k] = s.session[k + 1]
    BY <1>5 DEF Shorter
  <2>2. r[k].folder = s.handle[r[k].name] /\ r[k].folder # NoFolder
    BY <1>24, <2>1 DEF Showing
  <2>3. r[k].name \in Names
    BY <1>5, <1>24, LenProperties, ElementOfSeq, JobFields DEF Shorter
  <2>4. r[k].name # job.name
    BY <1>9, <2>2
  <2> QED BY <1>15, <1>17, <2>2, <2>3, <2>4
<1>25. ASSUME NEW n \in Names \ {job.name}
       PROVE  /\ t.handle[n] # NoFolder => Current(t, n)
              /\ t.handle[n] = NoFolder => Fetching(t) \/ HasJob(r, "create", n)
  <2>1. t.handle[n] = s.handle[n] /\ t.folders[n] = s.folders[n]
    BY <1>14, <1>15, <1>17, <1>25
  <2>2. /\ s.handle[n] # NoFolder => Current(s, n)
        /\ s.handle[n] = NoFolder => Fetching(s) \/ HasJob(s.session, "create", n)
    BY <1>25 DEF Showing
  <2>3. Current(s, n) => Current(t, n)
    BY <1>2, <1>5, <1>17, <2>1, CurrentOfShorter
  <2> QED BY <1>19, <1>20, <1>25, <2>1, <2>2, <2>3
<1>26. Showing(t, {job.name})
  BY <1>17, <1>21, <1>22, <1>23, <1>24, <1>25 DEF Showing
<1>27. Showing(UpdateSearchCollection(t, job.name), {job.name} \ {job.name})
  BY <1>7, <1>26, UpdateKeeps
<1>28. {job.name} \ {job.name} = {}
  OBVIOUS
<1> QED BY <1>18, <1>27, <1>28

\* setEnabled(true): init().
LEMMA EnableShows ==
  ASSUME NEW s, Hiding(s, {})
  PROVE  Showing(SetEnabled(s, TRUE), {})
<1>1. /\ s \in HelperType /\ s.enabled = FALSE /\ Deletions(s) /\ s.session \in Seq(JobType)
      /\ \A n \in Names : s.handle[n] = NoFolder
      /\ \A k \in DOMAIN s.session : s.session[k].kind # "modify"
  <2>1. s.session \in Seq(JobType)
    BY HelperFields DEF Hiding
  <2>2. ASSUME NEW k \in DOMAIN s.session
        PROVE  s.session[k].kind # "modify"
    BY <2>1, LenProperties DEF Hiding
  <2> QED BY <2>1, <2>2 DEF Hiding
<1>2. PICK job : job = JobFor("fetch", "", NoFolder, 0)
  OBVIOUS
<1>3. job \in JobType /\ job.kind = "fetch"
  BY <1>2 DEF JobFor, JobType, NoFolder
<1>4. PICK r : r = Append(s.session, job)
  OBVIOUS
<1>5. Longer(s.session, r, job) /\ r \in Seq(JobType)
  BY <1>1, <1>3, <1>4, AppendIsLonger
<1>6. PICK t : t = [s EXCEPT !.enabled = TRUE]
  OBVIOUS
<1>7. PICK u : u = [t EXCEPT !.session = r]
  OBVIOUS
<1>8. t \in HelperType /\ t.session = s.session
  BY <1>1, <1>6 DEF HelperType
<1>9. /\ u \in HelperType /\ u.session = r /\ u.enabled = TRUE /\ u.handle = s.handle /\ u.folders = s.folders
  BY <1>1, <1>5, <1>6, <1>7 DEF HelperType
<1>10. SetEnabled(s, TRUE) = u
  BY <1>1, <1>2, <1>4, <1>6, <1>7, <1>8 DEF SetEnabled, FetchSearchCollections, Asked
<1>11. Fetching(u)
  BY <1>3, <1>5, <1>9 DEF Fetching, Longer
<1>12. Deletions(u)
  BY <1>1, <1>3, <1>5, <1>9, DeletionsOfLonger
<1>13. \A k \in DOMAIN r : r[k].kind # "modify"
  BY <1>1, <1>3, <1>5 DEF Longer
<1>14. Showing(u, {})
  BY <1>1, <1>9, <1>11, <1>12, <1>13 DEF Showing
<1> QED BY <1>10, <1>14

\* setEnabled(false): deinit(), when all jobs of init() are over.
LEMMA DisableHides ==
  ASSUME NEW s, Showing(s, {}), s.session = <<>>
  PROVE  Hiding(SetEnabled(s, FALSE), {})
<1>1. s \in HelperType /\ s.enabled = TRUE /\ DOMAIN s.session = {}
  BY DEF Showing
<1>2. PICK t : t = [s EXCEPT !.enabled = FALSE]
  OBVIOUS
<1>3. t \in HelperType /\ t.enabled = FALSE /\ t.session = s.session /\ t.handle = s.handle /\ t.folders = s.folders
  BY <1>1, <1>2 DEF HelperType
<1>4. SetEnabled(s, FALSE) = RemoveSearchCollections(t)
  BY <1>1, <1>2 DEF SetEnabled
<1>5. \A n \in Names : s.handle[n] = s.folders[n].id
  BY <1>1 DEF Showing, Fetching
<1>6. Deletions(t) /\ \A n \in Names : ~HasJob(t.session, "delete", n)
  BY <1>1, <1>3 DEF Deletions, HasJob
<1>7. Hiding(t, Names)
  BY <1>1, <1>3, <1>5, <1>6 DEF Hiding
<1>8. Hiding(RemoveSearchCollections(t), {})
  BY <1>7, RemovedAll
<1> QED BY <1>4, <1>8

\* The identities change.
LEMMA IdentitiesKept ==
  ASSUME NEW s
  PROVE  /\ Showing(s, {}) => Showing(IdentitiesChanged(s), {})
         /\ Hiding(s, {}) => Hiding(IdentitiesChanged(s), {})
<1>1. PICK t : t = [s EXCEPT !.identities = s.identities + 1]
  OBVIOUS
<1>2. ASSUME s \in HelperType
      PROVE  /\ t \in HelperType /\ t.enabled = s.enabled /\ t.session = s.session /\ t.handle = s.handle
             /\ t.folders = s.folders
  <2>1. s.identities + 1 \in Nat
    BY <1>2, HelperFields
  <2> QED BY <1>1, <1>2, <2>1 DEF HelperType
<1>3. IdentitiesChanged(s) = IF s.enabled THEN UpdateInvitations(t) ELSE t
  BY <1>1 DEF IdentitiesChanged
<1>4. ASSUME Showing(s, {})
      PROVE  Showing(IdentitiesChanged(s), {})
  <2>1. s \in HelperType /\ s.enabled = TRUE
    BY <1>4 DEF Showing
  <2>2. Showing(t, Names)
    BY <1>2, <1>4, <2>1 DEF Showing, Deletions, Fetching
  <2>3. Showing(UpdateInvitations(t), {})
    BY <2>2, UpdatedAll
  <2> QED BY <1>3, <2>1, <2>3
<1>5. ASSUME Hiding(s, {})
      PROVE  Hiding(IdentitiesChanged(s), {})
  BY <1>2, <1>3, <1>5 DEF Hiding, Deletions
<1> QED BY <1>4, <1>5

\* Every end of a job but a failure of its own.
LEMMA EndsKept ==
  ASSUME NEW s, s.session # <<>>, NEW ok \in BOOLEAN, CanBeDone(s, Head(s.session)) <=> ok
  PROVE  /\ Showing(s, {}) => Showing(SearchJobEnds(s, ok), {})
         /\ Hiding(s, {}) => Hiding(SearchJobEnds(s, ok), {})
<1>1. PICK kind : kind = Head(s.session).kind
  OBVIOUS
<1>2. kind = "fetch" => CanBeDone(s, Head(s.session))
  BY <1>1 DEF CanBeDone
<1>3. ASSUME s \in HelperType
      PROVE  kind \in {"fetch", "create", "modify", "delete"}
  BY <1>1, <1>3, HelperPops, JobFields
<1>4. ASSUME Showing(s, {})
      PROVE  Showing(SearchJobEnds(s, ok), {})
  <2>1. CASE kind = "fetch"
    BY <1>1, <1>2, <1>4, <2>1, FetchedShows
  <2>2. CASE kind = "modify"
    BY <1>1, <1>4, <2>2, ModifiedShows
  <2>3. CASE kind = "delete"
    BY <1>1, <1>4, <2>3, DeletedShows
  <2>4. CASE kind = "create" /\ ok
    BY <1>1, <1>4, <2>4, CreatedShows
  <2>5. CASE kind = "create" /\ ~ok
    BY <1>1, <1>4, <2>5, RefusedShows
  <2> QED BY <1>3, <1>4, <2>1, <2>2, <2>3, <2>4, <2>5 DEF Showing
<1>5. ASSUME Hiding(s, {})
      PROVE  Hiding(SearchJobEnds(s, ok), {})
  <2>1. CASE kind = "fetch"
    BY <1>1, <1>2, <1>5, <2>1, FetchedHides
  <2>2. CASE kind # "fetch"
    BY <1>1, <1>5, <2>2, DeletedHides
  <2> QED BY <2>1, <2>2
<1> QED BY <1>4, <1>5

-----------------------------------------------------------------------------
(* The invariant of the virtual collections.                               *)

LEMMA EnableKeepsHelper ==
  ASSUME HelperInv, Enable
  PROVE  HelperInv'
<1>1. Shape /\ past.toggled \in BOOLEAN /\ past.crossed \in BOOLEAN
  BY DEF HelperInv
<1> DEFINE c == past.calls + 1
           x == past.crossed \/ (past.toggled /\ helper.session # <<>>)
<1>2. /\ helper' = SetEnabled(helper, ~helper.enabled)
      /\ past' = [past EXCEPT !.calls = c, !.toggled = TRUE, !.crossed = x]
  BY DEF Enable, HelperStep
<1>3. x \in BOOLEAN
  OBVIOUS
<1> HIDE DEF c
<1>4. x = FALSE => past.crossed = FALSE /\ ~(past.toggled = TRUE /\ helper.session # <<>>)
  BY <1>1
<1> HIDE DEF x
<1>5. /\ DOMAIN past' = PastFields /\ past'.failures = past.failures /\ past'.toggled = TRUE /\ past'.crossed = x
  BY <1>1, <1>2 DEF Shape, PastFields
<1>6. Shape' /\ past'.toggled \in BOOLEAN /\ past'.crossed \in BOOLEAN
  BY <1>1, <1>3, <1>5 DEF Shape
<1>7. ASSUME past'.failures = 0, ~past'.crossed
      PROVE  Showing(helper', {}) \/ Hiding(helper', {})
  <2>1. x = FALSE /\ past.failures = 0
    BY <1>3, <1>5, <1>7
  <2>2. (Showing(helper, {}) /\ past.toggled) \/ Hiding(helper, {})
    BY <1>4, <2>1 DEF HelperInv
  <2>3. CASE Showing(helper, {}) /\ past.toggled
    BY <1>1, <1>2, <1>4, <2>1, <2>3, DisableHides DEF Showing
  <2>4. CASE Hiding(helper, {})
    BY <1>2, <2>4, EnableShows DEF Hiding
  <2> QED BY <2>2, <2>3, <2>4
<1> QED BY <1>5, <1>6, <1>7 DEF HelperInv

LEMMA IdentitiesKeepHelper ==
  ASSUME HelperInv, ChangeIdentities
  PROVE  HelperInv'
<1>1. Shape /\ past.toggled \in BOOLEAN /\ past.crossed \in BOOLEAN
  BY DEF HelperInv
<1> DEFINE c == past.calls + 1
<1>2. helper' = IdentitiesChanged(helper) /\ past' = [past EXCEPT !.calls = c]
  BY DEF ChangeIdentities, HelperStep
<1> HIDE DEF c
<1>3. /\ DOMAIN past' = PastFields /\ past'.failures = past.failures
      /\ past'.toggled = past.toggled /\ past'.crossed = past.crossed
  BY <1>1, <1>2 DEF Shape, PastFields
<1>4. Shape' /\ past'.toggled \in BOOLEAN /\ past'.crossed \in BOOLEAN
  BY <1>1, <1>3 DEF Shape
<1> QED BY <1>2, <1>3, <1>4, IdentitiesKept DEF HelperInv

LEMMA SearchJobKeepsHelper ==
  ASSUME HelperInv, NEW ok \in BOOLEAN, SearchJob(ok)
  PROVE  HelperInv'
<1>1. Shape /\ past.toggled \in BOOLEAN /\ past.crossed \in BOOLEAN
  BY DEF HelperInv
<1>2. PICK can : can = CanBeDone(helper, Head(helper.session))
  OBVIOUS
<1> DEFINE f == IF ok \/ ~can THEN past.failures ELSE past.failures + 1
<1>3. /\ helper.session # <<>> /\ (ok => can)
      /\ helper' = SearchJobEnds(helper, ok) /\ past' = [past EXCEPT !.failures = f]
  BY <1>2 DEF SearchJob, HelperStep
<1>4. f \in Nat /\ f >= past.failures /\ (f = 0 => past.failures = 0 /\ (ok \/ ~can))
  BY <1>1 DEF Shape
<1> HIDE DEF f
<1>5. /\ DOMAIN past' = PastFields /\ past'.failures = f
      /\ past'.toggled = past.toggled /\ past'.crossed = past.crossed
  BY <1>1, <1>3 DEF Shape, PastFields
<1>6. Shape' /\ past'.toggled \in BOOLEAN /\ past'.crossed \in BOOLEAN
  BY <1>1, <1>4, <1>5 DEF Shape
<1>7. ASSUME past'.failures = 0, ~past'.crossed
      PROVE  (Showing(helper', {}) /\ past'.toggled) \/ Hiding(helper', {})
  BY <1>2, <1>3, <1>4, <1>5, <1>7, EndsKept DEF HelperInv
<1> QED BY <1>6, <1>7 DEF HelperInv

\* The actions of the other parts leave the helper alone.
LEMMA ElsewhereHelper ==
  ASSUME HelperInv, Shape', past'.failures >= past.failures, UNCHANGED helper,
         past'.toggled = past.toggled, past'.crossed = past.crossed
  PROVE  HelperInv'
BY DEF HelperInv, Shape

LEMMA NextHelper ==
  ASSUME HelperInv, [Next]_vars
  PROVE  HelperInv'
<1>1. Shape
  BY DEF HelperInv
<1>2. CASE TodoNext
  BY <1>1, <1>2, TodoElsewhere, ElsewhereHelper DEF Elsewhere
<1>3. CASE ImportNext
  BY <1>1, <1>3, ImportElsewhere, ElsewhereHelper DEF Elsewhere
<1>4. CASE SearchNext
  BY <1>4, EnableKeepsHelper, IdentitiesKeepHelper, SearchJobKeepsHelper DEF SearchNext
<1>5. CASE CollectionsNext
  BY <1>1, <1>5, CollectionsElsewhere, ElsewhereHelper DEF Elsewhere
<1>6. CASE PublishNext
  BY <1>1, <1>6, PublishElsewhere, ElsewhereHelper
<1>7. CASE UNCHANGED vars
  BY <1>7 DEF vars, HelperInv, Shape
<1> QED BY <1>2, <1>3, <1>4, <1>5, <1>6, <1>7 DEF Next

LEMMA InitHelper == Init => HelperInv
<1> SUFFICES ASSUME Init PROVE HelperInv
  OBVIOUS
<1>1. Shape /\ past.toggled = FALSE /\ past.crossed = FALSE
  BY DEF Init, Shape, PastFields
<1>2. \E found \in SUBSET Names :
        helper = ConstructedHelper([n \in Names |-> [id |-> IF n \in found THEN 1 ELSE NoFolder, query |-> 0]])
  BY DEF Init
<1>3. PICK found \in SUBSET Names :
        helper = ConstructedHelper([n \in Names |-> [id |-> IF n \in found THEN 1 ELSE NoFolder, query |-> 0]])
  BY <1>2
<1>4. PICK folders : folders = [n \in Names |-> [id |-> IF n \in found THEN 1 ELSE NoFolder, query |-> 0]]
  OBVIOUS
<1>5. folders \in [Names -> [id : Nat, query : Nat]]
  BY <1>4 DEF NoFolder
<1>6. PICK handle : handle = [n \in Names |-> NoFolder]
  OBVIOUS
<1>7. handle \in [Names -> Nat] /\ \A n \in Names : handle[n] = NoFolder
  BY <1>6 DEF NoFolder
<1>8. PICK job : job = JobFor("fetch", "", NoFolder, 0)
  OBVIOUS
<1>9. job \in JobType /\ job.kind = "fetch"
  BY <1>8 DEF JobFor, JobType, NoFolder
<1>10. PICK q : q = Append(<<>>, job)
  OBVIOUS
<1>11. q \in Seq(JobType) /\ Len(q) = 1 /\ q[1] = job
  BY <1>9, <1>10
<1>12. PICK none : none = [enabled |-> FALSE, handle |-> handle, session |-> <<>>, folders |-> folders,
                           next |-> 10, identities |-> 1]
  OBVIOUS
<1>13. helper = [none EXCEPT !.session = q]
  BY <1>3, <1>4, <1>6, <1>8, <1>10, <1>12 DEF ConstructedHelper, FetchSearchCollections, Asked
<1>14. helper \in HelperType /\ helper.enabled = FALSE /\ helper.session = q /\ helper.handle = handle
  <2>1. <<>> \in Seq(JobType) /\ 10 \in Nat \ {0} /\ 1 \in Nat /\ FALSE \in BOOLEAN
    OBVIOUS
  <2>2. none \in HelperType /\ none.enabled = FALSE /\ none.handle = handle
    BY <1>5, <1>7, <1>12, <2>1 DEF HelperType
  <2> QED BY <1>11, <1>13, <2>2 DEF HelperType
<1>15. Deletions(helper)
  BY <1>9, <1>11, <1>14, LenProperties DEF Deletions
<1>16. Hiding(helper, {})
  BY <1>7, <1>9, <1>11, <1>14, <1>15 DEF Hiding
<1> QED BY <1>1, <1>16 DEF HelperInv

\* The two virtual collections as SearchCollectionHelper's jobs, still to be carried out, will
\* leave them: there and up to date while it is enabled, gone otherwise.
THEOREM HelperInvariance == Spec => []HelperInv
<1>1. HelperInv /\ [Next]_vars => HelperInv'
  BY NextHelper
<1> QED BY InitHelper, <1>1, PTL DEF Spec

\* Once no job of SearchCollectionHelper is left, the collections of invitations are there
\* while it is enabled, with the user's present addresses and known to it, and gone
\* otherwise, unless a job failed or setEnabled() came before the jobs of the call before
\* were over.
THEOREM CollectionsAreShown == Spec => []ShownIfEnabled
<1>1. HelperInv => ShownIfEnabled
  <2> SUFFICES ASSUME HelperInv, helper.session = <<>>, past.failures = 0, ~past.crossed, NEW n \in Names
               PROVE  /\ helper.enabled <=> helper.folders[n].id # NoFolder
                      /\ helper.enabled => helper.folders[n].query = helper.identities
                      /\ helper.handle[n] = helper.folders[n].id
    BY DEF ShownIfEnabled
  <2>1. DOMAIN helper.session = {}
    OBVIOUS
  <2>2. ~Fetching(helper) /\ \A kind : ~HasJob(helper.session, kind, n)
    BY <2>1 DEF Fetching, HasJob
  <2>3. CASE Showing(helper, {})
    BY <2>1, <2>2, <2>3 DEF Showing, Current, Updates
  <2>4. CASE Hiding(helper, {})
    BY <2>2, <2>4 DEF Hiding
  <2> QED BY <2>3, <2>4 DEF HelperInv
<1> QED BY HelperInvariance, <1>1, PTL

-----------------------------------------------------------------------------
(* The to-do list: its state and what a step leaves alone.                 *)

Rows == [Items -> [live : BOOLEAN, rev : Nat, todo : Todos]]
Kinds == {"modify", "delete"}
Callers == {"app", "purger"}
TodoJobs ==
  {j \in [kind : Kinds, by : Callers, id : Nat \ {0}, items : SUBSET Items, todo : Todos \cup {None}, rev : Nat,
          cancelled : BOOLEAN] :
     j.kind = "modify" => j.by = "app" /\ j.todo \in Todos /\ \E i \in Items : j.items = {i}}
TodoAnswers ==
  {a \in [by : Callers, kind : Kinds, id : Nat \ {0}, ok : BOOLEAN, items : SUBSET Items, todo : Todos \cup {None}] :
     a.kind = "modify" => a.by = "app" /\ a.todo \in Todos /\ \E i \in Items : a.items = {i}}
TodoChanges == [id : Nat \ {0}, item : Items, todo : Todos, rev : Nat]
TodoFields ==
  {"store", "session", "latest", "posted", "notified", "next", "waiting", "deleted", "rows", "cal", "idOf",
   "shared", "copied", "cutting", "clip", "purging", "single", "purger", "crashed"}

\* The lists of the service: jobs, answers, changes that wait and deletions.
ServiceTyped(s) ==
  /\ s.session \in Seq(TodoJobs) /\ s.posted \in Seq(TodoAnswers) /\ s.next \in Nat \ {0}
  /\ s.waiting \in [Changers -> [Items -> TodoChanges \cup {NoModification}]]
  /\ s.deleted \in [Changers -> SUBSET Items] /\ s.latest \in [Items -> Nat]
  /\ \A k \in Changers, i \in Items : s.waiting[k][i] # NoModification => k = "app" /\ s.waiting[k][i].item = i

\* What is listed, shown and kept.
ListTyped(s) ==
  /\ s.store \in Rows /\ s.rows \in Rows /\ s.cal \in Rows /\ s.notified \in Seq(Items)
  /\ s.idOf \in [Items -> Items \cup {None}] /\ s.shared \subseteq Items /\ s.copied \subseteq Todos
  /\ s.clip \in [pending : SUBSET Nat, abort : BOOLEAN, asked : Todos \cup {None}]
  /\ s.purger \in [calendar : {"none", "given", "loading", "loaded"}, items : Rows, current : Nat]
  /\ s.cutting \in BOOLEAN /\ s.purging \in BOOLEAN /\ s.single \in BOOLEAN /\ s.crashed \in BOOLEAN

TodoTyped(s) == DOMAIN s = TodoFields /\ ServiceTyped(s) /\ ListTyped(s)

\* From s to t nothing changes but the fields F.
SameBut(s, t, F) == DOMAIN s = TodoFields /\ DOMAIN t = TodoFields /\ \A f \in TodoFields \ F : t[f] = s[f]

ServiceFields == {"session", "posted", "next", "waiting", "deleted"}
\* A sequence and one more, or without its first.
LEMMA OneMore ==
  ASSUME NEW S, NEW q \in Seq(S), NEW x \in S
  PROVE  /\ Append(q, x) \in Seq(S) /\ Len(Append(q, x)) = Len(q) + 1 /\ Len(q) \in Nat
         /\ DOMAIN q = 1 .. Len(q) /\ DOMAIN Append(q, x) = 1 .. Len(q) + 1
         /\ \A n \in DOMAIN q : Append(q, x)[n] = q[n]
         /\ Append(q, x)[Len(q) + 1] = x
         /\ ToSet(Append(q, x)) = ToSet(q) \cup {x}
<1> DEFINE r == Append(q, x)
<1>1. Len(q) \in Nat /\ DOMAIN q = 1 .. Len(q)
  BY LenProperties
<1>2. r \in Seq(S) /\ Len(r) = Len(q) + 1
  OBVIOUS
<1>3. DOMAIN r = 1 .. Len(q) + 1
  BY <1>2, LenProperties
<1>4. (\A n \in DOMAIN q : r[n] = q[n]) /\ r[Len(q) + 1] = x
  BY <1>1
<1> HIDE DEF r
<1>5. ToSet(r) = ToSet(q) \cup {x}
  BY <1>1, <1>3, <1>4 DEF ToSet
<1> QED BY <1>1, <1>2, <1>3, <1>4, <1>5 DEF r

LEMMA OneLess ==
  ASSUME NEW S, NEW q \in Seq(S), q # <<>>
  PROVE  /\ Tail(q) \in Seq(S) /\ Head(q) = q[1] /\ q[1] \in S /\ Len(q) \in Nat \ {0}
         /\ DOMAIN q = 1 .. Len(q) /\ DOMAIN Tail(q) = 1 .. Len(q) - 1 /\ Len(Tail(q)) = Len(q) - 1
         /\ \A n \in DOMAIN Tail(q) : Tail(q)[n] = q[n + 1] /\ n + 1 \in DOMAIN q /\ n + 1 > 1
         /\ ToSet(q) = {Head(q)} \cup ToSet(Tail(q))
<1> DEFINE r == Tail(q)
<1>1. /\ Len(q) \in Nat \ {0} /\ DOMAIN q = 1 .. Len(q)
  BY EmptySeq, LenProperties
<1>2. /\ r \in Seq(S) /\ Len(r) = Len(q) - 1
      /\ \A k \in 1 .. Len(r) : r[k] = q[k + 1]
  BY HeadTailProperties
<1>3. DOMAIN r = 1 .. Len(q) - 1
  BY <1>2, LenProperties
<1>4. 1 \in DOMAIN q /\ Head(q) = q[1] /\ q[1] \in S
  BY <1>1, ElementOfSeq
<1> HIDE DEF r
<1>5. \A n \in DOMAIN r : r[n] = q[n + 1] /\ n + 1 \in DOMAIN q /\ n + 1 > 1
  BY <1>1, <1>2, <1>3
<1>6. \A n \in DOMAIN q : n = 1 \/ (n - 1 \in DOMAIN r /\ r[n - 1] = q[n])
  BY <1>1, <1>2, <1>3
<1>7. ToSet(q) = {Head(q)} \cup ToSet(r)
  BY <1>4, <1>5, <1>6 DEF ToSet
<1> QED BY <1>1, <1>2, <1>3, <1>4, <1>5, <1>7 DEF r

\* A set as a sequence, in an order of its own.
LEMMA SetInOrder ==
  ASSUME NEW S, IsFiniteSet(S)
  PROVE  /\ SetToSeq(S) \in Seq(S) /\ Len(SetToSeq(S)) = Cardinality(S) /\ Cardinality(S) \in Nat
         /\ DOMAIN SetToSeq(S) = 1 .. Cardinality(S) /\ ToSet(SetToSeq(S)) = S
<1> DEFINE n == Cardinality(S)
           q == SetToSeq(S)
<1>2. n \in Nat
  BY FS_CardinalityType
<1>3. PICK f : f \in Bijection(1 .. n, S)
  BY <1>2, FS_CardinalityType DEF ExistsBijection
<1>4. f \in [1 .. n -> S] /\ IsInjective(f)
  BY <1>3 DEF Bijection, Injection, IsInjective
<1>5. q \in [1 .. n -> S] /\ IsInjective(q)
  BY <1>4 DEF SetToSeq
<1> HIDE DEF q
<1>6. q \in Seq(S) /\ Len(q) = n /\ DOMAIN q = 1 .. n
  BY <1>2, <1>5, SeqDef
<1>7. ToSet(q) = S
  <2>1. ToSet(q) \subseteq S
    BY <1>5 DEF ToSet
  <2>2. q \in Injection(1 .. n, S)
    BY <1>5 DEF Injection, IsInjective
  <2>3. q \in Bijection(1 .. n, ToSet(q))
    BY <1>5, <1>6 DEF Bijection, Injection, Surjection, IsInjective, ToSet
  <2>4. IsFiniteSet(ToSet(q)) /\ Cardinality(ToSet(q)) = n
    BY <1>2, <2>1, <2>3, FS_Subset, FS_CountingElements DEF ExistsBijection
  <2> QED BY <2>1, <2>4, FS_Subset
<1> QED BY <1>2, <1>6, <1>7 DEF q

-----------------------------------------------------------------------------
(* The to-do list: calls of the changer.                                   *)

Refusal(c) == [by |-> "app", kind |-> "modify", id |-> c.id, ok |-> FALSE, items |-> {c.item}, todo |-> c.todo]
WriteJob(c, rev) ==
  [kind |-> "modify", by |-> "app", id |-> c.id, items |-> {c.item}, todo |-> c.todo, cancelled |-> FALSE, rev |-> rev]
Writing(s, i) == \E j \in ToSet(s.session) : j.kind = "modify" /\ i \in j.items

\* Change c is refused, sent to the server, or waits in the place of an older one.
Took(s, t, c) ==
  \/ /\ t.session = s.session /\ t.waiting = s.waiting /\ t.posted = Append(s.posted, Refusal(c))
  \/ /\ t.posted = s.posted /\ t.waiting = s.waiting
     /\ \E rev \in Nat : t.session = Append(s.session, WriteJob(c, rev))
  \/ /\ t.session = s.session /\ Writing(s, c.item)
     /\ t.waiting = [s.waiting EXCEPT !["app"][c.item] = c]
     /\ t.posted = IF s.waiting["app"][c.item] = NoModification THEN s.posted
                   ELSE Append(s.posted, Refusal(s.waiting["app"][c.item]))

TakenFields == {"posted", "session", "waiting"}

LEMMA JobFacts ==
  ASSUME NEW s, ServiceTyped(s)
  PROVE  /\ \A n \in DOMAIN s.session : s.session[n] \in TodoJobs
         /\ \A j \in ToSet(s.session) : j \in TodoJobs
         /\ \A a \in ToSet(s.posted) : a \in TodoAnswers
BY ElementOfSeq, LenProperties DEF ServiceTyped, ToSet

LEMMA RefusalTyped ==
  ASSUME NEW c \in TodoChanges, NEW rev \in Nat
  PROVE  /\ Refusal(c) \in TodoAnswers /\ WriteJob(c, rev) \in TodoJobs
         /\ c.id \in Nat \ {0} /\ c.item \in Items /\ c.todo \in Todos /\ c.rev \in Nat /\ c # NoModification
<1>1. /\ c.id \in Nat \ {0} /\ c.item \in Items /\ c.todo \in Todos /\ c.rev \in Nat
  BY DEF TodoChanges
<1>2. NoModification.id = 0
  BY DEF NoModification
<1>3. Refusal(c) \in TodoAnswers
  BY <1>1 DEF Refusal, TodoAnswers, Callers, Kinds
<1>4. WriteJob(c, rev) \in TodoJobs
  BY <1>1 DEF WriteJob, TodoJobs, Callers, Kinds
<1> QED BY <1>1, <1>2, <1>3, <1>4

LEMMA WritingIs ==
  ASSUME NEW s, ServiceTyped(s), NEW i
  PROVE  IsWriting(s, "app", i) <=> Writing(s, i)
BY JobFacts DEF TodoJobs, IsWriting, JobsOf, Writing, ToSet

LEMMA ServiceChanges ==
  ASSUME NEW s, NEW t, TodoTyped(s), SameBut(s, t, ServiceFields \cup {"latest"}), ServiceTyped(t)
  PROVE  TodoTyped(t)
BY DEF SameBut, TodoFields, ServiceFields, TodoTyped, ListTyped

LEMMA RefusedIs ==
  ASSUME NEW s, TodoTyped(s), NEW c \in TodoChanges
  PROVE  LET t == Refused(s, "app", c)
         IN  TodoTyped(t) /\ SameBut(s, t, {"posted"}) /\ t.posted = Append(s.posted, Refusal(c))
<1> DEFINE t == Refused(s, "app", c)
           q == Append(s.posted, Refusal(c))
<1>1. t = [s EXCEPT !.posted = q]
  BY DEF Refused, Posted, Refusal
<1>2. q \in Seq(TodoAnswers)
  BY RefusalTyped, OneMore DEF TodoTyped, ServiceTyped
<1> HIDE DEF q, t
<1>3. SameBut(s, t, {"posted"}) /\ t.posted = q
  BY <1>1 DEF TodoTyped, TodoFields, SameBut
<1>4. TodoTyped(t)
  BY <1>1, <1>2 DEF TodoTyped, TodoFields, ServiceTyped, ListTyped
<1> QED BY <1>3, <1>4 DEF q, t

LEMMA PerformedIs ==
  ASSUME NEW s, TodoTyped(s), NEW c \in TodoChanges
  PROVE  LET t == Performed(s, "app", c)
         IN  TodoTyped(t) /\ SameBut(s, t, TakenFields) /\ Took(s, t, c)
<1> DEFINE t == Performed(s, "app", c)
           i == c.item
           older == s.waiting["app"][i]
<1>1. /\ c.id \in Nat \ {0} /\ i \in Items /\ c.todo \in Todos /\ c.rev \in Nat /\ "app" \in Changers
      /\ older \in TodoChanges \cup {NoModification} /\ s.latest[i] \in Nat
  BY RefusalTyped, ItemsAssumption DEF TodoTyped, ServiceTyped
<1>2. CASE i \in s.deleted["app"]
  BY <1>2, RefusedIs DEF Performed, SameBut, TodoFields, TakenFields, Took, t
<1>3. CASE i \notin s.deleted["app"] /\ ~IsWriting(s, "app", i)
  <2> DEFINE rev == IF s.latest[i] > c.rev THEN s.latest[i] ELSE c.rev
             q == Append(s.session, WriteJob(c, rev))
  <2>1. t = [s EXCEPT !.session = q]
    BY <1>3 DEF Performed, Sent, WriteJob
  <2>2. rev \in Nat
    BY <1>1
  <2> HIDE DEF rev
  <2>3. q \in Seq(TodoJobs)
    BY <2>2, RefusalTyped, OneMore DEF TodoTyped, ServiceTyped
  <2> HIDE DEF t
  <2>4. SameBut(s, t, TakenFields) /\ t.session = q /\ t.posted = s.posted /\ t.waiting = s.waiting
    BY <2>1 DEF TodoTyped, TodoFields, SameBut, TakenFields
  <2>5. TodoTyped(t)
    BY <2>1, <2>3 DEF TodoTyped, TodoFields, ServiceTyped, ListTyped
  <2> QED BY <2>2, <2>4, <2>5 DEF Took, t
<1>4. CASE i \notin s.deleted["app"] /\ IsWriting(s, "app", i)
  <2>1. PICK r : r = IF older = NoModification THEN s ELSE Refused(s, "app", older)
    OBVIOUS
  <2>2. t = [r EXCEPT !.waiting["app"][i] = c]
    BY <1>4, <2>1 DEF Performed
  <2>3. /\ TodoTyped(r) /\ SameBut(s, r, {"posted"})
        /\ r.posted = IF older = NoModification THEN s.posted ELSE Append(s.posted, Refusal(older))
    <3>1. CASE older = NoModification
      BY <2>1, <3>1 DEF TodoTyped, SameBut
    <3>2. CASE older # NoModification
      BY <1>1, <2>1, <3>2, RefusedIs
    <3> QED BY <3>1, <3>2
  <2>4. r.waiting = s.waiting /\ r.session = s.session
    BY <2>3 DEF SameBut, TodoFields
  <2> DEFINE w == [s.waiting EXCEPT !["app"][i] = c]
  <2>5. t = [r EXCEPT !.waiting = w]
    BY <2>2, <2>4
  <2>6. /\ w \in [Changers -> [Items -> TodoChanges \cup {NoModification}]]
        /\ \A k \in Changers, x \in Items : w[k][x] # NoModification => k = "app" /\ w[k][x].item = x
    BY <1>1 DEF TodoTyped, ServiceTyped
  <2> HIDE DEF w, t
  <2>8. SameBut(r, t, {"waiting"}) /\ t.waiting = w
    BY <2>3, <2>5 DEF TodoTyped, TodoFields, SameBut
  <2>7. TodoTyped(t)
    <3>1. /\ SameBut(r, t, ServiceFields \cup {"latest"}) /\ t.session = r.session /\ t.posted = r.posted
          /\ t.next = r.next /\ t.deleted = r.deleted /\ t.latest = r.latest
      BY <2>8 DEF SameBut, ServiceFields, TodoFields
    <3>2. ServiceTyped(t)
      BY <2>3, <2>6, <2>8, <3>1 DEF TodoTyped, ServiceTyped
    <3> QED BY <2>3, <3>1, <3>2, ServiceChanges
  <2>9. SameBut(s, t, TakenFields) /\ t.session = s.session /\ t.posted = r.posted
    BY <2>3, <2>8 DEF SameBut, TodoFields, TakenFields
  <2>10. Writing(s, i)
    BY <1>4, WritingIs DEF TodoTyped
  <2> QED BY <2>3, <2>7, <2>8, <2>9, <2>10 DEF Took, w, t
<1> QED BY <1>2, <1>3, <1>4

\* modifyIncidence()
LEMMA ModifyIs ==
  ASSUME NEW s, TodoTyped(s), NEW i \in Items, NEW todo \in Todos, NEW rev \in Nat
  PROVE  LET t == Modify(s, "app", i, todo, rev)
             c == [id |-> s.next, item |-> i, todo |-> todo, rev |-> rev]
         IN  /\ TodoTyped(t) /\ SameBut(s, t, {"posted", "session", "waiting", "next"})
             /\ t.next = s.next + 1 /\ Took(s, t, c) /\ c \in TodoChanges
<1> DEFINE t == Modify(s, "app", i, todo, rev)
           c == [id |-> s.next, item |-> i, todo |-> todo, rev |-> rev]
           r == Numbered(s)
<1>1. s.next \in Nat \ {0}
  BY DEF TodoTyped, ServiceTyped
<1>2. c \in TodoChanges
  BY <1>1 DEF TodoChanges
<1>3. TodoTyped(r) /\ SameBut(s, r, {"next"}) /\ r.next = s.next + 1
  BY <1>1 DEF Numbered, TodoTyped, TodoFields, ServiceTyped, ListTyped, SameBut
<1>4. t = IF i \in Locked THEN Refused(r, "app", c) ELSE Performed(r, "app", c)
  BY DEF Modify
<1> HIDE DEF t, c, r
<1>5. r.posted = s.posted /\ r.session = s.session /\ r.waiting = s.waiting /\ (Writing(r, c.item) <=> Writing(s, c.item))
  BY <1>3 DEF SameBut, TodoFields, Writing
<1>6. TodoTyped(t) /\ SameBut(r, t, TakenFields) /\ Took(r, t, c)
  <2>1. CASE i \in Locked
    <3>1. TodoTyped(t) /\ SameBut(r, t, {"posted"}) /\ t.posted = Append(r.posted, Refusal(c))
      BY <1>2, <1>3, <1>4, <2>1, RefusedIs
    <3>2. t.session = r.session /\ t.waiting = r.waiting /\ SameBut(r, t, TakenFields)
      BY <3>1 DEF SameBut, TodoFields, TakenFields
    <3> QED BY <3>1, <3>2 DEF Took
  <2>2. CASE i \notin Locked
    BY <1>2, <1>3, <1>4, <2>2, PerformedIs
  <2> QED BY <2>1, <2>2
<1>7. SameBut(s, t, {"posted", "session", "waiting", "next"}) /\ t.next = s.next + 1
  BY <1>3, <1>6 DEF SameBut, TodoFields, TakenFields
<1>8. Took(s, t, c)
  BY <1>5, <1>6 DEF Took
<1> QED BY <1>2, <1>6, <1>7, <1>8 DEF t, c

-----------------------------------------------------------------------------
(* The to-do list: deletions, and the ends of jobs.                        *)

DeletionRefused(k, id, items) == [by |-> k, kind |-> "delete", id |-> id, ok |-> FALSE, items |-> items, todo |-> None]
DeleteJob(k, id, items) ==
  [kind |-> "delete", by |-> k, id |-> id, items |-> items, todo |-> None, rev |-> 0, cancelled |-> FALSE]

\* The jobs of q are those of p, of which some may be cancelled now.
Marked(p, q) ==
  DOMAIN q = DOMAIN p /\ Len(q) = Len(p) /\ \A n \in DOMAIN p : q[n] = p[n] \/ q[n] = [p[n] EXCEPT !.cancelled = TRUE]

LEMMA DeletionTyped ==
  ASSUME NEW k \in Callers, NEW id \in Nat \ {0}, NEW items \in SUBSET Items
  PROVE  DeletionRefused(k, id, items) \in TodoAnswers /\ DeleteJob(k, id, items) \in TodoJobs /\ k \in Changers
BY ItemsAssumption DEF DeletionRefused, TodoAnswers, Kinds, DeleteJob, TodoJobs, Callers

\* cancelTransaction()
LEMMA CancelledIs ==
  ASSUME NEW s, TodoTyped(s), NEW k \in Callers, NEW inBatch \in BOOLEAN
  PROVE  LET t == Cancelled(s, k, inBatch)
         IN  TodoTyped(t) /\ SameBut(s, t, {"session"}) /\ Marked(s.session, t.session)
<1> DEFINE t == Cancelled(s, k, inBatch)
           q == [n \in DOMAIN s.session |-> IF s.session[n].by = k THEN [s.session[n] EXCEPT !.cancelled = TRUE]
                                           ELSE s.session[n]]
<1>1. s.session \in Seq(TodoJobs) /\ DOMAIN s.session = 1 .. Len(s.session) /\ Len(s.session) \in Nat
  BY LenProperties DEF TodoTyped, ServiceTyped
<1>2. \A n \in DOMAIN s.session : s.session[n] \in TodoJobs
  BY JobFacts DEF TodoTyped
<1>3. \A j \in TodoJobs : [j EXCEPT !.cancelled = TRUE] \in TodoJobs
  BY DEF TodoJobs
<1>4. q \in Seq(TodoJobs) /\ Len(q) = Len(s.session)
  BY <1>1, <1>2, <1>3, SeqDef, LenProperties
<1>5. Marked(s.session, q)
  BY <1>4 DEF Marked
<1>6. CASE ~inBatch
  BY <1>1, <1>6 DEF Cancelled, SameBut, Marked, TodoTyped
<1>7. CASE inBatch
  <2>1. t = [s EXCEPT !.session = q]
    BY <1>7 DEF Cancelled
  <2> HIDE DEF q, t
  <2>2. SameBut(s, t, {"session"}) /\ t.session = q
    BY <2>1 DEF TodoTyped, TodoFields, SameBut
  <2>3. TodoTyped(t)
    BY <2>1, <1>4 DEF TodoTyped, TodoFields, ServiceTyped, ListTyped
  <2> QED BY <1>5, <2>2, <2>3 DEF t
<1> QED BY <1>6, <1>7

\* deleteIncidences()
DeletedFields == {"posted", "session", "deleted", "next"}
DeletionNotTaken(s, t, k, items) ==
  /\ t.deleted = s.deleted /\ t.posted = Append(s.posted, DeletionRefused(k, s.next, items))
  /\ Marked(s.session, t.session)
DeletionTaken(s, t, k, left) ==
  /\ t.posted = s.posted /\ t.session = Append(s.session, DeleteJob(k, s.next, left))
  /\ t.deleted = [s.deleted EXCEPT ![k] = @ \cup left]
LEMMA DeleteIs ==
  ASSUME NEW s, TodoTyped(s), NEW k \in Callers, NEW items \in SUBSET Items, NEW inBatch \in BOOLEAN
  PROVE  LET t == Delete(s, k, items, inBatch)
         IN  /\ TodoTyped(t) /\ SameBut(s, t, DeletedFields) /\ t.next = s.next + 1
             /\ DeletionNotTaken(s, t, k, items) \/ DeletionTaken(s, t, k, items \ s.deleted[k])
<1> DEFINE t == Delete(s, k, items, inBatch)
           left == items \ s.deleted[k]
           r == Numbered(s)
           refused == Posted(r, k, "delete", s.next, FALSE, items, None)
<1>1. s.next \in Nat \ {0} /\ s.next + 1 \in Nat \ {0} /\ k \in Changers /\ s.deleted \in [Changers -> SUBSET Items]
  BY ItemsAssumption DEF Callers, TodoTyped, ServiceTyped
<1>2. TodoTyped(r) /\ SameBut(s, r, {"next"}) /\ r.next = s.next + 1
  BY <1>1 DEF Numbered, TodoTyped, TodoFields, ServiceTyped, ListTyped, SameBut
<1>3. r.posted = s.posted /\ r.session = s.session /\ r.deleted = s.deleted
  BY <1>2 DEF SameBut, TodoFields
<1>4. \/ t = refused \/ t = Cancelled(refused, k, inBatch)
      \/ t = [r EXCEPT !.deleted[k] = @ \cup left,
                       !.session = Append(@, [kind |-> "delete", by |-> k, id |-> s.next, items |-> left,
                                              todo |-> None, rev |-> 0, cancelled |-> FALSE])]
  BY DEF Delete
<1> HIDE DEF t
<1>5. /\ TodoTyped(refused) /\ SameBut(r, refused, {"posted"})
      /\ refused.posted = Append(s.posted, DeletionRefused(k, s.next, items))
  <2> DEFINE q == Append(s.posted, DeletionRefused(k, s.next, items))
  <2>1. refused = [r EXCEPT !.posted = q]
    BY <1>3 DEF Posted, DeletionRefused
  <2>2. q \in Seq(TodoAnswers)
    BY <1>1, DeletionTyped, OneMore DEF TodoTyped, ServiceTyped
  <2> HIDE DEF q, r, refused
  <2>3. SameBut(r, refused, {"posted"}) /\ refused.posted = q
    BY <1>2, <2>1 DEF TodoTyped, TodoFields, SameBut
  <2>4. TodoTyped(refused)
    BY <1>2, <2>1, <2>2 DEF TodoTyped, TodoFields, ServiceTyped, ListTyped
  <2> QED BY <2>3, <2>4 DEF q
<1> HIDE DEF r, refused
<1>6. refused.session = s.session /\ refused.deleted = s.deleted /\ refused.next = s.next + 1 /\ SameBut(s, refused, DeletedFields)
  BY <1>2, <1>3, <1>5 DEF SameBut, TodoFields, DeletedFields
<1>7. CASE t = refused
  BY <1>5, <1>6, <1>7 DEF Marked, t, DeletionNotTaken
<1>8. CASE t = Cancelled(refused, k, inBatch)
  BY <1>5, <1>6, <1>8, CancelledIs DEF SameBut, TodoFields, DeletedFields, t, DeletionNotTaken
<1>9. CASE t = [r EXCEPT !.deleted[k] = @ \cup left,
                         !.session = Append(@, [kind |-> "delete", by |-> k, id |-> s.next, items |-> left,
                                                todo |-> None, rev |-> 0, cancelled |-> FALSE])]
  <2> DEFINE q == Append(s.session, DeleteJob(k, s.next, left))
             d == [s.deleted EXCEPT ![k] = @ \cup left]
  <2>1. t = [r EXCEPT !.deleted = d, !.session = q]
    BY <1>3, <1>9 DEF DeleteJob
  <2>2. q \in Seq(TodoJobs)
    BY <1>1, DeletionTyped, OneMore DEF TodoTyped, ServiceTyped
  <2>3. d \in [Changers -> SUBSET Items]
    BY <1>1
  <2> HIDE DEF q, d, left
  <2>4. TodoTyped(t)
    BY <1>2, <2>1, <2>2, <2>3 DEF TodoTyped, TodoFields, ServiceTyped, ListTyped
  <2>5. SameBut(r, t, {"deleted", "session"}) /\ t.session = q /\ t.deleted = d
    BY <1>2, <2>1 DEF TodoTyped, TodoFields, SameBut
  <2>6. t.posted = s.posted /\ t.next = s.next + 1 /\ SameBut(s, t, DeletedFields)
    BY <1>2, <1>3, <2>5 DEF SameBut, TodoFields, DeletedFields
  <2> QED BY <2>4, <2>5, <2>6 DEF q, d, t, left, DeletionTaken
<1> QED BY <1>4, <1>7, <1>8, <1>9

AnswerTo(job, ok) ==
  [by |-> job.by, kind |-> job.kind, id |-> job.id, ok |-> ok, items |-> job.items, todo |-> job.todo]

LEMMA AnsweredIs ==
  ASSUME NEW s, TodoTyped(s), NEW job \in TodoJobs, NEW ok \in BOOLEAN
  PROVE  LET t == Answered(s, job, ok)
         IN  TodoTyped(t) /\ SameBut(s, t, {"posted"}) /\ t.posted = Append(s.posted, AnswerTo(job, ok))
<1> DEFINE t == Answered(s, job, ok)
           q == Append(s.posted, AnswerTo(job, ok))
<1>1. t = [s EXCEPT !.posted = q]
  BY DEF Answered, Posted, AnswerTo
<1>2. q \in Seq(TodoAnswers)
  BY OneMore DEF TodoTyped, ServiceTyped, AnswerTo, TodoJobs, TodoAnswers
<1> HIDE DEF q, t
<1>3. SameBut(s, t, {"posted"}) /\ t.posted = q
  BY <1>1 DEF TodoTyped, TodoFields, SameBut
<1>4. TodoTyped(t)
  BY <1>1, <1>2 DEF TodoTyped, TodoFields, ServiceTyped, ListTyped
<1> QED BY <1>3, <1>4 DEF q, t

LEMMA EarlierJobs ==
  ASSUME NEW s, TodoTyped(s), s.session # <<>>
  PROVE  LET t == [s EXCEPT !.session = Tail(@)]
         IN  TodoTyped(t) /\ SameBut(s, t, {"session"}) /\ t.session = Tail(s.session) /\ Head(s.session) \in TodoJobs
<1> DEFINE t == [s EXCEPT !.session = Tail(@)]
           q == Tail(s.session)
<1>1. q \in Seq(TodoJobs) /\ Head(s.session) \in TodoJobs
  BY OneLess DEF TodoTyped, ServiceTyped
<1>2. t = [s EXCEPT !.session = q]
  OBVIOUS
<1> HIDE DEF t, q
<1>3. SameBut(s, t, {"session"}) /\ t.session = q
  BY <1>2 DEF TodoTyped, TodoFields, SameBut
<1>4. TodoTyped(t)
  BY <1>1, <1>2 DEF TodoTyped, TodoFields, ServiceTyped, ListTyped
<1> QED BY <1>1, <1>3, <1>4 DEF t, q

\* performNextModification()
WaitsNoMore(s, t, i) ==
  TodoTyped(t) /\ SameBut(s, t, {"waiting"}) /\ t.waiting = [s.waiting EXCEPT !["app"][i] = NoModification]

LEMMA ContinuedIs ==
  ASSUME NEW s, TodoTyped(s), NEW i \in Items
  PROVE  LET t == Continued(s, "app", i)
             c == s.waiting["app"][i]
         IN  /\ TodoTyped(t) /\ SameBut(s, t, TakenFields)
             /\ \/ c = NoModification /\ t = s
                \/ /\ c # NoModification /\ c \in TodoChanges /\ c.item = i
                   /\ \E u : WaitsNoMore(s, u, i) /\ SameBut(u, t, TakenFields) /\ Took(u, t, c)
<1> DEFINE t == Continued(s, "app", i)
           c == s.waiting["app"][i]
<1>1. "app" \in Changers /\ s.waiting \in [Changers -> [Items -> TodoChanges \cup {NoModification}]]
  BY ItemsAssumption DEF TodoTyped, ServiceTyped
<1>2. CASE c = NoModification
  BY <1>2 DEF Continued, SameBut, TodoTyped
<1>3. CASE c # NoModification
  <2>1. c \in TodoChanges /\ c.item = i
    BY <1>1, <1>3 DEF TodoTyped, ServiceTyped
  <2> DEFINE w == [s.waiting EXCEPT !["app"][i] = NoModification]
             u == [s EXCEPT !.waiting = w]
  <2>2. t = Performed(u, "app", c)
    BY <1>3 DEF Continued
  <2>3. /\ w \in [Changers -> [Items -> TodoChanges \cup {NoModification}]]
        /\ \A k \in Changers, x \in Items : w[k][x] # NoModification => k = "app" /\ w[k][x].item = x
    BY <1>1 DEF TodoTyped, ServiceTyped
  <2> HIDE DEF w
  <2>4. SameBut(s, u, {"waiting"}) /\ u.waiting = w
    BY DEF TodoTyped, TodoFields, SameBut
  <2> HIDE DEF u, t
  <2>5. TodoTyped(u)
    <3>1. /\ SameBut(s, u, ServiceFields \cup {"latest"}) /\ u.session = s.session /\ u.posted = s.posted
          /\ u.next = s.next /\ u.deleted = s.deleted /\ u.latest = s.latest
      BY <2>4 DEF SameBut, ServiceFields, TodoFields
    <3>2. ServiceTyped(u)
      BY <2>3, <2>4, <3>1 DEF TodoTyped, ServiceTyped
    <3> QED BY <3>1, <3>2, ServiceChanges
  <2>6. TodoTyped(t) /\ SameBut(u, t, TakenFields) /\ Took(u, t, c)
    BY <2>1, <2>2, <2>5, PerformedIs
  <2>7. SameBut(s, t, TakenFields)
    BY <2>4, <2>6 DEF SameBut, TodoFields, TakenFields
  <2>8. WaitsNoMore(s, u, i)
    BY <2>4, <2>5 DEF WaitsNoMore, w
  <2> QED BY <1>3, <2>1, <2>6, <2>7, <2>8 DEF t
<1> QED BY <1>2, <1>3

\* The job of a modification is over, and its answer is posted.
Wrote(s, m, ok) ==
  LET job == Head(s.session)
  IN  /\ TodoTyped(m) /\ SameBut(s, m, {"session", "posted", "store", "latest", "notified"})
      /\ m.session = Tail(s.session) /\ m.posted = Append(s.posted, AnswerTo(job, ok))
      /\ IF ok THEN \E i \in Items, r \in Nat : /\ job.items = {i} /\ m.notified = Append(s.notified, i)
                                                /\ m.store = [s.store EXCEPT ![i] = [live |-> TRUE, rev |-> r, todo |-> job.todo]]
         ELSE m.store = s.store /\ m.notified = s.notified /\ m.latest = s.latest

LEMMA WrittenIs ==
  ASSUME NEW s, TodoTyped(s), s.session # <<>>, NEW ok \in BOOLEAN, Head(s.session).kind = "modify"
  PROVE  \E i \in Items : \E m : /\ Head(s.session).items = {i} /\ Wrote(s, m, ok)
                                 /\ JobEnds(s, ok) = Continued(m, "app", i)
<1> DEFINE job == Head(s.session)
           t == [s EXCEPT !.session = Tail(@)]
<1>1. TodoTyped(t) /\ SameBut(s, t, {"session"}) /\ t.session = Tail(s.session) /\ job \in TodoJobs
  BY EarlierJobs
<1> HIDE DEF t
<1>2. job.by = "app" /\ job.todo \in Todos /\ \E i \in Items : job.items = {i}
  BY <1>1 DEF TodoJobs
<1>3. PICK i \in Items : job.items = {i}
  BY <1>2
<1>4. (CHOOSE x \in job.items : TRUE) = i
  BY <1>3
<1>5. CASE ~ok
  <2> DEFINE m == Answered(t, job, FALSE)
  <2>1. JobEnds(s, ok) = Continued(m, "app", i)
    BY <1>2, <1>4, <1>5 DEF JobEnds, Failed, t
  <2> HIDE DEF m, job
  <2>2. TodoTyped(m) /\ SameBut(t, m, {"posted"}) /\ m.posted = Append(t.posted, AnswerTo(job, FALSE))
    BY <1>1, AnsweredIs DEF m
  <2>3. /\ SameBut(s, m, {"session", "posted", "store", "latest", "notified"}) /\ m.session = t.session
        /\ m.store = s.store /\ m.notified = s.notified /\ m.latest = s.latest /\ t.posted = s.posted
    BY <1>1, <2>2 DEF SameBut, TodoFields
  <2>4. Wrote(s, m, ok)
    BY <1>1, <1>5, <2>2, <2>3 DEF Wrote, job
  <2> QED BY <1>3, <2>1, <2>4 DEF job
<1>6. CASE ok
  <2> DEFINE r == t.store[i].rev + 1
             st == [t.store EXCEPT ![i] = [live |-> TRUE, rev |-> r, todo |-> job.todo]]
             la == [t.latest EXCEPT ![i] = r]
             w == [t EXCEPT !.store = st, !.latest = la]
             v == Notified(w, {i})
             m == Answered(v, job, TRUE)
  <2>1. JobEnds(s, ok) = Continued(m, "app", i)
    BY <1>2, <1>4, <1>6 DEF JobEnds, t, Written, v
  <2> HIDE DEF job
  <2>2. r \in Nat
    BY <1>1 DEF TodoTyped, ListTyped, Rows
  <2>3. st \in Rows /\ la \in [Items -> Nat]
    BY <1>1, <1>2, <2>2 DEF TodoTyped, ListTyped, ServiceTyped, Rows
  <2> HIDE DEF st, la
  <2>4. /\ SameBut(t, w, {"store", "latest"}) /\ w.store = st /\ w.latest = la
    BY <1>1 DEF TodoTyped, TodoFields, SameBut
  <2> HIDE DEF w
  <2>5. TodoTyped(w)
    <3>1. /\ w.session = t.session /\ w.posted = t.posted /\ w.next = t.next /\ w.waiting = t.waiting
          /\ w.deleted = t.deleted /\ DOMAIN w = DOMAIN t
      BY <2>4 DEF SameBut, TodoFields
    <3>2. ServiceTyped(w)
      BY <1>1, <2>3, <2>4, <3>1 DEF TodoTyped, ServiceTyped
    <3>3. /\ w.rows = t.rows /\ w.cal = t.cal /\ w.notified = t.notified /\ w.idOf = t.idOf
          /\ w.shared = t.shared /\ w.copied = t.copied /\ w.clip = t.clip /\ w.purger = t.purger
          /\ w.cutting = t.cutting /\ w.purging = t.purging /\ w.single = t.single /\ w.crashed = t.crashed
      BY <2>4 DEF SameBut, TodoFields
    <3>4. ListTyped(w)
      BY <1>1, <2>3, <2>4, <3>3 DEF TodoTyped, ListTyped
    <3> QED BY <1>1, <3>1, <3>2, <3>4 DEF TodoTyped
  <2> DEFINE n == w.notified \o SetToSeq({i})
  <2>6. w.notified \o SetToSeq({i}) = Append(s.notified, i) /\ w.notified \o SetToSeq({i}) \in Seq(Items)
    <3>1. w.notified = s.notified /\ s.notified \in Seq(Items)
      BY <1>1, <2>4 DEF SameBut, TodoFields, TodoTyped, ListTyped
    <3>2. /\ SetToSeq({i}) \in Seq({i}) /\ Len(SetToSeq({i})) = 1 /\ ToSet(SetToSeq({i})) = {i}
      BY FS_Singleton, SetInOrder
    <3>3. SetToSeq({i}) = <<i>>
      <4> DEFINE q == SetToSeq({i})
      <4> HIDE DEF q
      <4>1. q \in Seq({i}) /\ Len(q) = 1
        BY <3>2 DEF q
      <4>2. q[1] = i /\ DOMAIN q = 1 .. 1
        <5>1. DOMAIN q = 1 .. Len(q)
          BY <4>1, LenProperties
        <5>2. DOMAIN q = 1 .. 1 /\ 1 \in 1 .. Len(q)
          BY <4>1, <5>1
        <5>3. q[1] \in {i}
          BY <4>1, <5>2, ElementOfSeq
        <5> QED BY <5>2, <5>3
      <4> QED BY <4>1, <4>2 DEF q
    <3>4. s.notified \o <<i>> = Append(s.notified, i)
      BY <3>1, AppendIsConcat
    <3>5. Append(s.notified, i) \in Seq(Items)
      BY <3>1, OneMore
    <3> QED BY <3>1, <3>3, <3>4, <3>5
  <2>7. v = [w EXCEPT !.notified = n]
    BY DEF Notified
  <2> HIDE DEF n, v
  <2>8. SameBut(w, v, {"notified"}) /\ v.notified = n
    BY <2>5, <2>7 DEF TodoTyped, TodoFields, SameBut
  <2>9. TodoTyped(v)
    <3>1. n \in Seq(Items) /\ DOMAIN w = TodoFields
      BY <2>5, <2>6 DEF TodoTyped, n
    <3> QED BY <2>5, <2>7, <3>1 DEF TodoTyped, TodoFields, ServiceTyped, ListTyped
  <2>10. TodoTyped(m) /\ SameBut(v, m, {"posted"}) /\ m.posted = Append(v.posted, AnswerTo(job, TRUE))
    BY <1>1, <2>9, AnsweredIs
  <2> HIDE DEF m
  <2>11. /\ SameBut(s, m, {"session", "posted", "store", "latest", "notified"}) /\ m.session = t.session
         /\ m.store = st /\ m.notified = n /\ v.posted = s.posted /\ t.store = s.store
    BY <1>1, <2>4, <2>8, <2>10 DEF SameBut, TodoFields
  <2>12. Wrote(s, m, ok)
    BY <1>1, <1>3, <1>6, <2>2, <2>6, <2>10, <2>11 DEF Wrote, job, st, n
  <2> QED BY <1>3, <2>1, <2>12 DEF job
<1> QED BY <1>5, <1>6

Gone(s, job) == {i \in job.items : s.store[i].live}
\* The job of a deletion is over: one that failed has two answers.
Deleted(s, t, ok) ==
  LET job == Head(s.session)
  IN  /\ TodoTyped(t) /\ SameBut(s, t, {"session", "posted", "store", "notified", "deleted"})
      /\ t.session = Tail(s.session)
      /\ IF ok
         THEN /\ t.deleted = s.deleted /\ t.posted = Append(s.posted, AnswerTo(job, TRUE))
              /\ t.store = [i \in Items |-> [s.store[i] EXCEPT !.live = @ /\ i \notin Gone(s, job)]]
              /\ t.notified \in Seq(Items) /\ ToSet(t.notified) = ToSet(s.notified) \cup Gone(s, job)
         ELSE /\ t.store = s.store /\ t.notified = s.notified
              /\ t.deleted = [s.deleted EXCEPT ![job.by] = @ \ job.items]
              /\ t.posted = Append(Append(s.posted, AnswerTo(job, FALSE)), AnswerTo(job, FALSE))

ListFields ==
  {"store", "notified", "rows", "cal", "idOf", "shared", "copied", "cutting", "clip", "purging", "single", "purger",
   "crashed"}
LEMMA ListChanges ==
  ASSUME NEW s, NEW t, TodoTyped(s), SameBut(s, t, ListFields), ListTyped(t)
  PROVE  TodoTyped(t)
BY DEF SameBut, TodoFields, ListFields, TodoTyped, ServiceTyped

LEMMA StoreChanges ==
  ASSUME NEW s, NEW t, TodoTyped(s), SameBut(s, t, {"store"}), t.store \in Rows
  PROVE  TodoTyped(t)
BY ListChanges DEF SameBut, ListFields, TodoFields, TodoTyped, ListTyped

LEMMA DeletionChanges ==
  ASSUME NEW s, NEW t, TodoTyped(s), SameBut(s, t, {"deleted"}), t.deleted \in [Changers -> SUBSET Items]
  PROVE  TodoTyped(t)
<1>1. SameBut(s, t, ServiceFields \cup {"latest"})
  BY DEF SameBut, ServiceFields
<1>2. /\ t.session = s.session /\ t.posted = s.posted /\ t.next = s.next /\ t.waiting = s.waiting
      /\ t.latest = s.latest
  BY DEF SameBut, TodoFields
<1>3. ServiceTyped(t)
  BY <1>2 DEF TodoTyped, ServiceTyped
<1> QED BY <1>1, <1>3, ServiceChanges

LEMMA JoinedLists ==
  ASSUME NEW S, NEW p \in Seq(S), NEW q \in Seq(S)
  PROVE  p \o q \in Seq(S) /\ ToSet(p \o q) = ToSet(p) \cup ToSet(q)
<1> DEFINE r == p \o q
<1>1. r \in Seq(S) /\ Len(p) \in Nat /\ Len(q) \in Nat /\ Len(r) = Len(p) + Len(q)
  BY ConcatProperties, LenProperties
<1>2. DOMAIN p = 1 .. Len(p) /\ DOMAIN q = 1 .. Len(q) /\ DOMAIN r = 1 .. Len(p) + Len(q)
  BY <1>1, LenProperties
<1>3. \A n \in 1 .. Len(p) + Len(q) : r[n] = IF n <= Len(p) THEN p[n] ELSE q[n - Len(p)]
  BY <1>1, ConcatProperties
<1> HIDE DEF r
<1>4. \A n \in DOMAIN r : r[n] \in ToSet(p) \cup ToSet(q)
  <2> TAKE n \in DOMAIN r
  <2>1. CASE n <= Len(p)
    BY <1>1, <1>2, <1>3, <2>1 DEF ToSet
  <2>2. CASE ~(n <= Len(p))
    <3>1. n - Len(p) \in DOMAIN q /\ r[n] = q[n - Len(p)]
      BY <1>1, <1>2, <1>3, <2>2
    <3> QED BY <3>1 DEF ToSet
  <2> QED BY <2>1, <2>2
<1>5. \A n \in DOMAIN p : p[n] \in ToSet(r)
  BY <1>1, <1>2, <1>3 DEF ToSet
<1>6. \A n \in DOMAIN q : q[n] \in ToSet(r)
  <2> TAKE n \in DOMAIN q
  <2>1. n + Len(p) \in DOMAIN r /\ ~(n + Len(p) <= Len(p)) /\ n + Len(p) - Len(p) = n
    BY <1>1, <1>2
  <2>2. r[n + Len(p)] = q[n]
    BY <1>2, <1>3, <2>1
  <2> QED BY <2>1, <2>2 DEF ToSet
<1>7. ToSet(r) = ToSet(p) \cup ToSet(q)
  BY <1>4, <1>5, <1>6 DEF ToSet
<1> QED BY <1>1, <1>7 DEF r

LEMMA DeletedIs ==
  ASSUME NEW s, TodoTyped(s), s.session # <<>>, NEW ok \in BOOLEAN, Head(s.session).kind = "delete"
  PROVE  Deleted(s, JobEnds(s, ok), ok)
<1> DEFINE job == Head(s.session)
           t == [s EXCEPT !.session = Tail(@)]
           e == JobEnds(s, ok)
<1>1. TodoTyped(t) /\ SameBut(s, t, {"session"}) /\ t.session = Tail(s.session) /\ job \in TodoJobs
  BY EarlierJobs
<1> HIDE DEF t
<1>2. job.kind = "delete" /\ job.by \in Callers /\ job.items \in SUBSET Items
  BY <1>1 DEF TodoJobs
<1>3. /\ t.store = s.store /\ t.notified = s.notified /\ t.deleted = s.deleted /\ t.posted = s.posted
  BY <1>1 DEF SameBut, TodoFields
<1>4. CASE ~ok
  <2> DEFINE d == [t.deleted EXCEPT ![job.by] = @ \ job.items]
             told == Answered(t, job, FALSE)
             m == [told EXCEPT !.deleted = d]
  <2>1. TodoTyped(told) /\ SameBut(t, told, {"posted"}) /\ told.posted = Append(t.posted, AnswerTo(job, FALSE))
    BY <1>1, AnsweredIs
  <2>2. told.deleted = t.deleted
    BY <2>1 DEF SameBut, TodoFields
  <2>3. e = Answered(m, job, FALSE)
    BY <1>2, <1>4, <2>2 DEF JobEnds, t, Failed
  <2> HIDE DEF told
  <2>4. d \in [Changers -> SUBSET Items]
    BY <1>1, <1>2, ItemsAssumption DEF TodoTyped, ServiceTyped, Callers
  <2> HIDE DEF d
  <2>5. SameBut(told, m, {"deleted"}) /\ m.deleted = d
    BY <2>1 DEF TodoTyped, TodoFields, SameBut
  <2>6. TodoTyped(m)
    BY <2>1, <2>4, <2>5, DeletionChanges
  <2> HIDE DEF m, e, job
  <2>7. TodoTyped(e) /\ SameBut(m, e, {"posted"}) /\ e.posted = Append(m.posted, AnswerTo(job, FALSE))
    BY <1>1, <2>3, <2>6, AnsweredIs
  <2>8. /\ SameBut(s, e, {"session", "posted", "store", "notified", "deleted"}) /\ e.session = t.session
        /\ e.store = t.store /\ e.notified = t.notified /\ e.deleted = d /\ m.posted = told.posted
    <3>1. \A f \in TodoFields \ {"session", "posted", "store", "notified", "deleted"} : e[f] = s[f]
      BY <1>1, <2>1, <2>5, <2>7 DEF SameBut
    <3>2. DOMAIN e = TodoFields /\ DOMAIN s = TodoFields
      BY <2>7 DEF SameBut, TodoTyped
    <3>3. /\ e.session = t.session /\ e.store = t.store /\ e.notified = t.notified /\ e.deleted = d
          /\ m.posted = told.posted
      BY <1>1, <2>1, <2>5, <2>7 DEF SameBut, TodoFields
    <3> QED BY <3>1, <3>2, <3>3 DEF SameBut
  <2> QED BY <1>1, <1>3, <1>4, <2>1, <2>7, <2>8 DEF Deleted, d, job, e
<1>5. CASE ok
  <2> DEFINE gone == Gone(s, job)
             st == [i \in Items |-> [s.store[i] EXCEPT !.live = @ /\ i \notin gone]]
             w == [t EXCEPT !.store = st]
             n == w.notified \o SetToSeq(gone)
             v == [w EXCEPT !.notified = n]
  <2>1. e = Answered(v, job, TRUE)
    <3>1. e = Removed(t, job)
      BY <1>2, <1>5 DEF JobEnds, t
    <3>2. {i \in job.items : t.store[i].live} = gone
      BY <1>3 DEF Gone
    <3>3. [t EXCEPT !.store = [i \in Items |-> [t.store[i] EXCEPT !.live = @ /\ i \notin gone]]] = w
      <4> DEFINE now == [i \in Items |-> [t.store[i] EXCEPT !.live = @ /\ i \notin gone]]
      <4>1. now = st
        BY <1>3
      <4> HIDE DEF gone, now, st
      <4>2. [t EXCEPT !.store = now] = [t EXCEPT !.store = st]
        BY <4>1
      <4> QED BY <4>2 DEF now
    <3>4. Notified(w, gone) = v
      BY DEF Notified
    <3> HIDE DEF w, v, gone
    <3> QED BY <3>1, <3>2, <3>3, <3>4 DEF Removed
  <2>2. gone \in SUBSET Items /\ IsFiniteSet(gone)
    BY <1>2, ItemsAssumption, FS_Subset DEF Gone
  <2> HIDE DEF gone
  <2>3. st \in Rows
    <3>1. s.store \in Rows
      BY DEF TodoTyped, ListTyped
    <3>2. \A i \in Items : [s.store[i] EXCEPT !.live = @ /\ i \notin gone] \in [live : BOOLEAN, rev : Nat, todo : Todos]
      <4> TAKE i \in Items
      <4>1. s.store[i] \in [live : BOOLEAN, rev : Nat, todo : Todos]
        BY <3>1 DEF Rows
      <4> DEFINE b == s.store[i].live /\ i \notin gone
      <4>2. b \in BOOLEAN
        BY <4>1
      <4> HIDE DEF b
      <4>3. [s.store[i] EXCEPT !.live = b] \in [live : BOOLEAN, rev : Nat, todo : Todos]
        BY <4>1, <4>2
      <4> QED BY <4>3 DEF b
    <3> QED BY <3>2 DEF Rows
  <2> HIDE DEF st
  <2>4. SameBut(t, w, {"store"}) /\ w.store = st
    BY <1>1 DEF TodoTyped, TodoFields, SameBut
  <2>5. TodoTyped(w)
    BY <1>1, <2>3, <2>4, StoreChanges
  <2> HIDE DEF w
  <2>6. n \in Seq(Items) /\ ToSet(n) = ToSet(s.notified) \cup gone
    <3>1. w.notified = s.notified /\ s.notified \in Seq(Items)
      BY <1>1, <2>4 DEF SameBut, TodoFields, TodoTyped, ListTyped
    <3>2. SetToSeq(gone) \in Seq(Items) /\ ToSet(SetToSeq(gone)) = gone
      BY <2>2, SetInOrder, SeqMonotonic
    <3> QED BY <3>1, <3>2, JoinedLists
  <2> HIDE DEF n
  <2>7. SameBut(w, v, {"notified"}) /\ v.notified = n
    BY <2>5 DEF TodoTyped, TodoFields, SameBut
  <2>8. TodoTyped(v)
    BY <2>5, <2>6 DEF TodoTyped, TodoFields, ServiceTyped, ListTyped
  <2> HIDE DEF v, e, job
  <2>9. TodoTyped(e) /\ SameBut(v, e, {"posted"}) /\ e.posted = Append(v.posted, AnswerTo(job, TRUE))
    BY <1>1, <2>1, <2>8, AnsweredIs
  <2>10. /\ SameBut(s, e, {"session", "posted", "store", "notified", "deleted"}) /\ e.session = t.session
         /\ e.store = st /\ e.notified = n /\ e.deleted = t.deleted /\ v.posted = t.posted
    BY <1>1, <2>4, <2>7, <2>9 DEF SameBut, TodoFields
  <2> QED BY <1>1, <1>3, <1>5, <2>6, <2>9, <2>10 DEF Deleted, st, gone, job, e
<1> QED BY <1>4, <1>5

-----------------------------------------------------------------------------
(* The to-do list: the requests that are answered in the end.              *)

\* A job, an answer or a change that waits has the number.
Alive(s, k, id) ==
  \/ \E j \in ToSet(s.session) : j.by = k /\ j.id = id
  \/ \E a \in ToSet(s.posted) : a.by = k /\ a.id = id
  \/ k = "app" /\ \E i \in Items : s.waiting["app"][i] # NoModification /\ s.waiting["app"][i].id = id

\* A change waits behind another of its item.
Waiters(s) == \A i \in Items : s.waiting["app"][i] # NoModification => Writing(s, i)

LEMMA OneMoreJob ==
  ASSUME NEW s, TodoTyped(s)
  PROVE  /\ \A j \in TodoJobs : ToSet(Append(s.session, j)) = ToSet(s.session) \cup {j}
         /\ \A a \in TodoAnswers : ToSet(Append(s.posted, a)) = ToSet(s.posted) \cup {a}
         /\ \A a, b \in TodoAnswers : ToSet(Append(Append(s.posted, a), b)) = ToSet(s.posted) \cup {a, b}
<1>1. s.session \in Seq(TodoJobs) /\ s.posted \in Seq(TodoAnswers)
  BY DEF TodoTyped, ServiceTyped
<1>2. ASSUME NEW j \in TodoJobs
      PROVE  ToSet(Append(s.session, j)) = ToSet(s.session) \cup {j}
  BY <1>1, OneMore
<1>3. ASSUME NEW a \in TodoAnswers
      PROVE  ToSet(Append(s.posted, a)) = ToSet(s.posted) \cup {a} /\ Append(s.posted, a) \in Seq(TodoAnswers)
  BY <1>1, OneMore
<1>4. ASSUME NEW a \in TodoAnswers, NEW b \in TodoAnswers
      PROVE  ToSet(Append(Append(s.posted, a), b)) = ToSet(s.posted) \cup {a, b}
  <2> DEFINE p == Append(s.posted, a)
  <2>1. ToSet(p) = ToSet(s.posted) \cup {a} /\ p \in Seq(TodoAnswers)
    BY <1>3
  <2> HIDE DEF p
  <2>2. ToSet(Append(p, b)) = ToSet(p) \cup {b}
    BY <2>1, OneMore
  <2>3. ToSet(Append(p, b)) = ToSet(s.posted) \cup {a, b}
    BY <2>1, <2>2
  <2> QED BY <2>3 DEF p
<1> QED BY <1>2, <1>3, <1>4

LEMMA TookAlive ==
  ASSUME NEW s, NEW t, TodoTyped(s), NEW c \in TodoChanges, Took(s, t, c)
  PROVE  /\ \A k, id : Alive(t, k, id) <=> Alive(s, k, id) \/ (k = "app" /\ id = c.id)
         /\ \A i \in Items : Writing(s, i) => Writing(t, i)
         /\ Waiters(s) => Waiters(t)
<1>1. /\ Refusal(c) \in TodoAnswers /\ c.item \in Items /\ c # NoModification
      /\ \A rev \in Nat : WriteJob(c, rev) \in TodoJobs
  BY RefusalTyped
<1>2. "app" \in Changers /\ s.waiting \in [Changers -> [Items -> TodoChanges \cup {NoModification}]]
  BY ItemsAssumption DEF TodoTyped, ServiceTyped
<1>3. CASE t.session = s.session /\ t.waiting = s.waiting /\ t.posted = Append(s.posted, Refusal(c))
  <2>1. ToSet(t.posted) = ToSet(s.posted) \cup {Refusal(c)} /\ Refusal(c).by = "app" /\ Refusal(c).id = c.id
    <3>1. Refusal(c).by = "app" /\ Refusal(c).id = c.id
      BY DEF Refusal
    <3>2. ToSet(t.posted) = ToSet(s.posted) \cup {Refusal(c)}
      BY <1>1, <1>3, OneMoreJob
    <3> QED BY <3>1, <3>2
  <2> QED BY <1>3, <2>1 DEF Alive, Waiters, Writing
<1>4. CASE /\ t.posted = s.posted /\ t.waiting = s.waiting
           /\ \E rev \in Nat : t.session = Append(s.session, WriteJob(c, rev))
  <2>1. PICK j \in TodoJobs : t.session = Append(s.session, j) /\ j.by = "app" /\ j.id = c.id
    BY <1>1, <1>4 DEF WriteJob
  <2>2. ToSet(t.session) = ToSet(s.session) \cup {j}
    BY <2>1, OneMoreJob
  <2> QED BY <1>4, <2>1, <2>2 DEF Alive, Waiters, Writing
<1>5. CASE /\ t.session = s.session /\ Writing(s, c.item)
           /\ t.waiting = [s.waiting EXCEPT !["app"][c.item] = c]
           /\ t.posted = IF s.waiting["app"][c.item] = NoModification THEN s.posted
                         ELSE Append(s.posted, Refusal(s.waiting["app"][c.item]))
  <2> DEFINE older == s.waiting["app"][c.item]
  <2>1. \A i \in Items : t.waiting["app"][i] = IF i = c.item THEN c ELSE s.waiting["app"][i]
    BY <1>1, <1>2, <1>5
  <2>2. Waiters(s) => Waiters(t)
    BY <1>5, <2>1 DEF Waiters, Writing
  <2>3. CASE older = NoModification
    BY <1>1, <1>5, <2>1, <2>2, <2>3 DEF Alive, Writing
  <2>4. CASE older # NoModification
    <3>1. older \in TodoChanges
      BY <1>1, <1>2, <2>4
    <3>2. Refusal(older) \in TodoAnswers /\ Refusal(older).by = "app" /\ Refusal(older).id = older.id
      BY <3>1, RefusalTyped DEF Refusal
    <3>3. ToSet(t.posted) = ToSet(s.posted) \cup {Refusal(older)}
      BY <1>5, <2>4, <3>2, OneMoreJob
    <3>4. t.session = s.session
      BY <1>5
    <3>5. ASSUME NEW k, NEW id
          PROVE  Alive(t, k, id) <=> Alive(s, k, id) \/ (k = "app" /\ id = c.id)
      BY <1>1, <2>1, <2>4, <3>2, <3>3, <3>4 DEF Alive
    <3> QED BY <2>2, <3>4, <3>5 DEF Writing
  <2> QED BY <2>3, <2>4
<1> QED BY <1>3, <1>4, <1>5 DEF Took

LEMMA MarkedJobs ==
  ASSUME NEW s, NEW t, TodoTyped(s), TodoTyped(t), Marked(s.session, t.session)
  PROVE  /\ \A j \in ToSet(s.session) : \E m \in ToSet(t.session) :
                m.kind = j.kind /\ m.by = j.by /\ m.id = j.id /\ m.items = j.items /\ m.todo = j.todo
         /\ \A m \in ToSet(t.session) : \E j \in ToSet(s.session) :
                m.kind = j.kind /\ m.by = j.by /\ m.id = j.id /\ m.items = j.items /\ m.todo = j.todo
         /\ \A n \in DOMAIN s.session :
              LET m == t.session[n]
                  j == s.session[n]
              IN  m.kind = j.kind /\ m.by = j.by /\ m.id = j.id /\ m.items = j.items /\ m.todo = j.todo
<1>1. \A n \in DOMAIN s.session : s.session[n] \in TodoJobs
  BY JobFacts DEF TodoTyped
<1>2. \A j \in TodoJobs : LET m == [j EXCEPT !.cancelled = TRUE]
                          IN  m.kind = j.kind /\ m.by = j.by /\ m.id = j.id /\ m.items = j.items /\ m.todo = j.todo
  BY DEF TodoJobs
<1>3. \A n \in DOMAIN s.session :
         LET m == t.session[n]
             j == s.session[n]
         IN  m.kind = j.kind /\ m.by = j.by /\ m.id = j.id /\ m.items = j.items /\ m.todo = j.todo
  BY <1>1, <1>2 DEF Marked
<1>4. DOMAIN t.session = DOMAIN s.session
  BY DEF Marked
<1> QED BY <1>3, <1>4 DEF ToSet

LEMMA DeletionAlive ==
  ASSUME NEW s, NEW t, TodoTyped(s), TodoTyped(t), NEW k \in Callers, NEW items \in SUBSET Items, NEW left \in SUBSET Items,
         t.waiting = s.waiting, DeletionNotTaken(s, t, k, items) \/ DeletionTaken(s, t, k, left)
  PROVE  /\ \A c, id : Alive(t, c, id) <=> Alive(s, c, id) \/ (c = k /\ id = s.next)
         /\ \A i \in Items : Writing(s, i) => Writing(t, i)
         /\ Waiters(s) => Waiters(t)
<1>1. DeletionNotTaken(s, t, k, items) \/ DeletionTaken(s, t, k, left)
  OBVIOUS
<1>2. DeletionRefused(k, s.next, items) \in TodoAnswers /\ DeleteJob(k, s.next, left) \in TodoJobs
  BY DeletionTyped DEF TodoTyped, ServiceTyped
<1>3. t.waiting = s.waiting
  OBVIOUS
<1>4. CASE DeletionNotTaken(s, t, k, items)
  <2> DEFINE a == DeletionRefused(k, s.next, items)
  <2>1. ToSet(t.posted) = ToSet(s.posted) \cup {a}
    BY <1>2, <1>4, OneMoreJob DEF DeletionNotTaken
  <2>2. a.by = k /\ a.id = s.next
    BY DEF DeletionRefused
  <2> HIDE DEF a
  <2>3. /\ \A c, id : (\E j \in ToSet(t.session) : j.by = c /\ j.id = id) <=> \E j \in ToSet(s.session) : j.by = c /\ j.id = id
        /\ \A i \in Items : Writing(s, i) <=> Writing(t, i)
    BY <1>1, <1>4, MarkedJobs DEF DeletionNotTaken, Writing
  <2> QED BY <1>3, <2>1, <2>2, <2>3 DEF Alive, Waiters
<1>5. CASE DeletionTaken(s, t, k, left)
  <2> DEFINE j == DeleteJob(k, s.next, left)
  <2>1. ToSet(t.session) = ToSet(s.session) \cup {j}
    BY <1>2, <1>5, OneMoreJob DEF DeletionTaken
  <2>2. j.by = k /\ j.id = s.next
    BY DEF DeleteJob
  <2> HIDE DEF j
  <2>3. t.posted = s.posted
    BY <1>5 DEF DeletionTaken
  <2> QED BY <1>3, <2>1, <2>2, <2>3 DEF Alive, Waiters, Writing
<1> QED BY <1>1, <1>4, <1>5

LEMMA LessJob ==
  ASSUME NEW s, TodoTyped(s), s.session # <<>>
  PROVE  ToSet(s.session) = {Head(s.session)} \cup ToSet(Tail(s.session))
BY OneLess DEF TodoTyped, ServiceTyped

LEMMA AnswerTyped ==
  ASSUME NEW job \in TodoJobs, NEW ok \in BOOLEAN
  PROVE  AnswerTo(job, ok) \in TodoAnswers /\ AnswerTo(job, ok).by = job.by /\ AnswerTo(job, ok).id = job.id
BY DEF AnswerTo, TodoJobs, TodoAnswers

LEMMA EndAlive ==
  ASSUME NEW s, TodoTyped(s), s.session # <<>>, NEW ok \in BOOLEAN
  PROVE  LET t == JobEnds(s, ok)
         IN  /\ TodoTyped(t)
             /\ SameBut(s, t, {"session", "posted", "store", "latest", "notified", "waiting", "deleted"})
             /\ \A k, id : Alive(t, k, id) <=> Alive(s, k, id)
             /\ Waiters(s) => Waiters(t)
<1> DEFINE t == JobEnds(s, ok)
           job == Head(s.session)
           p == Tail(s.session)
<1>1. job \in TodoJobs /\ ToSet(s.session) = {job} \cup ToSet(p)
  BY EarlierJobs, LessJob
<1> HIDE DEF p, job
<1>2. ASSUME NEW m, m.session = p, m.waiting = s.waiting, ToSet(m.posted) = ToSet(s.posted) \cup {AnswerTo(job, ok)}
      PROVE  \A k, id : Alive(m, k, id) <=> Alive(s, k, id)
  BY <1>1, <1>2, AnswerTyped DEF Alive
<1>3. CASE job.kind = "delete"
  <2>1. Deleted(s, t, ok)
    BY <1>3, DeletedIs DEF job
  <2>2. ToSet(t.posted) = ToSet(s.posted) \cup {AnswerTo(job, ok)}
    <3>1. AnswerTo(job, TRUE) \in TodoAnswers /\ AnswerTo(job, FALSE) \in TodoAnswers
      BY <1>1, AnswerTyped
    <3>2. \/ ok /\ t.posted = Append(s.posted, AnswerTo(job, TRUE))
          \/ ~ok /\ t.posted = Append(Append(s.posted, AnswerTo(job, FALSE)), AnswerTo(job, FALSE))
      BY <2>1 DEF Deleted, job
    <3> HIDE DEF t
    <3>3. CASE ok /\ t.posted = Append(s.posted, AnswerTo(job, TRUE))
      <4>1. ok = TRUE
        BY <3>3
      <4> QED BY <3>1, <3>3, <4>1, OneMoreJob
    <3>4. CASE ~ok /\ t.posted = Append(Append(s.posted, AnswerTo(job, FALSE)), AnswerTo(job, FALSE))
      <4>1. ok = FALSE
        BY <3>4
      <4>2. ToSet(t.posted) = ToSet(s.posted) \cup {AnswerTo(job, FALSE), AnswerTo(job, FALSE)}
        <5> DEFINE a == AnswerTo(job, FALSE)
        <5>1. a \in TodoAnswers /\ t.posted = Append(Append(s.posted, a), a)
          BY <3>1, <3>4
        <5> HIDE DEF a
        <5>2. ToSet(Append(Append(s.posted, a), a)) = ToSet(s.posted) \cup {a, a}
          BY <5>1, OneMoreJob
        <5> QED BY <5>1, <5>2 DEF a
      <4> QED BY <4>1, <4>2
    <3> QED BY <3>2, <3>3, <3>4
  <2>3. /\ TodoTyped(t) /\ SameBut(s, t, {"session", "posted", "store", "notified", "deleted"}) /\ t.session = p
    BY <2>1 DEF Deleted, p
  <2> HIDE DEF t
  <2>4. /\ SameBut(s, t, {"session", "posted", "store", "latest", "notified", "waiting", "deleted"})
        /\ t.waiting = s.waiting
    BY <2>3 DEF SameBut, TodoFields
  <2>5. \A i \in Items : Writing(s, i) => Writing(t, i)
    BY <1>1, <1>3, <2>3 DEF Writing
  <2> QED BY <1>2, <2>2, <2>3, <2>4, <2>5 DEF Waiters, t
<1>4. CASE job.kind = "modify"
  <2>0. PICK i \in Items : \E m : job.items = {i} /\ Wrote(s, m, ok) /\ t = Continued(m, "app", i)
    BY <1>4, WrittenIs DEF job
  <2>1. PICK m : job.items = {i} /\ Wrote(s, m, ok) /\ t = Continued(m, "app", i)
    BY <2>0
  <2> HIDE DEF t
  <2>2. /\ TodoTyped(m) /\ SameBut(s, m, {"session", "posted", "store", "latest", "notified"})
        /\ m.session = p /\ m.posted = Append(s.posted, AnswerTo(job, ok))
    BY <2>1 DEF Wrote, p, job
  <2>3. ToSet(m.posted) = ToSet(s.posted) \cup {AnswerTo(job, ok)} /\ m.waiting = s.waiting
    BY <1>1, <2>2, AnswerTyped, OneMoreJob DEF SameBut, TodoFields
  <2>4. \A k, id : Alive(m, k, id) <=> Alive(s, k, id)
    BY <1>2, <2>2, <2>3
  <2>5. \A x \in Items \ {i} : Writing(s, x) => Writing(m, x)
    BY <1>1, <2>1, <2>2 DEF Writing
  <2> DEFINE c == m.waiting["app"][i]
  <2>6. /\ TodoTyped(t) /\ SameBut(m, t, TakenFields)
        /\ \/ c = NoModification /\ t = m
           \/ /\ c # NoModification /\ c \in TodoChanges /\ c.item = i
              /\ \E u : WaitsNoMore(m, u, i) /\ SameBut(u, t, TakenFields) /\ Took(u, t, c)
    BY <2>1, <2>2, ContinuedIs
  <2>7. SameBut(s, t, {"session", "posted", "store", "latest", "notified", "waiting", "deleted"})
    BY <2>2, <2>6 DEF SameBut, TodoFields, TakenFields
  <2>8. CASE c = NoModification /\ t = m
    BY <2>3, <2>4, <2>5, <2>6, <2>7, <2>8 DEF Waiters, t
  <2>9. CASE /\ c # NoModification /\ c \in TodoChanges /\ c.item = i
             /\ \E u : WaitsNoMore(m, u, i) /\ SameBut(u, t, TakenFields) /\ Took(u, t, c)
    <3>1. PICK u : WaitsNoMore(m, u, i) /\ Took(u, t, c)
      BY <2>9
    <3>2. TodoTyped(u) /\ u.waiting = [m.waiting EXCEPT !["app"][i] = NoModification] /\ SameBut(m, u, {"waiting"})
      BY <3>1 DEF WaitsNoMore
    <3>3. u.session = m.session /\ u.posted = m.posted
      BY <3>2 DEF SameBut, TodoFields
    <3>4. "app" \in Changers /\ m.waiting \in [Changers -> [Items -> TodoChanges \cup {NoModification}]]
      BY <2>2, ItemsAssumption DEF TodoTyped, ServiceTyped
    <3>5. \A x \in Items : u.waiting["app"][x] = IF x = i THEN NoModification ELSE m.waiting["app"][x]
      BY <3>2, <3>4
    <3>6. \A k, id : Alive(m, k, id) <=> Alive(u, k, id) \/ (k = "app" /\ id = c.id)
      BY <2>9, <3>3, <3>5 DEF Alive
    <3>7. Waiters(s) => Waiters(u)
      BY <2>3, <2>5, <3>3, <3>5 DEF Waiters, Writing
    <3> HIDE DEF c
    <3>8. /\ \A k, id : Alive(t, k, id) <=> Alive(u, k, id) \/ (k = "app" /\ id = c.id)
          /\ Waiters(u) => Waiters(t)
      BY <2>9, <3>1, <3>2, TookAlive
    <3> QED BY <2>4, <2>6, <2>7, <3>6, <3>7, <3>8 DEF t
  <2> QED BY <2>6, <2>8, <2>9
<1> QED BY <1>1, <1>3, <1>4 DEF TodoJobs, Kinds

-----------------------------------------------------------------------------
(* The to-do list: what is edited, and what is noticed.                    *)

\* The to-do of row i is `todo` now, in the calendar too if it is the same object.
PutIn(s, t, i, todo) ==
  \A x \in Items :
    /\ t.rows[x].live = s.rows[x].live /\ t.rows[x].rev = s.rows[x].rev
    /\ t.rows[x].todo = IF x = i THEN todo ELSE s.rows[x].todo
    /\ t.cal[x].live = s.cal[x].live /\ t.cal[x].rev = s.cal[x].rev
    /\ t.cal[x].todo = IF x = i /\ i \in s.shared THEN todo ELSE s.cal[x].todo

RowType == [live : BOOLEAN, rev : Nat, todo : Todos]

LEMMA RowFacts ==
  ASSUME NEW s, TodoTyped(s)
  PROVE  /\ \A i \in Items : s.store[i] \in RowType /\ s.rows[i] \in RowType /\ s.cal[i] \in RowType
                             /\ s.purger.items[i] \in RowType
         /\ \A r \in RowType : r.live \in BOOLEAN /\ r.rev \in Nat /\ r.todo \in Todos /\ r.todo.uid \in Items
                               /\ r.todo.related \in Items \cup {None} /\ r.todo.done \in BOOLEAN /\ r.todo.text \in Nat
BY DEF TodoTyped, ListTyped, RowType, Todos, Rows

LEMMA InPlaceIs ==
  ASSUME NEW s, TodoTyped(s), NEW i \in Items, NEW todo \in Todos
  PROVE  LET t == InPlace(s, i, todo)
         IN  TodoTyped(t) /\ SameBut(s, t, {"rows", "cal"}) /\ PutIn(s, t, i, todo)
<1> DEFINE t == InPlace(s, i, todo)
           r == [s.rows EXCEPT ![i].todo = todo]
           c == [s.cal EXCEPT ![i].todo = IF i \in s.shared THEN todo ELSE @]
<1>1. t = [s EXCEPT !.rows = r, !.cal = c]
  BY DEF InPlace
<1>2. s.rows \in Rows /\ s.cal \in Rows
  BY DEF TodoTyped, ListTyped
<1>3. r \in Rows /\ c \in Rows
  BY <1>2 DEF Rows
<1>4. \A x \in Items :
        /\ r[x].live = s.rows[x].live /\ r[x].rev = s.rows[x].rev
        /\ r[x].todo = IF x = i THEN todo ELSE s.rows[x].todo
        /\ c[x].live = s.cal[x].live /\ c[x].rev = s.cal[x].rev
        /\ c[x].todo = IF x = i /\ i \in s.shared THEN todo ELSE s.cal[x].todo
  BY <1>2 DEF Rows
<1> HIDE DEF r, c, t
<1>5. SameBut(s, t, {"rows", "cal"}) /\ t.rows = r /\ t.cal = c
  BY <1>1 DEF TodoTyped, TodoFields, SameBut
<1>6. TodoTyped(t)
  BY <1>3, <1>5, ListChanges DEF SameBut, ListFields, TodoFields, TodoTyped, ListTyped
<1> QED BY <1>4, <1>5, <1>6 DEF PutIn, t

ChangedFields == {"rows", "cal", "posted", "session", "waiting", "next"}

\* A change of row i: the payload in place, then the changer.
ChangeOf(s, i, todo) == [id |-> s.next, item |-> i, todo |-> todo, rev |-> s.rows[i].rev]
LEMMA ChangedIs ==
  ASSUME NEW s, TodoTyped(s), NEW i \in Items, NEW todo \in Todos
  PROVE  LET t == Changed(s, i, todo)
             c == ChangeOf(s, i, todo)
         IN  /\ TodoTyped(t) /\ SameBut(s, t, ChangedFields) /\ t.next = s.next + 1 /\ c \in TodoChanges
             /\ \E r : /\ TodoTyped(r) /\ SameBut(s, r, {"rows", "cal"}) /\ PutIn(s, r, i, todo)
                       /\ SameBut(r, t, {"posted", "session", "waiting", "next"}) /\ Took(r, t, c)
<1> DEFINE t == Changed(s, i, todo)
           c == ChangeOf(s, i, todo)
           r == InPlace(s, i, todo)
<1>1. TodoTyped(r) /\ SameBut(s, r, {"rows", "cal"}) /\ PutIn(s, r, i, todo)
  BY InPlaceIs
<1>2. t = Modify(r, "app", i, todo, s.rows[i].rev) /\ s.rows[i].rev \in Nat
  BY RowFacts DEF Changed
<1>3. r.next = s.next
  BY <1>1 DEF SameBut, TodoFields
<1> HIDE DEF r, t
<1>4. /\ TodoTyped(t) /\ SameBut(r, t, {"posted", "session", "waiting", "next"})
      /\ t.next = r.next + 1
      /\ Took(r, t, [id |-> r.next, item |-> i, todo |-> todo, rev |-> s.rows[i].rev])
      /\ [id |-> r.next, item |-> i, todo |-> todo, rev |-> s.rows[i].rev] \in TodoChanges
  BY <1>1, <1>2, ModifyIs
<1>5. SameBut(s, t, ChangedFields)
  BY <1>1, <1>4 DEF SameBut, TodoFields, ChangedFields
<1> QED BY <1>1, <1>3, <1>4, <1>5 DEF ChangeOf, t

\* What a notification shows.
NoticedFields == {"notified", "rows", "shared", "cal", "idOf", "clip"}
IsAsked(s, i) == s.clip.asked # None /\ s.idOf[s.clip.asked.uid] = i /\ s.store[i].todo.uid = s.clip.asked.uid
Told(s, t, i) ==
  LET item == s.store[i]
      old  == s.cal[i].todo.uid
      uid  == item.todo.uid
      calendar == \A x \in Items : t.cal[x] = IF x = i THEN item ELSE s.cal[x]
  IN  /\ s.notified # <<>> /\ t.notified = Tail(s.notified) /\ t.shared = s.shared \ {i}
      /\ \A x \in Items : t.rows[x] = IF x = i THEN item ELSE s.rows[x]
      /\ t.clip.pending = s.clip.pending /\ t.clip.abort = s.clip.abort
      /\ t.clip.asked = IF IsAsked(s, i) THEN item.todo ELSE s.clip.asked
      /\ \/ /\ ~item.live /\ s.cal[i].live /\ calendar
            /\ \A u \in Items : t.idOf[u] = IF u = old THEN None ELSE s.idOf[u]
         \/ item.live /\ s.idOf[uid] = i /\ calendar /\ t.idOf = s.idOf
         \/ /\ item.live /\ s.idOf[uid] = None /\ s.cal[i].live /\ calendar
            /\ \A u \in Items : t.idOf[u] = IF u = old THEN None ELSE IF u = uid THEN i ELSE s.idOf[u]
         \/ /\ t.cal = s.cal /\ t.idOf = s.idOf
            /\ IF item.live THEN s.idOf[uid] # i /\ (s.idOf[uid] = None => ~s.cal[i].live) ELSE ~s.cal[i].live

LEMMA NoticedIs ==
  ASSUME NEW s, TodoTyped(s), s.notified # <<>>, NEW i \in Items
  PROVE  LET t == Noticed(s, i)
         IN  TodoTyped(t) /\ SameBut(s, t, NoticedFields) /\ Told(s, t, i)
<1> DEFINE item == s.store[i]
           old == s.cal[i].todo.uid
           uid == item.todo.uid
           q == Tail(s.notified)
           rows == [s.rows EXCEPT ![i] = item]
           row == [s EXCEPT !.notified = q, !.rows = rows, !.shared = s.shared \ {i}]
           cal == [s.cal EXCEPT ![i] = item]
           r == Seen(s, i)
           t == Noticed(s, i)
<1>1. item \in RowType /\ old \in Items /\ uid \in Items /\ item.live \in BOOLEAN /\ item.todo \in Todos
  BY RowFacts
<1>2. /\ s.rows \in Rows /\ s.cal \in Rows /\ s.idOf \in [Items -> Items \cup {None}] /\ s.shared \subseteq Items
      /\ s.notified \in Seq(Items) /\ DOMAIN s = TodoFields
      /\ s.clip \in [pending : SUBSET Nat, abort : BOOLEAN, asked : Todos \cup {None}]
  BY DEF TodoTyped, ListTyped
<1>3. q \in Seq(Items)
  BY <1>2, OneLess
<1>4. rows \in Rows /\ cal \in Rows
  BY <1>1, <1>2 DEF Rows, RowType
<1>5. /\ \A x \in Items : rows[x] = IF x = i THEN item ELSE s.rows[x]
      /\ \A x \in Items : cal[x] = IF x = i THEN item ELSE s.cal[x]
  BY <1>2 DEF Rows
<1>6. \E c, d : /\ r = [row EXCEPT !.cal = c, !.idOf = d] /\ c \in Rows /\ d \in [Items -> Items \cup {None}]
                /\ \/ /\ ~item.live /\ s.cal[i].live /\ c = cal
                      /\ \A u \in Items : d[u] = IF u = old THEN None ELSE s.idOf[u]
                   \/ item.live /\ s.idOf[uid] = i /\ c = cal /\ d = s.idOf
                   \/ /\ item.live /\ s.idOf[uid] = None /\ s.cal[i].live /\ c = cal
                      /\ \A u \in Items : d[u] = IF u = old THEN None ELSE IF u = uid THEN i ELSE s.idOf[u]
                   \/ /\ c = s.cal /\ d = s.idOf
                      /\ IF item.live THEN s.idOf[uid] # i /\ (s.idOf[uid] = None => ~s.cal[i].live) ELSE ~s.cal[i].live
  <2>1. r = CASE ~item.live -> IF s.cal[i].live THEN [row EXCEPT !.cal[i] = item, !.idOf[old] = None] ELSE row
              [] item.live /\ s.idOf[uid] = i -> [row EXCEPT !.cal[i] = item]
              [] item.live /\ s.idOf[uid] = None /\ s.cal[i].live ->
                   [row EXCEPT !.cal[i] = item, !.idOf = [@ EXCEPT ![uid] = i, ![old] = None]]
              [] OTHER -> row
    BY DEF Seen
  <2> HIDE DEF r, rows, q
  <2>2. row.cal = s.cal /\ row.idOf = s.idOf /\ DOMAIN row = TodoFields
    BY <1>2 DEF TodoFields
  <2>3. row = [row EXCEPT !.cal = s.cal, !.idOf = s.idOf]
    <3> DEFINE now == [row EXCEPT !.cal = s.cal, !.idOf = s.idOf]
    <3>1. DOMAIN now = DOMAIN row /\ \A f \in DOMAIN row : now[f] = row[f]
      BY <2>2
    <3>2. now = [f \in DOMAIN row |-> row[f]]
      BY <3>1
    <3>3. row = [f \in DOMAIN row |-> row[f]]
      OBVIOUS
    <3> HIDE DEF row, now
    <3>4. now = row
      BY <3>2, <3>3
    <3> QED BY <3>4 DEF now
  <2> HIDE DEF row
  <2>4. [row EXCEPT !.cal[i] = item] = [row EXCEPT !.cal = cal, !.idOf = s.idOf]
    BY <2>2 DEF TodoFields
  <2> DEFINE d1 == [s.idOf EXCEPT ![old] = None]
             d2 == [s.idOf EXCEPT ![uid] = i, ![old] = None]
  <2>5. /\ d1 \in [Items -> Items \cup {None}] /\ d2 \in [Items -> Items \cup {None}]
        /\ \A u \in Items : d1[u] = IF u = old THEN None ELSE s.idOf[u]
        /\ \A u \in Items : d2[u] = IF u = old THEN None ELSE IF u = uid THEN i ELSE s.idOf[u]
    BY <1>1, <1>2
  <2>6. [row EXCEPT !.cal[i] = item, !.idOf[old] = None] = [row EXCEPT !.cal = cal, !.idOf = d1]
    BY <2>2 DEF TodoFields
  <2>7. [row EXCEPT !.cal[i] = item, !.idOf = [@ EXCEPT ![uid] = i, ![old] = None]] = [row EXCEPT !.cal = cal, !.idOf = d2]
    BY <2>2 DEF TodoFields
  <2>8. CASE ~item.live /\ s.cal[i].live
    <3>1. r = [row EXCEPT !.cal = cal, !.idOf = d1]
      BY <2>1, <2>6, <2>8
    <3> HIDE DEF cal, d1, d2, item, old, uid
    <3> QED BY <1>4, <2>5, <2>8, <3>1
  <2>9. CASE ~item.live /\ ~s.cal[i].live
    BY <1>2, <2>1, <2>3, <2>9
  <2>10. CASE item.live /\ s.idOf[uid] = i
    BY <1>2, <1>4, <2>1, <2>4, <2>10, ItemsAssumption
  <2>11. CASE item.live /\ s.idOf[uid] # i /\ s.idOf[uid] = None /\ s.cal[i].live
    <3>1. r = [row EXCEPT !.cal = cal, !.idOf = d2]
      BY <2>1, <2>7, <2>11
    <3> HIDE DEF cal, d1, d2, item, old, uid
    <3>2. item.live /\ s.idOf[uid] = None /\ s.cal[i].live
      BY <2>11
    <3>3. /\ item.live /\ s.idOf[uid] = None /\ s.cal[i].live /\ cal = cal
          /\ \A u \in Items : d2[u] = IF u = old THEN None ELSE IF u = uid THEN i ELSE s.idOf[u]
      BY <2>5, <3>2
    <3>4. cal \in Rows /\ d2 \in [Items -> Items \cup {None}]
      BY <1>4, <2>5
    <3> WITNESS cal, d2
    <3> QED BY <3>1, <3>3, <3>4
  <2>12. CASE item.live /\ s.idOf[uid] # i /\ ~(s.idOf[uid] = None /\ s.cal[i].live)
    BY <1>2, <2>1, <2>3, <2>12
  <2> QED BY <2>8, <2>9, <2>10, <2>11, <2>12
<1>7. PICK c, d : /\ r = [row EXCEPT !.cal = c, !.idOf = d] /\ c \in Rows /\ d \in [Items -> Items \cup {None}]
                  /\ \/ /\ ~item.live /\ s.cal[i].live /\ c = cal
                        /\ \A u \in Items : d[u] = IF u = old THEN None ELSE s.idOf[u]
                     \/ item.live /\ s.idOf[uid] = i /\ c = cal /\ d = s.idOf
                     \/ /\ item.live /\ s.idOf[uid] = None /\ s.cal[i].live /\ c = cal
                        /\ \A u \in Items : d[u] = IF u = old THEN None ELSE IF u = uid THEN i ELSE s.idOf[u]
                     \/ /\ c = s.cal /\ d = s.idOf
                        /\ IF item.live THEN s.idOf[uid] # i /\ (s.idOf[uid] = None => ~s.cal[i].live) ELSE ~s.cal[i].live
  BY <1>6
<1> DEFINE clip == IF IsAsked(s, i) THEN [s.clip EXCEPT !.asked = item.todo] ELSE s.clip
<1>8. /\ clip \in [pending : SUBSET Nat, abort : BOOLEAN, asked : Todos \cup {None}]
      /\ clip.pending = s.clip.pending /\ clip.abort = s.clip.abort
      /\ clip.asked = IF IsAsked(s, i) THEN item.todo ELSE s.clip.asked
  BY <1>1, <1>2
<1>9. /\ SameBut(s, t, NoticedFields) /\ t.notified = q /\ t.rows = rows /\ t.shared = s.shared \ {i}
      /\ t.cal = c /\ t.idOf = d /\ t.clip = clip
  <2> HIDE DEF q, rows, item, old, uid, cal
  <2>1. /\ SameBut(s, row, {"notified", "rows", "shared"}) /\ row.notified = q /\ row.rows = rows
        /\ row.shared = s.shared \ {i}
    BY <1>2 DEF SameBut, TodoFields
  <2> HIDE DEF row, r
  <2>2. /\ SameBut(s, r, {"notified", "rows", "shared", "cal", "idOf"}) /\ r.notified = q /\ r.rows = rows
        /\ r.shared = s.shared \ {i} /\ r.cal = c /\ r.idOf = d /\ r.clip = s.clip
    BY <1>7, <2>1 DEF SameBut, TodoFields
  <2>3. t = IF IsAsked(s, i) THEN [r EXCEPT !.clip.asked = item.todo] ELSE r
    BY DEF Noticed, IsAsked, item, r
  <2> HIDE DEF t
  <2>4. CASE IsAsked(s, i)
    BY <2>2, <2>3, <2>4 DEF SameBut, TodoFields, NoticedFields
  <2>5. CASE ~IsAsked(s, i)
    BY <2>2, <2>3, <2>5 DEF SameBut, TodoFields, NoticedFields
  <2> QED BY <2>4, <2>5
<1> HIDE DEF clip, t, r, row
<1>10. TodoTyped(t)
  <2> HIDE DEF item, old, uid, q, rows, cal
  <2>1. SameBut(s, t, ListFields)
    BY <1>9 DEF SameBut, ListFields, NoticedFields
  <2>2. /\ t.store = s.store /\ t.copied = s.copied /\ t.purger = s.purger
        /\ t.cutting = s.cutting /\ t.purging = s.purging /\ t.single = s.single /\ t.crashed = s.crashed
    BY <1>9 DEF SameBut, TodoFields, NoticedFields
  <2>3. s.shared \ {i} \subseteq Items
    BY <1>2
  <2>4. ListTyped(t)
    BY <1>3, <1>4, <1>7, <1>8, <1>9, <2>2, <2>3 DEF TodoTyped, ListTyped
  <2> QED BY <2>1, <2>4, ListChanges
<1>11. Told(s, t, i)
  <2>1. /\ t.notified = Tail(s.notified) /\ t.shared = s.shared \ {i}
        /\ \A x \in Items : t.rows[x] = IF x = i THEN item ELSE s.rows[x]
        /\ t.clip.pending = s.clip.pending /\ t.clip.abort = s.clip.abort
        /\ t.clip.asked = IF IsAsked(s, i) THEN item.todo ELSE s.clip.asked
    BY <1>5, <1>8, <1>9
  <2>2. /\ c = cal => \A x \in Items : t.cal[x] = IF x = i THEN item ELSE s.cal[x]
        /\ t.cal = c /\ t.idOf = d
    BY <1>5, <1>9
  <2> HIDE DEF cal
  <2> QED BY <1>7, <2>1, <2>2 DEF Told
<1> QED BY <1>9, <1>10, <1>11 DEF t

-----------------------------------------------------------------------------
(* The to-do list: the children of a to-do, and all that is below it.      *)

\* Every set of naturals that is not empty has a least element.
LEMMA LeastNumber ==
  ASSUME NEW T, T \subseteq Nat, T # {}
  PROVE  \E n \in T : \A m \in T : n <= m
<1> DEFINE R == OpToRel(<, Nat)
<1>1. IsWellFoundedOn(R, Nat)
  BY NatLessThanWellFounded
<1>2. \A x, y \in Nat : x < y => <<x, y>> \in R
  BY DEF OpToRel
<1> HIDE DEF R
<1>3. PICK n \in T : \A m \in T : ~(<<m, n>> \in R)
  BY <1>1, WFMin
<1>4. \A m \in T : ~(m < n)
  BY <1>2, <1>3
<1> QED BY <1>4

\* A set of naturals with 0 and every successor up to a bound has all of them.
LEMMA UpTo ==
  ASSUME NEW b \in Nat, NEW T, 0 \in T, \A n \in Nat : n < b /\ n \in T => n + 1 \in T
  PROVE  0 .. b \subseteq T
<1> DEFINE B == (0 .. b) \ T
<1> SUFFICES ASSUME B # {} PROVE FALSE
  OBVIOUS
<1>0. B \subseteq Nat
  OBVIOUS
<1>1. PICK n \in B : \A m \in B : n <= m
  <2> HIDE DEF B
  <2> QED BY <1>0, LeastNumber
<1>2. n \in Nat /\ n # 0 /\ n <= b
  OBVIOUS
<1>3. n - 1 \in Nat /\ n - 1 < b /\ ~(n <= n - 1) /\ (n - 1) + 1 = n
  BY <1>2
<1>4. n - 1 \in 0 .. b /\ n - 1 \notin B
  BY <1>1, <1>2, <1>3
<1> QED BY <1>1, <1>3, <1>4


\* The children are made independent one after the other.
IndependentInTurn(base, p, seq, r) ==
  /\ r[0] = base
  /\ \A k \in 1 .. Len(seq) : r[k] = Independent(r[k - 1], p, seq[k])
  /\ FoldLeft(LAMBDA t, c : Independent(t, p, c), base, seq) = r[Len(seq)]

LEMMA IndependentFold ==
  ASSUME NEW S, NEW seq \in Seq(S), NEW base, NEW p
  PROVE  \E r : IndependentInTurn(base, p, seq, r)
<1> DEFINE n == Len(seq)
           Op(s, k) == Independent(s, p, seq[k])
           Body(f, m) == [s \in SUBSET (1 .. m) |-> IF s = {} THEN base
                                                  ELSE Op(f[s \ {Max(s)}], Max(s))]
           iter == CHOOSE f : f = Body(f, n)
           r == [k \in 0 .. n |-> iter[1 .. k]]
<1>1. n \in Nat /\ DOMAIN seq = 1 .. n
  BY LenProperties
<1>2. FoldLeft(LAMBDA t, c : Independent(t, p, c), base, seq) = iter[1 .. n]
  BY <1>1 DEF FoldLeft, MapThenFoldSet
<1> HIDE DEF Op, n
<1> DEFINE Built == {m \in 0 .. n : \E f : f = Body(f, m)}
<1>3. 0 \in Built
  <2>1. Body(base, 0) = Body(Body(base, 0), 0)
    OBVIOUS
  <2> HIDE DEF Body
  <2> QED BY <1>1, <2>1
<1>4. ASSUME NEW m \in Nat, m < n, m \in Built
      PROVE  m + 1 \in Built
  <2>1. PICK f : f = Body(f, m)
    BY <1>4
  <2> DEFINE g == [s \in SUBSET (1 .. m + 1) |-> IF m + 1 \in s THEN Op(f[s \ {m + 1}], m + 1) ELSE f[s]]
  <2>2. ASSUME NEW s \in SUBSET (1 .. m + 1)
        PROVE  g[s] = IF s = {} THEN base ELSE Op(g[s \ {Max(s)}], Max(s))
    <3>1. CASE m + 1 \in s
      <4>1. \A y \in s : m + 1 >= y
        BY <2>2
      <4>2. \A x \in s : (\A y \in s : x >= y) => x = m + 1
        BY <2>2, <3>1
      <4>3. Max(s) = m + 1
        BY <3>1, <4>1, <4>2 DEF Max
      <4>4. s \ {m + 1} \in SUBSET (1 .. m + 1) /\ m + 1 \notin s \ {m + 1} /\ s # {}
        BY <3>1
      <4>5. g[s \ {m + 1}] = f[s \ {m + 1}]
        BY <4>4
      <4> QED BY <3>1, <4>3, <4>4, <4>5
    <3>2. CASE m + 1 \notin s
      <4>1. s \in SUBSET (1 .. m)
        BY <3>2
      <4>2. f[s] = Body(f, m)[s]
        BY <2>1
      <4>3. f[s] = IF s = {} THEN base ELSE Op(f[s \ {Max(s)}], Max(s))
        BY <4>1, <4>2
      <4>4. s \ {Max(s)} \in SUBSET (1 .. m + 1) /\ m + 1 \notin s \ {Max(s)}
        BY <3>2
      <4>5. g[s \ {Max(s)}] = f[s \ {Max(s)}] /\ g[s] = f[s]
        BY <3>2, <4>4
      <4> QED BY <4>3, <4>5
    <3> QED BY <3>1, <3>2
  <2>3. g = Body(g, m + 1)
    BY <2>2
  <2> HIDE DEF g, Body
  <2>4. m + 1 \in 0 .. n
    BY <1>1, <1>4
  <2> QED BY <2>3, <2>4
<1>5. n \in Built
  <2> HIDE DEF Built
  <2>1. 0 .. n \subseteq Built
    BY <1>1, <1>3, <1>4, UpTo
  <2> QED BY <1>1, <2>1
<1>6. iter = Body(iter, n)
  BY <1>5
<1> HIDE DEF iter
<1>7. \A s \in SUBSET (1 .. n) : iter[s] = IF s = {} THEN base ELSE Op(iter[s \ {Max(s)}], Max(s))
  BY <1>6
<1>8. r[0] = base
  <2>1. 1 .. 0 = {} /\ {} \in SUBSET (1 .. n) /\ 0 \in 0 .. n
    BY <1>1
  <2> QED BY <1>1, <1>7, <2>1
<1>9. ASSUME NEW k \in 1 .. n
      PROVE  r[k] = Op(r[k - 1], k)
  BY <1>1, <1>7 DEF Max
<1> HIDE DEF r
<1>10. FoldLeft(LAMBDA t, c : Independent(t, p, c), base, seq) = r[n]
  <2>1. n \in 0 .. n
    BY <1>1
  <2> QED BY <1>2, <2>1 DEF r
<1>11. \A k \in 1 .. n : r[k] = Independent(r[k - 1], p, seq[k])
  BY <1>9 DEF Op
<1> QED BY <1>8, <1>10, <1>11 DEF n, IndependentInTurn

\* What is reached is all that is below.
Nearer(R, below) == R \cup UNION {below[x] : x \in R}
LEMMA ReachedIs ==
  ASSUME NEW S \in SUBSET Items, NEW below \in [Items -> SUBSET Items]
  PROVE  LET R == Reached(S, below)
         IN  /\ R \subseteq Items /\ S \subseteq R /\ \A x \in R : below[x] \subseteq R
             /\ \A Q : S \subseteq Q /\ (\A x \in Q \cap Items : below[x] \subseteq Q) => R \subseteq Q
<1> DEFINE N == Cardinality(Items)
           Body(f, m) == [n \in 0 .. m |-> IF n = 0 THEN S ELSE Nearer(f[n - 1], below)]
           within == CHOOSE f : f = Body(f, N)
<1>1. N \in Nat
  BY ItemsAssumption, FS_CardinalityType
<1>2. Reached(S, below) = within[N]
  BY DEF Reached, Nearer
<1> HIDE DEF N
<1> DEFINE Built == {m \in 0 .. N : \E f : f = Body(f, m)}
<1>3. 0 \in Built
  <2> DEFINE g == [n \in 0 .. 0 |-> S]
  <2>1. g = Body(g, 0)
    OBVIOUS
  <2> HIDE DEF g, Body
  <2> QED BY <1>1, <2>1
<1>4. ASSUME NEW m \in Nat, m < N, m \in Built
      PROVE  m + 1 \in Built
  <2>1. PICK f : f = Body(f, m)
    BY <1>4
  <2> DEFINE g == [n \in 0 .. m + 1 |-> IF n = m + 1 THEN Nearer(f[m], below) ELSE f[n]]
  <2>2. ASSUME NEW n \in 0 .. m + 1
        PROVE  g[n] = IF n = 0 THEN S ELSE Nearer(g[n - 1], below)
    <3>1. CASE n = m + 1
      BY <1>4, <3>1
    <3>2. CASE n # m + 1
      BY <1>4, <2>1, <2>2, <3>2
    <3> QED BY <3>1, <3>2
  <2>3. g = Body(g, m + 1)
    BY <2>2
  <2> HIDE DEF g, Body
  <2>4. m + 1 \in 0 .. N
    BY <1>1, <1>4
  <2> QED BY <2>3, <2>4
<1>5. N \in Built
  <2> HIDE DEF Built
  <2>1. 0 .. N \subseteq Built
    BY <1>1, <1>3, <1>4, UpTo
  <2> QED BY <1>1, <2>1
<1>6. within = Body(within, N)
  BY <1>5
<1> HIDE DEF within
<1>7. \A n \in 0 .. N : within[n] = IF n = 0 THEN S ELSE Nearer(within[n - 1], below)
  BY <1>6
<1> HIDE DEF Built
<1> DEFINE Closed(R) == \A x \in R : below[x] \subseteq R
           Far == {n \in 0 .. N : /\ within[n] \subseteq Items /\ S \subseteq within[n]
                                  /\ Closed(within[n]) \/ Cardinality(within[n]) >= n}
<1>8. 0 \in Far
  BY <1>1, <1>7, ItemsAssumption, FS_Subset, FS_CardinalityType
<1>9. ASSUME NEW n \in Nat, n < N, n \in Far
      PROVE  n + 1 \in Far
  <2> DEFINE R == within[n]
             T == Nearer(R, below)
  <2>1. n + 1 \in 0 .. N /\ n + 1 # 0 /\ (n + 1) - 1 = n
    BY <1>1, <1>9
  <2>2. within[n + 1] = T
    BY <1>7, <2>1
  <2>3. R \subseteq Items /\ S \subseteq R /\ (Closed(R) \/ Cardinality(R) >= n)
    BY <1>9
  <2> HIDE DEF R
  <2>4. T \subseteq Items /\ R \subseteq T
    BY <2>3 DEF Nearer
  <2>5. CASE Closed(R)
    BY <2>1, <2>2, <2>3, <2>5 DEF Nearer
  <2>6. CASE ~Closed(R)
    <3>1. PICK y \in T : y \notin R
      BY <2>6 DEF Nearer
    <3>2. IsFiniteSet(T) /\ IsFiniteSet(R)
      BY <2>3, <2>4, ItemsAssumption, FS_Subset
    <3> HIDE DEF T, Closed
    <3>3. Cardinality(R \cup {y}) = Cardinality(R) + 1 /\ IsFiniteSet(R \cup {y})
      BY <3>1, <3>2, FS_AddElement
    <3>4. R \cup {y} \subseteq T
      BY <2>4, <3>1
    <3>5. Cardinality(R \cup {y}) <= Cardinality(T)
      BY <3>2, <3>4, FS_Subset
    <3>6. Cardinality(R) \in Nat /\ Cardinality(T) \in Nat
      BY <3>2, FS_CardinalityType
    <3>7. Cardinality(T) >= n + 1
      BY <2>3, <2>6, <3>3, <3>5, <3>6
    <3> QED BY <2>1, <2>2, <2>3, <2>4, <3>7
  <2> QED BY <2>5, <2>6
<1>10. N \in Far
  <2> HIDE DEF Far
  <2>1. 0 .. N \subseteq Far
    BY <1>1, <1>8, <1>9, UpTo
  <2> QED BY <1>1, <2>1
<1> DEFINE Q == within[N]
<1>11. Q \subseteq Items /\ S \subseteq Q /\ (Closed(Q) \/ Cardinality(Q) >= N)
  BY <1>10
<1> HIDE DEF Q
<1>12. Closed(Q)
  <2>1. CASE Cardinality(Q) >= N
    BY <1>1, <1>11, <2>1, ItemsAssumption, FS_Subset, FS_CardinalityType DEF N
  <2> QED BY <1>11, <2>1
<1>13. ASSUME NEW P, S \subseteq P, \A x \in P \cap Items : below[x] \subseteq P
       PROVE  Q \subseteq P
  <2> DEFINE In == {n \in 0 .. N : within[n] \subseteq P /\ within[n] \subseteq Items}
  <2>1. 0 \in In
    BY <1>1, <1>7, <1>13
  <2>2. ASSUME NEW n \in Nat, n < N, n \in In
        PROVE  n + 1 \in In
    <3> DEFINE R == within[n]
    <3>1. n + 1 \in 0 .. N /\ n + 1 # 0 /\ (n + 1) - 1 = n
      BY <1>1, <2>2
    <3>2. within[n + 1] = Nearer(R, below)
      BY <1>7, <3>1
    <3>3. R \subseteq P /\ R \subseteq Items
      BY <2>2
    <3> HIDE DEF R
    <3>4. Nearer(R, below) \subseteq P /\ Nearer(R, below) \subseteq Items
      BY <1>13, <3>3 DEF Nearer
    <3> QED BY <3>1, <3>2, <3>4
  <2>3. N \in In
    <3> HIDE DEF In
    <3>1. 0 .. N \subseteq In
      BY <1>1, <2>1, <2>2, UpTo
    <3> QED BY <1>1, <3>1
  <2> QED BY <2>3 DEF Q
<1> QED BY <1>2, <1>11, <1>12, <1>13 DEF Q

-----------------------------------------------------------------------------
(* The to-do list: the clipboard and the purger.                           *)

UserFields == {"clip", "cutting", "copied", "single", "purging", "purger", "crashed"}
UserTyped(t) ==
  /\ t.clip \in [pending : SUBSET Nat, abort : BOOLEAN, asked : Todos \cup {None}] /\ t.copied \subseteq Todos
  /\ t.purger \in [calendar : {"none", "given", "loading", "loaded"}, items : Rows, current : Nat]
  /\ t.cutting \in BOOLEAN /\ t.purging \in BOOLEAN /\ t.single \in BOOLEAN /\ t.crashed \in BOOLEAN

LEMMA UserChanges ==
  ASSUME NEW s, NEW t, TodoTyped(s), SameBut(s, t, UserFields), UserTyped(t)
  PROVE  TodoTyped(t)
BY ListChanges DEF SameBut, ListFields, UserFields, TodoFields, TodoTyped, ListTyped, UserTyped

\* Record r is c with other requests.
Pending(c, r, pending) == r.pending = pending /\ r.abort = c.abort /\ r.asked = c.asked

LEMMA ClipIs ==
  ASSUME NEW s, TodoTyped(s), NEW pending \in SUBSET Nat
  PROVE  LET c == [s.clip EXCEPT !.pending = pending]
             t == [s EXCEPT !.clip = c]
         IN  TodoTyped(t) /\ SameBut(s, t, {"clip"}) /\ Pending(s.clip, t.clip, pending)
<1> DEFINE c == [s.clip EXCEPT !.pending = pending]
           t == [s EXCEPT !.clip = c]
<1>1. s.clip \in [pending : SUBSET Nat, abort : BOOLEAN, asked : Todos \cup {None}]
  BY DEF TodoTyped, ListTyped
<1>2. c \in [pending : SUBSET Nat, abort : BOOLEAN, asked : Todos \cup {None}] /\ Pending(s.clip, c, pending)
  BY <1>1 DEF Pending
<1> HIDE DEF c
<1>3. SameBut(s, t, {"clip"}) /\ t.clip = c
  BY DEF TodoTyped, TodoFields, SameBut
<1> HIDE DEF t
<1>4. UserTyped(t) /\ SameBut(s, t, UserFields)
  BY <1>2, <1>3 DEF SameBut, TodoFields, TodoTyped, ListTyped, UserTyped, UserFields
<1>5. TodoTyped(t)
  BY <1>4, UserChanges
<1> QED BY <1>2, <1>3, <1>5 DEF t, c

LEMMA CutFinishedIs ==
  ASSUME NEW s, TodoTyped(s)
  PROVE  LET t == CutFinished(s)
         IN  TodoTyped(t) /\ SameBut(s, t, {"cutting"}) /\ t.cutting = FALSE
<1> DEFINE t == CutFinished(s)
<1>1. SameBut(s, t, {"cutting"}) /\ t.cutting = FALSE
  BY DEF TodoTyped, TodoFields, SameBut, CutFinished
<1> HIDE DEF t
<1>2. UserTyped(t) /\ SameBut(s, t, UserFields)
  BY <1>1 DEF SameBut, TodoFields, TodoTyped, ListTyped, UserTyped, UserFields
<1> QED BY <1>1, <1>2, UserChanges DEF t

LEMMA CuttingIs ==
  ASSUME NEW s, TodoTyped(s)
  PROVE  LET t == [s EXCEPT !.cutting = TRUE]
         IN  TodoTyped(t) /\ SameBut(s, t, {"cutting"}) /\ t.cutting = TRUE
<1> DEFINE t == [s EXCEPT !.cutting = TRUE]
<1>1. SameBut(s, t, {"cutting"}) /\ t.cutting = TRUE
  BY DEF TodoTyped, TodoFields, SameBut
<1> HIDE DEF t
<1>2. UserTyped(t) /\ SameBut(s, t, UserFields)
  BY <1>1 DEF SameBut, TodoFields, TodoTyped, ListTyped, UserTyped, UserFields
<1> QED BY <1>1, <1>2, UserChanges DEF t

LEMMA ItemOfTyped ==
  ASSUME NEW s, TodoTyped(s), NEW u \in Items
  PROVE  /\ ItemOf(s, u) = s.idOf[u] /\ ItemOf(s, u) \in Items \cup {None}
         /\ ItemOf(s, u) # None => ItemOf(s, u) \in Items /\ PayloadOf(s, u) \in Todos
BY ItemsAssumption, RowFacts DEF TodoTyped, ListTyped, ItemOf, PayloadOf

\* What cut() does: nothing to delete, or a deletion.
NotCut(s, t) == SameBut(s, t, {"clip", "copied", "cutting"}) /\ Pending(s.clip, t.clip, {}) /\ t.cutting = FALSE
CutOf(s, t, items) ==
  /\ SameBut(s, t, DeletedFields \cup {"clip", "copied"}) /\ Pending(s.clip, t.clip, {s.next}) /\ t.next = s.next + 1
  /\ DeletionNotTaken(s, t, "app", items) \/ DeletionTaken(s, t, "app", items \ s.deleted["app"])
LEMMA CutIs ==
  ASSUME NEW s, TodoTyped(s), NEW payloads \in SUBSET Todos
  PROVE  LET t == Cut(s, payloads)
             items == {s.idOf[p.uid] : p \in payloads}
         IN  /\ TodoTyped(t) /\ t.copied = s.copied \cup payloads
             /\ NotCut(s, t) \/ (items \in SUBSET Items /\ CutOf(s, t, items))
<1> DEFINE t == Cut(s, payloads)
           items == {s.idOf[p.uid] : p \in payloads}
           e == [s.clip EXCEPT !.pending = {}]
           r == [s EXCEPT !.clip = e, !.copied = s.copied \cup payloads]
<1>1. \A p \in payloads : p.uid \in Items /\ ItemOf(s, p.uid) = s.idOf[p.uid] /\ s.idOf[p.uid] \in Items \cup {None}
  BY ItemOfTyped DEF Todos
<1>2. {ItemOf(s, p.uid) : p \in payloads} = items
  BY <1>1
<1>3. s.clip \in [pending : SUBSET Nat, abort : BOOLEAN, asked : Todos \cup {None}] /\ s.copied \subseteq Todos
  BY DEF TodoTyped, ListTyped
<1>4. e \in [pending : SUBSET Nat, abort : BOOLEAN, asked : Todos \cup {None}] /\ Pending(s.clip, e, {})
  BY <1>3 DEF Pending
<1>5. /\ TodoTyped(r) /\ SameBut(s, r, {"clip", "copied"}) /\ r.clip = e /\ r.copied = s.copied \cup payloads
  <2> HIDE DEF e
  <2>1. SameBut(s, r, {"clip", "copied"}) /\ r.clip = e /\ r.copied = s.copied \cup payloads
    BY DEF TodoTyped, TodoFields, SameBut
  <2> HIDE DEF r
  <2>2. s.copied \cup payloads \subseteq Todos
    BY <1>3
  <2>3. UserTyped(r) /\ SameBut(s, r, UserFields)
    BY <1>4, <2>1, <2>2 DEF SameBut, TodoFields, TodoTyped, ListTyped, UserTyped, UserFields
  <2> QED BY <2>1, <2>3, UserChanges
<1>6. t = IF None \in items THEN CutFinished(r) ELSE [Delete(r, "app", items, FALSE) EXCEPT !.clip.pending = {s.next}]
  BY <1>2 DEF Cut, NextId
<1>7. CASE None \in items
  <2> HIDE DEF r, e, t, items
  <2>1. TodoTyped(t) /\ SameBut(r, t, {"cutting"}) /\ t.cutting = FALSE
    BY <1>5, <1>6, <1>7, CutFinishedIs
  <2>2. SameBut(s, t, {"clip", "copied", "cutting"}) /\ t.clip = e /\ t.copied = s.copied \cup payloads
    BY <1>5, <2>1 DEF SameBut, TodoFields
  <2> QED BY <1>4, <2>1, <2>2 DEF NotCut, t
<1>8. CASE None \notin items
  <2>1. items \in SUBSET Items
    BY <1>1, <1>8
  <2> DEFINE d == Delete(r, "app", items, FALSE)
  <2>2. r.deleted = s.deleted /\ r.next = s.next /\ r.posted = s.posted /\ r.session = s.session
    BY <1>5 DEF SameBut, TodoFields
  <2> HIDE DEF r, e, t, items
  <2>3. /\ TodoTyped(d) /\ SameBut(r, d, DeletedFields) /\ d.next = r.next + 1
        /\ DeletionNotTaken(r, d, "app", items) \/ DeletionTaken(r, d, "app", items \ r.deleted["app"])
    BY <1>5, <2>1, DeleteIs DEF Callers
  <2> HIDE DEF d
  <2>4. d.clip = e /\ d.copied = s.copied \cup payloads
    BY <1>5, <2>3 DEF SameBut, TodoFields, DeletedFields
  <2>5. t = [d EXCEPT !.clip = [d.clip EXCEPT !.pending = {s.next}]]
    BY <1>6, <1>8 DEF d
  <2>6. {s.next} \in SUBSET Nat
    BY DEF TodoTyped, ServiceTyped
  <2>7. TodoTyped(t) /\ SameBut(d, t, {"clip"}) /\ Pending(d.clip, t.clip, {s.next})
    BY <2>3, <2>5, <2>6, ClipIs
  <2>8. /\ SameBut(s, t, DeletedFields \cup {"clip", "copied"}) /\ t.copied = s.copied \cup payloads
        /\ t.deleted = d.deleted /\ t.posted = d.posted /\ t.session = d.session /\ t.next = d.next
    BY <1>5, <2>3, <2>4, <2>7 DEF SameBut, TodoFields, DeletedFields
  <2>9. Pending(s.clip, t.clip, {s.next})
    BY <1>4, <2>4, <2>7 DEF Pending
  <2>10. DeletionNotTaken(s, t, "app", items) \/ DeletionTaken(s, t, "app", items \ s.deleted["app"])
    BY <2>2, <2>3, <2>8 DEF DeletionNotTaken, DeletionTaken
  <2> QED BY <2>1, <2>2, <2>3, <2>7, <2>8, <2>9, <2>10 DEF CutOf, t, items
<1> QED BY <1>7, <1>8

MadeFields == {"posted", "session", "waiting", "next", "clip", "single"}

LEMMA IndependentIs ==
  ASSUME NEW s, TodoTyped(s), NEW p \in Items, NEW c \in Items, s.idOf[c] # None
  PROVE  LET t == Independent(s, p, c)
         IN  /\ TodoTyped(t) /\ SameBut(s, t, MadeFields) /\ t.single = TRUE
             /\ Pending(s.clip, t.clip, s.clip.pending \cup {s.next})
             /\ \A k, id : Alive(t, k, id) <=> Alive(s, k, id) \/ (k = "app" /\ id = s.next)
             /\ Waiters(s) => Waiters(t)
<1> DEFINE t == Independent(s, p, c)
           todo == [PayloadOf(s, c) EXCEPT !.related = None]
           rev == s.cal[p].rev
           m == Modify(s, "app", p, todo, rev)
           ch == [id |-> s.next, item |-> p, todo |-> todo, rev |-> rev]
<1>1. todo \in Todos /\ rev \in Nat
  BY ItemOfTyped, RowFacts DEF Todos
<1> HIDE DEF todo, rev
<1>2. /\ TodoTyped(m) /\ SameBut(s, m, {"posted", "session", "waiting", "next"})
      /\ m.next = s.next + 1 /\ Took(s, m, ch) /\ ch \in TodoChanges
  BY <1>1, ModifyIs
<1>3. /\ \A k, id : Alive(m, k, id) <=> Alive(s, k, id) \/ (k = "app" /\ id = ch.id)
      /\ Waiters(s) => Waiters(m)
  <2> HIDE DEF ch, m
  <2> QED BY <1>2, TookAlive
<1>4. ch.id = s.next
  OBVIOUS
<1> HIDE DEF ch
<1> DEFINE e == [m.clip EXCEPT !.pending = s.clip.pending \cup {s.next}]
           r == [m EXCEPT !.clip = e]
           f == [r EXCEPT !.single = TRUE]
<1>5. m.clip = s.clip
  BY <1>2 DEF SameBut, TodoFields
<1>6. t = f
  BY <1>2, <1>5 DEF Independent, NextId, todo, rev
<1> HIDE DEF m, t
<1>7. s.clip.pending \cup {s.next} \in SUBSET Nat
  BY DEF TodoTyped, ListTyped, ServiceTyped
<1>8. TodoTyped(r) /\ SameBut(m, r, {"clip"}) /\ Pending(m.clip, r.clip, s.clip.pending \cup {s.next})
  BY <1>2, <1>7, ClipIs
<1> HIDE DEF r
<1>9. SameBut(r, f, {"single"}) /\ f.single = TRUE
  BY <1>8 DEF TodoTyped, TodoFields, SameBut
<1> HIDE DEF f
<1>10. TodoTyped(f)
  <2>1. UserTyped(f) /\ SameBut(r, f, UserFields)
    BY <1>8, <1>9 DEF SameBut, TodoFields, TodoTyped, ListTyped, UserTyped, UserFields
  <2> QED BY <1>8, <2>1, UserChanges
<1>11. /\ SameBut(s, t, MadeFields) /\ t.clip = r.clip /\ t.session = m.session /\ t.posted = m.posted
       /\ t.waiting = m.waiting
  BY <1>2, <1>6, <1>8, <1>9 DEF SameBut, TodoFields, MadeFields
<1>12. /\ \A k, id : Alive(t, k, id) <=> Alive(m, k, id)
       /\ Waiters(m) => Waiters(t)
  BY <1>11 DEF Alive, Waiters, Writing
<1> QED BY <1>3, <1>4, <1>5, <1>6, <1>8, <1>9, <1>10, <1>11, <1>12 DEF t

\* The children made independent so far.
SoFar(base, r, n) ==
  /\ TodoTyped(r) /\ SameBut(base, r, MadeFields)
  /\ \A k, id : Alive(base, k, id) => Alive(r, k, id)
  /\ Waiters(base) => Waiters(r)
  /\ \A id \in r.clip.pending : id \in base.clip.pending \/ Alive(r, "app", id)
  /\ r.clip.abort = base.clip.abort /\ r.clip.asked = base.clip.asked
  /\ n > 0 => r.single = TRUE /\ r.clip.pending # {}

MadeBy(base, p, seq) == FoldLeft(LAMBDA t, c : Independent(t, p, c), base, seq)
LEMMA FoldedIs ==
  ASSUME NEW base, TodoTyped(base), NEW p \in Items, NEW seq \in Seq(Items),
         \A n \in DOMAIN seq : base.idOf[seq[n]] # None
  PROVE  SoFar(base, MadeBy(base, p, seq), Len(seq))
<1> DEFINE N == Len(seq)
<1>1. N \in Nat /\ DOMAIN seq = 1 .. N
  BY LenProperties
<1>2. PICK r : IndependentInTurn(base, p, seq, r)
  BY IndependentFold
<1>3. r[0] = base /\ \A k \in 1 .. N : r[k] = Independent(r[k - 1], p, seq[k])
  BY <1>2 DEF IndependentInTurn
<1>8. MadeBy(base, p, seq) = r[N]
  BY <1>2 DEF IndependentInTurn, MadeBy
<1> HIDE DEF N
<1> DEFINE Done == {n \in 0 .. N : SoFar(base, r[n], n)}
<1>4. 0 \in Done
  BY <1>1, <1>3 DEF SoFar, SameBut, TodoTyped
<1>5. ASSUME NEW n \in Nat, n < N, n \in Done
      PROVE  n + 1 \in Done
  <2>1. n + 1 \in 1 .. N /\ n + 1 \in 0 .. N /\ (n + 1) - 1 = n /\ n + 1 > 0
    BY <1>1, <1>5
  <2> DEFINE a == r[n]
             b == r[n + 1]
             c == seq[n + 1]
  <2>2. b = Independent(a, p, c)
    BY <1>3, <2>1
  <2>3. SoFar(base, a, n)
    BY <1>5
  <2>4. c \in Items /\ base.idOf[c] # None
    BY <1>1, <2>1, ElementOfSeq
  <2> HIDE DEF a, b, c
  <2>5. a.idOf = base.idOf /\ TodoTyped(a)
    BY <2>3 DEF SoFar, SameBut, TodoFields, MadeFields
  <2>6. /\ TodoTyped(b) /\ SameBut(a, b, MadeFields) /\ b.single = TRUE
        /\ Pending(a.clip, b.clip, a.clip.pending \cup {a.next})
        /\ \A k, id : Alive(b, k, id) <=> Alive(a, k, id) \/ (k = "app" /\ id = a.next)
        /\ Waiters(a) => Waiters(b)
    BY <2>2, <2>4, <2>5, IndependentIs
  <2>7. SameBut(base, b, MadeFields)
    BY <2>3, <2>6 DEF SoFar, SameBut
  <2>8. SoFar(base, b, n + 1)
    BY <2>3, <2>6, <2>7 DEF SoFar, Pending
  <2> QED BY <2>1, <2>8 DEF b
<1>6. N \in Done
  <2> HIDE DEF Done
  <2>1. 0 .. N \subseteq Done
    BY <1>1, <1>4, <1>5, UpTo
  <2> QED BY <1>1, <2>1
<1>7. SoFar(base, r[N], N)
  BY <1>6
<1> QED BY <1>7, <1>8 DEF N

CutDone(s, t, payloads) ==
  LET items == {s.idOf[p.uid] : p \in payloads}
  IN  t.copied = s.copied \cup payloads /\ (NotCut(s, t) \/ (items \in SUBSET Items /\ CutOf(s, t, items)))
NothingMade(s, t) ==
  SameBut(s, t, {"clip", "cutting"}) /\ t.cutting = FALSE /\ t.clip.pending = {} /\ t.clip.asked = s.clip.asked
Made(s, t) ==
  /\ SameBut(s, t, MadeFields) /\ t.single = TRUE
  /\ \A k, id : Alive(s, k, id) => Alive(t, k, id)
  /\ Waiters(s) => Waiters(t)
  /\ \A id \in t.clip.pending : Alive(t, "app", id)
  /\ t.clip.pending # {} /\ t.clip.asked = s.clip.asked

LEMMA CutIsDone ==
  ASSUME NEW s, TodoTyped(s), NEW payloads \in SUBSET Todos
  PROVE  TodoTyped(Cut(s, payloads)) /\ CutDone(s, Cut(s, payloads), payloads)
BY CutIs DEF CutDone

LEMMA ChildrenTyped ==
  ASSUME NEW s, TodoTyped(s), NEW u
  PROVE  /\ Children(s, u) \in SUBSET Items /\ IsFiniteSet(Children(s, u))
         /\ \A x \in Children(s, u) : s.idOf[x] # None /\ s.idOf[x] \in Items
BY ItemsAssumption, FS_Subset DEF TodoTyped, ListTyped, Children, ChildrenIn

LEMMA MakeIs ==
  ASSUME NEW s, TodoTyped(s), NEW inc \in Todos
  PROVE  LET t == MakeChildsIndependent(s, inc)
         IN  /\ TodoTyped(t)
             /\ (Children(s, inc.uid) = {} /\ CutDone(s, t, {inc})) \/ NothingMade(s, t) \/ Made(s, t)
<1> DEFINE t == MakeChildsIndependent(s, inc)
           u == inc.uid
           kids == Children(s, u)
           seq == SetToSeq(kids)
           e == [s.clip EXCEPT !.pending = {}, !.abort = FALSE]
           r == [s EXCEPT !.clip.pending = {}, !.clip.abort = FALSE]
           p == ItemOf(s, u)
           F == MadeBy(r, p, seq)
<1>1. u \in Items /\ kids \in SUBSET Items /\ IsFiniteSet(kids) /\ \A x \in kids : s.idOf[x] # None
  BY ChildrenTyped DEF Todos
<1>2. seq \in Seq(kids) /\ Len(seq) = Cardinality(kids) /\ Len(seq) \in Nat /\ ToSet(seq) = kids /\ DOMAIN seq = 1 .. Len(seq)
  BY <1>1, SetInOrder
<1>3. t = IF seq = <<>> THEN Cut(s, {inc}) ELSE IF p = None THEN CutFinished(r) ELSE F
  BY DEF MakeChildsIndependent, MadeBy
<1> HIDE DEF kids, seq, F, t
<1>4. /\ TodoTyped(r) /\ SameBut(s, r, {"clip"}) /\ r.clip.pending = {} /\ r.clip.asked = s.clip.asked
  <2>1. s.clip \in [pending : SUBSET Nat, abort : BOOLEAN, asked : Todos \cup {None}]
    BY DEF TodoTyped, ListTyped
  <2>2. /\ e \in [pending : SUBSET Nat, abort : BOOLEAN, asked : Todos \cup {None}]
        /\ e.pending = {} /\ e.asked = s.clip.asked
    BY <2>1
  <2> HIDE DEF e
  <2>3. SameBut(s, r, {"clip"}) /\ r.clip = e
    BY DEF e, TodoTyped, TodoFields, SameBut
  <2> HIDE DEF r
  <2>4. UserTyped(r) /\ SameBut(s, r, UserFields)
    BY <2>2, <2>3 DEF SameBut, TodoFields, TodoTyped, ListTyped, UserTyped, UserFields
  <2> QED BY <2>2, <2>3, <2>4, UserChanges
<1> HIDE DEF r
<1>5. CASE seq = <<>>
  BY <1>1, <1>2, <1>3, <1>5, FS_EmptySet, CutIsDone DEF t, kids
<1>6. CASE seq # <<>> /\ p = None
  <2>1. t = CutFinished(r)
    BY <1>3, <1>6
  <2>2. TodoTyped(t) /\ SameBut(r, t, {"cutting"}) /\ t.cutting = FALSE
    BY <1>4, <2>1, CutFinishedIs
  <2>3. t.clip = r.clip /\ SameBut(s, t, {"clip", "cutting"})
    BY <1>4, <2>2 DEF SameBut, TodoFields
  <2>4. NothingMade(s, t)
    BY <1>4, <2>2, <2>3 DEF NothingMade
  <2> QED BY <2>2, <2>4 DEF t
<1>7. CASE seq # <<>> /\ p # None
  <2>1. t = F
    BY <1>3, <1>7
  <2>2. p \in Items
    BY <1>1, <1>7, ItemOfTyped
  <2> HIDE DEF p, u
  <2>3. seq \in Seq(Items) /\ \A n \in DOMAIN seq : s.idOf[seq[n]] # None
    BY <1>1, <1>2, SeqMonotonic, ElementOfSeq
  <2>4. r.idOf = s.idOf
    BY <1>4 DEF SameBut, TodoFields
  <2>5. SoFar(r, F, Len(seq))
    BY <1>4, <2>2, <2>3, <2>4, FoldedIs DEF F
  <2>6. Len(seq) > 0
    BY <1>2, <1>7
  <2> HIDE DEF F
  <2>7. SoFar(r, t, Len(seq))
    BY <2>1, <2>5
  <2>8. r.session = s.session /\ r.posted = s.posted /\ r.waiting = s.waiting
    BY <1>4 DEF SameBut, TodoFields
  <2>9. /\ \A k, id : Alive(s, k, id) => Alive(r, k, id)
        /\ Waiters(s) => Waiters(r)
    BY <2>8 DEF Alive, Waiters, Writing
  <2>10. SameBut(s, t, MadeFields)
    BY <1>4, <2>7 DEF SoFar, SameBut, MadeFields
  <2>11. Made(s, t) /\ TodoTyped(t)
    BY <1>4, <2>6, <2>7, <2>9, <2>10 DEF SoFar, Made
  <2> QED BY <2>11 DEF t
<1> QED BY <1>5, <1>6, <1>7 DEF t

\* All that is below a to-do.
HierarchyOf(s, H, u) == H \subseteq Items /\ u \in H /\ \A x \in H : Children(s, x) \subseteq H
LEMMA HierarchyIs ==
  ASSUME NEW s, TodoTyped(s), NEW u \in Items
  PROVE  HierarchyOf(s, Hierarchy(s, u), u)
<1> DEFINE below == Below(s)
<1>1. below \in [Items -> SUBSET Items]
  BY ChildrenTyped DEF Below
<1>2. \A x \in Items : below[x] = Children(s, x)
  BY DEF Below
<1>3. Hierarchy(s, u) = Reached({u}, below) /\ {u} \in SUBSET Items
  BY DEF Hierarchy
<1> HIDE DEF below
<1> DEFINE R == Reached({u}, below)
<1>4. R \subseteq Items /\ {u} \subseteq R /\ \A x \in R : below[x] \subseteq R
  BY <1>1, <1>3, ReachedIs, Zenon
<1> HIDE DEF R
<1>5. \A x \in R : Children(s, x) \subseteq R
  BY <1>2, <1>4
<1> QED BY <1>3, <1>4, <1>5 DEF HierarchyOf, R

LEMMA CrashedIs ==
  ASSUME NEW s, TodoTyped(s)
  PROVE  Crashed(s).crashed = TRUE /\ Crashed(s).single = s.single
BY DEF Crashed, TodoTyped, TodoFields

\* What a cut with all that is below copies.
Copied(s, H) == {s.cal[s.idOf[x]].todo : x \in {x \in H : s.idOf[x] # None}}
LEMMA CutRecursivelyIs ==
  ASSUME NEW s, TodoTyped(s), NEW inc \in Todos
  PROVE  LET t == CutRecursively(s, inc)
         IN  \/ t.crashed = TRUE /\ t.single = s.single
             \/ /\ TodoTyped(t)
                /\ \E r, H : /\ TodoTyped(r) /\ SameBut(s, r, {"cutting"}) /\ r.cutting = TRUE
                             /\ HierarchyOf(s, H, inc.uid) /\ Copied(s, H) \in SUBSET Todos /\ CutDone(r, t, Copied(s, H))
<1> DEFINE t == CutRecursively(s, inc)
           u == inc.uid
           r == [s EXCEPT !.cutting = TRUE]
           H == Hierarchy(s, u)
<1>1. u \in Items
  BY DEF Todos
<1>2. HierarchyOf(s, H, u)
  BY <1>1, HierarchyIs
<1>3. TodoTyped(r) /\ SameBut(s, r, {"cutting"}) /\ r.cutting = TRUE
  BY CuttingIs
<1>4. {PayloadOf(s, x) : x \in {x \in H : ItemOf(s, x) # None}} = Copied(s, H)
  BY <1>2, ItemOfTyped DEF HierarchyOf, Copied, PayloadOf
<1>5. Copied(s, H) \in SUBSET Todos
  BY <1>2, ItemOfTyped DEF HierarchyOf, PayloadOf, Copied
<1>6. t = IF IsLoop(s, u) THEN Crashed(s) ELSE Cut(r, Copied(s, H))
  BY <1>4 DEF CutRecursively
<1> HIDE DEF t, r, H
<1>7. CASE IsLoop(s, u)
  BY <1>6, <1>7, CrashedIs DEF t
<1>8. CASE ~IsLoop(s, u)
  BY <1>2, <1>3, <1>5, <1>6, <1>8, CutIsDone DEF t
<1> QED BY <1>7, <1>8

\* The purger's calendar may have changed, and the id it waits for.
PurgerOf(s, t, calendar, current) ==
  t.purger.items = s.purger.items /\ t.purger.calendar = calendar /\ t.purger.current = current

Whereabouts == {"none", "given", "loading", "loaded"}
WithPurger(s, calendar, items, current) ==
  [s EXCEPT !.purger = [calendar |-> calendar, items |-> items, current |-> current]]

PurgerNow(s, t, calendar, items, current) ==
  /\ SameBut(s, t, {"purger"})
  /\ t.purger.calendar = calendar /\ t.purger.current = current /\ t.purger.items = items

LEMMA PurgerIs ==
  ASSUME NEW s, TodoTyped(s), NEW calendar \in Whereabouts, NEW current \in Nat, NEW items \in Rows
  PROVE  LET t == WithPurger(s, calendar, items, current)
         IN  TodoTyped(t) /\ PurgerNow(s, t, calendar, items, current)
<1> DEFINE p == [calendar |-> calendar, items |-> items, current |-> current]
           t == [s EXCEPT !.purger = p]
<1>2. /\ p \in [calendar : {"none", "given", "loading", "loaded"}, items : Rows, current : Nat]
      /\ p.calendar = calendar /\ p.current = current /\ p.items = items
  BY DEF Whereabouts
<1> HIDE DEF p
<1>3. SameBut(s, t, {"purger"}) /\ t.purger = p
  BY DEF TodoTyped, TodoFields, SameBut
<1> HIDE DEF t
<1>4. UserTyped(t) /\ SameBut(s, t, UserFields)
  BY <1>2, <1>3 DEF SameBut, TodoFields, TodoTyped, ListTyped, UserTyped, UserFields
<1>5. TodoTyped(t)
  BY <1>4, UserChanges
<1>6. WithPurger(s, calendar, items, current) = t
  BY DEF WithPurger, t, p
<1> QED BY <1>2, <1>3, <1>5, <1>6 DEF PurgerNow

LEMMA PurgerFacts ==
  ASSUME NEW s, TodoTyped(s)
  PROVE  /\ s.purger.calendar \in {"none", "given", "loading", "loaded"} /\ s.purger.items \in Rows
         /\ s.purger.current \in Nat /\ s.store \in Rows /\ s.next \in Nat \ {0}
         /\ s.purger = [calendar |-> s.purger.calendar, items |-> s.purger.items, current |-> s.purger.current]
BY DEF TodoTyped, ListTyped, ServiceTyped

LEMMA DroppedIs ==
  ASSUME NEW s, TodoTyped(s)
  PROVE  LET t == Dropped(s)
         IN  /\ TodoTyped(t) /\ SameBut(s, t, {"purger"})
             /\ PurgerOf(s, t, IF s.purger.calendar = "given" THEN "given" ELSE "none", s.purger.current)
<1>1. CASE s.purger.calendar = "given"
  BY <1>1 DEF Dropped, PurgerOf, SameBut, TodoTyped
<1>2. CASE s.purger.calendar # "given"
  <2> DEFINE t == WithPurger(s, "none", s.purger.items, s.purger.current)
  <2>1. [s.purger EXCEPT !.calendar = "none"] = [calendar |-> "none", items |-> s.purger.items, current |-> s.purger.current]
    BY DEF TodoTyped, ListTyped
  <2>2. Dropped(s) = t
    BY <1>2, <2>1 DEF Dropped, WithPurger
  <2>3. "none" \in Whereabouts /\ s.purger.items \in Rows /\ s.purger.current \in Nat
    BY PurgerFacts DEF Whereabouts
  <2>4. TodoTyped(t) /\ PurgerNow(s, t, "none", s.purger.items, s.purger.current)
    BY <2>3, PurgerIs
  <2> HIDE DEF t
  <2> QED BY <1>2, <2>2, <2>4 DEF PurgerOf, PurgerNow
<1> QED BY <1>1, <1>2

LEMMA PurgingIs ==
  ASSUME NEW s, TodoTyped(s), NEW b \in BOOLEAN
  PROVE  LET t == [s EXCEPT !.purging = b]
         IN  TodoTyped(t) /\ SameBut(s, t, {"purging"}) /\ t.purging = b
<1> DEFINE t == [s EXCEPT !.purging = b]
<1>1. SameBut(s, t, {"purging"}) /\ t.purging = b
  BY DEF TodoTyped, TodoFields, SameBut
<1> HIDE DEF t
<1>2. UserTyped(t) /\ SameBut(s, t, UserFields)
  BY <1>1 DEF SameBut, TodoFields, TodoTyped, ListTyped, UserTyped, UserFields
<1> QED BY <1>1, <1>2, UserChanges DEF t

\* A purge that is over.
PurgeOver(s, t) ==
  /\ SameBut(s, t, {"purging", "purger"}) /\ t.purging = FALSE
  /\ PurgerOf(s, t, IF s.purger.calendar = "given" THEN "given" ELSE "none", s.purger.current)
LEMMA PurgeOverIs ==
  ASSUME NEW s, TodoTyped(s)
  PROVE  LET t == TodosPurged(Dropped(s)) IN TodoTyped(t) /\ PurgeOver(s, t)
<1> DEFINE r == Dropped(s)
           t == TodosPurged(r)
<1>1. /\ TodoTyped(r) /\ SameBut(s, r, {"purger"})
      /\ PurgerOf(s, r, IF s.purger.calendar = "given" THEN "given" ELSE "none", s.purger.current)
  BY DroppedIs
<1> HIDE DEF r
<1>2. TodoTyped(t) /\ SameBut(r, t, {"purging"}) /\ t.purging = FALSE
  BY <1>1, PurgingIs DEF TodosPurged
<1> HIDE DEF t
<1>3. t.purger = r.purger /\ SameBut(s, t, {"purging", "purger"})
  BY <1>1, <1>2 DEF SameBut, TodoFields
<1> QED BY <1>1, <1>2, <1>3 DEF PurgeOver, PurgerOf, t, r

\* A purge deletes to-dos that are completed, with all that is below them.
Purged(shown, D) ==
  /\ D \in SUBSET Items
  /\ \A i \in D : shown[i].live
  /\ \A i \in D, y \in Items : shown[y].live /\ shown[y].todo.related = shown[i].todo.uid => y \in D
PurgeOf(s, t) ==
  /\ SameBut(s, t, DeletedFields \cup {"purger"}) /\ t.next = s.next + 1
  /\ PurgerOf(s, t, s.purger.calendar, s.next)
  /\ \E D : /\ Purged(Shown(s), D)
            /\ DeletionNotTaken(s, t, "purger", D) \/ DeletionTaken(s, t, "purger", D \ s.deleted["purger"])

LEMMA DeletableIs ==
  ASSUME NEW s, TodoTyped(s)
  PROVE  LET shown == Shown(s)
         IN  Purged(shown, {i \in Items : Completed(shown[i]) /\ TreeIsDeletable(shown, i)})
<1> DEFINE shown == Shown(s)
           below == Lower(shown)
           D == {i \in Items : Completed(shown[i]) /\ TreeIsDeletable(shown, i)}
<1>1. below \in [Items -> SUBSET Items]
  BY DEF Lower
<1>2. /\ \A x \in Items : \A y \in below[x] : y \in Items
      /\ \A x \in Items, y \in Items : y \in below[x] <=> shown[x].live /\ shown[y].live /\ shown[y].todo.related = shown[x].todo.uid
  BY DEF Lower
<1>3. \A i : TreeIsDeletable(shown, i) <=> \A x \in Reached({i}, below) : Completed(shown[x]) /\ x \notin Locked
  BY DEF TreeIsDeletable
<1>4. \A i \in D : shown[i].live
  BY DEF Completed
<1> HIDE DEF shown, below
<1>5. ASSUME NEW i \in D, NEW y \in Items, shown[y].live, shown[y].todo.related = shown[i].todo.uid
      PROVE  y \in D
  <2> DEFINE R == Reached({i}, below)
             T == Reached({y}, below)
  <2>1. i \in Items /\ Completed(shown[i]) /\ shown[i].live /\ \A x \in R : Completed(shown[x]) /\ x \notin Locked
    BY <1>3, <1>4
  <2>2. {i} \in SUBSET Items /\ {y} \in SUBSET Items
    BY <2>1
  <2>3. R \subseteq Items /\ {i} \subseteq R /\ \A x \in R : below[x] \subseteq R
    BY <1>1, <2>2, ReachedIs, Zenon
  <2>4. {y} \subseteq R
    BY <1>2, <1>5, <2>1, <2>3
  <2>5. T \subseteq R
    <3>1. \A Q : {y} \subseteq Q /\ (\A x \in Q \cap Items : below[x] \subseteq Q) => T \subseteq Q
      BY <1>1, <2>2, ReachedIs, Zenon
    <3> HIDE DEF R, T
    <3> QED BY <2>3, <2>4, <3>1
  <2>6. {y} \subseteq T
    BY <1>1, <2>2, ReachedIs, Zenon
  <2>7. Completed(shown[y]) /\ TreeIsDeletable(shown, y)
    BY <1>3, <2>1, <2>5, <2>6
  <2> QED BY <2>7
<1>6. D \in SUBSET Items
  OBVIOUS
<1> QED BY <1>4, <1>5, <1>6 DEF Purged, shown

LEMMA DeleteTodosIs ==
  ASSUME NEW s, TodoTyped(s)
  PROVE  LET t == DeleteTodos(s)
         IN  (t.crashed = TRUE /\ t.single = s.single) \/ (TodoTyped(t) /\ (PurgeOver(s, t) \/ PurgeOf(s, t)))
<1> DEFINE t == DeleteTodos(s)
           shown == Shown(s)
           D == {i \in Items : Completed(shown[i]) /\ TreeIsDeletable(shown, i)}
           d == Delete(s, "purger", D, TRUE)
<1>1. Purged(shown, D) /\ D \in SUBSET Items
  BY DeletableIs DEF Purged
<1>2. t = IF Endless(shown) THEN Crashed(s) ELSE IF D = {} THEN TodosPurged(Dropped(s)) ELSE [d EXCEPT !.purger.current = s.next]
  BY DEF DeleteTodos, NextId
<1> HIDE DEF t, shown, D, d
<1>3. CASE Endless(shown)
  BY <1>2, <1>3, CrashedIs DEF t
<1>4. CASE ~Endless(shown) /\ D = {}
  BY <1>2, <1>4, PurgeOverIs DEF t
<1>5. CASE ~Endless(shown) /\ D # {}
  <2>1. /\ TodoTyped(d) /\ SameBut(s, d, DeletedFields) /\ d.next = s.next + 1
        /\ DeletionNotTaken(s, d, "purger", D) \/ DeletionTaken(s, d, "purger", D \ s.deleted["purger"])
    BY <1>1, DeleteIs DEF Callers, d
  <2> DEFINE r == WithPurger(d, d.purger.calendar, d.purger.items, s.next)
  <2>2. t = r
    BY <1>2, <1>5, <2>1 DEF TodoTyped, ListTyped, WithPurger
  <2>3. /\ TodoTyped(r) /\ SameBut(d, r, {"purger"}) /\ r.purger.calendar = d.purger.calendar
        /\ r.purger.current = s.next /\ r.purger.items = d.purger.items
    <3>1. d.purger.calendar \in Whereabouts /\ d.purger.items \in Rows
      BY <2>1, PurgerFacts DEF Whereabouts
    <3>2. s.next \in Nat
      BY PurgerFacts
    <3>3. TodoTyped(r) /\ PurgerNow(d, r, d.purger.calendar, d.purger.items, s.next)
      BY <2>1, <3>1, <3>2, PurgerIs
    <3> HIDE DEF r
    <3> QED BY <3>3 DEF PurgerNow
  <2> HIDE DEF r
  <2>4. /\ SameBut(s, t, DeletedFields \cup {"purger"}) /\ t.next = s.next + 1 /\ d.purger = s.purger
        /\ t.posted = d.posted /\ t.session = d.session /\ t.deleted = d.deleted
    BY <2>1, <2>2, <2>3 DEF SameBut, TodoFields, DeletedFields
  <2>5. DeletionNotTaken(s, t, "purger", D) \/ DeletionTaken(s, t, "purger", D \ s.deleted["purger"])
    BY <2>1, <2>4 DEF DeletionNotTaken, DeletionTaken
  <2>6. PurgeOf(s, t)
    BY <1>1, <2>2, <2>3, <2>4, <2>5 DEF PurgeOf, PurgerOf, shown
  <2> QED BY <2>2, <2>3, <2>6 DEF t
<1> QED BY <1>3, <1>4, <1>5

\* What was asked for stays asked for, and what is pending is asked for.
Keeps(s, t) ==
  /\ \A k, id : Alive(s, k, id) => Alive(t, k, id)
  /\ Waiters(s) => Waiters(t)
InHand(t) == \A id \in t.clip.pending : Alive(t, "app", id)

\* A cut goes on from s to t.
GoesOn(s, t) ==
  /\ Keeps(s, t) /\ InHand(t) /\ t.clip.asked = s.clip.asked /\ (t.cutting => t.clip.pending # {})
  /\ t.purger = s.purger /\ t.purging = s.purging

LEMMA SameService ==
  ASSUME NEW s, NEW t, SameBut(s, t, {"cutting", "clip", "copied", "purging", "purger", "single", "crashed"})
  PROVE  /\ Keeps(s, t)
         /\ \A k, id : Alive(t, k, id) <=> Alive(s, k, id)
         /\ \A id : (\E i \in Items : t.waiting["app"][i] # NoModification /\ t.waiting["app"][i].id = id)
                    <=> (\E i \in Items : s.waiting["app"][i] # NoModification /\ s.waiting["app"][i].id = id)
BY DEF SameBut, TodoFields, Keeps, Alive, Waiters, Writing

LEMMA CutDoneGoesOn ==
  ASSUME NEW s, NEW t, TodoTyped(s), TodoTyped(t), NEW payloads, CutDone(s, t, payloads)
  PROVE  GoesOn(s, t)
<1> DEFINE items == {s.idOf[p.uid] : p \in payloads}
<1>1. CASE NotCut(s, t)
  BY <1>1, SameService DEF NotCut, SameBut, TodoFields, Pending, GoesOn, InHand
<1>2. CASE items \in SUBSET Items /\ CutOf(s, t, items)
  <2> HIDE DEF items
  <2>1. /\ t.purger = s.purger /\ t.purging = s.purging /\ t.waiting = s.waiting
        /\ t.clip.pending = {s.next} /\ t.clip.asked = s.clip.asked
    BY <1>2 DEF CutOf, SameBut, TodoFields, DeletedFields, Pending
  <2> DEFINE left == items \ s.deleted["app"]
  <2>2. left \in SUBSET Items /\ "app" \in Callers
    BY <1>2 DEF Callers
  <2>3. DeletionNotTaken(s, t, "app", items) \/ DeletionTaken(s, t, "app", left)
    BY <1>2 DEF CutOf
  <2> HIDE DEF left
  <2>4. /\ \A c, id : Alive(t, c, id) <=> Alive(s, c, id) \/ (c = "app" /\ id = s.next)
        /\ Waiters(s) => Waiters(t)
    BY <1>2, <2>1, <2>2, <2>3, DeletionAlive
  <2> QED BY <2>1, <2>4 DEF GoesOn, Keeps, InHand
<1> QED BY <1>1, <1>2 DEF CutDone

LEMMA MakeGoesOn ==
  ASSUME NEW s, TodoTyped(s), NEW inc \in Todos
  PROVE  TodoTyped(MakeChildsIndependent(s, inc)) /\ GoesOn(s, MakeChildsIndependent(s, inc))
<1> DEFINE t == MakeChildsIndependent(s, inc)
<1>1. /\ TodoTyped(t)
      /\ (Children(s, inc.uid) = {} /\ CutDone(s, t, {inc})) \/ NothingMade(s, t) \/ Made(s, t)
  BY MakeIs
<1> HIDE DEF t
<1>2. ASSUME CutDone(s, t, {inc}) PROVE GoesOn(s, t)
  BY <1>1, <1>2, CutDoneGoesOn
<1>3. ASSUME NothingMade(s, t) PROVE GoesOn(s, t)
  BY <1>3, SameService DEF NothingMade, SameBut, TodoFields, GoesOn, InHand
<1>4. ASSUME Made(s, t) PROVE GoesOn(s, t)
  BY <1>4 DEF Made, SameBut, TodoFields, MadeFields, GoesOn, Keeps, InHand
<1> QED BY <1>1, <1>2, <1>3, <1>4 DEF t

\* The state before a cut, in which a cut is begun.
LEMMA BegunGoesOn ==
  ASSUME NEW s, NEW r, NEW t, SameBut(s, r, {"cutting"}), GoesOn(r, t)
  PROVE  GoesOn(s, t)
BY SameService DEF SameBut, TodoFields, GoesOn, Keeps

LEMMA CutSingleGoesOn ==
  ASSUME NEW s, TodoTyped(s), NEW inc \in Todos
  PROVE  TodoTyped(CutSingle(s, inc)) /\ GoesOn(s, CutSingle(s, inc))
<1> DEFINE r == [s EXCEPT !.cutting = TRUE]
           t == MakeChildsIndependent(r, inc)
<1>1. TodoTyped(r) /\ SameBut(s, r, {"cutting"})
  BY CuttingIs
<1>2. CutSingle(s, inc) = t
  BY DEF CutSingle
<1> HIDE DEF r
<1>3. TodoTyped(t) /\ GoesOn(r, t)
  BY <1>1, MakeGoesOn
<1> HIDE DEF t
<1>4. GoesOn(s, t)
  BY <1>1, <1>3, BegunGoesOn
<1> QED BY <1>2, <1>3, <1>4

LEMMA CutRecursivelyGoesOn ==
  ASSUME NEW s, TodoTyped(s), NEW inc \in Todos
  PROVE  LET t == CutRecursively(s, inc) IN t.crashed = TRUE \/ (TodoTyped(t) /\ GoesOn(s, t))
<1> DEFINE t == CutRecursively(s, inc)
<1>1. \/ t.crashed = TRUE
      \/ /\ TodoTyped(t)
         /\ \E r, H : /\ TodoTyped(r) /\ SameBut(s, r, {"cutting"}) /\ r.cutting = TRUE
                      /\ HierarchyOf(s, H, inc.uid) /\ Copied(s, H) \in SUBSET Todos /\ CutDone(r, t, Copied(s, H))
  BY CutRecursivelyIs
<1> HIDE DEF t
<1>2. ASSUME NEW r, NEW H, TodoTyped(t), TodoTyped(r), SameBut(s, r, {"cutting"}), CutDone(r, t, Copied(s, H))
      PROVE  GoesOn(s, t)
  BY <1>2, CutDoneGoesOn, BegunGoesOn
<1> QED BY <1>1, <1>2 DEF t

\* The purger.
PurgerGoesOn(s, t) ==
  /\ Keeps(s, t) /\ t.clip = s.clip /\ t.cutting = s.cutting
  /\ t.purging => t.purger.calendar = "loading" \/ Alive(t, "purger", t.purger.current)

LEMMA DeleteTodosGoesOn ==
  ASSUME NEW s, NEW t, TodoTyped(s), TodoTyped(t), PurgeOver(s, t) \/ PurgeOf(s, t)
  PROVE  PurgerGoesOn(s, t)
<1>1. CASE PurgeOver(s, t)
  BY <1>1, SameService DEF PurgeOver, SameBut, TodoFields, PurgerGoesOn
<1>2. CASE PurgeOf(s, t)
  <2>1. t.clip = s.clip /\ t.cutting = s.cutting /\ t.waiting = s.waiting /\ t.purger.current = s.next
    BY <1>2 DEF PurgeOf, SameBut, TodoFields, DeletedFields, PurgerOf
  <2>2. PICK D \in SUBSET Items : DeletionNotTaken(s, t, "purger", D) \/ DeletionTaken(s, t, "purger", D \ s.deleted["purger"])
    BY <1>2 DEF PurgeOf, Purged
  <2> DEFINE left == D \ s.deleted["purger"]
  <2>3. left \in SUBSET Items /\ "purger" \in Callers
    BY DEF Callers
  <2>4. DeletionNotTaken(s, t, "purger", D) \/ DeletionTaken(s, t, "purger", left)
    BY <2>2
  <2> HIDE DEF left
  <2>5. /\ \A c, id : Alive(t, c, id) <=> Alive(s, c, id) \/ (c = "purger" /\ id = s.next)
        /\ Waiters(s) => Waiters(t)
    BY <2>1, <2>3, <2>4, DeletionAlive
  <2> QED BY <2>1, <2>5 DEF PurgerGoesOn, Keeps
<1> QED BY <1>1, <1>2

\* A step that leaves the clipboard and the purger alone.
Calm(s, t) ==
  /\ Keeps(s, t) /\ t.clip = s.clip /\ t.cutting = s.cutting /\ t.purging = s.purging /\ t.purger = s.purger

LEMMA ChangedCalm ==
  ASSUME NEW s, TodoTyped(s), NEW i \in Items, NEW todo \in Todos
  PROVE  TodoTyped(Changed(s, i, todo)) /\ Calm(s, Changed(s, i, todo))
<1> DEFINE t == Changed(s, i, todo)
           c == ChangeOf(s, i, todo)
<1>1. /\ TodoTyped(t) /\ SameBut(s, t, ChangedFields) /\ c \in TodoChanges
      /\ \E r : TodoTyped(r) /\ SameBut(s, r, {"rows", "cal"}) /\ Took(r, t, c)
  BY ChangedIs
<1> HIDE DEF t, c
<1>2. t.clip = s.clip /\ t.cutting = s.cutting /\ t.purging = s.purging /\ t.purger = s.purger
  BY <1>1 DEF SameBut, TodoFields, ChangedFields
<1>3. PICK r : TodoTyped(r) /\ SameBut(s, r, {"rows", "cal"}) /\ Took(r, t, c)
  BY <1>1
<1>4. r.session = s.session /\ r.posted = s.posted /\ r.waiting = s.waiting
  BY <1>3 DEF SameBut, TodoFields
<1>5. (\A k, id : Alive(r, k, id) <=> Alive(s, k, id)) /\ (Waiters(r) <=> Waiters(s))
  BY <1>4 DEF Alive, Waiters, Writing
<1>6. (\A k, id : Alive(r, k, id) => Alive(t, k, id)) /\ (Waiters(r) => Waiters(t))
  BY <1>1, <1>3, TookAlive
<1> QED BY <1>1, <1>2, <1>5, <1>6 DEF Calm, Keeps, t

LEMMA StillCalm ==
  ASSUME NEW s, TodoTyped(s)
  PROVE  Calm(s, s)
BY DEF Calm, Keeps

LEMMA EditedTyped ==
  ASSUME NEW todo \in Todos
  PROVE  /\ [todo EXCEPT !.text = @ + 1] \in Todos /\ [todo EXCEPT !.done = ~@] \in Todos
         /\ \A r \in Items \cup {None} : [todo EXCEPT !.related = r] \in Todos
<1>1. todo.text + 1 \in Nat /\ (~todo.done) \in BOOLEAN
  BY DEF Todos
<1> DEFINE n == todo.text + 1
           d == ~todo.done
<1>2. [todo EXCEPT !.text = n] \in Todos
  BY <1>1 DEF Todos, n
<1>3. [todo EXCEPT !.done = d] \in Todos
  BY <1>1 DEF Todos
<1>4. \A r \in Items \cup {None} : [todo EXCEPT !.related = r] \in Todos
  BY DEF Todos
<1> QED BY <1>2, <1>3, <1>4

LEMMA SetDataCalm ==
  ASSUME NEW s, TodoTyped(s), NEW i \in Items, NEW todo \in Todos
  PROVE  TodoTyped(SetData(s, i, todo)) /\ Calm(s, SetData(s, i, todo))
BY ChangedCalm, StillCalm DEF SetData

LEMMA DropCalm ==
  ASSUME NEW s, TodoTyped(s), NEW i \in Items, NEW target \in Items \cup {None}
  PROVE  TodoTyped(DropMimeData(s, i, target)) /\ Calm(s, DropMimeData(s, i, target))
<1> DEFINE related == IF target = None THEN None ELSE s.rows[target].todo.uid
           todo == [s.rows[i].todo EXCEPT !.related = related]
<1>1. related \in Items \cup {None} /\ s.rows[i].todo \in Todos
  BY RowFacts
<1> HIDE DEF related
<1>2. todo \in Todos
  BY <1>1, EditedTyped
<1>3. DropMimeData(s, i, target) = IF DropOnSelf(s, i, target) THEN s ELSE Changed(s, i, todo)
  BY DEF DropMimeData, related
<1> HIDE DEF todo
<1> QED BY <1>2, <1>3, ChangedCalm, StillCalm

LEMMA AbortIs ==
  ASSUME NEW s, TodoTyped(s)
  PROVE  LET c == [s.clip EXCEPT !.abort = TRUE]
             t == [s EXCEPT !.clip = c]
         IN  TodoTyped(t) /\ SameBut(s, t, {"clip"}) /\ t.clip.pending = s.clip.pending /\ t.clip.asked = s.clip.asked
<1> DEFINE c == [s.clip EXCEPT !.abort = TRUE]
           t == [s EXCEPT !.clip = c]
<1>1. s.clip \in [pending : SUBSET Nat, abort : BOOLEAN, asked : Todos \cup {None}]
  BY DEF TodoTyped, ListTyped
<1>2. /\ c \in [pending : SUBSET Nat, abort : BOOLEAN, asked : Todos \cup {None}]
      /\ c.pending = s.clip.pending /\ c.asked = s.clip.asked
  BY <1>1
<1> HIDE DEF c
<1>3. SameBut(s, t, {"clip"}) /\ t.clip = c
  BY DEF TodoTyped, TodoFields, SameBut
<1> HIDE DEF t
<1>4. UserTyped(t) /\ SameBut(s, t, UserFields)
  BY <1>2, <1>3 DEF SameBut, TodoFields, TodoTyped, ListTyped, UserTyped, UserFields
<1>5. TodoTyped(t)
  BY <1>4, UserChanges
<1> QED BY <1>2, <1>3, <1>5 DEF t, c

LEMMA AskedIs ==
  ASSUME NEW s, TodoTyped(s), NEW asked \in Todos \cup {None}
  PROVE  LET c == [s.clip EXCEPT !.asked = asked]
             t == [s EXCEPT !.clip = c]
         IN  /\ TodoTyped(t) /\ SameBut(s, t, {"clip"}) /\ t.clip.pending = s.clip.pending
             /\ t.clip.abort = s.clip.abort /\ t.clip.asked = asked
<1> DEFINE c == [s.clip EXCEPT !.asked = asked]
           t == [s EXCEPT !.clip = c]
<1>1. s.clip \in [pending : SUBSET Nat, abort : BOOLEAN, asked : Todos \cup {None}]
  BY DEF TodoTyped, ListTyped
<1>2. /\ c \in [pending : SUBSET Nat, abort : BOOLEAN, asked : Todos \cup {None}]
      /\ c.pending = s.clip.pending /\ c.abort = s.clip.abort /\ c.asked = asked
  BY <1>1
<1> HIDE DEF c
<1>3. SameBut(s, t, {"clip"}) /\ t.clip = c
  BY DEF TodoTyped, TodoFields, SameBut
<1> HIDE DEF t
<1>4. UserTyped(t) /\ SameBut(s, t, UserFields)
  BY <1>2, <1>3 DEF SameBut, TodoFields, TodoTyped, ListTyped, UserTyped, UserFields
<1>5. TodoTyped(t)
  BY <1>4, UserChanges
<1> QED BY <1>2, <1>3, <1>5 DEF t, c

\* The answer of the first of the queue is taken from it.
LEMMA PopIs ==
  ASSUME NEW s, TodoTyped(s), s.posted # <<>>
  PROVE  LET t == [s EXCEPT !.posted = Tail(@)]
             a == Head(s.posted)
         IN  /\ TodoTyped(t) /\ SameBut(s, t, {"posted"}) /\ a \in TodoAnswers /\ t.posted = Tail(s.posted)
             /\ \A k, id : Alive(s, k, id) /\ ~(k = a.by /\ id = a.id) => Alive(t, k, id)
             /\ Waiters(s) => Waiters(t)
<1> DEFINE q == Tail(s.posted)
           t == [s EXCEPT !.posted = q]
           a == Head(s.posted)
<1>1. s.posted \in Seq(TodoAnswers)
  BY DEF TodoTyped, ServiceTyped
<1>2. q \in Seq(TodoAnswers) /\ a \in TodoAnswers /\ ToSet(s.posted) = {a} \cup ToSet(q)
  BY <1>1, OneLess
<1> HIDE DEF q, a
<1>3. SameBut(s, t, {"posted"}) /\ t.posted = q
  BY DEF TodoTyped, TodoFields, SameBut
<1> HIDE DEF t
<1>4. /\ t.session = s.session /\ t.waiting = s.waiting /\ t.next = s.next /\ t.deleted = s.deleted
      /\ t.latest = s.latest
  BY <1>3 DEF SameBut, TodoFields
<1>5. ServiceTyped(t) /\ SameBut(s, t, ServiceFields \cup {"latest"})
  BY <1>2, <1>3, <1>4 DEF TodoTyped, ServiceTyped, SameBut, ServiceFields
<1>6. TodoTyped(t)
  BY <1>5, ServiceChanges
<1>7. \A k, id : Alive(s, k, id) /\ ~(k = a.by /\ id = a.id) => Alive(t, k, id)
  BY <1>2, <1>3, <1>4 DEF Alive
<1>8. Waiters(s) => Waiters(t)
  BY <1>4 DEF Waiters, Writing
<1> QED BY <1>2, <1>3, <1>6, <1>7, <1>8 DEF t, q, a

\* What the program waits for is on its way: changes that wait wait behind another one, what
\* the clipboard counts is asked for, a cut waits for something unless it got stuck, and
\* so does a purge.
Requests(s, stuck) ==
  /\ Waiters(s) /\ InHand(s)
  /\ s.cutting => stuck \/ s.clip.asked # None \/ s.clip.pending # {}
  /\ s.purging => s.purger.calendar = "loading" \/ Alive(s, "purger", s.purger.current)

\* The same, but for what waits for the answer of call id to k, which is being delivered.
RequestsBut(s, stuck, k, id) ==
  /\ Waiters(s)
  /\ \A x \in s.clip.pending : Alive(s, "app", x) \/ (k = "app" /\ x = id)
  /\ s.cutting => stuck \/ s.clip.asked # None \/ s.clip.pending # {}
  /\ s.purging => \/ s.purger.calendar = "loading" \/ Alive(s, "purger", s.purger.current)
                  \/ (k = "purger" /\ s.purger.current = id)

LEMMA RequestsStay ==
  ASSUME NEW s, NEW t, NEW stuck, Requests(s, stuck)
  PROVE  /\ Calm(s, t) => Requests(t, stuck)
         /\ GoesOn(s, t) => Requests(t, stuck)
         /\ PurgerGoesOn(s, t) => Requests(t, stuck)
BY DEF Requests, Calm, Keeps, InHand, GoesOn, PurgerGoesOn

LEMMA ModifyFinishedIs ==
  ASSUME NEW s, TodoTyped(s), NEW a \in TodoAnswers, a.kind = "modify", NEW stuck, RequestsBut(s, stuck, "app", a.id)
  PROVE  LET t == SlotModifyFinished(s, a, a.todo)
         IN  TodoTyped(t) /\ Requests(t, stuck \/ (s.clip.pending = {a.id} /\ ~a.ok /\ ~s.clip.abort))
<1> DEFINE pending == s.clip.pending \ {a.id}
           c == [s.clip EXCEPT !.pending = pending]
           t == [s EXCEPT !.clip = c]
           e == SlotModifyFinished(s, a, a.todo)
           over == stuck \/ (s.clip.pending = {a.id} /\ ~a.ok /\ ~s.clip.abort)
<1>1. s.clip \in [pending : SUBSET Nat, abort : BOOLEAN, asked : Todos \cup {None}] /\ a.todo \in Todos /\ a.ok \in BOOLEAN
  BY DEF TodoTyped, ListTyped, TodoAnswers
<1>2. pending \in SUBSET Nat
  BY <1>1
<1>3. e = IF a.id \notin s.clip.pending THEN s
          ELSE IF s.clip.abort THEN IF t.clip.pending = {} THEN CutFinished(t) ELSE t
          ELSE IF ~a.ok THEN [t EXCEPT !.clip = [t.clip EXCEPT !.abort = TRUE]]
          ELSE IF t.clip.pending = {} THEN Cut(t, {a.todo}) ELSE t
  BY <1>1 DEF SlotModifyFinished
<1>4. TodoTyped(t) /\ SameBut(s, t, {"clip"}) /\ Pending(s.clip, t.clip, pending)
  BY <1>2, ClipIs
<1> HIDE DEF t, e, c
<1>5. /\ t.clip.pending = pending /\ t.clip.asked = s.clip.asked /\ t.cutting = s.cutting /\ t.purger = s.purger
      /\ t.purging = s.purging
  BY <1>4 DEF Pending, SameBut, TodoFields
<1>6. /\ SameBut(s, t, {"cutting", "clip", "copied", "purging", "purger", "single", "crashed"})
  BY <1>4 DEF SameBut
<1>7. Keeps(s, t) /\ Waiters(t) /\ InHand(t)
  BY <1>5, <1>6, SameService DEF RequestsBut, Keeps, InHand
<1>8. t.purging => t.purger.calendar = "loading" \/ Alive(t, "purger", t.purger.current)
  BY <1>5, <1>7 DEF RequestsBut, Keeps
<1>9. CASE a.id \notin s.clip.pending
  BY <1>3, <1>9 DEF Requests, RequestsBut, InHand, e
<1>10. ASSUME t.clip.pending # {} PROVE Requests(t, over)
  BY <1>7, <1>8, <1>10 DEF Requests
<1>11. ASSUME s.clip.abort, a.id \in s.clip.pending, t.clip.pending = {} PROVE TodoTyped(e) /\ Requests(e, over)
  <2>1. e = CutFinished(t)
    BY <1>3, <1>11
  <2>2. TodoTyped(e) /\ SameBut(t, e, {"cutting"}) /\ e.cutting = FALSE
    BY <1>4, <2>1, CutFinishedIs
  <2>3. /\ SameBut(t, e, {"cutting", "clip", "copied", "purging", "purger", "single", "crashed"})
        /\ e.clip = t.clip /\ e.purging = t.purging /\ e.purger = t.purger
    BY <2>2 DEF SameBut, TodoFields
  <2>4. Keeps(t, e)
    BY <2>3, SameService
  <2> QED BY <1>7, <1>8, <2>2, <2>3, <2>4 DEF Requests, Keeps, InHand
<1>12. ASSUME ~s.clip.abort, a.id \in s.clip.pending, ~a.ok PROVE TodoTyped(e) /\ Requests(e, over)
  <2>1. e = [t EXCEPT !.clip = [t.clip EXCEPT !.abort = TRUE]]
    BY <1>3, <1>12
  <2>2. TodoTyped(e) /\ SameBut(t, e, {"clip"}) /\ e.clip.pending = t.clip.pending /\ e.clip.asked = t.clip.asked
    BY <1>4, <2>1, AbortIs
  <2>3. /\ SameBut(t, e, {"cutting", "clip", "copied", "purging", "purger", "single", "crashed"})
        /\ e.purging = t.purging /\ e.purger = t.purger /\ e.cutting = t.cutting
    BY <2>2 DEF SameBut, TodoFields
  <2>4. Keeps(t, e)
    BY <2>3, SameService
  <2>5. t.clip.pending # {} \/ over
    BY <1>5, <1>12
  <2> HIDE DEF over
  <2> QED BY <1>7, <1>8, <2>2, <2>3, <2>4, <2>5 DEF Requests, Keeps, InHand
<1>13. ASSUME ~s.clip.abort, a.id \in s.clip.pending, a.ok, t.clip.pending = {} PROVE TodoTyped(e) /\ Requests(e, over)
  <2>1. e = Cut(t, {a.todo})
    BY <1>3, <1>13
  <2>2. TodoTyped(e) /\ CutDone(t, e, {a.todo})
    BY <1>1, <1>4, <2>1, CutIsDone
  <2>3. GoesOn(t, e)
    <3> DEFINE payloads == {a.todo}
    <3>1. CutDone(t, e, payloads)
      BY <2>2
    <3> HIDE DEF payloads
    <3> QED BY <1>4, <2>2, <3>1, CutDoneGoesOn
  <2> HIDE DEF over
  <2> QED BY <1>7, <1>8, <2>2, <2>3 DEF Requests, GoesOn, Keeps, InHand
<1>14. ASSUME a.id \in s.clip.pending PROVE TodoTyped(e) /\ Requests(e, over)
  <2>1. CASE s.clip.abort /\ t.clip.pending # {}
    BY <1>3, <1>4, <1>10, <1>14, <2>1
  <2>2. CASE ~s.clip.abort /\ a.ok /\ t.clip.pending # {}
    BY <1>3, <1>4, <1>10, <1>14, <2>2
  <2> QED BY <1>11, <1>12, <1>13, <1>14, <2>1, <2>2
<1> QED BY <1>9, <1>14 DEF e

LEMMA DeleteFinishedIs ==
  ASSUME NEW s, TodoTyped(s), NEW a \in TodoAnswers, NEW stuck, RequestsBut(s, stuck, "app", a.id)
  PROVE  LET t == SlotDeleteFinished(s, a) IN TodoTyped(t) /\ Requests(t, stuck)
<1> DEFINE pending == s.clip.pending \ {a.id}
           c == [s.clip EXCEPT !.pending = pending]
           t == [s EXCEPT !.clip = c]
           e == SlotDeleteFinished(s, a)
<1>1. pending \in SUBSET Nat
  BY DEF TodoTyped, ListTyped
<1>2. e = IF a.id \notin s.clip.pending THEN s ELSE CutFinished(t)
  BY DEF SlotDeleteFinished
<1>3. TodoTyped(t) /\ SameBut(s, t, {"clip"}) /\ Pending(s.clip, t.clip, pending)
  BY <1>1, ClipIs
<1> HIDE DEF t, e, c
<1>4. CASE a.id \notin s.clip.pending
  BY <1>2, <1>4 DEF Requests, RequestsBut, InHand, e
<1>5. CASE a.id \in s.clip.pending
  <2>1. e = CutFinished(t)
    BY <1>2, <1>5
  <2>2. TodoTyped(e) /\ SameBut(t, e, {"cutting"}) /\ e.cutting = FALSE
    BY <1>3, <2>1, CutFinishedIs
  <2>3. /\ SameBut(s, e, {"cutting", "clip", "copied", "purging", "purger", "single", "crashed"})
        /\ e.clip.pending = pending /\ e.purging = s.purging /\ e.purger = s.purger
    BY <1>3, <2>2 DEF SameBut, TodoFields, Pending
  <2>4. Keeps(s, e)
    BY <2>3, SameService
  <2>5. Requests(e, stuck)
    BY <2>2, <2>3, <2>4 DEF Requests, RequestsBut, Keeps, InHand
  <2> QED BY <2>2, <2>5 DEF e
<1> QED BY <1>4, <1>5

LEMMA ItemsDeletedIs ==
  ASSUME NEW s, TodoTyped(s), NEW a \in TodoAnswers, NEW stuck, RequestsBut(s, stuck, "purger", a.id)
  PROVE  LET t == OnItemsDeleted(s, a) IN TodoTyped(t) /\ Requests(t, stuck)
<1> DEFINE t == OnItemsDeleted(s, a)
<1>1. CASE a.id # s.purger.current
  BY <1>1 DEF Requests, RequestsBut, InHand, OnItemsDeleted
<1>2. CASE a.id = s.purger.current
  <2>1. t = TodosPurged(Dropped(s))
    BY <1>2 DEF OnItemsDeleted
  <2> HIDE DEF t
  <2>2. TodoTyped(t) /\ PurgeOver(s, t)
    BY <2>1, PurgeOverIs
  <2>3. PurgerGoesOn(s, t) /\ t.purging = FALSE
    BY <2>2, DeleteTodosGoesOn DEF PurgeOver
  <2>4. Requests(t, stuck)
    BY <2>3 DEF Requests, RequestsBut, PurgerGoesOn, Keeps, InHand
  <2> QED BY <2>2, <2>4 DEF t
<1> QED BY <1>1, <1>2

\* The program has crashed, or waits for what is on its way.
Well(t, stuck) == t.crashed = TRUE \/ (TodoTyped(t) /\ Requests(t, stuck))

LEMMA CutRequests ==
  ASSUME NEW s, TodoTyped(s), NEW stuck, Requests(s, stuck), NEW u \in Items, NEW mode, ItemOf(s, u) # None
  PROVE  Well(CutIncidence(s, u, mode), stuck)
<1> DEFINE inc == PayloadOf(s, u)
           e == CutIncidence(s, u, mode)
<1>1. inc \in Todos
  BY ItemOfTyped
<1> DEFINE c == [s.clip EXCEPT !.asked = inc]
           t == [s EXCEPT !.clip = c]
           q == [t EXCEPT !.cutting = TRUE]
<1>2. e = CutRecursively(s, inc) \/ e = CutSingle(s, inc) \/ e = [s EXCEPT !.clip.asked = inc, !.cutting = TRUE]
  <2> HIDE DEF inc
  <2> QED BY DEF CutIncidence, inc
<1>3. q = [s EXCEPT !.clip.asked = inc, !.cutting = TRUE]
  OBVIOUS
<1>4. /\ TodoTyped(t) /\ SameBut(s, t, {"clip"}) /\ t.clip.pending = s.clip.pending
      /\ t.clip.abort = s.clip.abort /\ t.clip.asked = inc
  BY <1>1, AskedIs
<1> HIDE DEF t, inc, e
<1>5. TodoTyped(q) /\ SameBut(t, q, {"cutting"}) /\ q.cutting = TRUE
  BY <1>4, CuttingIs
<1> HIDE DEF q
<1>6. /\ SameBut(s, q, {"cutting", "clip", "copied", "purging", "purger", "single", "crashed"})
      /\ q.purging = s.purging /\ q.purger = s.purger /\ q.clip = t.clip
  BY <1>4, <1>5 DEF SameBut, TodoFields
<1>7. Keeps(s, q)
  BY <1>6, SameService
<1>8. inc # None
  BY <1>1, TreesAssumption
<1>9. Requests(q, stuck)
  BY <1>4, <1>5, <1>6, <1>7, <1>8 DEF Requests, Keeps, InHand
<1>10. CASE e = q
  BY <1>5, <1>9, <1>10 DEF Well, e
<1>11. CASE e = CutSingle(s, inc)
  BY <1>1, <1>11, CutSingleGoesOn, RequestsStay DEF Well, e
<1>12. CASE e = CutRecursively(s, inc)
  BY <1>1, <1>12, CutRecursivelyGoesOn, RequestsStay DEF Well, e
<1> QED BY <1>2, <1>3, <1>10, <1>11, <1>12

LEMMA AnswerRequests ==
  ASSUME NEW s, TodoTyped(s), NEW stuck, Requests(s, stuck), s.clip.asked # None,
         NEW answer \in {"Cut Only This", "Cut All", "Cancel"}
  PROVE  Well(CutAnswered(s, answer), stuck)
<1> DEFINE c == [s.clip EXCEPT !.asked = None]
           t == [s EXCEPT !.clip = c]
           inc == s.clip.asked
           e == CutAnswered(s, answer)
<1>1. inc \in Todos
  BY DEF TodoTyped, ListTyped
<1>2. t = [s EXCEPT !.clip.asked = None]
  OBVIOUS
<1>3. TodoTyped(t) /\ SameBut(s, t, {"clip"}) /\ t.clip.pending = s.clip.pending
  BY AskedIs
<1> HIDE DEF t
<1>4. e = CutSingle(t, inc) \/ e = CutRecursively(t, inc) \/ e = CutFinished(t)
  BY <1>2 DEF CutAnswered
<1> HIDE DEF e, inc
<1>5. /\ SameBut(s, t, {"cutting", "clip", "copied", "purging", "purger", "single", "crashed"})
      /\ t.purging = s.purging /\ t.purger = s.purger
  BY <1>3 DEF SameBut, TodoFields
<1>6. Keeps(s, t)
  BY <1>5, SameService
<1>7. /\ Waiters(t) /\ InHand(t)
      /\ t.purging => t.purger.calendar = "loading" \/ Alive(t, "purger", t.purger.current)
  BY <1>3, <1>5, <1>6 DEF Requests, Keeps, InHand
<1>8. ASSUME GoesOn(t, e) PROVE Requests(e, stuck)
  BY <1>7, <1>8 DEF Requests, GoesOn, Keeps
<1>9. CASE e = CutSingle(t, inc)
  BY <1>1, <1>3, <1>8, <1>9, CutSingleGoesOn DEF Well, e
<1>10. CASE e = CutRecursively(t, inc)
  BY <1>1, <1>3, <1>8, <1>10, CutRecursivelyGoesOn DEF Well, e
<1>11. CASE e = CutFinished(t)
  <2>1. TodoTyped(e) /\ SameBut(t, e, {"cutting"}) /\ e.cutting = FALSE
    BY <1>3, <1>11, CutFinishedIs
  <2>2. /\ SameBut(t, e, {"cutting", "clip", "copied", "purging", "purger", "single", "crashed"})
        /\ e.clip = t.clip /\ e.purging = t.purging /\ e.purger = t.purger
    BY <2>1 DEF SameBut, TodoFields
  <2>3. Keeps(t, e)
    BY <2>2, SameService
  <2>4. Requests(e, stuck)
    BY <1>7, <2>1, <2>2, <2>3 DEF Requests, Keeps, InHand
  <2> QED BY <2>1, <2>4 DEF Well, e
<1> QED BY <1>4, <1>9, <1>10, <1>11

LEMMA PurgeRequests ==
  ASSUME NEW s, TodoTyped(s), NEW stuck, Requests(s, stuck)
  PROVE  Well(PurgeCompletedTodos(s), stuck)
<1> DEFINE t == [s EXCEPT !.purging = TRUE]
           w == WithPurger(t, "loading", t.purger.items, t.purger.current)
           e == PurgeCompletedTodos(s)
<1>1. TodoTyped(t) /\ SameBut(s, t, {"purging"}) /\ t.purging = TRUE
  BY PurgingIs
<1>2. e = IF s.purger.calendar = "none" THEN [t EXCEPT !.purger.calendar = "loading"] ELSE DeleteTodos(t)
  BY DEF PurgeCompletedTodos
<1> HIDE DEF t, e
<1>3. [t EXCEPT !.purger.calendar = "loading"] = w
  BY <1>1 DEF TodoTyped, ListTyped, WithPurger
<1>4. TodoTyped(w) /\ PurgerNow(t, w, "loading", t.purger.items, t.purger.current)
  BY <1>1, PurgerFacts, PurgerIs DEF Whereabouts
<1> HIDE DEF w
<1>5. /\ SameBut(s, t, {"cutting", "clip", "copied", "purging", "purger", "single", "crashed"})
      /\ t.clip = s.clip /\ t.cutting = s.cutting
  BY <1>1 DEF SameBut, TodoFields
<1>6. Keeps(s, t)
  BY <1>5, SameService
<1>7. Waiters(t) /\ InHand(t) /\ (t.cutting => stuck \/ t.clip.asked # None \/ t.clip.pending # {})
  BY <1>5, <1>6 DEF Requests, Keeps, InHand
<1>8. CASE s.purger.calendar = "none"
  <2>1. /\ SameBut(t, w, {"cutting", "clip", "copied", "purging", "purger", "single", "crashed"})
        /\ w.clip = t.clip /\ w.cutting = t.cutting /\ w.purger.calendar = "loading"
    BY <1>4 DEF SameBut, TodoFields, PurgerNow
  <2>2. Keeps(t, w)
    BY <2>1, SameService
  <2>3. Requests(w, stuck)
    BY <1>7, <2>1, <2>2 DEF Requests, Keeps, InHand
  <2> QED BY <1>2, <1>3, <1>4, <1>8, <2>3 DEF Well, e
<1>9. CASE s.purger.calendar # "none"
  <2>1. e = DeleteTodos(t)
    BY <1>2, <1>9
  <2>2. e.crashed = TRUE \/ (TodoTyped(e) /\ (PurgeOver(t, e) \/ PurgeOf(t, e)))
    BY <1>1, <2>1, DeleteTodosIs
  <2>3. ASSUME TodoTyped(e), PurgeOver(t, e) \/ PurgeOf(t, e) PROVE Requests(e, stuck)
    BY <1>1, <1>7, <2>3, DeleteTodosGoesOn DEF Requests, PurgerGoesOn, Keeps, InHand
  <2> QED BY <2>2, <2>3 DEF Well, e
<1> QED BY <1>8, <1>9

LEMMA LoadedRequests ==
  ASSUME NEW s, TodoTyped(s), NEW stuck, Requests(s, stuck), NEW success \in BOOLEAN
  PROVE  Well(OnCalendarLoaded(s, success), stuck)
<1> DEFINE w == WithPurger(s, "loaded", s.store, s.purger.current)
           e == OnCalendarLoaded(s, success)
<1>1. e = IF success THEN DeleteTodos([s EXCEPT !.purger.calendar = "loaded", !.purger.items = s.store])
          ELSE TodosPurged(Dropped(s))
  BY DEF OnCalendarLoaded
<1> HIDE DEF e
<1>2. [s EXCEPT !.purger.calendar = "loaded", !.purger.items = s.store] = w
  <2>1. s.purger \in [calendar : {"none", "given", "loading", "loaded"}, items : Rows, current : Nat]
    BY DEF TodoTyped, ListTyped
  <2> DEFINE p == [s.purger EXCEPT !.calendar = "loaded", !.items = s.store]
  <2>2. p = [calendar |-> "loaded", items |-> s.store, current |-> s.purger.current]
    <3> DEFINE x == s.store
               y == s.purger.current
    <3>1. p = [s.purger EXCEPT !.calendar = "loaded", !.items = x]
      OBVIOUS
    <3> HIDE DEF p, x
    <3>2. p \in [calendar : {"loaded"}, items : {x}, current : {y}]
      BY <2>1, <3>1
    <3>3. p = [calendar |-> "loaded", items |-> x, current |-> y]
      BY <3>2
    <3> QED BY <3>3 DEF x, y
  <2>3. [s EXCEPT !.purger.calendar = "loaded", !.purger.items = s.store] = [s EXCEPT !.purger = p]
    BY DEF TodoTyped
  <2> QED BY <2>2, <2>3 DEF WithPurger
<1>3. TodoTyped(w) /\ PurgerNow(s, w, "loaded", s.store, s.purger.current)
  BY PurgerFacts, PurgerIs DEF Whereabouts
<1> HIDE DEF w
<1>4. /\ SameBut(s, w, {"cutting", "clip", "copied", "purging", "purger", "single", "crashed"})
      /\ w.clip = s.clip /\ w.cutting = s.cutting
  BY <1>3 DEF SameBut, TodoFields, PurgerNow
<1>5. Keeps(s, w)
  BY <1>4, SameService
<1>6. CASE success
  <2>1. e = DeleteTodos(w)
    BY <1>1, <1>2, <1>6
  <2>2. e.crashed = TRUE \/ (TodoTyped(e) /\ (PurgeOver(w, e) \/ PurgeOf(w, e)))
    BY <1>3, <2>1, DeleteTodosIs
  <2>3. ASSUME TodoTyped(e), PurgeOver(w, e) \/ PurgeOf(w, e) PROVE Requests(e, stuck)
    BY <1>3, <1>4, <1>5, <2>3, DeleteTodosGoesOn DEF Requests, PurgerGoesOn, Keeps, InHand
  <2> QED BY <2>2, <2>3 DEF Well, e
<1>7. CASE ~success
  BY <1>1, <1>7, PurgeOverIs, DeleteTodosGoesOn, RequestsStay DEF Well, e
<1> QED BY <1>6, <1>7

LEMMA NoticedRequests ==
  ASSUME NEW s, TodoTyped(s), NEW stuck, Requests(s, stuck), s.notified # <<>>
  PROVE  Well(Noticed(s, Head(s.notified)), stuck)
<1> DEFINE i == Head(s.notified)
           t == Noticed(s, i)
<1>1. i \in Items
  BY OneLess DEF TodoTyped, ListTyped
<1> HIDE DEF i
<1>2. TodoTyped(t) /\ SameBut(s, t, NoticedFields) /\ Told(s, t, i)
  BY <1>1, NoticedIs
<1> HIDE DEF t
<1>3. /\ t.session = s.session /\ t.posted = s.posted /\ t.waiting = s.waiting /\ t.cutting = s.cutting
      /\ t.purging = s.purging /\ t.purger = s.purger
  BY <1>2 DEF SameBut, TodoFields, NoticedFields
<1>4. Keeps(s, t)
  BY <1>3 DEF Keeps, Alive, Waiters, Writing
<1>5. t.clip.pending = s.clip.pending /\ (s.clip.asked # None => t.clip.asked # None)
  <2>1. s.store[i].todo # None
    BY <1>1, RowFacts, TreesAssumption
  <2> QED BY <1>2, <2>1 DEF Told
<1> QED BY <1>2, <1>3, <1>4, <1>5 DEF Well, Requests, Keeps, InHand, t, i

LEMMA EndRequests ==
  ASSUME NEW s, TodoTyped(s), NEW stuck, Requests(s, stuck), s.session # <<>>, NEW ok \in BOOLEAN
  PROVE  Well(JobEnds(s, ok), stuck)
<1> DEFINE t == JobEnds(s, ok)
<1>1. /\ TodoTyped(t)
      /\ SameBut(s, t, {"session", "posted", "store", "latest", "notified", "waiting", "deleted"})
      /\ \A k, id : Alive(t, k, id) <=> Alive(s, k, id)
      /\ Waiters(s) => Waiters(t)
  BY EndAlive
<1> HIDE DEF t
<1>2. t.clip = s.clip /\ t.cutting = s.cutting /\ t.purging = s.purging /\ t.purger = s.purger
  BY <1>1 DEF SameBut, TodoFields
<1>3. Requests(t, stuck)
  BY <1>1, <1>2 DEF Requests, InHand
<1> QED BY <1>1, <1>3 DEF Well, t

-----------------------------------------------------------------------------
(* Importing a file.                                                       *)

ImporterFields ==
  {"working", "pending", "total", "dialog", "downloads", "agents", "batch", "next", "posted", "stored", "imports",
   "resources", "last", "answers", "overlap"}
CreationAnswers == [id : Nat, ok : BOOLEAN]

ImporterTyped(s) ==
  /\ DOMAIN s = ImporterFields
  /\ s.next \in Nat \ {0} /\ s.posted \in Seq(CreationAnswers) /\ s.dialog \in Nat
  /\ s.batch \in [open : BOOLEAN, jobs : SUBSET Nat, done : SUBSET Nat, failed : BOOLEAN]
  /\ s.agents \in Nat /\ s.resources = s.agents /\ s.imports \in Nat
  /\ s.last \cup s.stored \cup s.batch.jobs \cup s.batch.done \subseteq 1 .. s.next - 1
  /\ s.pending \subseteq s.last /\ s.total = Cardinality(s.last) /\ s.overlap \in BOOLEAN

\* An answer to a creation tells the truth, and a creation is refused with all of its import.
CreationsTold(s) ==
  \A a \in ToSet(s.posted) :
    /\ a.id < s.next
    /\ a.ok => a.id \in s.stored
    /\ ~a.ok /\ a.id \in s.last => s.last \cap (s.stored \cup s.batch.jobs \cup s.batch.done) = {}

\* What is not pending any more of an import is stored; what is pending is on its way.
ImportsUnderWay(s) ==
  /\ s.pending # {} => s.last \ s.pending \subseteq s.stored /\ s.imports >= 1
  /\ s.dialog # NoDialog => s.pending = {}
  /\ s.batch.failed => s.batch.jobs = {}
  /\ ~s.overlap => s.imports <= 1 /\ (s.pending = {} => s.imports = 0)
  /\ ~s.batch.failed => /\ s.pending \subseteq s.batch.jobs \cup s.batch.done \cup {a.id : a \in ToSet(s.posted)}
                        /\ s.batch.jobs = {} => s.batch.done = {}

AnswersTrue(s) == \A a \in s.answers : a.stored = (IF a.success THEN a.of ELSE 0) /\ a.total = a.of

ImporterInv(s) == ImporterTyped(s) /\ CreationsTold(s) /\ ImportsUnderWay(s) /\ AnswersTrue(s)

\* From s to t the importer changes in nothing but the fields F.
ImporterBut(s, t, F) == DOMAIN s = ImporterFields /\ DOMAIN t = ImporterFields /\ \A f \in ImporterFields \ F : t[f] = s[f]

LEMMA ImporterIds ==
  ASSUME NEW s, ImporterTyped(s)
  PROVE  /\ s.next \in Nat \ {0} /\ IsFiniteSet(s.last) /\ IsFiniteSet(s.batch.done) /\ s.last \subseteq Nat
         /\ \A x \in s.last \cup s.stored \cup s.batch.jobs \cup s.batch.done : x \in Nat /\ x < s.next /\ x >= 1
         /\ \A a \in ToSet(s.posted) : a \in CreationAnswers
<1>1. IsFiniteSet(1 .. s.next - 1)
  <2> DEFINE m == s.next - 1
  <2>1. m \in Int
    BY DEF ImporterTyped
  <2> HIDE DEF m
  <2>2. IsFiniteSet(1 .. m)
    BY <2>1, FS_Interval
  <2> QED BY <2>2 DEF m
<1>2. IsFiniteSet(s.last) /\ IsFiniteSet(s.batch.done)
  BY <1>1, FS_Subset DEF ImporterTyped
<1>3. \A n \in DOMAIN s.posted : s.posted[n] \in CreationAnswers
  BY ElementOfSeq, LenProperties DEF ImporterTyped
<1>4. \A x \in 1 .. s.next - 1 : x \in Nat /\ x < s.next /\ x >= 1
  BY DEF ImporterTyped
<1> QED BY <1>2, <1>3, <1>4 DEF ImporterTyped, ToSet

\* The new ids of a call.
LEMMA NewIds ==
  ASSUME NEW m \in Nat \ {0}, NEW n \in Nat
  PROVE  LET ids == m .. m + n - 1
         IN  /\ IsFiniteSet(ids) /\ Cardinality(ids) = n /\ ids \subseteq 1 .. m + n - 1
             /\ \A x \in ids : x \in Nat /\ x >= m
             /\ \A x \in 1 .. m - 1 : x \in 1 .. m + n - 1 /\ x \notin ids
<1> DEFINE ids == m .. m + n - 1
<1>1. IsFiniteSet(ids) /\ Cardinality(ids) = n
  BY FS_Interval
<1>2. ids \subseteq 1 .. m + n - 1
  OBVIOUS
<1>3. \A x \in ids : x \in Nat /\ x >= m
  OBVIOUS
<1>4. \A x \in 1 .. m - 1 : x \in Nat /\ x >= 1 /\ x < m
  OBVIOUS
<1>5. ASSUME NEW x \in 1 .. m - 1 PROVE x \in 1 .. m + n - 1 /\ x \notin ids
  BY <1>3, <1>4
<1> QED BY <1>1, <1>2, <1>3, <1>5

\* Creations in a batch: they run, or all of them are refused.
RefusedCreations(s, n) == [k \in 1 .. n |-> [id |-> s.next + k - 1, ok |-> FALSE]]
LEMMA RefusedTyped ==
  ASSUME NEW s, ImporterTyped(s), NEW n \in Nat
  PROVE  /\ RefusedCreations(s, n) \in Seq(CreationAnswers)
         /\ \A a \in ToSet(RefusedCreations(s, n)) : a.id \in s.next .. s.next + n - 1 /\ ~a.ok
         /\ \A x \in s.next .. s.next + n - 1 : \E a \in ToSet(RefusedCreations(s, n)) : a.id = x
<1> DEFINE q == RefusedCreations(s, n)
           m == s.next
<1>1. m \in Nat \ {0}
  BY DEF ImporterTyped
<1> HIDE DEF m
<1>2. q = [k \in 1 .. n |-> [id |-> m + k - 1, ok |-> FALSE]]
  BY DEF RefusedCreations, m
<1> HIDE DEF q
<1>3. \A k \in 1 .. n : m + k - 1 \in Nat /\ m + k - 1 \in m .. m + n - 1
  BY <1>1
<1>4. \A k \in 1 .. n : q[k].id = m + k - 1 /\ q[k].ok = FALSE /\ q[k] \in CreationAnswers
  BY <1>2, <1>3 DEF CreationAnswers
<1>5. q \in Seq(CreationAnswers)
  BY <1>2, <1>4, SeqDef
<1>6. DOMAIN q = 1 .. n
  BY <1>2
<1>7. \A a \in ToSet(q) : a.id \in m .. m + n - 1 /\ ~a.ok
  BY <1>3, <1>4, <1>6 DEF ToSet
<1>8. ASSUME NEW x \in m .. m + n - 1 PROVE \E a \in ToSet(q) : a.id = x
  <2>1. x - m + 1 \in 1 .. n /\ m + (x - m + 1) - 1 = x
    BY <1>1
  <2> DEFINE k == x - m + 1
  <2>2. k \in DOMAIN q /\ q[k].id = x
    BY <1>4, <1>6, <2>1
  <2> HIDE DEF k
  <2> QED BY <2>2 DEF ToSet
<1> QED BY <1>5, <1>7, <1>8 DEF q, m

\* Merge(), for an importer whose requests are over.
LEMMA MergeKeeps ==
  ASSUME NEW s, ImporterInv(s), NEW n \in Nat \ {0}, NEW usable \in BOOLEAN, s.pending = {}, s.dialog = NoDialog,
         s.overlap \/ s.imports = 0
  PROVE  ImporterInv(Merge(s, n, usable))
<1> DEFINE t == Merge(s, n, usable)
           m == s.next
           ids == m .. m + n - 1
           refused == s.batch.failed \/ ~usable
           r == RefusedCreations(s, n)
<1>0. ImporterTyped(s) /\ CreationsTold(s) /\ ImportsUnderWay(s) /\ AnswersTrue(s)
  BY DEF ImporterInv
<1>1. DOMAIN s = ImporterFields /\ s.batch \in [open : BOOLEAN, jobs : SUBSET Nat, done : SUBSET Nat, failed : BOOLEAN]
  BY <1>0 DEF ImporterTyped
<1> DEFINE posted == IF refused THEN s.posted \o r ELSE s.posted
           jobs == IF refused THEN s.batch.jobs ELSE s.batch.jobs \cup ids
           open == IF refused THEN s.batch.open ELSE TRUE
           batch == [s.batch EXCEPT !.open = open, !.jobs = jobs]
           overlap == s.overlap \/ s.imports > 0
           pending == s.pending \cup ids
<1> DEFINE c == CreateIncidences(s, n, usable)
<1>2. /\ DOMAIN c = ImporterFields /\ c.next = m + n /\ c.last = ids /\ c.posted = posted /\ c.batch = batch
      /\ c.pending = s.pending /\ c.imports = s.imports /\ c.overlap = s.overlap
      /\ c.dialog = s.dialog /\ c.agents = s.agents /\ c.resources = s.resources /\ c.stored = s.stored
      /\ c.answers = s.answers
  <2>1. CASE refused
    BY <1>1, <2>1 DEF CreateIncidences, RefusedCreations, ImporterFields
  <2>2. CASE ~refused
    BY <1>1, <2>2 DEF CreateIncidences, ImporterFields
  <2> QED BY <2>1, <2>2
<1>3. /\ batch \in [open : BOOLEAN, jobs : {jobs}, done : {s.batch.done}, failed : {s.batch.failed}]
  BY <1>1
<1>4. m \in Nat \ {0} /\ n \in Nat /\ s.imports \in Nat /\ s.batch.failed \in BOOLEAN
  BY <1>0, <1>1 DEF ImporterTyped
<1>5. /\ IsFiniteSet(ids) /\ Cardinality(ids) = n /\ ids \subseteq 1 .. m + n - 1
      /\ \A x \in ids : x \in Nat /\ x >= m
      /\ \A x \in 1 .. m - 1 : x \in 1 .. m + n - 1 /\ x \notin ids
  BY <1>4, NewIds
<1>6. posted \in Seq(CreationAnswers) /\ ToSet(posted) = ToSet(s.posted) \cup (IF refused THEN ToSet(r) ELSE {})
  <2>1. r \in Seq(CreationAnswers) /\ s.posted \in Seq(CreationAnswers)
    BY <1>0, RefusedTyped DEF ImporterTyped
  <2>2. s.posted \o r \in Seq(CreationAnswers) /\ ToSet(s.posted \o r) = ToSet(s.posted) \cup ToSet(r)
    BY <2>1, JoinedLists
  <2> HIDE DEF r
  <2> QED BY <2>1, <2>2
<1>7. (\A a \in ToSet(r) : a.id \in ids /\ ~a.ok) /\ (\A x \in ids : \E a \in ToSet(r) : a.id = x)
  BY <1>0, RefusedTyped
<1>16. t = [c EXCEPT !.pending = @ \cup ids, !.total = n, !.working = TRUE, !.imports = @ + 1, !.overlap = @ \/ s.imports > 0]
  <2> HIDE DEF c
  <2> QED BY DEF Merge, c
<1> HIDE DEF c, t, r, ids, batch, posted, jobs, open, overlap, pending, refused, m
<1>8. /\ DOMAIN t = ImporterFields /\ t.next = m + n /\ t.last = ids /\ t.posted = posted /\ t.batch = batch
      /\ t.pending = pending /\ t.total = n /\ t.imports = s.imports + 1 /\ t.overlap = overlap
      /\ t.dialog = s.dialog /\ t.agents = s.agents /\ t.resources = s.resources /\ t.stored = s.stored
      /\ t.answers = s.answers
  BY <1>2, <1>16 DEF ImporterFields, pending, overlap
<1>9. batch.jobs = jobs /\ batch.done = s.batch.done /\ batch.failed = s.batch.failed /\ batch.open \in BOOLEAN /\ pending = ids
  BY <1>3 DEF pending, ids, m
<1>10. s.last \cup s.stored \cup s.batch.jobs \cup s.batch.done \subseteq 1 .. m - 1
  BY <1>0 DEF ImporterTyped, m
<1>11. ImporterTyped(t)
  <2>1. m + n \in Nat \ {0} /\ s.imports + 1 \in Nat
    BY <1>4
  <2>2. jobs \subseteq 1 .. m + n - 1 /\ s.batch.done \subseteq 1 .. m + n - 1 /\ s.stored \subseteq 1 .. m + n - 1
    BY <1>5, <1>10 DEF jobs
  <2>3. batch \in [open : BOOLEAN, jobs : SUBSET Nat, done : SUBSET Nat, failed : BOOLEAN]
    BY <1>1, <1>3, <1>5, <1>9 DEF jobs
  <2>4. t.last \cup t.stored \cup t.batch.jobs \cup t.batch.done \subseteq 1 .. t.next - 1
    <3>1. t.next - 1 = m + n - 1
      BY <1>4, <1>8
    <3> DEFINE k == m + n - 1
    <3>2. ids \subseteq 1 .. k /\ jobs \subseteq 1 .. k /\ s.batch.done \subseteq 1 .. k /\ s.stored \subseteq 1 .. k
      BY <1>5, <2>2
    <3>3. t.last = ids /\ t.stored = s.stored /\ t.batch.jobs = jobs /\ t.batch.done = s.batch.done
      BY <1>8, <1>9
    <3>4. t.next - 1 = k
      BY <3>1
    <3> HIDE DEF k
    <3> QED BY <3>2, <3>3, <3>4
  <2>5. t.pending \subseteq t.last /\ t.total = Cardinality(t.last) /\ t.next \in Nat \ {0} /\ t.imports \in Nat
    BY <1>5, <1>8, <1>9, <2>1
  <2>6. t.overlap \in BOOLEAN
    BY <1>8 DEF overlap
  <2> QED BY <1>0, <1>6, <1>8, <2>3, <2>4, <2>5, <2>6 DEF ImporterTyped
<1>12. CreationsTold(t)
  <2>1. ASSUME NEW a \in ToSet(s.posted)
        PROVE  a.id < t.next /\ (a.ok => a.id \in t.stored) /\ a.id \notin t.last
    BY <1>0, <1>4, <1>5, <1>8, <2>1, ImporterIds DEF CreationsTold, CreationAnswers, m
  <2>2. ASSUME refused, NEW a \in ToSet(r)
        PROVE  a.id < t.next /\ ~a.ok /\ t.last \cap (t.stored \cup t.batch.jobs \cup t.batch.done) = {}
    BY <1>4, <1>5, <1>7, <1>8, <1>9, <1>10, <2>2 DEF jobs, ids
  <2> QED BY <1>6, <1>8, <2>1, <2>2 DEF CreationsTold
<1>13. ImportsUnderWay(t)
  <2>1. s.imports + 1 >= 1 /\ (~overlap => s.imports + 1 <= 1 /\ ~s.overlap)
    BY <1>4 DEF overlap
  <2>2. ids # {}
    BY <1>4, <1>5, FS_EmptySet
  <2>3. ~s.batch.failed => (s.batch.jobs = {} => s.batch.done = {})
    BY <1>0 DEF ImportsUnderWay
  <2>4. ids \subseteq jobs \cup {a.id : a \in ToSet(posted)}
    BY <1>6, <1>7 DEF jobs
  <2>5. jobs = {} => s.batch.jobs = {}
    BY DEF jobs
  <2>6. s.batch.failed => jobs = {}
    BY <1>0 DEF ImportsUnderWay, jobs, refused
  <2> QED BY <1>8, <1>9, <2>1, <2>2, <2>3, <2>4, <2>5, <2>6 DEF ImportsUnderWay
<1>14. AnswersTrue(t)
  BY <1>0, <1>8 DEF AnswersTrue
<1> QED BY <1>11, <1>12, <1>13, <1>14 DEF ImporterInv, t

\* Resources and downloads are counted beside the imports of local files.
LEMMA CountsKeep ==
  ASSUME NEW s, NEW t, ImporterInv(s), ImporterBut(s, t, {"working", "downloads", "agents", "resources"}),
         t.agents \in Nat, t.resources = t.agents
  PROVE  ImporterInv(t)
BY DEF ImporterBut, ImporterFields, ImporterInv, ImporterTyped, CreationsTold, ImportsUnderWay, AnswersTrue

LEMMA ImporterNumbers ==
  ASSUME NEW s, ImporterInv(s)
  PROVE  s.agents \in Nat /\ s.resources = s.agents /\ s.dialog \in Nat /\ DOMAIN s = ImporterFields
BY DEF ImporterInv, ImporterTyped

LEMMA ResourceKeeps ==
  ASSUME NEW s, ImporterInv(s)
  PROVE  /\ ImporterInv(ImportIntoNewResource(s)) /\ ImporterInv(ImportRemote(s))
         /\ s.agents > 0 => ImporterInv(ResourceCreated(s))
         /\ ImporterInv(RemoteDownloadFinished(s))
         /\ \A failed \in BOOLEAN : ImporterInv(DownloadEnds(s, failed))
<1> DEFINE F == {"working", "downloads", "agents", "resources"}
<1>1. ImporterInv(ImportIntoNewResource(s))
  <2> DEFINE t == [s EXCEPT !.working = TRUE, !.agents = @ + 1, !.resources = @ + 1]
  <2>1. ImporterBut(s, t, F) /\ t.agents = s.agents + 1 /\ t.resources = s.resources + 1
    BY ImporterNumbers DEF ImporterBut, ImporterFields
  <2> HIDE DEF t
  <2>2. ImporterInv(t)
    BY <2>1, ImporterNumbers, CountsKeep
  <2> QED BY <2>2 DEF t, ImportIntoNewResource
<1>2. ImporterInv(ImportRemote(s))
  <2> DEFINE t == [s EXCEPT !.working = TRUE, !.downloads = @ + 1]
  <2>1. ImporterBut(s, t, F) /\ t.agents = s.agents /\ t.resources = s.resources
    BY ImporterNumbers DEF ImporterBut, ImporterFields
  <2> HIDE DEF t
  <2>2. ImporterInv(t)
    BY <2>1, ImporterNumbers, CountsKeep
  <2> QED BY <2>2 DEF t, ImportRemote
<1>3. ASSUME s.agents > 0 PROVE ImporterInv(ResourceCreated(s))
  <2> DEFINE t == ResourceCreated(s)
  <2>1. ImporterBut(s, t, F) /\ t.agents = s.agents - 1 /\ t.resources = s.resources - 1
    BY ImporterNumbers DEF ImporterBut, ImporterFields, ResourceCreated
  <2> HIDE DEF t
  <2> QED BY <1>3, <2>1, ImporterNumbers, CountsKeep DEF t
<1>4. ImporterInv(RemoteDownloadFinished(s))
  <2> DEFINE t == RemoteDownloadFinished(s)
  <2>1. ImporterBut(s, t, F) /\ t.agents = s.agents /\ t.resources = s.resources
    BY ImporterNumbers DEF ImporterBut, ImporterFields, RemoteDownloadFinished
  <2> HIDE DEF t
  <2> QED BY <2>1, ImporterNumbers, CountsKeep DEF t
<1>5. ASSUME NEW failed \in BOOLEAN PROVE ImporterInv(DownloadEnds(s, failed))
  <2> DEFINE r == IF failed THEN s ELSE RemoteDownloadFinished(s)
             t == [r EXCEPT !.downloads = @ - 1]
  <2>1. ImporterInv(r)
    BY <1>4
  <2> HIDE DEF r
  <2>2. ImporterBut(r, t, F) /\ t.agents = r.agents /\ t.resources = r.resources
    BY <2>1, ImporterNumbers DEF ImporterBut, ImporterFields
  <2> HIDE DEF t
  <2>3. ImporterInv(t)
    BY <2>1, <2>2, ImporterNumbers, CountsKeep
  <2> QED BY <2>3 DEF t, r, DownloadEnds
<1> QED BY <1>1, <1>2, <1>3, <1>4, <1>5

\* A file is opened: what the importer waited for is forgotten.
Forgotten(s, n, overlap) == [s EXCEPT !.pending = {}, !.overlap = overlap, !.dialog = n]
Opened(t, n) == ImporterInv(t) /\ t.pending = {} /\ t.dialog = n /\ (t.overlap \/ t.imports = 0)
LEMMA ForgottenKeeps ==
  ASSUME NEW s, ImporterInv(s), NEW n \in Nat, NEW overlap \in BOOLEAN, overlap <=> s.overlap \/ s.imports > 0
  PROVE  Opened(Forgotten(s, n, overlap), n)
<1> DEFINE t == [s EXCEPT !.pending = {}, !.overlap = overlap, !.dialog = n]
<1>1. /\ t.next = s.next /\ t.last = s.last /\ t.posted = s.posted /\ t.batch = s.batch /\ t.pending = {}
      /\ t.total = s.total /\ t.imports = s.imports /\ t.overlap = overlap /\ t.dialog = n
      /\ t.agents = s.agents /\ t.resources = s.resources
      /\ t.stored = s.stored /\ t.answers = s.answers /\ DOMAIN t = ImporterFields
  BY ImporterNumbers DEF ImporterFields
<1> HIDE DEF t
<1>2. s.imports \in Nat /\ (~overlap => s.imports = 0)
  BY DEF ImporterInv, ImporterTyped
<1>3. ImporterTyped(t) /\ CreationsTold(t) /\ AnswersTrue(t)
  BY <1>1 DEF ImporterInv, ImporterTyped, CreationsTold, AnswersTrue
<1>4. ImportsUnderWay(t)
  BY <1>1, <1>2 DEF ImporterInv, ImportsUnderWay
<1> QED BY <1>1, <1>2, <1>3, <1>4 DEF ImporterInv, t, Opened, Forgotten

LEMMA LocalKeeps ==
  ASSUME NEW s, ImporterInv(s), s.dialog = NoDialog, NEW n \in Nat, NEW given \in BOOLEAN, NEW usable \in BOOLEAN
  PROVE  ImporterInv(ImportLocal(s, n, given, usable))
<1> DEFINE overlap == s.overlap \/ s.imports > 0
           d == s.dialog
           t == Forgotten(s, d, overlap)
           o == Forgotten(s, n, overlap)
<1>1. DOMAIN s = ImporterFields /\ d \in Nat /\ overlap \in BOOLEAN
  BY ImporterNumbers DEF ImporterInv, ImporterTyped
<1>2. t = [s EXCEPT !.pending = {}, !.overlap = @ \/ s.imports > 0]
  <2> DEFINE r == [s EXCEPT !.pending = {}, !.overlap = overlap]
  <2>1. r = [s EXCEPT !.pending = {}, !.overlap = @ \/ s.imports > 0]
    OBVIOUS
  <2> HIDE DEF overlap
  <2>2. \A f \in ImporterFields : r[f] = t[f]
    BY <1>1 DEF ImporterFields, Forgotten
  <2>3. r = t
    BY <1>1, <2>2 DEF Forgotten
  <2> QED BY <2>1, <2>3
<1>3. o = [t EXCEPT !.dialog = n]
  BY <1>1 DEF ImporterFields, Forgotten
<1>4. Opened(t, d)
  BY <1>1, ForgottenKeeps DEF overlap
<1>5. Opened(o, n)
  BY <1>1, ForgottenKeeps DEF overlap
<1> HIDE DEF t, o
<1>6. n > 0 => ImporterInv(Merge(t, n, usable))
  BY <1>1, <1>4, MergeKeeps DEF Opened
<1>7. \/ ImportLocal(s, n, given, usable) = s \/ ImportLocal(s, n, given, usable) = t
      \/ ImportLocal(s, n, given, usable) = o \/ (n > 0 /\ ImportLocal(s, n, given, usable) = Merge(t, n, usable))
  <2> DEFINE r == [s EXCEPT !.pending = {}, !.overlap = @ \/ s.imports > 0]
  <2>1. r = t
    BY <1>2
  <2>2. ImportLocal(s, n, given, usable) = CASE s.working -> s
        [] ~s.working /\ n = 0 -> r
        [] ~s.working /\ n > 0 /\ ~given -> [r EXCEPT !.dialog = n]
        [] OTHER -> Merge(r, n, usable)
    BY DEF ImportLocal
  <2> HIDE DEF r
  <2> QED BY <1>3, <2>1, <2>2
<1> QED BY <1>4, <1>5, <1>6, <1>7 DEF Opened

LEMMA SelectedKeeps ==
  ASSUME NEW s, ImporterInv(s), s.dialog # NoDialog, NEW accepted \in BOOLEAN, NEW usable \in BOOLEAN
  PROVE  ImporterInv(CollectionSelected(s, accepted, usable))
<1> DEFINE overlap == s.overlap
           t == [s EXCEPT !.dialog = NoDialog]
<1>1. /\ DOMAIN s = ImporterFields /\ s.dialog \in Nat \ {0} /\ s.overlap \in BOOLEAN /\ s.pending = {}
      /\ s.overlap \/ s.imports = 0
  BY ImporterNumbers DEF ImporterInv, ImporterTyped, ImportsUnderWay, NoDialog
<1>2. /\ t.next = s.next /\ t.last = s.last /\ t.posted = s.posted /\ t.batch = s.batch /\ t.pending = s.pending
      /\ t.total = s.total /\ t.imports = s.imports /\ t.overlap = s.overlap /\ t.dialog = 0
      /\ t.agents = s.agents /\ t.resources = s.resources
      /\ t.stored = s.stored /\ t.answers = s.answers /\ DOMAIN t = ImporterFields
  BY <1>1 DEF ImporterFields, NoDialog
<1> HIDE DEF t
<1>3. ImporterTyped(t) /\ CreationsTold(t) /\ AnswersTrue(t)
  BY <1>2 DEF ImporterInv, ImporterTyped, CreationsTold, AnswersTrue
<1>4. ImporterInv(t)
  BY <1>2, <1>3 DEF ImporterInv, ImportsUnderWay, NoDialog
<1>5. ImporterInv(Merge(t, s.dialog, usable))
  BY <1>1, <1>2, <1>4, MergeKeeps DEF NoDialog
<1> QED BY <1>4, <1>5 DEF CollectionSelected, t

BatchFields(s) == s.batch \in [open : BOOLEAN, jobs : SUBSET Nat, done : SUBSET Nat, failed : BOOLEAN]

\* A creation failed: nothing of the batch is answered any more.
LEMMA CreationFailed ==
  ASSUME NEW s, ImporterInv(s), NEW id
  PROVE  ImporterInv(CreationEnds(s, id, FALSE))
<1> DEFINE b == [open |-> TRUE, jobs |-> {}, done |-> {}, failed |-> TRUE]
           t == [s EXCEPT !.batch = b]
<1>1. CreationEnds(s, id, FALSE) = t
  BY DEF CreationEnds
<1>2. b.jobs = {} /\ b.done = {} /\ b.failed = TRUE /\ b \in [open : BOOLEAN, jobs : SUBSET Nat, done : SUBSET Nat, failed : BOOLEAN]
  OBVIOUS
<1> HIDE DEF b
<1>3. ImporterBut(s, t, {"batch"}) /\ t.batch = b
  BY ImporterNumbers DEF ImporterBut, ImporterFields
<1> HIDE DEF t
<1>4. /\ t.next = s.next /\ t.last = s.last /\ t.posted = s.posted /\ t.pending = s.pending
      /\ t.total = s.total /\ t.imports = s.imports /\ t.overlap = s.overlap /\ t.dialog = s.dialog
      /\ t.agents = s.agents /\ t.resources = s.resources /\ t.stored = s.stored /\ t.answers = s.answers
      /\ DOMAIN t = ImporterFields
  BY <1>3 DEF ImporterBut, ImporterFields
<1>5. ImporterTyped(t)
  BY <1>2, <1>3, <1>4 DEF ImporterInv, ImporterTyped
<1>6. CreationsTold(t)
  BY <1>2, <1>3, <1>4 DEF ImporterInv, CreationsTold
<1>7. ImportsUnderWay(t) /\ AnswersTrue(t)
  BY <1>2, <1>3, <1>4 DEF ImporterInv, ImportsUnderWay, AnswersTrue
<1> QED BY <1>1, <1>5, <1>6, <1>7 DEF ImporterInv

\* One of several creations is done.
LEMMA CreationDone ==
  ASSUME NEW s, ImporterInv(s), NEW id \in s.batch.jobs, s.batch.jobs # {id}
  PROVE  ImporterInv(CreationEnds(s, id, TRUE))
<1> DEFINE jobs == s.batch.jobs \ {id}
           done == s.batch.done \cup {id}
           b == [s.batch EXCEPT !.jobs = jobs, !.done = done]
           t == [s EXCEPT !.batch = b]
<1>0. BatchFields(s) /\ DOMAIN s = ImporterFields
  BY DEF ImporterInv, ImporterTyped, BatchFields
<1>1. CreationEnds(s, id, TRUE) = t
  BY <1>0 DEF CreationEnds, ImporterFields, BatchFields
<1>2. jobs \in SUBSET Nat /\ done \in SUBSET Nat
  BY <1>0 DEF BatchFields
<1>3. jobs \cup done = s.batch.jobs \cup s.batch.done /\ jobs # {} /\ jobs \subseteq s.batch.jobs
  OBVIOUS
<1> HIDE DEF jobs, done
<1>4. /\ b.jobs = jobs /\ b.done = done /\ b.failed = s.batch.failed
      /\ b \in [open : BOOLEAN, jobs : SUBSET Nat, done : SUBSET Nat, failed : BOOLEAN]
  BY <1>0, <1>2 DEF BatchFields
<1> HIDE DEF b
<1>5. ImporterBut(s, t, {"batch"}) /\ t.batch = b
  BY <1>0 DEF ImporterBut, ImporterFields
<1> HIDE DEF t
<1>6. /\ t.next = s.next /\ t.last = s.last /\ t.posted = s.posted /\ t.pending = s.pending
      /\ t.total = s.total /\ t.imports = s.imports /\ t.overlap = s.overlap /\ t.dialog = s.dialog
      /\ t.agents = s.agents /\ t.resources = s.resources /\ t.stored = s.stored /\ t.answers = s.answers
      /\ DOMAIN t = ImporterFields
  BY <1>5 DEF ImporterBut, ImporterFields
<1>7. t.batch.jobs \cup t.batch.done = s.batch.jobs \cup s.batch.done /\ t.batch.jobs # {} /\ t.batch.failed = s.batch.failed
  BY <1>3, <1>4, <1>5
<1>8. ImporterTyped(t)
  BY <1>4, <1>5, <1>6, <1>7 DEF ImporterInv, ImporterTyped
<1>9. CreationsTold(t)
  BY <1>6, <1>7 DEF ImporterInv, CreationsTold
<1>10. ImportsUnderWay(t) /\ AnswersTrue(t)
  BY <1>6, <1>7 DEF ImporterInv, ImportsUnderWay, AnswersTrue
<1> QED BY <1>1, <1>8, <1>9, <1>10 DEF ImporterInv

\* The last creation is done: the batch ends and all its changes are answered.
LEMMA BatchDone ==
  ASSUME NEW s, ImporterInv(s), NEW id \in s.batch.jobs, s.batch.jobs = {id}
  PROVE  ImporterInv(CreationEnds(s, id, TRUE))
<1> DEFINE done == s.batch.done \cup {id}
           told == {[id |-> x, ok |-> TRUE] : x \in done}
           posted == s.posted \o SetToSeq(told)
           stored == s.stored \cup done
           t == [s EXCEPT !.batch = NoBatch, !.stored = stored, !.posted = posted]
<1>0. /\ BatchFields(s) /\ DOMAIN s = ImporterFields /\ s.posted \in Seq(CreationAnswers)
      /\ ImporterTyped(s) /\ CreationsTold(s) /\ ImportsUnderWay(s) /\ AnswersTrue(s)
  BY DEF ImporterInv, ImporterTyped, BatchFields
<1>1. CreationEnds(s, id, TRUE) = t
  BY DEF CreationEnds
<1>2. /\ NoBatch.jobs = {} /\ NoBatch.done = {} /\ NoBatch.failed = FALSE
      /\ NoBatch \in [open : BOOLEAN, jobs : SUBSET Nat, done : SUBSET Nat, failed : BOOLEAN]
  BY DEF NoBatch
<1>3. IsFiniteSet(done) /\ done \subseteq Nat /\ done = s.batch.jobs \cup s.batch.done
  BY <1>0, ImporterIds, FS_AddElement DEF BatchFields
<1>4. told \subseteq CreationAnswers /\ IsFiniteSet(told)
  <2>1. told \subseteq CreationAnswers
    <3> HIDE DEF done
    <3>1. \A x \in done : [id |-> x, ok |-> TRUE] \in CreationAnswers
      BY <1>3 DEF CreationAnswers
    <3> QED BY <3>1
  <2> DEFINE f == [x \in done |-> [id |-> x, ok |-> TRUE]]
  <2>2. f \in Surjection(done, told)
    <3>1. \A x \in done : f[x] = [id |-> x, ok |-> TRUE] /\ f[x] \in told
      OBVIOUS
    <3>2. f \in [done -> told]
      <4> HIDE DEF told, done
      <4> QED BY <3>1
    <3>3. \A a \in told : \E x \in done : a = [id |-> x, ok |-> TRUE]
      OBVIOUS
    <3> HIDE DEF f, told, done
    <3>4. \A a \in told : \E x \in done : a = f[x]
      BY <3>1, <3>3
    <3> QED BY <3>2, <3>4 DEF Surjection
  <2> HIDE DEF f, told, done
  <2> QED BY <1>3, <2>1, <2>2, FS_Surjection
<1>5. (\A a \in told : a.id \in done /\ a.ok) /\ (\A x \in done : \E a \in told : a.id = x)
  <2>1. \A x \in done : [id |-> x, ok |-> TRUE].id = x /\ [id |-> x, ok |-> TRUE].ok = TRUE
    OBVIOUS
  <2> HIDE DEF done
  <2> QED BY <2>1
<1> HIDE DEF told, done
<1>6. posted \in Seq(CreationAnswers) /\ ToSet(posted) = ToSet(s.posted) \cup told
  BY <1>0, <1>4, SetInOrder, SeqDef, JoinedLists
<1> HIDE DEF posted, stored
<1>7. ImporterBut(s, t, {"batch", "stored", "posted"}) /\ t.batch = NoBatch /\ t.stored = stored /\ t.posted = posted
  BY <1>0 DEF ImporterBut, ImporterFields
<1> HIDE DEF t
<1>8. /\ t.next = s.next /\ t.last = s.last /\ t.pending = s.pending
      /\ t.total = s.total /\ t.imports = s.imports /\ t.overlap = s.overlap /\ t.dialog = s.dialog
      /\ t.agents = s.agents /\ t.resources = s.resources /\ t.answers = s.answers
      /\ DOMAIN t = ImporterFields
  BY <1>7 DEF ImporterBut, ImporterFields
<1>9. /\ t.batch.jobs = {} /\ t.batch.done = {} /\ t.batch.failed = FALSE
      /\ t.stored = s.stored \cup s.batch.jobs \cup s.batch.done
  BY <1>2, <1>3, <1>7 DEF stored
<1>10. ImporterTyped(t)
  BY <1>0, <1>2, <1>6, <1>7, <1>8, <1>9 DEF ImporterTyped
<1>11. CreationsTold(t)
  <2>1. ASSUME NEW a \in told PROVE a.id < t.next /\ a.ok /\ a.id \in t.stored
    BY <1>0, <1>3, <1>5, <1>8, <1>9, ImporterIds
  <2>2. ASSUME NEW a \in ToSet(s.posted)
        PROVE  /\ a.id < t.next /\ (a.ok => a.id \in t.stored)
               /\ ~a.ok /\ a.id \in t.last => t.last \cap (t.stored \cup t.batch.jobs \cup t.batch.done) = {}
    BY <1>0, <1>8, <1>9 DEF CreationsTold
  <2> QED BY <1>6, <1>7, <2>1, <2>2 DEF CreationsTold
<1>12. ImportsUnderWay(t)
  <2>1. s.last \ s.pending \subseteq s.stored => t.last \ t.pending \subseteq t.stored
    BY <1>8, <1>9
  <2>2. ASSUME ~s.batch.failed PROVE t.pending \subseteq {a.id : a \in ToSet(t.posted)}
    <3>1. ASSUME NEW x \in t.pending PROVE \E a \in ToSet(t.posted) : a.id = x
      <4>1. x \in done \/ x \in {a.id : a \in ToSet(s.posted)}
        BY <1>0, <1>3, <1>8, <2>2, <3>1 DEF ImportsUnderWay
      <4> QED BY <1>5, <1>6, <1>7, <4>1
    <3> QED BY <3>1
  <2>3. ~s.batch.failed
    BY <1>0 DEF ImportsUnderWay
  <2> QED BY <1>0, <1>8, <1>9, <2>1, <2>2, <2>3 DEF ImportsUnderWay
<1>13. AnswersTrue(t)
  BY <1>0, <1>8 DEF AnswersTrue
<1> QED BY <1>1, <1>10, <1>11, <1>12, <1>13 DEF ImporterInv

\* The importer hears the first of the answers.
Heard(s, t) ==
  /\ ImporterBut(s, t, {"posted", "pending", "working", "imports", "answers"}) /\ t.posted = Tail(s.posted)
  /\ t.pending \subseteq s.pending /\ (s.pending \subseteq t.pending \cup {Head(s.posted).id} \/ t.pending = {})

LEMMA HeardTyped ==
  ASSUME NEW s, NEW t, ImporterInv(s), s.posted # <<>>, Heard(s, t), t.imports \in Nat
  PROVE  /\ ImporterTyped(t) /\ CreationsTold(t)
         /\ ~t.batch.failed => t.pending \subseteq t.batch.jobs \cup t.batch.done \cup {a.id : a \in ToSet(t.posted)} \cup {Head(s.posted).id}
         /\ t.last = s.last /\ t.stored = s.stored /\ t.overlap = s.overlap /\ t.dialog = s.dialog /\ t.batch = s.batch
<1> DEFINE h == Head(s.posted)
<1>0. ImporterTyped(s) /\ CreationsTold(s) /\ ImportsUnderWay(s)
  BY DEF ImporterInv
<1>1. /\ t.next = s.next /\ t.last = s.last /\ t.batch = s.batch /\ t.total = s.total /\ t.overlap = s.overlap
      /\ t.dialog = s.dialog /\ t.agents = s.agents /\ t.resources = s.resources /\ t.stored = s.stored
      /\ DOMAIN t = ImporterFields /\ t.posted = Tail(s.posted) /\ t.pending \subseteq s.pending
  BY DEF Heard, ImporterBut, ImporterFields
<1>2. t.posted \in Seq(CreationAnswers) /\ ToSet(s.posted) = {h} \cup ToSet(t.posted)
  BY <1>0, <1>1, OneLess DEF ImporterTyped
<1>3. ImporterTyped(t)
  BY <1>0, <1>1, <1>2 DEF ImporterTyped
<1>4. CreationsTold(t)
  BY <1>0, <1>1, <1>2 DEF CreationsTold
<1>5. ASSUME ~t.batch.failed, NEW x \in t.pending
      PROVE  x \in t.batch.jobs \cup t.batch.done \cup {a.id : a \in ToSet(t.posted)} \cup {h.id}
  BY <1>0, <1>1, <1>2, <1>5 DEF ImportsUnderWay
<1> QED BY <1>1, <1>3, <1>4, <1>5

\* Nothing is taken away for an answer the importer does not wait for.
LEMMA StrangerKeeps ==
  ASSUME NEW s, NEW t, ImporterInv(s), s.posted # <<>>, Head(s.posted).id \notin s.pending,
         ImporterBut(s, t, {"posted"}), t.posted = Tail(s.posted)
  PROVE  ImporterInv(t)
<1>1. t.pending = s.pending /\ t.imports = s.imports /\ t.answers = s.answers
  BY DEF ImporterBut, ImporterFields
<1>2. Heard(s, t) /\ t.imports \in Nat
  BY <1>1 DEF Heard, ImporterBut, ImporterInv, ImporterTyped
<1>3. /\ ImporterTyped(t) /\ CreationsTold(t)
      /\ ~t.batch.failed => t.pending \subseteq t.batch.jobs \cup t.batch.done \cup {a.id : a \in ToSet(t.posted)} \cup {Head(s.posted).id}
      /\ t.last = s.last /\ t.stored = s.stored /\ t.overlap = s.overlap /\ t.dialog = s.dialog /\ t.batch = s.batch
  BY <1>2, HeardTyped
<1>4. ImportsUnderWay(t)
  BY <1>1, <1>3 DEF ImporterInv, ImportsUnderWay
<1> QED BY <1>1, <1>3, <1>4 DEF ImporterInv, AnswersTrue

\* One of the awaited creations is done.
LEMMA AwaitedKeeps ==
  ASSUME NEW s, NEW t, ImporterInv(s), s.posted # <<>>, Head(s.posted).ok,
         ImporterBut(s, t, {"posted", "pending"}), t.posted = Tail(s.posted),
         t.pending = s.pending \ {Head(s.posted).id}, t.pending # {}
  PROVE  ImporterInv(t)
<1> DEFINE h == Head(s.posted)
<1>1. t.imports = s.imports /\ t.answers = s.answers
  BY DEF ImporterBut, ImporterFields
<1>2. Heard(s, t) /\ t.imports \in Nat
  BY <1>1 DEF Heard, ImporterBut, ImporterInv, ImporterTyped
<1>3. /\ ImporterTyped(t) /\ CreationsTold(t)
      /\ ~t.batch.failed => t.pending \subseteq t.batch.jobs \cup t.batch.done \cup {a.id : a \in ToSet(t.posted)} \cup {h.id}
      /\ t.last = s.last /\ t.stored = s.stored /\ t.overlap = s.overlap /\ t.dialog = s.dialog /\ t.batch = s.batch
  BY <1>2, HeardTyped
<1>4. h.id \in s.stored
  BY OneLess DEF ImporterInv, ImporterTyped, CreationsTold
<1> HIDE DEF h
<1>5. ImportsUnderWay(t)
  BY <1>1, <1>3, <1>4 DEF ImporterInv, ImportsUnderWay, h
<1> QED BY <1>1, <1>3, <1>5 DEF ImporterInv, AnswersTrue

\* The import is answered.
Answer(s, success) ==
  [success |-> success, stored |-> Cardinality(s.last \cap s.stored), of |-> Cardinality(s.last), total |-> s.total]
LEMMA AnswerKeeps ==
  ASSUME NEW s, NEW t, ImporterInv(s), s.posted # <<>>, Head(s.posted).id \in s.pending, NEW success \in BOOLEAN,
         success <=> Head(s.posted).ok, success => s.pending = {Head(s.posted).id},
         ImporterBut(s, t, {"posted", "pending", "working", "imports", "answers"}), t.posted = Tail(s.posted),
         t.pending = {}, t.imports = s.imports - 1, t.answers = s.answers \cup {Answer(s, success)}
  PROVE  ImporterInv(t)
<1> DEFINE h == Head(s.posted)
<1>0. ImporterTyped(s) /\ CreationsTold(s) /\ ImportsUnderWay(s) /\ AnswersTrue(s)
  BY DEF ImporterInv
<1>1. s.pending # {} /\ s.imports \in Nat /\ s.imports >= 1
  BY <1>0 DEF ImporterTyped, ImportsUnderWay
<1>2. Heard(s, t) /\ t.imports \in Nat
  BY <1>1 DEF Heard
<1>3. /\ ImporterTyped(t) /\ CreationsTold(t)
      /\ t.last = s.last /\ t.stored = s.stored /\ t.overlap = s.overlap /\ t.dialog = s.dialog /\ t.batch = s.batch
  BY <1>2, HeardTyped
<1>4. ImportsUnderWay(t)
  BY <1>0, <1>1, <1>3 DEF ImportsUnderWay
<1>5. h \in ToSet(s.posted)
  BY <1>0, OneLess DEF ImporterTyped
<1>6. h.id \in s.last
  BY <1>0 DEF ImporterTyped
<1>7. Cardinality(s.last \cap s.stored) = IF success THEN Cardinality(s.last) ELSE 0
  <2>1. CASE success
    <3>1. h.id \in s.stored
      BY <1>0, <1>5, <2>1 DEF CreationsTold
    <3>2. s.last \subseteq s.stored
      BY <1>0, <1>1, <2>1, <3>1 DEF ImportsUnderWay
    <3>3. s.last \cap s.stored = s.last
      BY <3>2
    <3> QED BY <2>1, <3>3
  <2>2. CASE ~success
    BY <1>0, <1>5, <1>6, <2>2, FS_EmptySet DEF CreationsTold
  <2> QED BY <2>1, <2>2
<1>8. s.total = Cardinality(s.last)
  BY <1>0 DEF ImporterTyped
<1> DEFINE a == Answer(s, success)
<1>9. a.stored = (IF a.success THEN a.of ELSE 0) /\ a.total = a.of
  BY <1>7, <1>8 DEF Answer
<1> HIDE DEF a
<1>10. AnswersTrue(t)
  BY <1>0, <1>9 DEF AnswersTrue, a
<1> QED BY <1>3, <1>4, <1>10 DEF ImporterInv

LEMMA ToldKeeps ==
  ASSUME NEW s, ImporterInv(s), s.posted # <<>>
  PROVE  ImporterInv(CreateFinished(s))
<1> DEFINE h == Head(s.posted)
           q == Tail(s.posted)
           p == [s EXCEPT !.posted = q]
           left == p.pending \ {h.id}
           r == [p EXCEPT !.pending = left]
           e == [r EXCEPT !.pending = {}]
           t == CreateFinished(s)
<1>0. DOMAIN s = ImporterFields /\ ImporterTyped(s)
  BY DEF ImporterInv, ImporterTyped
<1>1. t = IF h.id \notin p.pending THEN p
          ELSE IF ~h.ok THEN Finished(e, FALSE)
          ELSE IF r.pending = {} THEN Finished(r, TRUE) ELSE r
  <2>1. t = OnIncidenceCreated(p, h.id, h.ok)
    BY DEF CreateFinished
  <2> HIDE DEF p, t, h
  <2>2. h.ok \in BOOLEAN
    <3>1. h \in CreationAnswers
      BY <1>0, OneLess DEF ImporterTyped, h
    <3> QED BY <3>1 DEF CreationAnswers
  <2> QED BY <2>1, <2>2 DEF OnIncidenceCreated
<1> HIDE DEF t, q
<1>2. ImporterBut(s, p, {"posted"}) /\ p.posted = q /\ p.pending = s.pending /\ p.last = s.last /\ p.stored = s.stored
      /\ p.total = s.total /\ p.imports = s.imports /\ p.answers = s.answers
  BY <1>0 DEF ImporterBut, ImporterFields
<1> HIDE DEF p, h
<1>3. ImporterBut(s, r, {"posted", "pending"}) /\ r.posted = q /\ r.pending = s.pending \ {h.id} /\ r.last = s.last
      /\ r.stored = s.stored /\ r.total = s.total /\ r.imports = s.imports /\ r.answers = s.answers
  BY <1>2 DEF ImporterBut, ImporterFields
<1> HIDE DEF r
<1>4. ImporterBut(s, e, {"posted", "pending"}) /\ e.posted = q /\ e.pending = {} /\ e.last = s.last
      /\ e.stored = s.stored /\ e.total = s.total /\ e.imports = s.imports /\ e.answers = s.answers
  BY <1>3 DEF ImporterBut, ImporterFields
<1> HIDE DEF e
<1>5. ASSUME NEW x, NEW success \in BOOLEAN, ImporterBut(s, x, {"posted", "pending"}), x.posted = q, x.pending = {},
             x.last = s.last, x.stored = s.stored, x.total = s.total, x.imports = s.imports, x.answers = s.answers
      PROVE  LET f == Finished(x, success)
             IN  /\ ImporterBut(s, f, {"posted", "pending", "working", "imports", "answers"}) /\ f.posted = q
                 /\ f.pending = {} /\ f.imports = s.imports - 1 /\ f.answers = s.answers \cup {Answer(s, success)}
  <2> DEFINE a == s.answers \cup {Answer(s, success)}
             n == x.imports - 1
             f == [x EXCEPT !.working = FALSE, !.imports = n, !.answers = a]
  <2>1. Finished(x, success) = f
    BY <1>5 DEF Finished, Answer
  <2> HIDE DEF a, n
  <2>2. /\ ImporterBut(s, f, {"posted", "pending", "working", "imports", "answers"}) /\ f.posted = q
        /\ f.pending = {} /\ f.imports = n /\ f.answers = a
    BY <1>5 DEF ImporterBut, ImporterFields
  <2> HIDE DEF f
  <2> QED BY <1>5, <2>1, <2>2 DEF n, a
<1>6. ASSUME h.id \notin s.pending PROVE ImporterInv(t)
  BY <1>1, <1>2, <1>6, StrangerKeeps DEF q, h
<1>7. ASSUME h.id \in s.pending, ~h.ok PROVE ImporterInv(t)
  BY <1>1, <1>2, <1>4, <1>5, <1>7, AnswerKeeps DEF q, h
<1>8. ASSUME h.id \in s.pending, h.ok, r.pending = {} PROVE ImporterInv(t)
  <2>1. t = Finished(r, TRUE)
    BY <1>1, <1>2, <1>8
  <2>2. /\ ImporterBut(s, t, {"posted", "pending", "working", "imports", "answers"}) /\ t.posted = q
        /\ t.pending = {} /\ t.imports = s.imports - 1 /\ t.answers = s.answers \cup {Answer(s, TRUE)}
    BY <1>3, <1>5, <1>8, <2>1
  <2>3. s.pending = {h.id}
    BY <1>3, <1>8
  <2> QED BY <1>8, <2>2, <2>3, AnswerKeeps DEF q, h
<1>9. ASSUME h.id \in s.pending, h.ok, r.pending # {} PROVE ImporterInv(t)
  BY <1>1, <1>2, <1>3, <1>9, AwaitedKeeps DEF q, h
<1> QED BY <1>6, <1>7, <1>8, <1>9 DEF t

-----------------------------------------------------------------------------
(* The calls that are answered.                                            *)

\* The deletions a step asks for, and the changes it refuses.
AskedTo(s, t) == DeletionsAsked(t) \ DeletionsAsked(s) # {}
RefusedTo(s, t) ==
  UNION {a.items : a \in {a \in {t.posted[n] : n \in Len(s.posted) + 1 .. Len(t.posted)} : a.kind = "modify" /\ ~a.ok}}

\* A step of the to-do list and what the history keeps of it.
Recorded(lost, settled, late, stuck) ==
  /\ Shape' /\ UNCHANGED <<part, importer>>
  /\ past'.lost = past.lost \cup lost /\ past'.stuck = (past.stuck \/ stuck)
  /\ past'.hurried = IF AskedTo(todos, todos') THEN past.hurried \cup Unsettled(todos) ELSE past.hurried
  /\ past'.late = IF AskedTo(todos, todos') THEN past.late \cup Unsettled(todos) \cup BeingDeleted(todos) \cup late
                  ELSE past.late \cup late
  /\ past'.refused = (past.refused \cup RefusedTo(todos, todos')) \ settled

LEMMA StepRecorded ==
  ASSUME Shape, NEW t, NEW calls, NEW failures \in {0, 1}, NEW lost, NEW settled, NEW late, NEW stuck,
         Step(t, calls, failures, lost, settled, late, stuck)
  PROVE  todos' = t /\ Recorded(lost, settled, late, stuck)
<1> DEFINE asked == DeletionsAsked(t) \ DeletionsAsked(todos) # {}
           refused == RefusedTo(todos, t)
           c1 == past.calls + calls
           c2 == past.lost \cup lost
           c3 == IF asked THEN past.hurried \cup Unsettled(todos) ELSE past.hurried
           c4 == IF asked THEN past.late \cup Unsettled(todos) \cup BeingDeleted(todos) \cup late
                 ELSE past.late \cup late
           c5 == (past.refused \cup refused) \ settled
           c6 == past.stuck \/ stuck
<1>1. past' = [past EXCEPT !.calls = c1, !.failures = past.failures + failures, !.lost = c2,
                           !.hurried = c3, !.late = c4, !.refused = c5, !.stuck = c6]
  BY DEF Step, RefusedTo
<1>2. todos' = t
  BY DEF Step
<1>3. asked <=> AskedTo(todos, t)
  BY DEF AskedTo
<1> HIDE DEF asked, refused, c1, c2, c3, c4, c5, c6
<1>4. past'.lost = c2 /\ past'.hurried = c3 /\ past'.late = c4 /\ past'.refused = c5 /\ past'.stuck = c6
  BY <1>1 DEF Shape, PastFields
<1>5. Shape' /\ UNCHANGED <<part, importer>>
  BY TodoStepFacts
<1> QED BY <1>2, <1>3, <1>4, <1>5 DEF Recorded, c2, c3, c4, c5, c6, refused

\* The other parts leave the to-do list and its history alone.
NotTodos ==
  /\ Shape' /\ UNCHANGED <<part, todos>>
  /\ past'.lost = past.lost /\ past'.hurried = past.hurried /\ past'.late = past.late
  /\ past'.refused = past.refused /\ past'.stuck = past.stuck

LEMMA ImportNotTodos ==
  ASSUME Shape, ImportNext
  PROVE  NotTodos
<1>1. ASSUME NEW s, NEW calls, NEW failures, ImportStep(s, calls, failures), Shape'
      PROVE  NotTodos
  <2> DEFINE c == past.calls + calls
             f == past.failures + failures
  <2>1. past' = [past EXCEPT !.calls = c, !.failures = f] /\ UNCHANGED <<part, todos>>
    BY <1>1 DEF ImportStep
  <2> HIDE DEF c, f
  <2> QED BY <1>1, <2>1 DEF Shape, PastFields, NotTodos
<1>2. Shape'
  BY ImportElsewhere DEF Elsewhere
<1>3. \E s, calls, failures : ImportStep(s, calls, failures)
  <2>1. ASSUME NEW s, ImportCall(s) PROVE \E x, calls, failures : ImportStep(x, calls, failures)
    BY <2>1 DEF ImportCall
  <2>2. ASSUME NEW n, NEW given, NEW usable, ImportFile(n, given, usable) PROVE \E x, calls, failures : ImportStep(x, calls, failures)
    BY <2>1, <2>2 DEF ImportFile
  <2>3. CASE ImportFileAsResource \/ ImportUrl
    BY <2>1, <2>3 DEF ImportFileAsResource, ImportUrl
  <2>4. CASE ImportEnds \/ AgentCreated \/ DataArrives \/ CreationTold
    BY <2>4 DEF ImportEnds, ImportDialogClosed, AgentCreated, DataArrives, CreationTold
  <2>5. CASE \E failed \in BOOLEAN : DownloadOver(failed)
    BY <2>5 DEF DownloadOver
  <2>6. CASE CreationOver
    BY <2>6 DEF CreationOver, IncidenceCreated
  <2> QED BY <2>2, <2>3, <2>4, <2>5, <2>6 DEF ImportNext
<1> QED BY <1>1, <1>2, <1>3

LEMMA SearchNotTodos ==
  ASSUME Shape, SearchNext
  PROVE  NotTodos /\ UNCHANGED importer
<1>0. Shape'
  BY SearchElsewhere DEF Elsewhere
<1>1. ASSUME NEW p, past' = p, UNCHANGED <<part, todos, importer>>,
             /\ p.lost = past.lost /\ p.hurried = past.hurried /\ p.late = past.late
             /\ p.refused = past.refused /\ p.stuck = past.stuck
      PROVE  NotTodos /\ UNCHANGED importer
  BY <1>0, <1>1 DEF NotTodos
<1>2. CASE Enable
  <2> DEFINE crossed == past.crossed \/ (past.toggled /\ helper.session # <<>>)
             calls == past.calls + 1
             p == [past EXCEPT !.calls = calls, !.toggled = TRUE, !.crossed = crossed]
  <2>1. past' = p /\ UNCHANGED <<part, todos, importer>>
    BY <1>2 DEF Enable, HelperStep
  <2> HIDE DEF crossed, calls
  <2>2. /\ p.lost = past.lost /\ p.hurried = past.hurried /\ p.late = past.late
        /\ p.refused = past.refused /\ p.stuck = past.stuck
    BY DEF Shape, PastFields
  <2> HIDE DEF p
  <2> QED BY <1>1, <2>1, <2>2
<1>3. CASE ChangeIdentities
  <2> DEFINE calls == past.calls + 1
             p == [past EXCEPT !.calls = calls]
  <2>1. past' = p /\ UNCHANGED <<part, todos, importer>>
    BY <1>3 DEF ChangeIdentities, HelperStep
  <2> HIDE DEF calls
  <2>2. /\ p.lost = past.lost /\ p.hurried = past.hurried /\ p.late = past.late
        /\ p.refused = past.refused /\ p.stuck = past.stuck
    BY DEF Shape, PastFields
  <2> HIDE DEF p
  <2> QED BY <1>1, <2>1, <2>2
<1>4. ASSUME NEW ok \in BOOLEAN, SearchJob(ok)
      PROVE  NotTodos /\ UNCHANGED importer
  <2> DEFINE n == IF ok \/ ~CanBeDone(helper, Head(helper.session)) THEN past.failures ELSE past.failures + 1
             p == [past EXCEPT !.failures = n]
  <2>1. past' = p /\ UNCHANGED <<part, todos, importer>>
    BY <1>4 DEF SearchJob, HelperStep
  <2> HIDE DEF n
  <2>2. /\ p.lost = past.lost /\ p.hurried = past.hurried /\ p.late = past.late
        /\ p.refused = past.refused /\ p.stuck = past.stuck
    BY DEF Shape, PastFields
  <2> HIDE DEF p
  <2> QED BY <1>1, <2>1, <2>2
<1> QED BY <1>2, <1>3, <1>4 DEF SearchNext

LEMMA CollectionsNotTodos ==
  ASSUME Shape, CollectionsNext
  PROVE  NotTodos /\ UNCHANGED importer
<1>0. Shape'
  BY CollectionsElsewhere DEF Elsewhere
<1>1. ASSUME NEW s, NEW event, NEW misread, ModelStep(s, event, misread)
      PROVE  NotTodos /\ UNCHANGED importer
  <2> DEFINE removed == past.removed \/ Listed(etm) \ Listed(s) # {}
             calls == IF event THEN past.calls + 1 ELSE past.calls
  <2>1. past' = [past EXCEPT !.misread = misread, !.removed = removed, !.calls = calls]
    BY <1>1 DEF ModelStep
  <2> HIDE DEF removed, calls
  <2>2. UNCHANGED <<part, todos, importer>>
    BY <1>1 DEF ModelStep
  <2> QED BY <1>0, <2>1, <2>2 DEF Shape, PastFields, NotTodos
<1>2. \E s, event, misread : ModelStep(s, event, misread)
  BY DEF CollectionsNext, CollectionsInserted, CollectionsRemoved, ChangeRights, ItemsArrive,
     CollectionPopulated, TreeFetched
<1> QED BY <1>1, <1>2

LEMMA PublishNotTodos ==
  ASSUME Shape, PublishNext
  PROVE  NotTodos /\ UNCHANGED importer
<1>0. Shape'
  BY PublishElsewhere
<1>1. ASSUME NEW s, NEW calls, NEW failures, NEW owed, NEW misjudged, PublishStep(s, calls, failures, owed, misjudged)
      PROVE  NotTodos /\ UNCHANGED importer
  <2> DEFINE n == past.failures + failures
             o == (past.owed \/ owed) /\ ~(s.jobs > publisher.jobs)
             k == past.calls + calls
  <2>1. past' = [past EXCEPT !.calls = k, !.failures = n, !.owed = o, !.misjudged = misjudged]
    BY <1>1 DEF PublishStep
  <2>2. UNCHANGED <<part, todos, importer>>
    BY <1>1 DEF PublishStep
  <2> HIDE DEF n, o, k
  <2> QED BY <1>0, <2>1, <2>2 DEF Shape, PastFields, NotTodos
<1>2. ASSUME NEW s, NEW fileOpen, NEW calls, NEW owed, Uploading(s, fileOpen, calls, owed)
      PROVE  NotTodos /\ UNCHANGED importer
  BY <1>1, <1>2 DEF Uploading
<1>3. ASSUME \/ \E c \in Calendars \cup {NoCalendar} : CalendarSet(c)
             \/ CloseUrlBox \/ UploadEnds \/ MailNow \/ MailSent
             \/ \E url \in UrlKinds, auto \in BOOLEAN : ChangeSettings(url, auto)
             \/ \E accepted \in BOOLEAN : ClosePublishDialog(accepted)
      PROVE  NotTodos /\ UNCHANGED importer
  BY <1>1, <1>3 DEF CalendarSet, CloseUrlBox, UploadEnds, MailNow, MailSent, ChangeSettings, ClosePublishDialog
<1>4. ASSUME NEW fileOpen \in BOOLEAN,
             \/ SingleShot(fileOpen) \/ PublishNow(fileOpen) \/ TimerFires(fileOpen)
             \/ \E c \in Calendars : CalendarChanged(c, fileOpen)
      PROVE  NotTodos /\ UNCHANGED importer
  BY <1>2, <1>4 DEF SingleShot, PublishNow, TimerFires, CalendarChanged
<1> QED BY <1>3, <1>4 DEF PublishNext

\* The importer keeps its books whatever comes in whatever order.
LEMMA ImportKeeps ==
  ASSUME ImporterInv(importer), ImportNext
  PROVE  ImporterInv(importer')
<1>1. ASSUME NEW n \in 0 .. MaxIncidences, NEW given \in BOOLEAN, NEW usable \in BOOLEAN, ImportFile(n, given, usable)
      PROVE  ImporterInv(importer')
  BY <1>1, LocalKeeps DEF ImportFile, ImportCall, ImportStep
<1>2. CASE ImportFileAsResource
  BY <1>2, ResourceKeeps DEF ImportFileAsResource, ImportCall, ImportStep
<1>3. CASE ImportUrl
  BY <1>3, ResourceKeeps DEF ImportUrl, ImportCall, ImportStep
<1>4. ASSUME NEW accepted \in BOOLEAN, NEW usable \in BOOLEAN, ImportDialogClosed(accepted, usable)
      PROVE  ImporterInv(importer')
  BY <1>4, SelectedKeeps DEF ImportDialogClosed, ImportStep
<1>5. CASE AgentCreated
  BY <1>5, ResourceKeeps DEF AgentCreated, ImportStep
<1>6. CASE DataArrives
  BY <1>6, ResourceKeeps DEF DataArrives, ImportStep
<1>7. ASSUME NEW failed \in BOOLEAN, DownloadOver(failed)
      PROVE  ImporterInv(importer')
  BY <1>7, ResourceKeeps DEF DownloadOver, ImportStep
<1>8. ASSUME NEW id \in importer.batch.jobs, NEW ok \in BOOLEAN, IncidenceCreated(id, ok)
      PROVE  ImporterInv(importer')
  <2>1. importer' = CreationEnds(importer, id, ok)
    BY <1>8 DEF IncidenceCreated, ImportStep
  <2>2. CASE ok = TRUE
    BY <2>1, <2>2, CreationDone, BatchDone
  <2>3. CASE ok = FALSE
    BY <2>1, <2>3, CreationFailed
  <2> QED BY <2>2, <2>3
<1>9. CASE CreationTold
  BY <1>9, ToldKeeps DEF CreationTold, ImportStep
<1>10. CASE ImportEnds
  BY <1>4, <1>10 DEF ImportEnds
<1>11. CASE CreationOver
  BY <1>8, <1>11 DEF CreationOver
<1> DEFINE Goal == ImporterInv(importer')
<1>12. \A n \in 0 .. MaxIncidences, given, usable \in BOOLEAN : ImportFile(n, given, usable) => Goal
  BY <1>1
<1>13. \A failed \in BOOLEAN : DownloadOver(failed) => Goal
  BY <1>7
<1> HIDE DEF Goal
<1>14. Goal
  BY <1>2, <1>3, <1>5, <1>6, <1>9, <1>10, <1>11, <1>12, <1>13 DEF ImportNext, Goal
<1> QED BY <1>14 DEF Goal

\* An importer that never did anything.
LEMMA IdleKeeps == ImporterInv(IdleImporter)
<1> DEFINE s == IdleImporter
<1>1. s = [working |-> FALSE, pending |-> {}, total |-> 0, dialog |-> 0, downloads |-> 0, agents |-> 0,
           batch |-> NoBatch, next |-> 1, posted |-> <<>>, stored |-> {}, imports |-> 0, resources |-> 0,
           last |-> {}, answers |-> {}, overlap |-> FALSE]
  BY DEF IdleImporter, NoDialog
<1> HIDE DEF s
<1>2. /\ DOMAIN s = ImporterFields /\ s.pending = {} /\ s.total = 0 /\ s.dialog = 0 /\ s.agents = 0 /\ s.batch = NoBatch
      /\ s.next = 1 /\ s.posted = <<>> /\ s.stored = {} /\ s.imports = 0 /\ s.resources = 0 /\ s.last = {}
      /\ s.answers = {} /\ s.overlap = FALSE
  BY <1>1 DEF ImporterFields
<1>3. NoBatch \in [open : BOOLEAN, jobs : SUBSET Nat, done : SUBSET Nat, failed : BOOLEAN]
      /\ NoBatch.jobs = {} /\ NoBatch.done = {} /\ NoBatch.failed = FALSE
  BY DEF NoBatch
<1>4. <<>> \in Seq(CreationAnswers) /\ ToSet(<<>>) = {}
  BY DEF ToSet
<1>5. Cardinality({}) = 0
  BY FS_EmptySet
<1>6. ImporterTyped(s)
  <2>1. s.last \cup s.stored \cup s.batch.jobs \cup s.batch.done = {}
    BY <1>2, <1>3
  <2>2. {} \subseteq 1 .. s.next - 1 /\ s.pending \subseteq s.last /\ s.total = Cardinality(s.last) /\ s.overlap \in BOOLEAN
    BY <1>2, <1>5
  <2>3. s.last \cup s.stored \cup s.batch.jobs \cup s.batch.done \subseteq 1 .. s.next - 1
    BY <2>1, <2>2
  <2>4. /\ DOMAIN s = ImporterFields /\ s.next \in Nat \ {0} /\ s.dialog \in Nat /\ s.agents \in Nat
        /\ s.resources = s.agents /\ s.imports \in Nat
    BY <1>2
  <2>5. s.posted \in Seq(CreationAnswers)
        /\ s.batch \in [open : BOOLEAN, jobs : SUBSET Nat, done : SUBSET Nat, failed : BOOLEAN]
    BY <1>2, <1>3, <1>4
  <2> QED BY <2>2, <2>3, <2>4, <2>5 DEF ImporterTyped
<1>7. CreationsTold(s) /\ AnswersTrue(s)
  BY <1>2, <1>4 DEF CreationsTold, AnswersTrue
<1>8. ImportsUnderWay(s)
  BY <1>2, <1>3, <1>4 DEF ImportsUnderWay, NoDialog
<1> QED BY <1>6, <1>7, <1>8 DEF ImporterInv, s

LEMMA ImporterAnswers == ImporterInv(importer) => ImportsAnswered
<1> SUFFICES ASSUME ImporterInv(importer) PROVE ImportsAnswered
  OBVIOUS
<1>1. importer.imports \in Nat /\ importer.agents \in Nat /\ importer.resources = importer.agents
  BY DEF ImporterInv, ImporterTyped
<1>2. ASSUME importer.batch.jobs = {}, importer.posted = <<>>, ~importer.batch.failed, ~importer.overlap
      PROVE  importer.imports = 0
  BY <1>2 DEF ToSet, ImporterInv, ImportsUnderWay
<1>3. \A a \in importer.answers : a.stored = (IF a.success THEN a.of ELSE 0) /\ a.total = a.of
  BY DEF ImporterInv, AnswersTrue
<1> QED BY <1>1, <1>2, <1>3 DEF ImportsAnswered

\* What waits is served by whatever the to-do list does.
LEMMA TodosWell ==
  ASSUME Shape, TodoTyped(todos), Requests(todos, past.stuck), TodoNext
  PROVE  Well(todos', past'.stuck)
<1> DEFINE Goal == Well(todos', past'.stuck)
<1>0. todos.rows \in Rows /\ \A i \in Items : todos.rows[i].todo \in Todos
  BY RowFacts DEF TodoTyped, ListTyped
<1>1. ASSUME NEW t, NEW calls, NEW failures \in {0, 1}, NEW lost, NEW settled, NEW late, NEW stuck,
             Step(t, calls, failures, lost, settled, late, stuck), NEW v, Well(t, v), v => past.stuck \/ stuck
      PROVE  Goal
  <2>1. Step(t, calls, failures, lost, settled, late, stuck)
    BY <1>1
  <2>2. todos' = t /\ Recorded(lost, settled, late, stuck)
    BY <2>1, StepRecorded
  <2>3. past'.stuck = (past.stuck \/ stuck)
    BY <2>2 DEF Recorded
  <2>4. Well(t, v) /\ (v => past'.stuck)
    BY <1>1, <2>3
  <2> QED BY <2>2, <2>4 DEF Well, Requests
<1> HIDE DEF Goal
<1>2. ASSUME NEW t, NEW late, UserStep(t, late), Well(t, past.stuck)
      PROVE  Goal
  <2>1. Step(t, 1, 0, {}, {}, late, FALSE)
    BY <1>2 DEF UserStep
  <2>2. 0 \in {0, 1} /\ (past.stuck => past.stuck \/ FALSE) /\ Well(t, past.stuck)
    BY <1>2
  <2> DEFINE v == past.stuck
             none == {}
             no == FALSE
             one == 1
             zero == 0
  <2>3. Step(t, one, zero, none, none, late, no) /\ zero \in {0, 1} /\ Well(t, v) /\ (v => past.stuck \/ no)
    BY <2>1, <2>2
  <2> HIDE DEF v, none, no, one, zero
  <2> QED BY <1>1, <2>3
<1>3. ASSUME NEW t, NEW calls, NEW failures \in {0, 1}, NEW lost, NEW settled,
             Step(t, calls, failures, lost, settled, {}, FALSE), Well(t, past.stuck)
      PROVE  Goal
  <2> DEFINE v == past.stuck
             none == {}
             no == FALSE
  <2>1. Step(t, calls, failures, lost, settled, none, no) /\ Well(t, v) /\ (v => past.stuck \/ no)
    BY <1>3
  <2> HIDE DEF v, none, no
  <2> QED BY <1>1, <1>3, <2>1
<1>4. ASSUME NEW t, TodoTyped(t), Calm(todos, t)
      PROVE  Well(t, past.stuck)
  BY <1>4, RequestsStay DEF Well
<1>5. ASSUME NEW i \in Items, Edit(i) PROVE Goal
  <2> DEFINE x == [todos.rows[i].todo EXCEPT !.text = @ + 1]
             t == SetData(todos, i, x)
  <2>1. UserStep(t, Again(i))
    BY <1>5 DEF Edit
  <2>2. x \in Todos
    BY <1>0, EditedTyped
  <2> HIDE DEF x
  <2>3. Well(t, past.stuck)
    BY <1>4, <2>2, SetDataCalm
  <2> HIDE DEF t
  <2> QED BY <1>2, <2>1, <2>3
<1>6. ASSUME NEW i \in Items, Check(i) PROVE Goal
  <2> DEFINE x == [todos.rows[i].todo EXCEPT !.done = ~@]
             t == SetData(todos, i, x)
  <2>1. UserStep(t, Again(i))
    BY <1>6 DEF Check
  <2>2. x \in Todos
    BY <1>0, EditedTyped
  <2> HIDE DEF x
  <2>3. Well(t, past.stuck)
    BY <1>4, <2>2, SetDataCalm
  <2> HIDE DEF t
  <2> QED BY <1>2, <2>1, <2>3
<1>7. ASSUME NEW i \in Items, NEW target \in Items \cup {None}, Drop(i, target) PROVE Goal
  <2> DEFINE t == DropMimeData(todos, i, target)
  <2>1. \E late : UserStep(t, late)
    BY <1>7 DEF Drop
  <2>2. Well(t, past.stuck)
    BY <1>4, DropCalm
  <2> HIDE DEF t
  <2> QED BY <1>2, <2>1, <2>2
<1>8. ASSUME NEW u \in Items, NEW mode \in Modes, CutTodo(u, mode) PROVE Goal
  <2> DEFINE t == CutIncidence(todos, u, mode)
  <2>1. UserStep(t, {}) /\ ItemOf(todos, u) # None
    BY <1>8 DEF CutTodo
  <2>2. Well(t, past.stuck)
    BY <2>1, CutRequests
  <2> HIDE DEF t
  <2> QED BY <1>2, <2>1, <2>2
<1>9. ASSUME Purge PROVE Goal
  <2> DEFINE t == PurgeCompletedTodos(todos)
  <2>1. UserStep(t, Moved)
    BY <1>9 DEF Purge
  <2>2. Well(t, past.stuck)
    BY PurgeRequests
  <2> HIDE DEF t
  <2> QED BY <1>2, <2>1, <2>2
<1>10. ASSUME NEW answer \in {"Cut Only This", "Cut All", "Cancel"}, AnswerQuestion(answer) PROVE Goal
  <2> DEFINE t == CutAnswered(todos, answer)
  <2>1. Step(t, 0, 0, {}, {}, {}, FALSE) /\ todos.clip.asked # None
    BY <1>10 DEF AnswerQuestion
  <2>2. Well(t, past.stuck)
    BY <2>1, AnswerRequests
  <2> HIDE DEF t
  <2> QED BY <1>3, <2>1, <2>2
<1>11. ASSUME NEW success \in BOOLEAN, CalendarLoaded(success) PROVE Goal
  <2> DEFINE t == OnCalendarLoaded(todos, success)
             n == IF success THEN 0 ELSE 1
  <2>1. Step(t, 0, n, {}, {}, {}, FALSE)
    BY <1>11 DEF CalendarLoaded
  <2>2. n \in {0, 1}
    OBVIOUS
  <2>3. Well(t, past.stuck)
    BY LoadedRequests
  <2> HIDE DEF t, n
  <2> QED BY <1>3, <2>1, <2>2, <2>3
<1>12. ASSUME NEW ok \in BOOLEAN, Serve(ok) PROVE Goal
  <2> DEFINE t == JobEnds(todos, ok)
             n == IF ok \/ ~CanSucceed(todos) THEN 0 ELSE 1
  <2>1. todos.session # <<>> /\ \E lost, settled : Step(t, 0, n, lost, settled, {}, FALSE)
    BY <1>12 DEF Serve
  <2>2. n \in {0, 1}
    OBVIOUS
  <2>3. Well(t, past.stuck)
    BY <2>1, EndRequests
  <2> HIDE DEF t, n
  <2> QED BY <1>3, <2>1, <2>2, <2>3
<1>13. ASSUME Deliver PROVE Goal
  <2> DEFINE a == Head(todos.posted)
             t == [todos EXCEPT !.posted = Tail(@)]
             w == CASE a.by = "purger" -> OnItemsDeleted(t, a)
                    [] a.by = "app" /\ a.kind = "modify" -> SlotModifyFinished(t, a, a.todo)
                    [] a.by = "app" /\ a.kind = "delete" -> SlotDeleteFinished(t, a)
             stuck == todos.clip.pending = {a.id} /\ a.kind = "modify" /\ ~a.ok /\ ~todos.clip.abort
             v == past.stuck \/ (t.clip.pending = {a.id} /\ ~a.ok /\ ~t.clip.abort)
  <2>1. todos.posted # <<>> /\ Step(w, 0, 0, {}, {}, {}, stuck)
    BY <1>13 DEF Deliver
  <2>2. /\ TodoTyped(t) /\ SameBut(todos, t, {"posted"}) /\ a \in TodoAnswers
        /\ \A k, id : Alive(todos, k, id) /\ ~(k = a.by /\ id = a.id) => Alive(t, k, id)
        /\ Waiters(todos) => Waiters(t)
    BY <2>1, PopIs
  <2> HIDE DEF t, a
  <2>3. t.clip = todos.clip /\ t.cutting = todos.cutting /\ t.purging = todos.purging /\ t.purger = todos.purger
    BY <2>2 DEF SameBut, TodoFields
  <2>4. RequestsBut(t, past.stuck, a.by, a.id)
    BY <2>2, <2>3 DEF Requests, RequestsBut, InHand
  <2>5. a.by \in {"app", "purger"} /\ a.kind \in {"modify", "delete"}
    BY <2>2 DEF TodoAnswers, Callers, Kinds
  <2>6. ASSUME a.by = "purger" PROVE Goal
    <3>1. w = OnItemsDeleted(t, a)
      BY <2>6
    <3>2. Well(w, past.stuck)
      BY <2>2, <2>4, <2>6, <3>1, ItemsDeletedIs DEF Well
    <3> HIDE DEF w, stuck
    <3> QED BY <1>1, <2>1, <3>2
  <2>7. ASSUME a.by = "app" /\ a.kind = "modify" PROVE Goal
    <3>1. w = SlotModifyFinished(t, a, a.todo)
      BY <2>7
    <3>2. TodoTyped(w) /\ Requests(w, v)
      BY <2>2, <2>4, <2>7, <3>1, ModifyFinishedIs
    <3>3. Well(w, v)
      BY <3>2 DEF Well
    <3>4. v => past.stuck \/ stuck
      BY <2>3, <2>7
    <3> HIDE DEF w, stuck, v
    <3> QED BY <1>1, <2>1, <3>3, <3>4
  <2>8. ASSUME a.by = "app" /\ a.kind = "delete" PROVE Goal
    <3>1. w = SlotDeleteFinished(t, a)
      BY <2>8
    <3>2. Well(w, past.stuck)
      BY <2>2, <2>4, <2>8, <3>1, DeleteFinishedIs DEF Well
    <3> HIDE DEF w, stuck
    <3> QED BY <1>1, <2>1, <3>2
  <2> QED BY <2>5, <2>6, <2>7, <2>8
<1>14. ASSUME Notify PROVE Goal
  <2> DEFINE t == Noticed(todos, Head(todos.notified))
  <2>1. todos.notified # <<>> /\ Step(t, 0, 0, {}, {}, {}, FALSE)
    BY <1>14 DEF Notify
  <2>2. Well(t, past.stuck)
    BY <2>1, NoticedRequests
  <2> HIDE DEF t
  <2> QED BY <1>3, <2>1, <2>2
<1>15. ASSUME UserOfTodos PROVE Goal
  BY <1>5, <1>6, <1>7, <1>8, <1>9, <1>15 DEF UserOfTodos
<1>16. ASSUME QuestionAnswered PROVE Goal
  BY <1>10, <1>16 DEF QuestionAnswered
<1>17. ASSUME PurgeCalendarLoaded PROVE Goal
  BY <1>11, <1>17 DEF PurgeCalendarLoaded
<1>18. ASSUME Server PROVE Goal
  BY <1>12, <1>18 DEF Server
<1>19. Goal
  BY <1>13, <1>14, <1>15, <1>16, <1>17, <1>18 DEF TodoNext
<1> QED BY <1>19 DEF Goal

LEMMA TodoImports == TodoNext => UNCHANGED <<part, importer>>
<1> DEFINE Goal == UNCHANGED <<part, importer>>
<1>1. ASSUME NEW t, NEW calls, NEW failures, NEW lost, NEW settled, NEW late, NEW stuck,
             Step(t, calls, failures, lost, settled, late, stuck)
      PROVE  Goal
  BY <1>1 DEF Step
<1> HIDE DEF Goal
<1>2. ASSUME NEW t, NEW late, UserStep(t, late) PROVE Goal
  BY <1>1, <1>2 DEF UserStep
<1>3. UserOfTodos => Goal
  BY <1>2 DEF UserOfTodos, Edit, Check, Drop, CutTodo, Purge
<1>4. QuestionAnswered \/ PurgeCalendarLoaded \/ Notify => Goal
  BY <1>1 DEF QuestionAnswered, AnswerQuestion, PurgeCalendarLoaded, CalendarLoaded, Notify
<1>5. Server => Goal
  <2>1. ASSUME NEW ok \in BOOLEAN, Serve(ok) PROVE Goal
    BY <1>1, <2>1 DEF Serve
  <2> QED BY <2>1 DEF Server
<1>6. Deliver => Goal
  BY <1>1 DEF Deliver
<1>7. TodoNext => Goal
  BY <1>3, <1>4, <1>5, <1>6 DEF TodoNext
<1> QED BY <1>7 DEF Goal

CallsInv ==
  /\ Shape /\ ImporterInv(importer)
  /\ part = "todos" => Well(todos, past.stuck)

LEMMA NextCalls ==
  ASSUME CallsInv, [Next]_vars
  PROVE  CallsInv'
<1>1. Shape /\ ImporterInv(importer)
  BY DEF CallsInv
<1>2. ASSUME NotTodos, ImporterInv(importer') PROVE CallsInv'
  BY <1>2 DEF CallsInv, NotTodos
<1>3. CASE TodoNext
  <2>1. part = "todos" /\ todos.crashed # TRUE
    BY <1>3 DEF TodoNext, UserOfTodos, QuestionAnswered, PurgeCalendarLoaded, Server, Deliver, Notify, Edit, Check,
       Drop, CutTodo, Purge, AnswerQuestion, CalendarLoaded, Serve, UserStep, Active
  <2>2. TodoTyped(todos) /\ Requests(todos, past.stuck)
    BY <2>1 DEF CallsInv, Well
  <2>3. Well(todos', past'.stuck)
    BY <1>1, <1>3, <2>2, TodosWell
  <2>4. Shape' /\ UNCHANGED importer
    BY <1>1, <1>3, TodoElsewhere, TodoImports DEF Elsewhere
  <2> QED BY <1>1, <2>3, <2>4 DEF CallsInv
<1>4. CASE ImportNext
  BY <1>1, <1>2, <1>4, ImportNotTodos, ImportKeeps
<1>5. CASE SearchNext
  BY <1>1, <1>2, <1>5, SearchNotTodos
<1>6. CASE CollectionsNext
  BY <1>1, <1>2, <1>6, CollectionsNotTodos
<1>7. CASE PublishNext
  BY <1>1, <1>2, <1>7, PublishNotTodos
<1>8. CASE UNCHANGED vars
  BY <1>8 DEF vars, CallsInv, Shape
<1> QED BY <1>3, <1>4, <1>5, <1>6, <1>7, <1>8 DEF Next

\* A to-do list that was never touched.
FirstList(s, tree) ==
  /\ TodoTyped(s) /\ s.session = <<>> /\ s.posted = <<>> /\ s.notified = <<>>
  /\ \A k \in Changers, i \in Items : s.waiting[k][i] = NoModification
  /\ s.rows = s.store /\ s.cal = s.store
  /\ \A i \in Items : s.store[i].live = TRUE /\ s.store[i].todo = tree[i] /\ tree[i].uid = i /\ s.idOf[i] = i
  /\ s.shared = Items /\ s.cutting = FALSE /\ s.clip.pending = {} /\ s.clip.asked = None /\ s.purging = FALSE

LEMMA TodoListTyped ==
  ASSUME NEW tree \in InitialTrees, NEW c \in {"none", "given"}
  PROVE  FirstList(TodoList(tree, c), tree)
<1> DEFINE s == TodoList(tree, c)
           items == [i \in Items |-> [live |-> TRUE, rev |-> 0, todo |-> tree[i]]]
           nothing == [k \in Changers |-> [i \in Items |-> NoModification]]
           none == [i \in Items |-> 0]
           gone == [k \in Changers |-> {}]
           ids == [i \in Items |-> i]
           clip == [pending |-> {}, abort |-> FALSE, asked |-> None]
           purger == [calendar |-> c, items |-> items, current |-> NoChangeId]
<1>1. s = [store |-> items, session |-> <<>>, latest |-> none, posted |-> <<>>, notified |-> <<>>,
           next |-> 1, waiting |-> nothing, deleted |-> gone, rows |-> items, cal |-> items,
           idOf |-> ids, shared |-> Items, copied |-> {}, cutting |-> FALSE,
           clip |-> clip, purging |-> FALSE, single |-> FALSE, purger |-> purger, crashed |-> FALSE]
  BY DEF TodoList
<1>2. tree \in [Items -> Todos] /\ \A i \in Items : tree[i].uid = i
  BY TreesAssumption
<1>3. items \in Rows
  BY <1>2 DEF Rows
<1>4. \A i \in Items : items[i].live = TRUE /\ items[i].rev = 0 /\ items[i].todo = tree[i] /\ ids[i] = i
  OBVIOUS
<1>5. /\ nothing \in [Changers -> [Items -> TodoChanges \cup {NoModification}]]
      /\ \A k \in Changers, i \in Items : nothing[k][i] = NoModification
  OBVIOUS
<1>6. none \in [Items -> Nat] /\ gone \in [Changers -> SUBSET Items] /\ ids \in [Items -> Items \cup {None}]
  OBVIOUS
<1>7. /\ clip \in [pending : SUBSET Nat, abort : BOOLEAN, asked : Todos \cup {None}]
      /\ clip.pending = {} /\ clip.asked = None
  OBVIOUS
<1>8. /\ purger \in [calendar : {"none", "given", "loading", "loaded"}, items : Rows, current : Nat]
      /\ purger.calendar = c /\ purger.items = items
  BY <1>3 DEF NoChangeId
<1>9. gone = [k \in Changers |-> {}]
  OBVIOUS
<1> HIDE DEF items, nothing, none, gone, ids, clip, purger, s
<1>10. /\ DOMAIN s = TodoFields /\ s.store = items /\ s.session = <<>> /\ s.latest = none /\ s.posted = <<>>
       /\ s.notified = <<>> /\ s.next = 1 /\ s.waiting = nothing /\ s.deleted = gone /\ s.rows = items
       /\ s.cal = items /\ s.idOf = ids /\ s.shared = Items /\ s.copied = {} /\ s.cutting = FALSE /\ s.clip = clip
       /\ s.purging = FALSE /\ s.single = FALSE /\ s.purger = purger /\ s.crashed = FALSE
  BY <1>1 DEF TodoFields
<1>11. <<>> \in Seq(TodoJobs) /\ <<>> \in Seq(TodoAnswers) /\ <<>> \in Seq(Items) /\ 1 \in Nat \ {0}
  OBVIOUS
<1>12. ServiceTyped(s)
  BY <1>5, <1>6, <1>10, <1>11 DEF ServiceTyped
<1>13. ListTyped(s)
  BY <1>3, <1>6, <1>7, <1>8, <1>10, <1>11 DEF ListTyped
<1>14. TodoTyped(s)
  BY <1>10, <1>12, <1>13 DEF TodoTyped
<1>15. FirstList(s, tree)
  BY <1>2, <1>4, <1>5, <1>7, <1>10, <1>14 DEF FirstList
<1> QED BY <1>15 DEF s

LEMMA InitialList ==
  ASSUME Init, part = "todos"
  PROVE  \E tree : FirstList(todos, tree)
<1>1. \E tree \in InitialTrees, c \in {"none", "given"} : todos = TodoList(tree, c)
  BY DEF Init
<1> QED BY <1>1, TodoListTyped

LEMMA InitCalls == Init => CallsInv
<1> SUFFICES ASSUME Init PROVE CallsInv
  OBVIOUS
<1>1. Shape
  BY DEF Init, Shape, PastFields
<1>2. ImporterInv(importer)
  BY IdleKeeps DEF Init
<1>3. ASSUME part = "todos" PROVE Well(todos, past.stuck)
  <2>1. PICK tree : FirstList(todos, tree)
    BY <1>3, InitialList
  <2>2. /\ TodoTyped(todos) /\ \A k \in Changers, i \in Items : todos.waiting[k][i] = NoModification
        /\ todos.clip.pending = {} /\ todos.cutting = FALSE /\ todos.purging = FALSE
    BY <2>1 DEF FirstList
  <2>3. Requests(todos, past.stuck)
    BY <2>2, ItemsAssumption DEF Requests, Waiters, InHand
  <2> QED BY <2>2, <2>3 DEF Well
<1> QED BY <1>1, <1>2, <1>3 DEF CallsInv

LEMMA NothingAlive ==
  ASSUME NEW s, Waiters(s), s.session = <<>>, s.posted = <<>>
  PROVE  /\ \A i \in Items : s.waiting["app"][i] = NoModification
         /\ \A k, id : ~Alive(s, k, id)
BY DEF ToSet, Waiters, Writing, Alive

LEMMA CallsFollow == CallsInv => CallsAnswered
<1> SUFFICES ASSUME CallsInv PROVE CallsAnswered
  OBVIOUS
<1>1. ImportsAnswered
  BY ImporterAnswers DEF CallsInv
<1>2. ASSUME part = "todos", AtRest, ~todos.crashed
      PROVE  ~todos.purging /\ (todos.cutting => past.stuck)
  BY <1>2, NothingAlive DEF CallsInv, Well, AtRest, Requests, InHand
<1> QED BY <1>1, <1>2 DEF CallsAnswered, TodoCallsAnswered

\* What is asked of the to-do list and of the importer is on its way: every cut and every
\* purge waits for a job, an answer or a change that waits behind a job of its item, and
\* every import for a creation that is.
THEOREM CallsInvariance == Spec => []CallsInv
<1>1. CallsInv /\ [Next]_vars => CallsInv'
  BY NextCalls
<1> QED BY InitCalls, <1>1, PTL DEF Spec

\* The user's calls are answered in the end, and by what was really done (CalendarClipboard,
\* TodoPurger, ICalImporter).
THEOREM CallsAreAnswered == Spec => []CallsAnswered
<1> QED BY CallsInvariance, CallsFollow, PTL

-----------------------------------------------------------------------------
(* The to-dos that a cut deletes.                                          *)

\* Numbers are given out once; a change has the to-do of its item, and the clipboard does
\* not wait for changes as long as no to-do is cut alone.
Sound(s) ==
  /\ \A j \in ToSet(s.session) :
       j.id < s.next /\ (j.kind = "modify" => j.id \notin s.clip.pending /\ j.items = {j.todo.uid})
  /\ \A a \in ToSet(s.posted) : a.id < s.next /\ (a.kind = "modify" => a.id \notin s.clip.pending)
  /\ \A i \in Items : LET c == s.waiting["app"][i]
                      IN  c # NoModification => c.id < s.next /\ c.id \notin s.clip.pending /\ c.todo.uid = i
  /\ \A id \in s.clip.pending : id < s.next

\* Every to-do is in the item of its name, and known to the calendar there.
Named(s) ==
  \A i \in Items :
    /\ s.store[i].todo.uid = i /\ s.rows[i].todo.uid = i /\ s.cal[i].todo.uid = i
    /\ s.idOf[i] \in {i, None} /\ (s.idOf[i] # None <=> s.cal[i].live)
    /\ s.store[i].live => s.cal[i].live

\* The calendar's to-do is the row's while they share it, and not older than the server's
\* that it was told of; a question is about it.
Fresh(s) ==
  /\ \A i \in Items \ ToSet(s.notified) : s.store[i].live => s.cal[i].todo.text >= s.store[i].todo.text
  /\ \A i \in s.shared : s.cal[i].todo = s.rows[i].todo
Questioned(s) ==
  LET a == s.clip.asked IN a # None => a.uid \in Items /\ (s.idOf[a.uid] # None => a = s.cal[a.uid].todo)

\* What a deletion of the clipboard takes away it has a copy of, and no change comes before.
KeptCopy(s, todo) == \E c \in s.copied : c.uid = todo.uid /\ c.text >= todo.text
CutJob(job) == job.kind = "delete" /\ job.by = "app"
Copies(s, hurried) ==
  \A n \in DOMAIN s.session : CutJob(s.session[n]) =>
    \A i \in s.session[n].items \ hurried :
      /\ s.store[i].live => KeptCopy(s, s.store[i].todo)
      /\ \A m \in 1 .. n - 1 : s.session[m].kind = "modify" => i \notin s.session[m].items

Safe(s, hurried) == TodoTyped(s) /\ Sound(s) /\ Named(s) /\ Fresh(s) /\ Questioned(s) /\ Copies(s, hurried)

\* The jobs of s are still there in t, and no deletion of the clipboard comes after them.
SameJob(p, q) == q.kind = p.kind /\ q.by = p.by /\ q.id = p.id /\ q.items = p.items /\ q.todo = p.todo
Extends(s, t) ==
  \A n \in DOMAIN t.session :
    IF n \in DOMAIN s.session THEN SameJob(s.session[n], t.session[n]) ELSE ~CutJob(t.session[n])

LEMMA Places ==
  ASSUME NEW s, TodoTyped(s)
  PROVE  /\ Len(s.session) \in Nat /\ DOMAIN s.session = 1 .. Len(s.session)
         /\ \A n \in DOMAIN s.session : \A m \in 1 .. n - 1 : m \in DOMAIN s.session
         /\ \A n \in DOMAIN s.session : s.session[n] \in ToSet(s.session) /\ s.session[n] \in TodoJobs
         /\ \A j \in ToSet(s.session) : \E n \in DOMAIN s.session : j = s.session[n]
BY DEF TodoTyped, ServiceTyped, ToSet

LEMMA CopiesStay ==
  ASSUME NEW s, NEW t, TodoTyped(s), TodoTyped(t), NEW h, NEW h2, Copies(s, h), Extends(s, t),
         t.store = s.store, s.copied \subseteq t.copied, h \subseteq h2
  PROVE  Copies(t, h2)
<1> SUFFICES ASSUME NEW n \in DOMAIN t.session, CutJob(t.session[n]), NEW i \in t.session[n].items \ h2
             PROVE  /\ t.store[i].live => KeptCopy(t, t.store[i].todo)
                    /\ \A m \in 1 .. n - 1 : t.session[m].kind = "modify" => i \notin t.session[m].items
  BY DEF Copies
<1>1. n \in DOMAIN s.session /\ SameJob(s.session[n], t.session[n])
  BY DEF Extends
<1>2. CutJob(s.session[n]) /\ i \in s.session[n].items \ h
  BY <1>1 DEF SameJob, CutJob
<1>3. /\ s.store[i].live => KeptCopy(s, s.store[i].todo)
      /\ \A m \in 1 .. n - 1 : s.session[m].kind = "modify" => i \notin s.session[m].items
  BY <1>1, <1>2 DEF Copies
<1>4. \A m \in 1 .. n - 1 : m \in DOMAIN s.session /\ m \in DOMAIN t.session
  BY <1>1, Places
<1>5. \A m \in 1 .. n - 1 : SameJob(s.session[m], t.session[m])
  BY <1>4 DEF Extends
<1> QED BY <1>3, <1>5 DEF SameJob, KeptCopy

\* A change that is taken.
LEMMA TookSound ==
  ASSUME NEW s, NEW t, TodoTyped(s), TodoTyped(t), NEW c \in TodoChanges, Took(s, t, c), Sound(s),
         t.next >= s.next, t.clip.pending = s.clip.pending,
         c.id < t.next, c.id \notin s.clip.pending, c.todo.uid = c.item
  PROVE  Sound(t) /\ Extends(s, t)
<1> DEFINE i == c.item
           older == s.waiting["app"][i]
<1>1. /\ s.next \in Nat /\ t.next \in Nat /\ s.session \in Seq(TodoJobs) /\ s.posted \in Seq(TodoAnswers)
      /\ s.clip.pending \subseteq Nat /\ i \in Items /\ "app" \in Changers
      /\ s.waiting \in [Changers -> [Items -> TodoChanges \cup {NoModification}]]
  BY ItemsAssumption DEF TodoTyped, ServiceTyped, ListTyped, TodoChanges
<1>2. /\ \A j \in ToSet(s.session) : j.id \in Nat
      /\ \A a \in ToSet(s.posted) : a.id \in Nat
      /\ \A x \in Items : s.waiting["app"][x] # NoModification => s.waiting["app"][x].id \in Nat
  BY <1>1, JobFacts DEF TodoTyped, TodoJobs, TodoAnswers, TodoChanges
<1>3. /\ \A j \in ToSet(s.session) : j.id < t.next
      /\ \A a \in ToSet(s.posted) : a.id < t.next
      /\ \A x \in Items : s.waiting["app"][x] # NoModification => s.waiting["app"][x].id < t.next
      /\ \A id \in s.clip.pending : id < t.next
  BY <1>1, <1>2 DEF Sound
<1>4. \A rev \in Nat : /\ WriteJob(c, rev).id = c.id /\ WriteJob(c, rev).kind = "modify" /\ WriteJob(c, rev).todo = c.todo
                       /\ WriteJob(c, rev).items = {c.item} /\ ~CutJob(WriteJob(c, rev))
  BY DEF WriteJob, CutJob
<1>5. \A x : Refusal(x).id = x.id /\ Refusal(x).kind = "modify"
  BY DEF Refusal
<1>6. \A j : SameJob(j, j)
  BY DEF SameJob
<1>7. CASE t.session = s.session /\ t.waiting = s.waiting /\ t.posted = Append(s.posted, Refusal(c))
  BY <1>1, <1>3, <1>5, <1>6, <1>7, OneMore, RefusalTyped DEF Sound, Extends
<1>8. ASSUME NEW rev \in Nat, t.posted = s.posted, t.waiting = s.waiting, t.session = Append(s.session, WriteJob(c, rev))
      PROVE  Sound(t) /\ Extends(s, t)
  <2> DEFINE w == WriteJob(c, rev)
  <2>1. w \in TodoJobs
    BY RefusalTyped
  <2>2. /\ ToSet(t.session) = ToSet(s.session) \cup {w} /\ \A n \in DOMAIN s.session : t.session[n] = s.session[n]
        /\ DOMAIN s.session = 1 .. Len(s.session) /\ DOMAIN t.session = 1 .. Len(s.session) + 1
        /\ t.session[Len(s.session) + 1] = w /\ Len(s.session) \in Nat
    BY <1>1, <1>8, <2>1, OneMore
  <2>3. w.id = c.id /\ w.kind = "modify" /\ w.todo = c.todo /\ w.items = {c.item} /\ ~CutJob(w)
    BY <1>4
  <2> HIDE DEF w
  <2>4. Sound(t)
    BY <1>3, <1>8, <2>2, <2>3 DEF Sound
  <2>5. Extends(s, t)
    BY <1>6, <2>2, <2>3 DEF Extends
  <2> QED BY <2>4, <2>5
<1>9. CASE /\ t.session = s.session /\ t.waiting = [s.waiting EXCEPT !["app"][c.item] = c]
           /\ t.posted = IF older = NoModification THEN s.posted ELSE Append(s.posted, Refusal(older))
  <2>1. \A x \in Items : t.waiting["app"][x] = IF x = c.item THEN c ELSE s.waiting["app"][x]
    BY <1>1, <1>9
  <2>2. \A a \in ToSet(t.posted) : a \in ToSet(s.posted) \/ (older # NoModification /\ a = Refusal(older))
    <3>1. CASE older = NoModification
      BY <1>9, <3>1
    <3>2. CASE older # NoModification
      BY <1>1, <1>9, <3>2, RefusalTyped, OneMore
    <3> QED BY <3>1, <3>2
  <2>3. older # NoModification => older.id < t.next /\ older.id \notin s.clip.pending
    BY <1>1, <1>3 DEF Sound
  <2> HIDE DEF older
  <2>4. \A a \in ToSet(t.posted) : a.id < t.next /\ (a.kind = "modify" => a.id \notin s.clip.pending)
    BY <1>3, <1>5, <2>2, <2>3 DEF Sound
  <2>5. Sound(t)
    BY <1>3, <1>9, <2>1, <2>4 DEF Sound
  <2> QED BY <1>6, <1>9, <2>5 DEF Extends
<1> QED BY <1>7, <1>8, <1>9 DEF Took

LEMMA SafeFacts ==
  ASSUME NEW s, TodoTyped(s)
  PROVE  /\ s.next \in Nat \ {0} /\ s.clip.pending \subseteq Nat /\ s.shared \subseteq Items
         /\ \A i \in Items : /\ s.store[i].live \in BOOLEAN /\ s.store[i].todo \in Todos /\ s.store[i].todo.text \in Nat
                             /\ s.rows[i].todo \in Todos /\ s.rows[i].todo.text \in Nat
                             /\ s.cal[i].live \in BOOLEAN /\ s.cal[i].todo \in Todos /\ s.cal[i].todo.text \in Nat
         /\ \A j \in ToSet(s.session) : j.id \in Nat
         /\ \A a \in ToSet(s.posted) : a.id \in Nat
         /\ \A x \in Items : s.waiting["app"][x] # NoModification => s.waiting["app"][x].id \in Nat
         /\ \A todo \in Todos : todo.uid \in Items /\ todo.text \in Nat
<1>1. /\ s.next \in Nat \ {0} /\ s.clip.pending \subseteq Nat /\ s.shared \subseteq Items /\ "app" \in Changers
      /\ s.waiting \in [Changers -> [Items -> TodoChanges \cup {NoModification}]]
  BY ItemsAssumption DEF TodoTyped, ServiceTyped, ListTyped
<1>2. \A x \in Items : s.waiting["app"][x] # NoModification => s.waiting["app"][x].id \in Nat
  BY <1>1 DEF TodoChanges
<1>3. /\ \A j \in ToSet(s.session) : j.id \in Nat
      /\ \A a \in ToSet(s.posted) : a.id \in Nat
  BY JobFacts DEF TodoTyped, TodoJobs, TodoAnswers
<1>4. \A todo \in Todos : todo.uid \in Items /\ todo.text \in Nat
  BY DEF Todos
<1>5. \A i \in Items : /\ s.store[i].live \in BOOLEAN /\ s.store[i].todo \in Todos /\ s.rows[i].todo \in Todos
                       /\ s.cal[i].live \in BOOLEAN /\ s.cal[i].todo \in Todos
  BY RowFacts
<1> QED BY <1>1, <1>2, <1>3, <1>4, <1>5

\* A step that leaves the service and the list alone.
LEMMA SameSafe ==
  ASSUME NEW s, NEW t, NEW h, NEW h2, Safe(s, h), TodoTyped(t),
         SameBut(s, t, {"clip", "cutting", "copied", "purging", "purger", "single", "crashed"}),
         t.clip.pending \subseteq s.clip.pending, s.copied \subseteq t.copied, Questioned(t), h \subseteq h2
  PROVE  Safe(t, h2)
<1>1. /\ t.session = s.session /\ t.posted = s.posted /\ t.waiting = s.waiting /\ t.next = s.next /\ t.store = s.store
      /\ t.rows = s.rows /\ t.cal = s.cal /\ t.idOf = s.idOf /\ t.shared = s.shared /\ t.notified = s.notified
  BY DEF SameBut, TodoFields
<1>2. Sound(t) /\ Named(t) /\ Fresh(t)
  BY <1>1 DEF Safe, Sound, Named, Fresh
<1>3. Extends(s, t)
  BY <1>1 DEF Extends, SameJob
<1>4. Copies(t, h2)
  BY <1>1, <1>3, CopiesStay DEF Safe
<1> QED BY <1>2, <1>4 DEF Safe

LEMMA ChangedSafe ==
  ASSUME NEW s, NEW h, NEW h2, Safe(s, h), h \subseteq h2, NEW i \in Items, NEW todo \in Todos,
         todo.uid = i, todo.text >= s.rows[i].todo.text, s.clip.asked = None
  PROVE  Safe(Changed(s, i, todo), h2)
<1> DEFINE t == Changed(s, i, todo)
           c == ChangeOf(s, i, todo)
<1>0. TodoTyped(s) /\ Sound(s) /\ Named(s) /\ Fresh(s) /\ Copies(s, h)
  BY DEF Safe
<1>1. /\ TodoTyped(t) /\ SameBut(s, t, ChangedFields) /\ t.next = s.next + 1 /\ c \in TodoChanges
      /\ \E r : /\ TodoTyped(r) /\ SameBut(s, r, {"rows", "cal"}) /\ PutIn(s, r, i, todo)
                /\ SameBut(r, t, {"posted", "session", "waiting", "next"}) /\ Took(r, t, c)
  BY <1>0, ChangedIs
<1>2. c.id = s.next /\ c.item = i /\ c.todo = todo
  BY DEF ChangeOf
<1> HIDE DEF t, c
<1>3. PICK r : /\ TodoTyped(r) /\ SameBut(s, r, {"rows", "cal"}) /\ PutIn(s, r, i, todo)
               /\ SameBut(r, t, {"posted", "session", "waiting", "next"}) /\ Took(r, t, c)
  BY <1>1
<1>4. /\ r.session = s.session /\ r.posted = s.posted /\ r.waiting = s.waiting /\ r.next = s.next /\ r.clip = s.clip
      /\ r.store = s.store /\ r.notified = s.notified /\ r.shared = s.shared /\ r.idOf = s.idOf /\ r.copied = s.copied
  BY <1>3 DEF SameBut, TodoFields
<1>5. /\ t.clip = r.clip /\ t.store = r.store /\ t.rows = r.rows /\ t.cal = r.cal /\ t.notified = r.notified
      /\ t.shared = r.shared /\ t.idOf = r.idOf /\ t.copied = r.copied
  BY <1>3 DEF SameBut, TodoFields
<1>6. s.next \in Nat /\ \A id \in s.clip.pending : id \in Nat /\ id < s.next
  BY <1>0, SafeFacts DEF Sound
<1>7. Sound(r)
  BY <1>0, <1>4 DEF Sound
<1>8. t.next >= r.next /\ c.id < t.next /\ c.id \notin r.clip.pending /\ c.todo.uid = c.item /\ t.clip.pending = r.clip.pending
  BY <1>1, <1>2, <1>4, <1>5, <1>6
<1>9. Sound(t) /\ Extends(r, t)
  BY <1>1, <1>3, <1>7, <1>8, TookSound
<1>10. \A x \in Items : /\ t.rows[x].todo = IF x = i THEN todo ELSE s.rows[x].todo
                        /\ t.cal[x].todo = IF x = i /\ i \in s.shared THEN todo ELSE s.cal[x].todo
                        /\ t.cal[x].live = s.cal[x].live
  BY <1>3, <1>5 DEF PutIn
<1>11. Named(t)
  BY <1>0, <1>4, <1>5, <1>10 DEF Named
<1>12. Fresh(t)
  <2>1. \A x \in t.shared : t.cal[x].todo = t.rows[x].todo
    BY <1>0, <1>4, <1>5, <1>10, SafeFacts DEF Fresh
  <2>2. ASSUME NEW x \in Items \ ToSet(t.notified), t.store[x].live PROVE t.cal[x].todo.text >= t.store[x].todo.text
    <3>1. s.cal[x].todo.text >= s.store[x].todo.text /\ t.store[x] = s.store[x]
      BY <1>0, <1>4, <1>5, <2>2 DEF Fresh
    <3>2. s.cal[x].todo.text \in Nat /\ s.store[x].todo.text \in Nat /\ todo.text \in Nat /\ s.rows[x].todo.text \in Nat
      BY <1>0, SafeFacts
    <3>3. CASE x = i /\ i \in s.shared
      BY <1>0, <1>10, <3>1, <3>2, <3>3 DEF Fresh
    <3>4. CASE ~(x = i /\ i \in s.shared)
      BY <1>10, <3>1, <3>4
    <3> QED BY <3>3, <3>4
  <2> QED BY <2>1, <2>2 DEF Fresh
<1>13. Questioned(t)
  BY <1>4, <1>5 DEF Questioned
<1>14. Copies(r, h)
  BY <1>0, <1>3, <1>4, CopiesStay DEF Extends, SameJob
<1>15. Copies(t, h2)
  BY <1>1, <1>3, <1>5, <1>9, <1>14, CopiesStay
<1> QED BY <1>1, <1>9, <1>11, <1>12, <1>13, <1>15 DEF Safe, t

LEMMA EditSafe ==
  ASSUME NEW s, NEW h, NEW h2, Safe(s, h), h \subseteq h2, s.clip.asked = None, NEW i \in Items
  PROVE  /\ Safe(SetData(s, i, [s.rows[i].todo EXCEPT !.text = @ + 1]), h2)
         /\ Safe(SetData(s, i, [s.rows[i].todo EXCEPT !.done = ~@]), h2)
         /\ \A target \in Items \cup {None} : Safe(DropMimeData(s, i, target), h2)
<1>0. TodoTyped(s) /\ Named(s)
  BY DEF Safe
<1>1. s.rows[i].todo \in Todos /\ s.rows[i].todo.uid = i /\ s.rows[i].todo.text \in Nat
  BY <1>0, SafeFacts DEF Named
<1>2. Safe(s, h2)
  BY <1>0, SameSafe DEF Safe, SameBut, TodoTyped
<1>3. ASSUME NEW x \in Todos, x.uid = i, x.text >= s.rows[i].todo.text PROVE Safe(SetData(s, i, x), h2)
  BY <1>2, <1>3, ChangedSafe DEF SetData
<1>4. Safe(SetData(s, i, [s.rows[i].todo EXCEPT !.text = @ + 1]), h2)
  <2> DEFINE p == s.rows[i].todo
             x == [p EXCEPT !.text = @ + 1]
  <2>1. x \in Todos
    BY <1>1, EditedTyped
  <2>2. x.uid = p.uid /\ x.text = p.text + 1
    BY <1>1 DEF Todos, p
  <2> HIDE DEF x
  <2>3. x.uid = i /\ x.text >= s.rows[i].todo.text
    BY <1>1, <2>2
  <2>4. Safe(SetData(s, i, x), h2)
    BY <1>3, <2>1, <2>3
  <2> QED BY <2>4 DEF x
<1>5. Safe(SetData(s, i, [s.rows[i].todo EXCEPT !.done = ~@]), h2)
  <2> DEFINE p == s.rows[i].todo
             x == [p EXCEPT !.done = ~@]
  <2>1. x \in Todos
    BY <1>1, EditedTyped
  <2>2. x.uid = p.uid /\ x.text = p.text
    BY <1>1 DEF Todos, p
  <2> HIDE DEF x
  <2>3. x.uid = i /\ x.text >= s.rows[i].todo.text
    BY <1>1, <2>2
  <2>4. Safe(SetData(s, i, x), h2)
    BY <1>3, <2>1, <2>3
  <2> QED BY <2>4 DEF x
<1>6. ASSUME NEW target \in Items \cup {None} PROVE Safe(DropMimeData(s, i, target), h2)
  <2> DEFINE r == IF target = None THEN None ELSE s.rows[target].todo.uid
             p == s.rows[i].todo
             x == [p EXCEPT !.related = r]
  <2>1. r \in Items \cup {None}
    BY <1>0, SafeFacts
  <2>2. x \in Todos
    BY <1>1, <2>1, EditedTyped
  <2>3. x.uid = p.uid /\ x.text = p.text
    BY <1>1 DEF Todos, p
  <2>4. DropMimeData(s, i, target) = IF DropOnSelf(s, i, target) THEN s ELSE Changed(s, i, x)
    BY DEF DropMimeData
  <2> HIDE DEF x
  <2>5. x.uid = i /\ x.text >= s.rows[i].todo.text
    BY <1>1, <2>3
  <2>6. Safe(Changed(s, i, x), h2)
    BY <2>2, <2>5, ChangedSafe
  <2> QED BY <1>2, <2>4, <2>6
<1> QED BY <1>4, <1>5, <1>6

\* A deletion that is asked for.
LEMMA DeletionSound ==
  ASSUME NEW s, NEW t, TodoTyped(s), TodoTyped(t), Sound(s), NEW k \in Callers, NEW items \in SUBSET Items,
         NEW left \in SUBSET Items, t.next = s.next + 1, t.waiting = s.waiting,
         t.clip.pending \subseteq s.clip.pending \cup {s.next},
         DeletionNotTaken(s, t, k, items) \/ DeletionTaken(s, t, k, left)
  PROVE  Sound(t)
<1> DEFINE r == DeletionRefused(k, s.next, items)
           d == DeleteJob(k, s.next, left)
<1>1. s.next \in Nat \ {0} /\ r \in TodoAnswers /\ d \in TodoJobs
  BY SafeFacts, DeletionTyped
<1>2. r.id = s.next /\ r.kind = "delete" /\ d.id = s.next /\ d.kind = "delete"
  BY DEF DeletionRefused, DeleteJob
<1>3. /\ ToSet(Append(s.session, d)) = ToSet(s.session) \cup {d}
      /\ ToSet(Append(s.posted, r)) = ToSet(s.posted) \cup {r}
  BY <1>1, OneMoreJob
<1> HIDE DEF r, d
<1>4. \A a \in ToSet(t.posted) : a \in ToSet(s.posted) \/ a = r
  BY <1>3 DEF DeletionNotTaken, DeletionTaken, r
<1>5. \A j \in ToSet(t.session) :
        j = d \/ \E p \in ToSet(s.session) : p.kind = j.kind /\ p.id = j.id /\ p.items = j.items /\ p.todo = j.todo
  <2>1. CASE Marked(s.session, t.session)
    BY <2>1, MarkedJobs
  <2>2. CASE t.session = Append(s.session, d)
    BY <1>3, <2>2
  <2> QED BY <2>1, <2>2 DEF DeletionNotTaken, DeletionTaken, d
<1>6. /\ \A j \in ToSet(s.session) : j.id \in Nat /\ j.id < s.next
      /\ \A a \in ToSet(s.posted) : a.id \in Nat /\ a.id < s.next
      /\ \A x \in Items : s.waiting["app"][x] # NoModification =>
           s.waiting["app"][x].id \in Nat /\ s.waiting["app"][x].id < s.next
      /\ \A id \in s.clip.pending : id \in Nat /\ id < s.next
  BY SafeFacts DEF Sound
<1>7. \A id \in Nat : id < s.next => id < t.next /\ id # s.next
  BY <1>1
<1>8. \A id \in t.clip.pending : id < t.next
  BY <1>1, <1>6, <1>7
<1>9. \A j \in ToSet(t.session) :
        j.id < t.next /\ (j.kind = "modify" => j.id \notin t.clip.pending /\ j.items = {j.todo.uid})
  <2> SUFFICES ASSUME NEW j \in ToSet(t.session)
               PROVE  j.id < t.next /\ (j.kind = "modify" => j.id \notin t.clip.pending /\ j.items = {j.todo.uid})
    OBVIOUS
  <2>1. CASE j = d
    BY <1>1, <1>2, <2>1
  <2>2. ASSUME NEW p \in ToSet(s.session), p.kind = j.kind, p.id = j.id, p.items = j.items, p.todo = j.todo
        PROVE  j.id < t.next /\ (j.kind = "modify" => j.id \notin t.clip.pending /\ j.items = {j.todo.uid})
    BY <1>6, <1>7, <2>2 DEF Sound
  <2> QED BY <1>5, <2>1, <2>2
<1>10. \A a \in ToSet(t.posted) : a.id < t.next /\ (a.kind = "modify" => a.id \notin t.clip.pending)
  BY <1>1, <1>2, <1>4, <1>6, <1>7 DEF Sound
<1>11. \A i \in Items : LET c == t.waiting["app"][i]
                        IN  c # NoModification => c.id < t.next /\ c.id \notin t.clip.pending /\ c.todo.uid = i
  BY <1>6, <1>7 DEF Sound
<1> QED BY <1>8, <1>9, <1>10, <1>11 DEF Sound

\* The last job of t is job, the others are those of s.
OneJobMore(s, t, job) ==
  /\ \A n \in DOMAIN t.session : n \notin DOMAIN s.session => n = Len(s.session) + 1
  /\ \A n \in DOMAIN s.session : n \in DOMAIN t.session /\ t.session[n] = s.session[n]
  /\ Len(s.session) + 1 \in DOMAIN t.session /\ t.session[Len(s.session) + 1] = job

LEMMA DeletionPlaces ==
  ASSUME NEW s, NEW t, TodoTyped(s), TodoTyped(t), NEW k \in Callers, NEW left \in SUBSET Items
  PROVE  /\ DeletionNotTaken(s, t, k, left) => Extends(s, t)
         /\ DeletionTaken(s, t, k, left) => OneJobMore(s, t, DeleteJob(k, s.next, left))
         /\ DeletionTaken(s, t, "purger", left) => Extends(s, t)
<1>1. ASSUME DeletionNotTaken(s, t, k, left) PROVE Extends(s, t)
  <2>1. Marked(s.session, t.session)
    BY <1>1 DEF DeletionNotTaken
  <2>2. \A n \in DOMAIN s.session : SameJob(s.session[n], t.session[n])
    BY <2>1, MarkedJobs DEF SameJob
  <2> QED BY <2>1, <2>2 DEF Marked, Extends
<1>2. ASSUME NEW c \in Callers, DeletionTaken(s, t, c, left)
      PROVE  OneJobMore(s, t, DeleteJob(c, s.next, left))
  <2> DEFINE d == DeleteJob(c, s.next, left)
  <2>1. s.session \in Seq(TodoJobs) /\ d \in TodoJobs
    BY SafeFacts, DeletionTyped DEF TodoTyped, ServiceTyped
  <2>2. t.session = Append(s.session, d)
    BY <1>2 DEF DeletionTaken
  <2> HIDE DEF d
  <2>3. /\ Len(s.session) \in Nat /\ DOMAIN s.session = 1 .. Len(s.session) /\ DOMAIN t.session = 1 .. Len(s.session) + 1
        /\ \A n \in DOMAIN s.session : t.session[n] = s.session[n]
        /\ t.session[Len(s.session) + 1] = d
    BY <2>1, <2>2, OneMore
  <2> QED BY <2>3 DEF OneJobMore, d
<1>3. ASSUME DeletionTaken(s, t, "purger", left) PROVE Extends(s, t)
  BY <1>2, <1>3 DEF Callers, CutJob, DeleteJob, SameJob, Extends, OneJobMore
<1> QED BY <1>1, <1>2, <1>3

\* The newest state of what a cut deletes is copied, but for what is still on its way.
LEMMA TakenCopies ==
  ASSUME NEW s, NEW t, NEW h, NEW h2, Safe(s, h), TodoTyped(t), h \subseteq h2, Unsettled(s) \subseteq h2,
         NEW payloads \in SUBSET Todos, \A p \in payloads : s.idOf[p.uid] # None => p = s.cal[p.uid].todo,
         t.store = s.store, t.copied = s.copied \cup payloads, NEW left \in SUBSET Items,
         \A i \in left : i \in {s.idOf[p.uid] : p \in payloads},
         DeletionTaken(s, t, "app", left)
  PROVE  Copies(t, h2)
<1>0. TodoTyped(s) /\ Named(s) /\ Fresh(s) /\ Copies(s, h)
  BY DEF Safe
<1> DEFINE last == Len(s.session) + 1
           d == DeleteJob("app", s.next, left)
<1>1. /\ \A n \in DOMAIN t.session : n \notin DOMAIN s.session => n = last
      /\ \A n \in DOMAIN s.session : n \in DOMAIN t.session /\ t.session[n] = s.session[n]
      /\ last \in DOMAIN t.session /\ t.session[last] = d
  BY <1>0, DeletionPlaces DEF Callers, OneJobMore
<1>2. d.items = left
  BY DEF DeleteJob
<1>3. Len(s.session) \in Nat /\ DOMAIN s.session = 1 .. Len(s.session)
      /\ \A n \in DOMAIN s.session : \A m \in 1 .. n - 1 : m \in DOMAIN s.session
  BY <1>0, Places
<1> HIDE DEF d
<1> SUFFICES ASSUME NEW n \in DOMAIN t.session, CutJob(t.session[n]), NEW i \in t.session[n].items \ h2
             PROVE  /\ t.store[i].live => KeptCopy(t, t.store[i].todo)
                    /\ \A m \in 1 .. n - 1 : t.session[m].kind = "modify" => i \notin t.session[m].items
  BY DEF Copies
<1>4. CASE n \in DOMAIN s.session
  BY <1>0, <1>1, <1>3, <1>4 DEF Copies, KeptCopy
<1>5. CASE n \notin DOMAIN s.session
  <2>1. n = last /\ i \in left /\ i \notin h2
    BY <1>1, <1>2, <1>5
  <2>2. i \notin Unsettled(s)
    BY <2>1
  <2>3. /\ i \notin ToSet(s.notified)
        /\ \A m \in DOMAIN s.session : s.session[m].kind = "modify" => i \notin s.session[m].items
    BY <2>2 DEF Unsettled
  <2>4. \A m \in 1 .. n - 1 : m \in DOMAIN s.session /\ t.session[m] = s.session[m]
    BY <1>1, <1>3, <2>1
  <2>5. ASSUME t.store[i].live PROVE KeptCopy(t, t.store[i].todo)
    <3>1. PICK p \in payloads : i = s.idOf[p.uid]
      BY <2>1
    <3>2. p.uid \in Items /\ i \in Items /\ i # None
      BY <1>0, <2>1, SafeFacts, ItemsAssumption
    <3>3. p.uid = i /\ p = s.cal[i].todo
      BY <1>0, <3>1, <3>2 DEF Named
    <3>4. s.cal[i].todo.text >= s.store[i].todo.text /\ s.store[i].todo.uid = i
      BY <1>0, <2>3, <2>5, <3>2 DEF Fresh, Named
    <3> QED BY <3>3, <3>4 DEF KeptCopy
  <2> QED BY <2>3, <2>4, <2>5
<1> QED BY <1>4, <1>5

\* What was on its way when a deletion is asked for is known to h2.
Noted(s, t, h, h2) == h \subseteq h2 /\ (AskedTo(s, t) => Unsettled(s) \subseteq h2)

\* The step to t saves what is deleted, unless a to-do is cut alone.
Kept(s, t, h, h2) ==
  /\ s.single = TRUE => t.single = TRUE
  /\ Safe(s, h) /\ Noted(s, t, h, h2) => t.crashed = TRUE \/ t.single = TRUE \/ Safe(t, h2)

LEMMA SameNoted ==
  ASSUME NEW s, NEW r, NEW t, NEW h, NEW h2,
         SameBut(s, r, {"clip", "cutting", "copied", "purging", "purger", "single", "crashed"})
  PROVE  Noted(r, t, h, h2) <=> Noted(s, t, h, h2)
<1>1. r.session = s.session /\ r.waiting = s.waiting /\ r.notified = s.notified
  BY DEF SameBut, TodoFields
<1>2. DeletionsAsked(r) = DeletionsAsked(s)
  BY <1>1 DEF DeletionsAsked
<1>3. Unsettled(r) = Unsettled(s)
  BY <1>1 DEF Unsettled
<1> QED BY <1>2, <1>3 DEF Noted, AskedTo

\* A deletion has a new number.
LEMMA TakenAsked ==
  ASSUME NEW s, NEW t, TodoTyped(s), TodoTyped(t), Sound(s), NEW k \in Callers, NEW left \in SUBSET Items,
         DeletionTaken(s, t, k, left)
  PROVE  AskedTo(s, t)
<1> DEFINE d == DeleteJob(k, s.next, left)
           last == Len(s.session) + 1
<1>1. OneJobMore(s, t, d)
  BY DeletionPlaces
<1>2. d.kind = "delete" /\ d.id = s.next
  BY DEF DeleteJob
<1> HIDE DEF d
<1>3. s.next \in DeletionsAsked(t)
  BY <1>1, <1>2 DEF OneJobMore, DeletionsAsked
<1>4. s.next \notin DeletionsAsked(s)
  BY Places, SafeFacts DEF Sound, DeletionsAsked
<1> QED BY <1>3, <1>4 DEF AskedTo

\* A cut copies what it deletes.
LEMMA CutDoneSafe ==
  ASSUME NEW s, NEW t, NEW h, NEW h2, Safe(s, h), Noted(s, t, h, h2), TodoTyped(t), s.clip.asked = None,
         NEW payloads \in SUBSET Todos, \A p \in payloads : s.idOf[p.uid] # None => p = s.cal[p.uid].todo,
         CutDone(s, t, payloads)
  PROVE  Safe(t, h2)
<1>0. TodoTyped(s) /\ Sound(s) /\ Copies(s, h) /\ h \subseteq h2
  BY DEF Safe, Noted
<1>1. CASE NotCut(s, t)
  BY <1>0, <1>1, SameSafe DEF NotCut, SameBut, Pending, Questioned, CutDone
<1>2. ASSUME NEW items, items = {s.idOf[p.uid] : p \in payloads}, items \in SUBSET Items, CutOf(s, t, items)
      PROVE  Safe(t, h2)
  <2> DEFINE left == items \ s.deleted["app"]
  <2>1. /\ t.store = s.store /\ t.rows = s.rows /\ t.cal = s.cal /\ t.idOf = s.idOf /\ t.shared = s.shared
        /\ t.notified = s.notified /\ t.waiting = s.waiting /\ t.next = s.next + 1 /\ t.clip.pending = {s.next}
        /\ t.clip.asked = None /\ t.copied = s.copied \cup payloads
    BY <1>2 DEF CutOf, SameBut, TodoFields, DeletedFields, Pending, CutDone
  <2>2. left \in SUBSET Items /\ "app" \in Callers /\ \A i \in left : i \in {s.idOf[p.uid] : p \in payloads}
    BY <1>2 DEF Callers
  <2>3. DeletionNotTaken(s, t, "app", items) \/ DeletionTaken(s, t, "app", left)
    BY <1>2 DEF CutOf
  <2> HIDE DEF left
  <2>4. Sound(t)
    BY <1>0, <1>2, <2>1, <2>2, <2>3, DeletionSound
  <2>5. Named(t) /\ Fresh(t) /\ Questioned(t)
    BY <2>1 DEF Safe, Named, Fresh, Questioned
  <2>6. ASSUME DeletionNotTaken(s, t, "app", items) PROVE Copies(t, h2)
    BY <1>0, <1>2, <2>1, <2>2, <2>6, DeletionPlaces, CopiesStay
  <2>7. ASSUME DeletionTaken(s, t, "app", left) PROVE Copies(t, h2)
    BY <1>0, <2>1, <2>2, <2>7, TakenAsked, TakenCopies DEF Noted
  <2> QED BY <2>3, <2>4, <2>5, <2>6, <2>7 DEF Safe
<1> QED BY <1>1, <1>2 DEF CutDone

LEMMA CutDoneSingle ==
  ASSUME NEW s, NEW t, NEW payloads, CutDone(s, t, payloads)
  PROVE  t.single = s.single
BY DEF CutDone, NotCut, CutOf, SameBut, TodoFields, DeletedFields

LEMMA MakeKept ==
  ASSUME NEW s, TodoTyped(s), NEW h, NEW h2, s.clip.asked = None,
         NEW inc \in Todos, Safe(s, h) => (s.idOf[inc.uid] # None => inc = s.cal[inc.uid].todo)
  PROVE  Kept(s, MakeChildsIndependent(s, inc), h, h2)
<1> DEFINE t == MakeChildsIndependent(s, inc)
<1>1. /\ TodoTyped(t)
      /\ CutDone(s, t, {inc}) \/ NothingMade(s, t) \/ Made(s, t)
  BY MakeIs
<1> HIDE DEF t
<1>2. CASE CutDone(s, t, {inc})
  <2>1. t.single = s.single
    BY <1>2, CutDoneSingle
  <2>2. ASSUME Safe(s, h), Noted(s, t, h, h2) PROVE Safe(t, h2)
    <3> DEFINE P == {inc}
    <3>1. P \in SUBSET Todos /\ \A p \in P : s.idOf[p.uid] # None => p = s.cal[p.uid].todo
      BY <2>2
    <3>2. CutDone(s, t, P)
      BY <1>2
    <3> HIDE DEF P
    <3> QED BY <1>1, <2>2, <3>1, <3>2, CutDoneSafe
  <2> QED BY <2>1, <2>2 DEF Kept, t
<1>3. CASE NothingMade(s, t)
  <2>1. /\ SameBut(s, t, {"clip", "cutting", "copied", "purging", "purger", "single", "crashed"})
        /\ t.clip.pending = {} /\ t.clip.asked = s.clip.asked /\ t.single = s.single /\ t.copied = s.copied
    BY <1>3 DEF NothingMade, SameBut, TodoFields
  <2>2. Questioned(t)
    BY <2>1 DEF Questioned
  <2>3. ASSUME Safe(s, h), Noted(s, t, h, h2) PROVE Safe(t, h2)
    BY <1>1, <2>1, <2>2, <2>3, SameSafe DEF Noted
  <2> QED BY <2>1, <2>3 DEF Kept, t
<1>4. CASE Made(s, t)
  BY <1>4 DEF Made, Kept, t
<1> QED BY <1>1, <1>2, <1>3, <1>4

\* A step that begins with a change of the program's own state.
LEMMA BegunKept ==
  ASSUME NEW s, NEW r, NEW t, NEW h, NEW h2, TodoTyped(s), TodoTyped(r), SameBut(s, r, {"cutting", "clip", "purging", "purger"}),
         r.clip.pending = s.clip.pending, Safe(s, h) => Questioned(r), Kept(r, t, h, h2)
  PROVE  Kept(s, t, h, h2)
<1>1. /\ SameBut(s, r, {"clip", "cutting", "copied", "purging", "purger", "single", "crashed"})
      /\ r.single = s.single /\ r.copied = s.copied
  BY DEF SameBut, TodoFields
<1>2. Noted(r, t, h, h2) <=> Noted(s, t, h, h2)
  BY <1>1, SameNoted
<1>3. ASSUME Safe(s, h) PROVE Safe(r, h)
  BY <1>1, <1>3, SameSafe
<1> QED BY <1>1, <1>2, <1>3 DEF Kept

\* A step that changes the program's own state only.
LEMMA OwnKept ==
  ASSUME NEW s, NEW t, NEW h, NEW h2, TodoTyped(t), SameBut(s, t, {"cutting", "clip", "purging", "purger"}),
         t.clip.pending \subseteq s.clip.pending, Safe(s, h) => Questioned(t)
  PROVE  Kept(s, t, h, h2)
<1>1. /\ SameBut(s, t, {"clip", "cutting", "copied", "purging", "purger", "single", "crashed"})
      /\ t.single = s.single /\ t.copied = s.copied
  BY DEF SameBut, TodoFields
<1>2. ASSUME Safe(s, h), Noted(s, t, h, h2) PROVE Safe(t, h2)
  BY <1>1, <1>2, SameSafe DEF Noted
<1> QED BY <1>1, <1>2 DEF Kept

LEMMA CutSingleKept ==
  ASSUME NEW s, TodoTyped(s), NEW h, NEW h2, s.clip.asked = None,
         NEW inc \in Todos, Safe(s, h) => (s.idOf[inc.uid] # None => inc = s.cal[inc.uid].todo)
  PROVE  Kept(s, CutSingle(s, inc), h, h2)
<1> DEFINE r == [s EXCEPT !.cutting = TRUE]
           t == MakeChildsIndependent(r, inc)
<1>1. TodoTyped(r) /\ SameBut(s, r, {"cutting"})
  BY CuttingIs
<1>2. CutSingle(s, inc) = t
  BY DEF CutSingle
<1> HIDE DEF r
<1>3. /\ r.clip = s.clip /\ r.idOf = s.idOf /\ r.cal = s.cal /\ r.copied = s.copied
      /\ SameBut(s, r, {"cutting", "clip", "purging", "purger"})
      /\ SameBut(s, r, {"clip", "cutting", "copied", "purging", "purger", "single", "crashed"})
      /\ SameBut(r, s, {"clip", "cutting", "copied", "purging", "purger", "single", "crashed"})
  BY <1>1 DEF SameBut, TodoFields
<1>4. Questioned(r) /\ Questioned(s)
  BY <1>3 DEF Questioned
<1>5. ASSUME Safe(r, h) PROVE Safe(s, h)
  BY <1>3, <1>4, <1>5, SameSafe
<1>6. Safe(r, h) => (r.idOf[inc.uid] # None => inc = r.cal[inc.uid].todo)
  BY <1>3, <1>5
<1>7. Kept(r, t, h, h2)
  BY <1>1, <1>3, <1>6, MakeKept
<1> HIDE DEF t
<1> QED BY <1>1, <1>2, <1>3, <1>4, <1>7, BegunKept

LEMMA CutRecursivelyKept ==
  ASSUME NEW s, TodoTyped(s), NEW h, NEW h2, s.clip.asked = None, NEW inc \in Todos
  PROVE  Kept(s, CutRecursively(s, inc), h, h2)
<1> DEFINE t == CutRecursively(s, inc)
<1>1. \/ t.crashed = TRUE /\ t.single = s.single
      \/ /\ TodoTyped(t)
         /\ \E r, H : /\ TodoTyped(r) /\ SameBut(s, r, {"cutting"}) /\ r.cutting = TRUE
                      /\ HierarchyOf(s, H, inc.uid) /\ Copied(s, H) \in SUBSET Todos /\ CutDone(r, t, Copied(s, H))
  BY CutRecursivelyIs
<1> HIDE DEF t
<1>2. ASSUME NEW r, NEW H, TodoTyped(t), TodoTyped(r), SameBut(s, r, {"cutting"}), HierarchyOf(s, H, inc.uid),
             Copied(s, H) \in SUBSET Todos, CutDone(r, t, Copied(s, H))
      PROVE  Kept(s, t, h, h2)
  <2>1. /\ r.clip = s.clip /\ r.idOf = s.idOf /\ r.cal = s.cal /\ r.single = s.single
        /\ SameBut(s, r, {"cutting", "clip", "purging", "purger"})
    BY <1>2 DEF SameBut, TodoFields
  <2>2. t.single = s.single
    BY <1>2, <2>1, CutDoneSingle
  <2>3. ASSUME Safe(r, h), Noted(r, t, h, h2) PROVE Safe(t, h2)
    <3>1. \A p \in Copied(s, H) : r.idOf[p.uid] # None => p = r.cal[p.uid].todo
      <4> SUFFICES ASSUME NEW x \in H, s.idOf[x] # None, NEW p, p = s.cal[s.idOf[x]].todo
                   PROVE  p = r.cal[p.uid].todo
        BY DEF Copied
      <4>1. x \in Items
        BY <1>2 DEF HierarchyOf
      <4>2. s.idOf[x] = x /\ s.cal[x].todo.uid = x
        BY <2>1, <2>3, <4>1 DEF Safe, Named
      <4> QED BY <2>1, <4>2
    <3> QED BY <1>2, <2>1, <2>3, <3>1, CutDoneSafe
  <2>4. Kept(r, t, h, h2)
    BY <2>1, <2>2, <2>3 DEF Kept
  <2>5. Questioned(r)
    BY <2>1 DEF Questioned
  <2> QED BY <1>2, <2>1, <2>4, <2>5, BegunKept
<1>3. CASE t.crashed = TRUE /\ t.single = s.single
  BY <1>3 DEF Kept, t
<1> QED BY <1>1, <1>2, <1>3 DEF t

LEMMA CutKept ==
  ASSUME NEW s, TodoTyped(s), NEW h, NEW h2, s.clip.asked = None, NEW u \in Items, NEW mode, ItemOf(s, u) # None
  PROVE  Kept(s, CutIncidence(s, u, mode), h, h2)
<1> DEFINE inc == PayloadOf(s, u)
           e == CutIncidence(s, u, mode)
<1>1. inc \in Todos /\ s.idOf[u] # None /\ inc = s.cal[s.idOf[u]].todo
  BY ItemOfTyped DEF PayloadOf
<1> DEFINE c == [s.clip EXCEPT !.asked = inc]
           t == [s EXCEPT !.clip = c]
           q == [t EXCEPT !.cutting = TRUE]
<1>2. e = CutRecursively(s, inc) \/ e = CutSingle(s, inc) \/ e = [s EXCEPT !.clip.asked = inc, !.cutting = TRUE]
  <2> HIDE DEF inc
  <2> QED BY DEF CutIncidence, inc
<1>3. q = [s EXCEPT !.clip.asked = inc, !.cutting = TRUE]
  OBVIOUS
<1>4. /\ TodoTyped(t) /\ SameBut(s, t, {"clip"}) /\ t.clip.pending = s.clip.pending
      /\ t.clip.abort = s.clip.abort /\ t.clip.asked = inc
  BY <1>1, AskedIs
<1> HIDE DEF t, inc, e
<1>5. TodoTyped(q) /\ SameBut(t, q, {"cutting"})
  BY <1>4, CuttingIs
<1> HIDE DEF q
<1>6. /\ SameBut(s, q, {"cutting", "clip", "purging", "purger"})
      /\ q.idOf = s.idOf /\ q.cal = s.cal /\ q.clip = t.clip
  BY <1>4, <1>5 DEF SameBut, TodoFields
<1>7. Safe(s, h) => inc.uid = u /\ s.idOf[u] = u /\ inc = s.cal[inc.uid].todo
  BY <1>1 DEF Safe, Named
<1>8. Safe(s, h) => Questioned(q)
  BY <1>4, <1>6, <1>7 DEF Questioned
<1>9. CASE e = q
  BY <1>4, <1>5, <1>6, <1>8, <1>9, OwnKept DEF e
<1>10. CASE e = CutSingle(s, inc)
  BY <1>1, <1>7, <1>10, CutSingleKept DEF e
<1>11. CASE e = CutRecursively(s, inc)
  BY <1>1, <1>11, CutRecursivelyKept DEF e
<1> QED BY <1>2, <1>3, <1>9, <1>10, <1>11

LEMMA AnswerKept ==
  ASSUME NEW s, TodoTyped(s), NEW h, NEW h2, s.clip.asked # None,
         NEW answer \in {"Cut Only This", "Cut All", "Cancel"}
  PROVE  Kept(s, CutAnswered(s, answer), h, h2)
<1> DEFINE c == [s.clip EXCEPT !.asked = None]
           t == [s EXCEPT !.clip = c]
           inc == s.clip.asked
           e == CutAnswered(s, answer)
<1>1. inc \in Todos
  BY DEF TodoTyped, ListTyped
<1>2. t = [s EXCEPT !.clip.asked = None]
  OBVIOUS
<1>3. TodoTyped(t) /\ SameBut(s, t, {"clip"}) /\ t.clip.pending = s.clip.pending /\ t.clip.asked = None
  BY AskedIs
<1> HIDE DEF t
<1>4. e = CutSingle(t, inc) \/ e = CutRecursively(t, inc) \/ e = CutFinished(t)
  BY <1>2 DEF CutAnswered
<1>5. Safe(s, h) => (s.idOf[inc.uid] # None => inc = s.cal[inc.uid].todo)
  BY DEF Safe, Questioned
<1> HIDE DEF e, inc
<1>6. /\ SameBut(s, t, {"cutting", "clip", "purging", "purger"}) /\ t.idOf = s.idOf /\ t.cal = s.cal
  BY <1>3 DEF SameBut, TodoFields
<1>7. Questioned(t)
  BY <1>3 DEF Questioned
<1>8. ASSUME NEW x, Kept(t, x, h, h2) PROVE Kept(s, x, h, h2)
  BY <1>3, <1>6, <1>7, <1>8, BegunKept
<1>9. CASE e = CutSingle(t, inc)
  <2>1. ASSUME Safe(s, h) PROVE Kept(t, e, h, h2)
    BY <1>1, <1>3, <1>5, <1>6, <1>9, <2>1, CutSingleKept
  <2>2. e.single = s.single \/ e.single = TRUE
    <3> DEFINE r == [t EXCEPT !.cutting = TRUE]
             m == MakeChildsIndependent(r, inc)
    <3>2. TodoTyped(r) /\ SameBut(t, r, {"cutting"})
      BY <1>3, CuttingIs
    <3>3. e = m
      BY <1>9 DEF CutSingle
    <3> HIDE DEF r
    <3>4. CutDone(r, m, {inc}) \/ NothingMade(r, m) \/ Made(r, m)
      BY <1>1, <3>2, MakeIs
    <3> HIDE DEF m
    <3>5. r.single = s.single
      BY <1>6, <3>2 DEF SameBut, TodoFields
    <3>6. m.single = r.single \/ m.single = TRUE
      BY <3>4, CutDoneSingle DEF NothingMade, Made, SameBut, TodoFields
    <3> QED BY <3>3, <3>5, <3>6
  <2> QED BY <1>8, <2>1, <2>2 DEF Kept, e
<1>10. CASE e = CutRecursively(t, inc)
  BY <1>1, <1>3, <1>8, <1>10, CutRecursivelyKept DEF e
<1>11. CASE e = CutFinished(t)
  <2>1. TodoTyped(e) /\ SameBut(t, e, {"cutting"})
    BY <1>3, <1>11, CutFinishedIs
  <2>2. /\ SameBut(t, e, {"cutting", "clip", "purging", "purger"}) /\ e.clip = t.clip /\ e.idOf = t.idOf /\ e.cal = t.cal
    BY <2>1 DEF SameBut, TodoFields
  <2>3. Questioned(e)
    BY <1>3, <2>2 DEF Questioned
  <2>4. Kept(t, e, h, h2)
    BY <2>1, <2>2, <2>3, OwnKept
  <2> QED BY <1>8, <2>4 DEF e
<1> QED BY <1>4, <1>9, <1>10, <1>11

LEMMA PurgeDoneKept ==
  ASSUME NEW s, NEW t, NEW h, NEW h2, TodoTyped(s), TodoTyped(t), PurgeOver(s, t) \/ PurgeOf(s, t)
  PROVE  Kept(s, t, h, h2)
<1>1. CASE PurgeOver(s, t)
  BY <1>1, OwnKept DEF PurgeOver, SameBut, TodoFields, Safe, Questioned
<1>2. CASE PurgeOf(s, t)
  <2>1. /\ t.store = s.store /\ t.rows = s.rows /\ t.cal = s.cal /\ t.idOf = s.idOf /\ t.shared = s.shared
        /\ t.notified = s.notified /\ t.waiting = s.waiting /\ t.next = s.next + 1 /\ t.clip = s.clip
        /\ t.copied = s.copied /\ t.single = s.single
    BY <1>2 DEF PurgeOf, SameBut, TodoFields, DeletedFields
  <2>2. PICK D \in SUBSET Items : DeletionNotTaken(s, t, "purger", D) \/ DeletionTaken(s, t, "purger", D \ s.deleted["purger"])
    BY <1>2 DEF PurgeOf, Purged
  <2> DEFINE left == D \ s.deleted["purger"]
  <2>3. left \in SUBSET Items /\ "purger" \in Callers
    BY DEF Callers
  <2>4. DeletionNotTaken(s, t, "purger", D) \/ DeletionTaken(s, t, "purger", left)
    BY <2>2
  <2> HIDE DEF left
  <2>5. ASSUME Safe(s, h), Noted(s, t, h, h2) PROVE Safe(t, h2)
    <3>1. Sound(t)
      BY <2>1, <2>3, <2>4, <2>5, DeletionSound DEF Safe
    <3>2. Named(t) /\ Fresh(t) /\ Questioned(t)
      BY <2>1, <2>5 DEF Safe, Named, Fresh, Questioned
    <3>3. Extends(s, t)
      <4>1. CASE DeletionNotTaken(s, t, "purger", D)
        BY <2>3, <4>1, DeletionPlaces
      <4>2. CASE DeletionTaken(s, t, "purger", left)
        BY <2>3, <4>2, DeletionPlaces
      <4> QED BY <2>4, <4>1, <4>2
    <3>4. Copies(t, h2)
      BY <2>1, <2>5, <3>3, CopiesStay DEF Safe, Noted
    <3> QED BY <3>1, <3>2, <3>4 DEF Safe
  <2> QED BY <2>1, <2>5 DEF Kept
<1> QED BY <1>1, <1>2

LEMMA DeleteTodosKept ==
  ASSUME NEW s, TodoTyped(s), NEW h, NEW h2
  PROVE  Kept(s, DeleteTodos(s), h, h2)
<1> DEFINE t == DeleteTodos(s)
<1>1. (t.crashed = TRUE /\ t.single = s.single) \/ (TodoTyped(t) /\ (PurgeOver(s, t) \/ PurgeOf(s, t)))
  BY DeleteTodosIs
<1> HIDE DEF t
<1>2. CASE t.crashed = TRUE /\ t.single = s.single
  BY <1>2 DEF Kept, t
<1>3. CASE TodoTyped(t) /\ (PurgeOver(s, t) \/ PurgeOf(s, t))
  BY <1>3, PurgeDoneKept DEF t
<1> QED BY <1>1, <1>2, <1>3

LEMMA PurgeKept ==
  ASSUME NEW s, TodoTyped(s), NEW h, NEW h2
  PROVE  Kept(s, PurgeCompletedTodos(s), h, h2)
<1> DEFINE t == [s EXCEPT !.purging = TRUE]
           w == WithPurger(t, "loading", t.purger.items, t.purger.current)
           e == PurgeCompletedTodos(s)
<1>1. TodoTyped(t) /\ SameBut(s, t, {"purging"})
  BY PurgingIs
<1>2. e = IF s.purger.calendar = "none" THEN [t EXCEPT !.purger.calendar = "loading"] ELSE DeleteTodos(t)
  BY DEF PurgeCompletedTodos
<1> HIDE DEF t, e
<1>3. [t EXCEPT !.purger.calendar = "loading"] = w
  BY <1>1 DEF TodoTyped, ListTyped, WithPurger
<1>4. TodoTyped(w) /\ PurgerNow(t, w, "loading", t.purger.items, t.purger.current)
  BY <1>1, PurgerFacts, PurgerIs DEF Whereabouts
<1> HIDE DEF w
<1>5. /\ SameBut(s, t, {"cutting", "clip", "purging", "purger"}) /\ t.clip = s.clip /\ t.idOf = s.idOf /\ t.cal = s.cal
  BY <1>1 DEF SameBut, TodoFields
<1>6. Safe(s, h) => Questioned(t)
  BY <1>5 DEF Safe, Questioned
<1>7. CASE s.purger.calendar = "none"
  <2>1. /\ SameBut(t, w, {"cutting", "clip", "purging", "purger"})
        /\ w.clip = t.clip /\ w.idOf = t.idOf /\ w.cal = t.cal
    BY <1>4 DEF SameBut, TodoFields, PurgerNow
  <2>2. Safe(t, h) => Questioned(w)
    BY <2>1 DEF Safe, Questioned
  <2>3. Kept(t, w, h, h2)
    BY <1>4, <2>1, <2>2, OwnKept
  <2>4. Kept(s, w, h, h2)
    BY <1>1, <1>5, <1>6, <2>3, BegunKept
  <2> QED BY <1>2, <1>3, <1>7, <2>4 DEF e
<1>8. CASE s.purger.calendar # "none"
  BY <1>1, <1>2, <1>5, <1>6, <1>8, DeleteTodosKept, BegunKept DEF e
<1> QED BY <1>7, <1>8

LEMMA LoadedKept ==
  ASSUME NEW s, TodoTyped(s), NEW h, NEW h2, NEW success \in BOOLEAN
  PROVE  Kept(s, OnCalendarLoaded(s, success), h, h2)
<1> DEFINE w == WithPurger(s, "loaded", s.store, s.purger.current)
           e == OnCalendarLoaded(s, success)
<1>1. e = IF success THEN DeleteTodos([s EXCEPT !.purger.calendar = "loaded", !.purger.items = s.store])
          ELSE TodosPurged(Dropped(s))
  BY DEF OnCalendarLoaded
<1> HIDE DEF e
<1>2. [s EXCEPT !.purger.calendar = "loaded", !.purger.items = s.store] = w
  <2>1. s.purger \in [calendar : {"none", "given", "loading", "loaded"}, items : Rows, current : Nat]
    BY DEF TodoTyped, ListTyped
  <2> DEFINE p == [s.purger EXCEPT !.calendar = "loaded", !.items = s.store]
  <2>2. p = [calendar |-> "loaded", items |-> s.store, current |-> s.purger.current]
    <3> DEFINE x == s.store
               y == s.purger.current
    <3>1. p = [s.purger EXCEPT !.calendar = "loaded", !.items = x]
      OBVIOUS
    <3> HIDE DEF p, x
    <3>2. p \in [calendar : {"loaded"}, items : {x}, current : {y}]
      BY <2>1, <3>1
    <3>3. p = [calendar |-> "loaded", items |-> x, current |-> y]
      BY <3>2
    <3> QED BY <3>3 DEF x, y
  <2>3. [s EXCEPT !.purger.calendar = "loaded", !.purger.items = s.store] = [s EXCEPT !.purger = p]
    BY DEF TodoTyped
  <2> QED BY <2>2, <2>3 DEF WithPurger
<1>3. TodoTyped(w) /\ PurgerNow(s, w, "loaded", s.store, s.purger.current)
  BY PurgerFacts, PurgerIs DEF Whereabouts
<1> HIDE DEF w
<1>4. /\ SameBut(s, w, {"cutting", "clip", "purging", "purger"}) /\ w.clip = s.clip /\ w.idOf = s.idOf /\ w.cal = s.cal
  BY <1>3 DEF SameBut, TodoFields, PurgerNow
<1>5. Safe(s, h) => Questioned(w)
  BY <1>4 DEF Safe, Questioned
<1>6. CASE success
  <2>1. Kept(w, DeleteTodos(w), h, h2)
    BY <1>3, DeleteTodosKept
  <2>2. Kept(s, DeleteTodos(w), h, h2)
    BY <1>3, <1>4, <1>5, <2>1, BegunKept
  <2> QED BY <1>1, <1>2, <1>6, <2>2 DEF e
<1>7. CASE ~success
  BY <1>1, <1>7, PurgeOverIs, PurgeDoneKept DEF e
<1> QED BY <1>6, <1>7

\* What a notification shows is as new as the server's.
LEMMA NoticedSafe ==
  ASSUME NEW s, NEW h, NEW h2, Safe(s, h), h \subseteq h2, s.notified # <<>>
  PROVE  Safe(Noticed(s, Head(s.notified)), h2)
<1> DEFINE i == Head(s.notified)
           t == Noticed(s, i)
<1>0. TodoTyped(s) /\ Sound(s) /\ Named(s) /\ Fresh(s) /\ Questioned(s) /\ Copies(s, h)
  BY DEF Safe
<1>1. i \in Items /\ ToSet(s.notified) = {i} \cup ToSet(Tail(s.notified))
  BY <1>0, OneLess DEF TodoTyped, ListTyped
<1> HIDE DEF i
<1>2. TodoTyped(t) /\ SameBut(s, t, NoticedFields) /\ Told(s, t, i)
  BY <1>0, <1>1, NoticedIs DEF i
<1> HIDE DEF t
<1>3. /\ t.session = s.session /\ t.posted = s.posted /\ t.waiting = s.waiting /\ t.next = s.next /\ t.store = s.store
      /\ t.copied = s.copied /\ t.clip.pending = s.clip.pending /\ t.shared = s.shared \ {i}
      /\ t.notified = Tail(s.notified)
  BY <1>2 DEF SameBut, TodoFields, NoticedFields, Told
<1>4. i # None /\ s.store[i].todo.uid = i /\ s.cal[i].todo.uid = i /\ s.idOf[i] \in {i, None}
      /\ (s.idOf[i] # None <=> s.cal[i].live) /\ (s.store[i].live => s.cal[i].live)
  BY <1>0, <1>1, ItemsAssumption DEF Named
\* Either the to-do is gone for good, or the calendar has it now as the server has it.
<1>5. /\ \A x \in Items : t.rows[x] = IF x = i THEN s.store[i] ELSE s.rows[x]
      /\ \A x \in Items : x # i => t.cal[x] = s.cal[x] /\ t.idOf[x] = s.idOf[x]
      /\ t.cal[i].todo.uid = i
      /\ \/ s.store[i].live /\ s.idOf[i] = i /\ t.cal[i] = s.store[i] /\ t.idOf[i] = i
         \/ ~s.store[i].live /\ ~t.cal[i].live /\ t.idOf[i] = None
  <2>1. CASE /\ ~s.store[i].live /\ s.cal[i].live
             /\ \A x \in Items : t.cal[x] = IF x = i THEN s.store[i] ELSE s.cal[x]
             /\ \A u \in Items : t.idOf[u] = IF u = i THEN None ELSE s.idOf[u]
    BY <1>1, <1>2, <1>4, <2>1 DEF Told
  <2>2. CASE s.store[i].live /\ s.idOf[i] = i /\ (\A x \in Items : t.cal[x] = IF x = i THEN s.store[i] ELSE s.cal[x]) /\ t.idOf = s.idOf
    BY <1>1, <1>2, <1>4, <2>2 DEF Told
  <2>3. CASE /\ t.cal = s.cal /\ t.idOf = s.idOf
             /\ IF s.store[i].live THEN s.idOf[i] # i /\ (s.idOf[i] = None => ~s.cal[i].live) ELSE ~s.cal[i].live
    BY <1>1, <1>2, <1>4, <2>3 DEF Told
  <2> QED BY <1>2, <1>4, <2>1, <2>2, <2>3 DEF Told
<1>6. t.clip.asked = IF IsAsked(s, i) THEN s.store[i].todo ELSE s.clip.asked
  BY <1>2 DEF Told
<1>7. Sound(t)
  BY <1>0, <1>3 DEF Sound
<1>8. Named(t)
  BY <1>0, <1>1, <1>3, <1>4, <1>5 DEF Named
<1>9. Fresh(t)
  <2>1. ASSUME NEW x \in Items \ ToSet(t.notified), t.store[x].live PROVE t.cal[x].todo.text >= t.store[x].todo.text
    <3>1. CASE x = i
      BY <1>0, <1>1, <1>3, <1>5, <2>1, <3>1, SafeFacts
    <3>2. CASE x # i
      BY <1>0, <1>1, <1>3, <1>5, <2>1, <3>2 DEF Fresh
    <3> QED BY <3>1, <3>2
  <2>2. ASSUME NEW x \in t.shared PROVE t.cal[x].todo = t.rows[x].todo
    BY <1>0, <1>3, <1>5, <2>2, SafeFacts DEF Fresh
  <2> QED BY <2>1, <2>2 DEF Fresh
<1>10. Questioned(t)
  <2> SUFFICES ASSUME t.clip.asked # None
               PROVE  /\ t.clip.asked.uid \in Items
                      /\ t.idOf[t.clip.asked.uid] # None => t.clip.asked = t.cal[t.clip.asked.uid].todo
    BY DEF Questioned
  <2>1. ASSUME IsAsked(s, i)
        PROVE  /\ t.clip.asked.uid \in Items
               /\ t.idOf[t.clip.asked.uid] # None => t.clip.asked = t.cal[t.clip.asked.uid].todo
    BY <1>1, <1>4, <1>5, <1>6, <2>1
  <2>2. ASSUME ~IsAsked(s, i)
        PROVE  /\ t.clip.asked.uid \in Items
               /\ t.idOf[t.clip.asked.uid] # None => t.clip.asked = t.cal[t.clip.asked.uid].todo
    <3>1. t.clip.asked = s.clip.asked /\ s.clip.asked.uid \in Items
          /\ (s.idOf[s.clip.asked.uid] # None => s.clip.asked = s.cal[s.clip.asked.uid].todo)
      BY <1>0, <1>6, <2>2 DEF Questioned
    <3>2. CASE s.clip.asked.uid # i
      BY <1>5, <3>1, <3>2
    <3>3. CASE s.clip.asked.uid = i
      BY <1>1, <1>4, <1>5, <1>6, <2>2, <3>1, <3>3 DEF IsAsked
    <3> QED BY <3>2, <3>3
  <2> QED BY <2>1, <2>2
<1>11. Copies(t, h2)
  BY <1>0, <1>2, <1>3, CopiesStay DEF Extends, SameJob
<1> QED BY <1>2, <1>7, <1>8, <1>9, <1>10, <1>11 DEF Safe, t, i

\* The first job is over: what it changed was deleted by none of the others.
LEMMA TailCopies ==
  ASSUME NEW s, NEW t, NEW h, TodoTyped(s), TodoTyped(t), s.session # <<>>, Copies(s, h), t.session = Tail(s.session),
         t.copied = s.copied,
         \A x \in Items : t.store[x].live => \/ s.store[x].live /\ t.store[x].todo = s.store[x].todo
                                             \/ Head(s.session).kind = "modify" /\ x \in Head(s.session).items
  PROVE  Copies(t, h)
<1>1. /\ s.session \in Seq(TodoJobs)
  BY DEF TodoTyped, ServiceTyped
<1>2. /\ Head(s.session) = s.session[1] /\ Len(s.session) \in Nat \ {0} /\ DOMAIN s.session = 1 .. Len(s.session)
      /\ \A n \in DOMAIN t.session : t.session[n] = s.session[n + 1] /\ n + 1 \in DOMAIN s.session
      /\ DOMAIN t.session = 1 .. Len(s.session) - 1
  BY <1>1, OneLess
<1> SUFFICES ASSUME NEW n \in DOMAIN t.session, CutJob(t.session[n]), NEW i \in t.session[n].items \ h
             PROVE  /\ t.store[i].live => KeptCopy(t, t.store[i].todo)
                    /\ \A m \in 1 .. n - 1 : t.session[m].kind = "modify" => i \notin t.session[m].items
  BY DEF Copies
<1>3. n \in Nat /\ n >= 1 /\ n + 1 \in DOMAIN s.session /\ t.session[n] = s.session[n + 1]
  BY <1>2
<1>4. /\ s.store[i].live => KeptCopy(s, s.store[i].todo)
      /\ \A m \in 1 .. n + 1 - 1 : s.session[m].kind = "modify" => i \notin s.session[m].items
  BY <1>3 DEF Copies
<1>5. 1 \in 1 .. n + 1 - 1 /\ \A m \in 1 .. n - 1 : m + 1 \in 1 .. n + 1 - 1 /\ m \in DOMAIN t.session
  BY <1>2, <1>3
<1>6. \A m \in 1 .. n - 1 : t.session[m].kind = "modify" => i \notin t.session[m].items
  BY <1>2, <1>4, <1>5
<1>7. ~(Head(s.session).kind = "modify" /\ i \in Head(s.session).items)
  BY <1>2, <1>4, <1>5
<1>8. i \in Items
  BY Places DEF TodoJobs
<1>9. t.store[i].live => KeptCopy(t, t.store[i].todo)
  BY <1>4, <1>7, <1>8 DEF KeptCopy
<1> QED BY <1>6, <1>9

\* performNextModification()
LEMMA ContinuedSafe ==
  ASSUME NEW s, NEW h, Safe(s, h), NEW i \in Items
  PROVE  Safe(Continued(s, "app", i), h)
<1> DEFINE t == Continued(s, "app", i)
           c == s.waiting["app"][i]
<1>0. TodoTyped(s) /\ Sound(s) /\ Named(s) /\ Fresh(s) /\ Questioned(s) /\ Copies(s, h)
  BY DEF Safe
<1>1. /\ TodoTyped(t) /\ SameBut(s, t, TakenFields)
      /\ \/ c = NoModification /\ t = s
         \/ /\ c # NoModification /\ c \in TodoChanges /\ c.item = i
            /\ \E u : WaitsNoMore(s, u, i) /\ SameBut(u, t, TakenFields) /\ Took(u, t, c)
  BY <1>0, ContinuedIs
<1> HIDE DEF t
<1>2. ASSUME c # NoModification, c \in TodoChanges, c.item = i, NEW u, WaitsNoMore(s, u, i), SameBut(u, t, TakenFields), Took(u, t, c)
      PROVE  Safe(t, h)
  <2>1. c.id < s.next /\ c.id \notin s.clip.pending /\ c.todo.uid = i
    BY <1>0, <1>2 DEF Sound
  <2> HIDE DEF c
  <2>2. /\ TodoTyped(u) /\ u.session = s.session /\ u.posted = s.posted /\ u.next = s.next /\ u.clip = s.clip
        /\ u.waiting = [s.waiting EXCEPT !["app"][i] = NoModification] /\ u.store = s.store /\ u.copied = s.copied
    BY <1>2 DEF WaitsNoMore, SameBut, TodoFields
  <2>3. \A x \in Items : u.waiting["app"][x] # NoModification => u.waiting["app"][x] = s.waiting["app"][x]
    BY <1>0, <2>2, ItemsAssumption DEF TodoTyped, ServiceTyped
  <2>4. Sound(u)
    BY <1>0, <2>2, <2>3 DEF Sound
  <2>5. /\ t.next = u.next /\ t.clip = u.clip /\ t.store = u.store /\ t.copied = u.copied
        /\ t.store = s.store /\ t.rows = s.rows /\ t.cal = s.cal /\ t.idOf = s.idOf /\ t.shared = s.shared
        /\ t.notified = s.notified /\ t.clip = s.clip /\ t.next = s.next
    BY <1>1, <1>2 DEF SameBut, TodoFields, TakenFields
  <2>6. t.next >= u.next
    BY <1>0, <2>2, <2>5, SafeFacts
  <2>7. Sound(t) /\ Extends(u, t)
    BY <1>1, <1>2, <2>1, <2>2, <2>4, <2>5, <2>6, TookSound
  <2>8. Copies(u, h)
    BY <1>0, <2>2, CopiesStay DEF Extends, SameJob
  <2>9. Copies(t, h)
    BY <1>1, <2>2, <2>5, <2>7, <2>8, CopiesStay
  <2>10. Named(t) /\ Fresh(t) /\ Questioned(t)
    BY <1>0, <2>5 DEF Named, Fresh, Questioned
  <2> QED BY <1>1, <2>7, <2>9, <2>10 DEF Safe
<1> QED BY <1>1, <1>2 DEF t

\* The end of a modification.
LEMMA WroteSafe ==
  ASSUME NEW s, NEW h, Safe(s, h), s.session # <<>>, NEW ok \in BOOLEAN, Head(s.session).kind = "modify",
         ok => CanSucceed(s), NEW m, Wrote(s, m, ok)
  PROVE  Safe(m, h)
<1> DEFINE job == Head(s.session)
           a == AnswerTo(job, ok)
<1>0. TodoTyped(s) /\ Sound(s) /\ Named(s) /\ Fresh(s) /\ Questioned(s) /\ Copies(s, h)
  BY DEF Safe
<1>1. /\ TodoTyped(m) /\ m.session = Tail(s.session) /\ m.posted = Append(s.posted, a)
      /\ m.rows = s.rows /\ m.cal = s.cal /\ m.idOf = s.idOf /\ m.shared = s.shared /\ m.waiting = s.waiting
      /\ m.next = s.next /\ m.clip = s.clip /\ m.copied = s.copied
  BY DEF Wrote, SameBut, TodoFields
<1>2. job \in TodoJobs /\ job \in ToSet(s.session) /\ \A j \in ToSet(m.session) : j \in ToSet(s.session)
  BY <1>0, <1>1, LessJob, JobFacts DEF TodoTyped
<1>3. a.id = job.id /\ a.kind = "modify" /\ a \in TodoAnswers
  BY <1>2, AnswerTyped DEF AnswerTo
<1>4. job.id < s.next /\ job.id \notin s.clip.pending /\ job.items = {job.todo.uid}
  BY <1>0, <1>2 DEF Sound
<1>5. ok => \A i \in job.items : s.store[i].live
  BY DEF CanSucceed
<1>6. IF ok THEN \E i \in Items, r \in Nat : /\ job.items = {i} /\ m.notified = Append(s.notified, i)
                                             /\ m.store = [s.store EXCEPT ![i] = [live |-> TRUE, rev |-> r, todo |-> job.todo]]
      ELSE m.store = s.store /\ m.notified = s.notified
  BY DEF Wrote
<1> HIDE DEF a
<1>7. ToSet(m.posted) = ToSet(s.posted) \cup {a}
  BY <1>0, <1>1, <1>3, OneMoreJob
<1>8. Sound(m)
  BY <1>0, <1>1, <1>2, <1>3, <1>4, <1>7 DEF Sound
<1>9. Questioned(m)
  BY <1>0, <1>1 DEF Questioned
<1>10. ASSUME ok PROVE Named(m) /\ Fresh(m) /\ \A x \in Items : m.store[x].live => m.store[x] = s.store[x] \/ x \in job.items
  <2>1. PICK i \in Items, r \in Nat : /\ job.items = {i} /\ m.notified = Append(s.notified, i)
                                      /\ m.store = [s.store EXCEPT ![i] = [live |-> TRUE, rev |-> r, todo |-> job.todo]]
    BY <1>6, <1>10
  <2> HIDE DEF job
  <2>2. s.notified \in Seq(Items) /\ s.store \in Rows
    BY <1>0 DEF TodoTyped, ListTyped
  <2>3. ToSet(m.notified) = ToSet(s.notified) \cup {i}
    BY <2>1, <2>2, OneMore
  <2>4. \A x \in Items : IF x = i THEN m.store[x].live = TRUE /\ m.store[x].todo = job.todo ELSE m.store[x] = s.store[x]
    BY <2>1, <2>2 DEF Rows
  <2>5. job.todo.uid = i /\ s.store[i].live
    BY <1>4, <1>5, <1>10, <2>1
  <2>6. Named(m)
    BY <1>0, <1>1, <2>4, <2>5 DEF Named
  <2>7. Fresh(m)
    BY <1>0, <1>1, <2>3, <2>4 DEF Fresh
  <2> QED BY <2>1, <2>4, <2>6, <2>7
<1>11. ASSUME ~ok PROVE Named(m) /\ Fresh(m) /\ \A x \in Items : m.store[x].live => m.store[x] = s.store[x] \/ x \in job.items
  BY <1>0, <1>1, <1>6, <1>11 DEF Named, Fresh
<1>12. Named(m) /\ Fresh(m) /\ \A x \in Items : m.store[x].live => m.store[x] = s.store[x] \/ x \in job.items
  BY <1>10, <1>11
<1>13. Copies(m, h)
  BY <1>0, <1>1, <1>12, TailCopies
<1> QED BY <1>1, <1>8, <1>9, <1>12, <1>13 DEF Safe

\* The end of a deletion.
LEMMA DeletedSafe ==
  ASSUME NEW s, NEW h, Safe(s, h), s.session # <<>>, NEW ok \in BOOLEAN, Head(s.session).kind = "delete",
         NEW m, Deleted(s, m, ok)
  PROVE  Safe(m, h)
<1> DEFINE job == Head(s.session)
           a == AnswerTo(job, TRUE)
           b == AnswerTo(job, FALSE)
<1>0. TodoTyped(s) /\ Sound(s) /\ Named(s) /\ Fresh(s) /\ Questioned(s) /\ Copies(s, h)
  BY DEF Safe
<1>1. /\ TodoTyped(m) /\ m.session = Tail(s.session)
      /\ m.rows = s.rows /\ m.cal = s.cal /\ m.idOf = s.idOf /\ m.shared = s.shared /\ m.waiting = s.waiting
      /\ m.next = s.next /\ m.clip = s.clip /\ m.copied = s.copied
  BY DEF Deleted, SameBut, TodoFields
<1>2. job \in TodoJobs /\ job \in ToSet(s.session) /\ \A j \in ToSet(m.session) : j \in ToSet(s.session)
  BY <1>0, <1>1, LessJob, JobFacts DEF TodoTyped
<1>3. a.id = job.id /\ a.kind = "delete" /\ a \in TodoAnswers /\ b.id = job.id /\ b.kind = "delete" /\ b \in TodoAnswers
  BY <1>2, AnswerTyped DEF AnswerTo
<1>4. job.id < s.next
  BY <1>0, <1>2 DEF Sound
<1>5. IF ok
      THEN /\ m.posted = Append(s.posted, a)
           /\ m.store = [i \in Items |-> [s.store[i] EXCEPT !.live = @ /\ i \notin Gone(s, job)]]
           /\ ToSet(m.notified) = ToSet(s.notified) \cup Gone(s, job)
      ELSE m.store = s.store /\ m.notified = s.notified /\ m.posted = Append(Append(s.posted, b), b)
  BY DEF Deleted
<1> HIDE DEF a, b
<1>6. \A c \in ToSet(m.posted) : c \in ToSet(s.posted) \/ c = a \/ c = b
  <2>1. /\ ToSet(Append(s.posted, a)) = ToSet(s.posted) \cup {a}
        /\ ToSet(Append(Append(s.posted, b), b)) = ToSet(s.posted) \cup {b, b}
    BY <1>0, <1>3, OneMoreJob
  <2>2. m.posted = Append(s.posted, a) \/ m.posted = Append(Append(s.posted, b), b)
    BY <1>5
  <2> QED BY <2>1, <2>2
<1>7. Sound(m)
  BY <1>0, <1>1, <1>2, <1>3, <1>4, <1>6 DEF Sound
<1>8. Questioned(m)
  BY <1>0, <1>1 DEF Questioned
<1>9. /\ \A x \in Items : m.store[x].todo = s.store[x].todo /\ (m.store[x].live => s.store[x].live)
      /\ \A x \in ToSet(s.notified) : x \in ToSet(m.notified)
  <2>1. CASE ok
    <3>1. \A x \in Items : s.store[x] \in RowType
      BY <1>0, RowFacts
    <3>2. \A x \in Items : m.store[x] = [s.store[x] EXCEPT !.live = @ /\ x \notin Gone(s, job)]
      BY <1>5, <2>1
    <3> HIDE DEF job
    <3>3. \A x \in Items : m.store[x].todo = s.store[x].todo /\ (m.store[x].live => s.store[x].live)
      BY <3>1, <3>2 DEF RowType
    <3> QED BY <1>5, <2>1, <3>3 DEF job
  <2>2. CASE ~ok
    BY <1>5, <2>2
  <2> QED BY <2>1, <2>2
<1>10. Named(m) /\ Fresh(m)
  BY <1>0, <1>1, <1>9 DEF Named, Fresh
<1>11. Copies(m, h)
  BY <1>0, <1>1, <1>9, TailCopies
<1> QED BY <1>1, <1>7, <1>8, <1>10, <1>11 DEF Safe

LEMMA EndSafe ==
  ASSUME NEW s, NEW h, Safe(s, h), s.session # <<>>, NEW ok \in BOOLEAN, ok => CanSucceed(s)
  PROVE  Safe(JobEnds(s, ok), h)
<1>1. TodoTyped(s) /\ Head(s.session) \in TodoJobs
  BY EarlierJobs DEF Safe
<1>2. CASE Head(s.session).kind = "modify"
  <2>1. \E i \in Items : \E m : /\ Head(s.session).items = {i} /\ Wrote(s, m, ok)
                                /\ JobEnds(s, ok) = Continued(m, "app", i)
    BY <1>1, <1>2, WrittenIs
  <2>2. PICK i \in Items : \E m : Wrote(s, m, ok) /\ JobEnds(s, ok) = Continued(m, "app", i)
    BY <2>1
  <2>3. PICK m : Wrote(s, m, ok) /\ JobEnds(s, ok) = Continued(m, "app", i)
    BY <2>2
  <2>4. Safe(m, h)
    BY <1>2, <2>3, WroteSafe
  <2> QED BY <2>3, <2>4, ContinuedSafe
<1>3. CASE Head(s.session).kind = "delete"
  BY <1>1, <1>3, DeletedIs, DeletedSafe
<1> QED BY <1>1, <1>2, <1>3 DEF TodoJobs, Kinds

\* Edits do not cut anything.
LEMMA ChangedSingle ==
  ASSUME NEW s, TodoTyped(s), NEW i \in Items
  PROVE  /\ \A todo \in Todos : SetData(s, i, todo).single = s.single
         /\ \A target \in Items \cup {None} : DropMimeData(s, i, target).single = s.single
<1>1. ASSUME NEW todo \in Todos PROVE Changed(s, i, todo).single = s.single
  <2> DEFINE t == Changed(s, i, todo)
  <2>1. SameBut(s, t, ChangedFields)
    BY ChangedIs
  <2> HIDE DEF t
  <2>2. t.single = s.single
    BY <2>1 DEF SameBut, TodoFields, ChangedFields
  <2> QED BY <2>2 DEF t
<1>2. ASSUME NEW todo \in Todos PROVE SetData(s, i, todo).single = s.single
  BY <1>1 DEF SetData
<1>3. ASSUME NEW target \in Items \cup {None} PROVE DropMimeData(s, i, target).single = s.single
  <2> DEFINE r == IF target = None THEN None ELSE s.rows[target].todo.uid
             p == s.rows[i].todo
             x == [p EXCEPT !.related = r]
  <2>1. r \in Items \cup {None}
    BY SafeFacts
  <2>2. x \in Todos
    BY <2>1, SafeFacts, EditedTyped
  <2>3. DropMimeData(s, i, target) = IF DropOnSelf(s, i, target) THEN s ELSE Changed(s, i, x)
    BY DEF DropMimeData
  <2> HIDE DEF x
  <2> QED BY <1>1, <2>2, <2>3
<1> QED BY <1>2, <1>3

LEMMA EditKept ==
  ASSUME NEW s, TodoTyped(s), NEW h, NEW h2, s.clip.asked = None, NEW i \in Items
  PROVE  /\ Kept(s, SetData(s, i, [s.rows[i].todo EXCEPT !.text = @ + 1]), h, h2)
         /\ Kept(s, SetData(s, i, [s.rows[i].todo EXCEPT !.done = ~@]), h, h2)
         /\ \A target \in Items \cup {None} : Kept(s, DropMimeData(s, i, target), h, h2)
<1>1. s.rows[i].todo \in Todos
  BY SafeFacts
<1>2. Kept(s, SetData(s, i, [s.rows[i].todo EXCEPT !.text = @ + 1]), h, h2)
  <2> DEFINE x == [s.rows[i].todo EXCEPT !.text = @ + 1]
             t == SetData(s, i, x)
  <2>1. x \in Todos
    BY <1>1, EditedTyped
  <2>2. Safe(s, h) /\ h \subseteq h2 => Safe(t, h2)
    BY EditSafe
  <2> HIDE DEF x
  <2>3. t.single = s.single
    BY <2>1, ChangedSingle
  <2> HIDE DEF t
  <2>4. Kept(s, t, h, h2)
    BY <2>2, <2>3 DEF Kept, Noted
  <2> QED BY <2>4 DEF t, x
<1>3. Kept(s, SetData(s, i, [s.rows[i].todo EXCEPT !.done = ~@]), h, h2)
  <2> DEFINE x == [s.rows[i].todo EXCEPT !.done = ~@]
             t == SetData(s, i, x)
  <2>1. x \in Todos
    BY <1>1, EditedTyped
  <2>2. Safe(s, h) /\ h \subseteq h2 => Safe(t, h2)
    BY EditSafe
  <2> HIDE DEF x
  <2>3. t.single = s.single
    BY <2>1, ChangedSingle
  <2> HIDE DEF t
  <2>4. Kept(s, t, h, h2)
    BY <2>2, <2>3 DEF Kept, Noted
  <2> QED BY <2>4 DEF t, x
<1>4. ASSUME NEW target \in Items \cup {None} PROVE Kept(s, DropMimeData(s, i, target), h, h2)
  <2> DEFINE t == DropMimeData(s, i, target)
  <2>1. Safe(s, h) /\ h \subseteq h2 => Safe(t, h2)
    BY EditSafe
  <2>2. t.single = s.single
    BY ChangedSingle
  <2> HIDE DEF t
  <2>3. Kept(s, t, h, h2)
    BY <2>1, <2>2 DEF Kept, Noted
  <2> QED BY <2>3 DEF t
<1> QED BY <1>2, <1>3, <1>4

LEMMA NoticedKept ==
  ASSUME NEW s, TodoTyped(s), NEW h, NEW h2, s.notified # <<>>
  PROVE  Kept(s, Noticed(s, Head(s.notified)), h, h2)
<1> DEFINE t == Noticed(s, Head(s.notified))
<1>1. Head(s.notified) \in Items
  BY OneLess DEF TodoTyped, ListTyped
<1>2. SameBut(s, t, NoticedFields)
  BY <1>1, NoticedIs
<1>3. Safe(s, h) /\ h \subseteq h2 => Safe(t, h2)
  BY NoticedSafe
<1> HIDE DEF t
<1>4. t.single = s.single
  BY <1>2 DEF SameBut, TodoFields, NoticedFields
<1> QED BY <1>3, <1>4 DEF Kept, Noted, t

LEMMA EndKept ==
  ASSUME NEW s, TodoTyped(s), NEW h, NEW h2, s.session # <<>>, NEW ok \in BOOLEAN, ok => CanSucceed(s)
  PROVE  Kept(s, JobEnds(s, ok), h, h2)
<1> DEFINE t == JobEnds(s, ok)
<1>1. TodoTyped(t) /\ SameBut(s, t, {"session", "posted", "store", "latest", "notified", "waiting", "deleted"})
  BY EndAlive
<1>2. Safe(s, h) => Safe(t, h)
  BY EndSafe
<1> HIDE DEF t
<1>3. t.single = s.single
  BY <1>1 DEF SameBut, TodoFields
<1>4. ASSUME Safe(t, h), h \subseteq h2 PROVE Safe(t, h2)
  BY <1>1, <1>4, SameSafe DEF SameBut, TodoTyped, Safe
<1> QED BY <1>2, <1>3, <1>4 DEF Kept, Noted, t

\* A job that succeeds takes away nothing of which the clipboard has no copy.
LEMMA LosesNothing ==
  ASSUME Safe(todos, past.hurried), todos.session # <<>>
  PROVE  Loses(Head(todos.session)) = {}
<1> DEFINE job == Head(todos.session)
           gone == {i \in job.items : todos.store[i].live}
<1>0. TodoTyped(todos) /\ Sound(todos) /\ Named(todos) /\ Copies(todos, past.hurried)
  BY DEF Safe
<1>1. job = todos.session[1] /\ 1 \in DOMAIN todos.session /\ job \in ToSet(todos.session)
      /\ job \in TodoJobs
  BY <1>0, OneLess DEF TodoTyped, ServiceTyped
<1>2. job.items \subseteq Items
  BY <1>1 DEF TodoJobs
<1> HIDE DEF job
<1>3. CASE job.kind = "modify"
  BY <1>0, <1>1, <1>2, <1>3 DEF Sound, Named, Loses, job
<1>4. CASE job.kind # "modify" /\ job.by = "app"
  <2>1. CutJob(todos.session[1])
    BY <1>1, <1>4 DEF CutJob, TodoJobs, Kinds
  <2>2. \A i \in gone \ past.hurried : KeptCopy(todos, todos.store[i].todo)
    BY <1>0, <1>1, <2>1 DEF Copies
  <2> QED BY <1>4, <2>2 DEF Loses, KeptCopy, job
<1>5. CASE job.kind # "modify" /\ job.by # "app"
  BY <1>5 DEF Loses, job
<1> QED BY <1>3, <1>4, <1>5

\* The answers of a changer.
LEMMA ModifyFinishedKept ==
  ASSUME NEW s, TodoTyped(s), NEW a \in TodoAnswers, a.kind = "modify"
  PROVE  LET t == SlotModifyFinished(s, a, a.todo)
         IN  t.single = s.single /\ (a.id \notin s.clip.pending => t = s)
<1> DEFINE pending == s.clip.pending \ {a.id}
           c == [s.clip EXCEPT !.pending = pending]
           t == [s EXCEPT !.clip = c]
           e == SlotModifyFinished(s, a, a.todo)
<1>1. s.clip \in [pending : SUBSET Nat, abort : BOOLEAN, asked : Todos \cup {None}] /\ a.todo \in Todos /\ a.ok \in BOOLEAN
  BY DEF TodoTyped, ListTyped, TodoAnswers
<1>2. pending \in SUBSET Nat
  BY <1>1
<1>3. e = IF a.id \notin s.clip.pending THEN s
          ELSE IF s.clip.abort THEN IF t.clip.pending = {} THEN CutFinished(t) ELSE t
          ELSE IF ~a.ok THEN [t EXCEPT !.clip = [t.clip EXCEPT !.abort = TRUE]]
          ELSE IF t.clip.pending = {} THEN Cut(t, {a.todo}) ELSE t
  BY <1>1 DEF SlotModifyFinished
<1>4. TodoTyped(t) /\ SameBut(s, t, {"clip"})
  BY <1>2, ClipIs
<1> HIDE DEF t, e, c, pending
<1>5. t.single = s.single
  BY <1>4 DEF SameBut, TodoFields
<1>6. CutFinished(t).single = t.single
  BY <1>4, CutFinishedIs DEF SameBut, TodoFields
<1>7. [t EXCEPT !.clip = [t.clip EXCEPT !.abort = TRUE]].single = t.single
  BY <1>4 DEF TodoTyped, TodoFields
<1>8. Cut(t, {a.todo}).single = t.single
  <2> DEFINE P == {a.todo}
  <2>1. P \in SUBSET Todos
    BY <1>1
  <2> HIDE DEF P
  <2>2. CutDone(t, Cut(t, P), P)
    BY <1>4, <2>1, CutIsDone
  <2>3. Cut(t, P).single = t.single
    BY <2>2, CutDoneSingle
  <2> QED BY <2>3 DEF P
<1>9. e.single = s.single
  BY <1>3, <1>5, <1>6, <1>7, <1>8
<1>10. a.id \notin s.clip.pending => e = s
  BY <1>3
<1> QED BY <1>9, <1>10 DEF e

LEMMA DeleteFinishedKept ==
  ASSUME NEW s, TodoTyped(s), NEW h, NEW h2, NEW a \in TodoAnswers
  PROVE  Kept(s, SlotDeleteFinished(s, a), h, h2)
<1> DEFINE pending == s.clip.pending \ {a.id}
           c == [s.clip EXCEPT !.pending = pending]
           t == [s EXCEPT !.clip = c]
           e == SlotDeleteFinished(s, a)
<1>1. pending \in SUBSET Nat
  BY DEF TodoTyped, ListTyped
<1>2. e = IF a.id \notin s.clip.pending THEN s ELSE CutFinished(t)
  BY DEF SlotDeleteFinished
<1>3. TodoTyped(t) /\ SameBut(s, t, {"clip"}) /\ Pending(s.clip, t.clip, pending)
  BY <1>1, ClipIs
<1> HIDE DEF t, c
<1>4. TodoTyped(e) /\ SameBut(s, e, {"cutting", "clip", "purging", "purger"}) /\ e.clip.pending \subseteq s.clip.pending
      /\ e.clip.asked = s.clip.asked /\ e.idOf = s.idOf /\ e.cal = s.cal
  <2>1. CASE e = s
    BY <2>1 DEF SameBut, TodoTyped
  <2>2. CASE e = CutFinished(t)
    <3> HIDE DEF e
    <3>1. TodoTyped(e) /\ SameBut(t, e, {"cutting"})
      BY <1>3, <2>2, CutFinishedIs
    <3> QED BY <1>3, <3>1 DEF SameBut, TodoFields, Pending
  <2> QED BY <1>2, <2>1, <2>2
<1> HIDE DEF e
<1>5. Safe(s, h) => Questioned(e)
  BY <1>4 DEF Safe, Questioned
<1> QED BY <1>4, <1>5, OwnKept DEF e

LEMMA ItemsDeletedKept ==
  ASSUME NEW s, TodoTyped(s), NEW h, NEW h2, NEW a
  PROVE  Kept(s, OnItemsDeleted(s, a), h, h2)
<1> DEFINE e == OnItemsDeleted(s, a)
           t == TodosPurged(Dropped(s))
<1>1. e = s \/ e = t
  BY DEF OnItemsDeleted
<1>2. TodoTyped(t) /\ PurgeOver(s, t)
  BY PurgeOverIs
<1> HIDE DEF t, e
<1>3. Kept(s, t, h, h2)
  BY <1>2, PurgeDoneKept
<1>4. Kept(s, s, h, h2)
  BY OwnKept DEF SameBut, TodoTyped, Safe
<1> QED BY <1>1, <1>3, <1>4 DEF e

\* The first answer of the queue is taken from it.
LEMMA TakenOffKept ==
  ASSUME NEW s, TodoTyped(s), NEW t, TodoTyped(t), NEW w, NEW h, NEW h2, s.posted # <<>>, SameBut(s, t, {"posted"}),
         t.posted = Tail(s.posted)
  PROVE  /\ Safe(s, h) => Safe(t, h) /\ (Head(s.posted).kind = "modify" => Head(s.posted).id \notin t.clip.pending)
         /\ Noted(t, w, h, h2) <=> Noted(s, w, h, h2)
         /\ t.single = s.single
<1>1. /\ t.session = s.session /\ t.waiting = s.waiting /\ t.next = s.next /\ t.store = s.store
      /\ t.rows = s.rows /\ t.cal = s.cal /\ t.idOf = s.idOf /\ t.shared = s.shared /\ t.notified = s.notified
      /\ t.clip = s.clip /\ t.copied = s.copied /\ t.single = s.single
  BY DEF SameBut, TodoFields
<1>2. ToSet(s.posted) = {Head(s.posted)} \cup ToSet(t.posted)
  BY OneLess DEF TodoTyped, ServiceTyped
<1>3. ASSUME Safe(s, h) PROVE Safe(t, h) /\ (Head(s.posted).kind = "modify" => Head(s.posted).id \notin t.clip.pending)
  <2>1. Sound(s) /\ Named(s) /\ Fresh(s) /\ Questioned(s) /\ Copies(s, h)
    BY <1>3 DEF Safe
  <2>2. Sound(t) /\ (Head(s.posted).kind = "modify" => Head(s.posted).id \notin t.clip.pending)
    BY <1>1, <1>2, <2>1 DEF Sound
  <2>3. Named(t) /\ Fresh(t) /\ Questioned(t)
    BY <1>1, <2>1 DEF Named, Fresh, Questioned
  <2>4. Extends(s, t)
    BY <1>1 DEF Extends, SameJob
  <2>5. Copies(t, h)
    BY <1>1, <2>1, <2>4, CopiesStay
  <2> QED BY <2>2, <2>3, <2>5 DEF Safe
<1>4. Noted(t, w, h, h2) <=> Noted(s, w, h, h2)
  BY <1>1 DEF DeletionsAsked, Unsettled, Noted, AskedTo
<1> QED BY <1>1, <1>3, <1>4

LEMMA DeliverKept ==
  ASSUME NEW h, NEW h2, TodoTyped(todos), Deliver
  PROVE  Kept(todos, todos', h, h2)
<1> DEFINE a == Head(todos.posted)
           t == [todos EXCEPT !.posted = Tail(@)]
           w == CASE a.by = "purger" -> OnItemsDeleted(t, a)
                  [] a.by = "app" /\ a.kind = "modify" -> SlotModifyFinished(t, a, a.todo)
                  [] a.by = "app" /\ a.kind = "delete" -> SlotDeleteFinished(t, a)
<1>1. todos.posted # <<>> /\ todos' = w
  BY DEF Deliver, Step
<1>2. TodoTyped(t) /\ SameBut(todos, t, {"posted"}) /\ a \in TodoAnswers /\ t.posted = Tail(todos.posted)
  BY <1>1, PopIs
<1> HIDE DEF t
<1>3. /\ Safe(todos, h) => Safe(t, h) /\ (a.kind = "modify" => a.id \notin t.clip.pending)
      /\ Noted(t, w, h, h2) <=> Noted(todos, w, h, h2)
      /\ t.single = todos.single
  BY <1>1, <1>2, TakenOffKept
<1> HIDE DEF a
<1>4. a.by \in {"app", "purger"} /\ a.kind \in {"modify", "delete"}
  BY <1>2 DEF TodoAnswers, Callers, Kinds
<1>5. ASSUME Kept(t, w, h, h2) PROVE Kept(todos, w, h, h2)
  BY <1>3, <1>5 DEF Kept
<1>6. CASE a.by = "purger"
  BY <1>1, <1>2, <1>5, <1>6, ItemsDeletedKept
<1>7. CASE a.by = "app" /\ a.kind = "delete"
  BY <1>1, <1>2, <1>5, <1>7, DeleteFinishedKept
<1>8. CASE a.by = "app" /\ a.kind = "modify"
  <2>1. w = SlotModifyFinished(t, a, a.todo)
    BY <1>8
  <2>2. w.single = t.single /\ (a.id \notin t.clip.pending => w = t)
    BY <1>2, <1>8, <2>1, ModifyFinishedKept
  <2> HIDE DEF w
  <2>3. ASSUME Safe(todos, h), Noted(todos, w, h, h2) PROVE Safe(w, h2)
    <3>1. w = t /\ Safe(t, h) /\ h \subseteq h2
      BY <1>3, <1>8, <2>2, <2>3 DEF Noted
    <3>2. SameBut(t, t, {"clip", "cutting", "copied", "purging", "purger", "single", "crashed"})
      BY <1>2 DEF SameBut, TodoTyped
    <3>3. Safe(t, h2)
      BY <1>2, <3>1, <3>2, SameSafe DEF Safe
    <3> QED BY <3>1, <3>3
  <2> QED BY <1>1, <1>3, <2>2, <2>3 DEF Kept
<1> QED BY <1>4, <1>6, <1>7, <1>8

\* As long as no to-do is cut alone nothing was lost, and of all that a cut is about to
\* delete the clipboard has a copy, but for what was on its way when it was cut.
LostInv ==
  /\ CallsInv
  /\ todos.single = TRUE \/ past.lost = {}
  /\ part = "todos" /\ todos.crashed # TRUE /\ todos.single # TRUE => Safe(todos, past.hurried)

LEMMA TodosKept ==
  ASSUME Shape, TodoTyped(todos), todos.single = TRUE \/ past.lost = {},
         todos.single # TRUE => Safe(todos, past.hurried), TodoNext
  PROVE  /\ todos'.single = TRUE \/ past'.lost = {}
         /\ todos'.crashed # TRUE /\ todos'.single # TRUE => Safe(todos', past'.hurried)
<1> DEFINE Goal == /\ todos'.single = TRUE \/ past'.lost = {}
                   /\ todos'.crashed # TRUE /\ todos'.single # TRUE => Safe(todos', past'.hurried)
           h == past.hurried
           After(t) == IF AskedTo(todos, t) THEN h \cup Unsettled(todos) ELSE h
<1>1. ASSUME NEW t, NEW calls, NEW failures \in {0, 1}, NEW lost, NEW settled, NEW late, NEW stuck,
             Step(t, calls, failures, lost, settled, late, stuck), Kept(todos, t, h, After(t)),
             todos.single # TRUE => lost = {}
      PROVE  Goal
  <2>1. Step(t, calls, failures, lost, settled, late, stuck)
    BY <1>1
  <2>2. todos' = t /\ Recorded(lost, settled, late, stuck)
    BY <2>1, StepRecorded
  <2>3. past'.lost = past.lost \cup lost /\ past'.hurried = After(t)
    BY <2>2 DEF Recorded
  <2>4. Noted(todos, t, h, After(t))
    BY DEF Noted
  <2> HIDE DEF After, h
  <2>5. t.single = TRUE \/ past.lost \cup lost = {}
    BY <1>1 DEF Kept
  <2>6. t.crashed # TRUE /\ t.single # TRUE => Safe(t, After(t))
    BY <1>1, <2>4 DEF Kept, h
  <2> QED BY <2>2, <2>3, <2>5, <2>6
<1> HIDE DEF Goal
<1>2. ASSUME NEW t, NEW late, UserStep(t, late), todos.clip.asked = None => Kept(todos, t, h, After(t))
      PROVE  Goal
  <2>1. Step(t, 1, 0, {}, {}, late, FALSE) /\ todos.clip.asked = None
    BY <1>2 DEF UserStep
  <2> DEFINE none == {}
             no == FALSE
             one == 1
             zero == 0
  <2>2. Step(t, one, zero, none, none, late, no) /\ zero \in {0, 1} /\ (todos.single # TRUE => none = {})
    BY <2>1
  <2> HIDE DEF none, no, one, zero, After, h
  <2>3. Kept(todos, t, h, After(t))
    BY <1>2, <2>1
  <2> QED BY <1>1, <2>2, <2>3
<1>3. ASSUME NEW t, NEW calls, NEW failures \in {0, 1}, NEW lost, NEW settled, NEW stuck,
             Step(t, calls, failures, lost, settled, {}, stuck), Kept(todos, t, h, After(t)),
             todos.single # TRUE => lost = {}
      PROVE  Goal
  <2> DEFINE none == {}
  <2>1. Step(t, calls, failures, lost, settled, none, stuck)
    BY <1>3
  <2> HIDE DEF none, After, h
  <2> QED BY <1>1, <1>3, <2>1
<1>4. ASSUME NEW t, NEW calls, NEW failures \in {0, 1}, NEW stuck,
             Step(t, calls, failures, {}, {}, {}, stuck), Kept(todos, t, h, After(t))
      PROVE  Goal
  <2> DEFINE none == {}
  <2>1. Step(t, calls, failures, none, none, {}, stuck) /\ (todos.single # TRUE => none = {})
    BY <1>4
  <2> HIDE DEF none, After, h
  <2> QED BY <1>3, <1>4, <2>1
<1>5. ASSUME NEW i \in Items, Edit(i) PROVE Goal
  <2> DEFINE x == [todos.rows[i].todo EXCEPT !.text = @ + 1]
             t == SetData(todos, i, x)
  <2>1. UserStep(t, Again(i))
    BY <1>5 DEF Edit
  <2>2. todos.clip.asked = None => Kept(todos, t, h, After(t))
    BY EditKept
  <2> HIDE DEF t, After, h
  <2> QED BY <1>2, <2>1, <2>2
<1>6. ASSUME NEW i \in Items, Check(i) PROVE Goal
  <2> DEFINE x == [todos.rows[i].todo EXCEPT !.done = ~@]
             t == SetData(todos, i, x)
  <2>1. UserStep(t, Again(i))
    BY <1>6 DEF Check
  <2>2. todos.clip.asked = None => Kept(todos, t, h, After(t))
    BY EditKept
  <2> HIDE DEF t, After, h
  <2> QED BY <1>2, <2>1, <2>2
<1>7. ASSUME NEW i \in Items, NEW target \in Items \cup {None}, Drop(i, target) PROVE Goal
  <2> DEFINE t == DropMimeData(todos, i, target)
  <2>1. \E late : UserStep(t, late)
    BY <1>7 DEF Drop
  <2>2. todos.clip.asked = None => Kept(todos, t, h, After(t))
    BY EditKept
  <2> HIDE DEF t, After, h
  <2> QED BY <1>2, <2>1, <2>2
<1>8. ASSUME NEW u \in Items, NEW mode \in Modes, CutTodo(u, mode) PROVE Goal
  <2> DEFINE t == CutIncidence(todos, u, mode)
  <2>1. UserStep(t, {}) /\ ItemOf(todos, u) # None
    BY <1>8 DEF CutTodo
  <2>2. todos.clip.asked = None => Kept(todos, t, h, After(t))
    BY <2>1, CutKept
  <2> HIDE DEF t, After, h
  <2> QED BY <1>2, <2>1, <2>2
<1>9. ASSUME Purge PROVE Goal
  <2> DEFINE t == PurgeCompletedTodos(todos)
  <2>1. UserStep(t, Moved)
    BY <1>9 DEF Purge
  <2>2. todos.clip.asked = None => Kept(todos, t, h, After(t))
    BY PurgeKept
  <2> HIDE DEF t, After, h
  <2> QED BY <1>2, <2>1, <2>2
<1>10. ASSUME NEW answer \in {"Cut Only This", "Cut All", "Cancel"}, AnswerQuestion(answer) PROVE Goal
  <2> DEFINE t == CutAnswered(todos, answer)
  <2>1. Step(t, 0, 0, {}, {}, {}, FALSE) /\ todos.clip.asked # None
    BY <1>10 DEF AnswerQuestion
  <2>2. Kept(todos, t, h, After(t))
    BY <2>1, AnswerKept
  <2> HIDE DEF t, After, h
  <2> QED BY <1>4, <2>1, <2>2
<1>11. ASSUME NEW success \in BOOLEAN, CalendarLoaded(success) PROVE Goal
  <2> DEFINE t == OnCalendarLoaded(todos, success)
             n == IF success THEN 0 ELSE 1
  <2>1. Step(t, 0, n, {}, {}, {}, FALSE)
    BY <1>11 DEF CalendarLoaded
  <2>2. n \in {0, 1}
    OBVIOUS
  <2>3. Kept(todos, t, h, After(t))
    BY LoadedKept
  <2> HIDE DEF t, n, After, h
  <2> QED BY <1>4, <2>1, <2>2, <2>3
<1>12. ASSUME NEW ok \in BOOLEAN, Serve(ok) PROVE Goal
  <2> DEFINE t == JobEnds(todos, ok)
             n == IF ok \/ ~CanSucceed(todos) THEN 0 ELSE 1
             lost == IF ok THEN Loses(Head(todos.session)) ELSE {}
  <2>1. todos.session # <<>> /\ (ok => CanSucceed(todos)) /\ \E settled : Step(t, 0, n, lost, settled, {}, FALSE)
    BY <1>12 DEF Serve
  <2>2. n \in {0, 1}
    OBVIOUS
  <2>3. Kept(todos, t, h, After(t))
    BY <2>1, EndKept
  <2>4. todos.single # TRUE => lost = {}
    BY <2>1, LosesNothing
  <2> HIDE DEF t, n, lost, After, h
  <2> QED BY <1>3, <2>1, <2>2, <2>3, <2>4
<1>13. ASSUME Deliver PROVE Goal
  <2> DEFINE a == Head(todos.posted)
             r == [todos EXCEPT !.posted = Tail(@)]
             t == CASE a.by = "purger" -> OnItemsDeleted(r, a)
                    [] a.by = "app" /\ a.kind = "modify" -> SlotModifyFinished(r, a, a.todo)
                    [] a.by = "app" /\ a.kind = "delete" -> SlotDeleteFinished(r, a)
             stuck == todos.clip.pending = {a.id} /\ a.kind = "modify" /\ ~a.ok /\ ~todos.clip.abort
             zero == 0
  <2>1. Step(t, zero, zero, {}, {}, {}, stuck) /\ zero \in {0, 1}
    BY <1>13 DEF Deliver
  <2>2. Kept(todos, todos', h, After(todos'))
    BY <1>13, DeliverKept
  <2> HIDE DEF t, stuck, zero, After, h
  <2>3. todos' = t
    BY <2>1, StepRecorded
  <2>4. Kept(todos, t, h, After(t))
    BY <2>2, <2>3
  <2> QED BY <1>4, <2>1, <2>4
<1>14. ASSUME Notify PROVE Goal
  <2> DEFINE t == Noticed(todos, Head(todos.notified))
  <2>1. todos.notified # <<>> /\ Step(t, 0, 0, {}, {}, {}, FALSE)
    BY <1>14 DEF Notify
  <2>2. Kept(todos, t, h, After(t))
    BY <2>1, NoticedKept
  <2> HIDE DEF t, After, h
  <2> QED BY <1>4, <2>1, <2>2
<1>15. ASSUME UserOfTodos PROVE Goal
  BY <1>5, <1>6, <1>7, <1>8, <1>9, <1>15 DEF UserOfTodos
<1>16. ASSUME QuestionAnswered PROVE Goal
  BY <1>10, <1>16 DEF QuestionAnswered
<1>17. ASSUME PurgeCalendarLoaded PROVE Goal
  BY <1>11, <1>17 DEF PurgeCalendarLoaded
<1>18. ASSUME Server PROVE Goal
  BY <1>12, <1>18 DEF Server
<1>19. Goal
  BY <1>13, <1>14, <1>15, <1>16, <1>17, <1>18 DEF TodoNext
<1> QED BY <1>19 DEF Goal

LEMMA NextLost ==
  ASSUME LostInv, [Next]_vars
  PROVE  LostInv'
<1>1. Shape /\ CallsInv /\ CallsInv'
  BY NextCalls DEF LostInv, CallsInv
<1>2. ASSUME NotTodos PROVE LostInv'
  BY <1>1, <1>2 DEF LostInv, NotTodos
<1>3. CASE TodoNext
  <2>1. part = "todos" /\ todos.crashed # TRUE
    BY <1>3 DEF TodoNext, UserOfTodos, QuestionAnswered, PurgeCalendarLoaded, Server, Deliver, Notify, Edit, Check,
       Drop, CutTodo, Purge, AnswerQuestion, CalendarLoaded, Serve, UserStep, Active
  <2>2. TodoTyped(todos) /\ (todos.single # TRUE => Safe(todos, past.hurried))
    BY <2>1 DEF LostInv, CallsInv, Well
  <2>3. /\ todos'.single = TRUE \/ past'.lost = {}
        /\ todos'.crashed # TRUE /\ todos'.single # TRUE => Safe(todos', past'.hurried)
    BY <1>1, <1>3, <2>2, TodosKept DEF LostInv
  <2> QED BY <1>1, <2>3 DEF LostInv
<1>4. CASE ImportNext
  BY <1>1, <1>2, <1>4, ImportNotTodos
<1>5. CASE SearchNext
  BY <1>1, <1>2, <1>5, SearchNotTodos
<1>6. CASE CollectionsNext
  BY <1>1, <1>2, <1>6, CollectionsNotTodos
<1>7. CASE PublishNext
  BY <1>1, <1>2, <1>7, PublishNotTodos
<1>8. CASE UNCHANGED vars
  BY <1>1, <1>8 DEF vars, LostInv
<1> QED BY <1>3, <1>4, <1>5, <1>6, <1>7, <1>8 DEF Next

LEMMA InitLost == Init => LostInv
<1> SUFFICES ASSUME Init PROVE LostInv
  OBVIOUS
<1>1. CallsInv /\ past.lost = {} /\ past.hurried = {}
  BY InitCalls DEF Init
<1>2. ASSUME part = "todos" PROVE Safe(todos, past.hurried)
  <2>1. PICK tree : FirstList(todos, tree)
    BY <1>2, InitialList
  <2>2. /\ TodoTyped(todos) /\ todos.session = <<>> /\ todos.posted = <<>> /\ todos.notified = <<>>
        /\ todos.rows = todos.store /\ todos.cal = todos.store /\ todos.shared = Items
        /\ todos.clip.pending = {} /\ todos.clip.asked = None
    BY <2>1 DEF FirstList
  <2>3. /\ \A k \in Changers, i \in Items : todos.waiting[k][i] = NoModification
        /\ \A i \in Items : todos.store[i].live = TRUE /\ todos.store[i].todo.uid = i /\ todos.idOf[i] = i
    BY <2>1 DEF FirstList
  <2>4. /\ ToSet(todos.session) = {} /\ ToSet(todos.posted) = {} /\ ToSet(todos.notified) = {}
        /\ "app" \in Changers
    BY <2>2, ItemsAssumption DEF ToSet
  <2>5. Sound(todos)
    BY <2>2, <2>3, <2>4 DEF Sound
  <2>6. Named(todos)
    BY <2>2, <2>3, ItemsAssumption DEF Named
  <2>7. Fresh(todos)
    BY <2>2, SafeFacts DEF Fresh
  <2>8. Questioned(todos) /\ Copies(todos, past.hurried)
    BY <2>2 DEF Questioned, Copies
  <2> QED BY <2>2, <2>5, <2>6, <2>7, <2>8 DEF Safe
<1> QED BY <1>1, <1>2 DEF LostInv

\* What a cut is about to delete the clipboard has a copy of, and no change comes before
\* the deletion (CalendarClipboard, CalendarClipboard::Private::cut()).
THEOREM CutsInvariance == Spec => []LostInv
<1>1. LostInv /\ [Next]_vars => LostInv'
  BY NextLost
<1> QED BY InitLost, <1>1, PTL DEF Spec

\* A cut keeps in the clipboard the newest state of all it deletes.
THEOREM NothingIsEverLost == Spec => []NothingIsLost
<1>1. LostInv => NothingIsLost
  BY DEF LostInv, NothingIsLost
<1> QED BY <1>1, CutsInvariance, PTL
=============================================================================
