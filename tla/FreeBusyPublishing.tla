------------------------- MODULE FreeBusyPublishing -------------------------
(***************************************************************************)
(* Akonadi::FreeBusyManager (src/src/freebusymanager.cpp), the other half: *)
(* how the user's own free/busy list is uploaded when the calendar changes *)
(* and mailed when asked.                                                  *)
(*                                                                         *)
(* The operators work on a record: `calendar` (mCalendar), `heard` the     *)
(* calendars whose calendarChanged() is connected, the settings `url` and  *)
(* `auto`, `broken` (mBrokenUrl), `uploading` (mUploadingFreeBusy),        *)
(* `timer` (mTimerID), `posted` the single shots of uploadFreeBusy() to    *)
(* come, `boxes` the error boxes that are open, the innermost last, `jobs` *)
(* the uploads under way, `sent` the URLs they were given; of the mails,   *)
(* `asking` the dialogs and `mails` those under way.                       *)
(*                                                                         *)
(* mUploadingFreeBusy stays set: nothing is connected to the result of the *)
(* upload.  So the delay between two uploads never matters.                *)
(***************************************************************************)
EXTENDS Integers, SequencesExt

NoCalendar == "no calendar"
Calendars  == {"first calendar", "second calendar"}
UrlKinds   == {"empty", "invalid", "valid"}

NewPublisher(url, auto) ==
  [calendar |-> NoCalendar, heard |-> {}, url |-> url, auto |-> auto, broken |-> FALSE, uploading |-> FALSE,
   timer |-> FALSE, posted |-> 0, boxes |-> <<>>, jobs |-> 0, sent |-> {}, asking |-> 0, mails |-> 0]

\* Mutant: a URL once found broken stays so.
BrokenForGood(s) == [s EXCEPT !.broken = @ \/ s.url # "valid"]

\* checkFreeBusyUrl()
CheckFreeBusyUrl(s) == [s EXCEPT !.broken = s.url # "valid"]

\* CalendarSettings::configChanged(), which is connected to checkFreeBusyUrl().
SettingsChanged(s, url, auto) == CheckFreeBusyUrl([s EXCEPT !.url = url, !.auto = auto])

\* The list is written to a temporary file, and the file copied to the URL, if it could
\* be opened; the timer is stopped in any case.
Uploaded(s, fileOpen) ==
  LET t == [s EXCEPT !.uploading = TRUE, !.timer = FALSE]
  IN  IF fileOpen THEN [t EXCEPT !.jobs = @ + 1, !.sent = @ \cup {s.url}] ELSE t

\* publishFreeBusy()
PublishFreeBusy(s, fileOpen) ==
  IF s.uploading \/ s.calendar = NoCalendar THEN s
  ELSE IF s.url = "empty" THEN [s EXCEPT !.boxes = Append(@, "empty")]
  ELSE IF s.broken THEN s
  ELSE IF s.url = "invalid" THEN [s EXCEPT !.boxes = Append(@, "invalid")]
  ELSE Uploaded(s, fileOpen)

\* The innermost box is closed: an invalid URL is remembered as broken only then.
UrlBoxClosed(s) ==
  [s EXCEPT !.boxes = Front(@), !.broken = @ \/ Last(s.boxes) = "invalid"]

\* uploadFreeBusy(): at once if none was uploaded in this session, else when the timer
\* that it starts fires.
UploadFreeBusy(s, fileOpen) ==
  IF ~s.auto \/ s.url = "empty" \/ s.timer THEN s
  ELSE IF s.uploading THEN [s EXCEPT !.timer = TRUE]
  ELSE PublishFreeBusy(s, fileOpen)

\* timerEvent(): the timer goes on.
TimerEvent(s, fileOpen) == PublishFreeBusy(s, fileOpen)

\* setCalendar(): what is disconnected is not the calendar that was set before.
SetCalendar(s, c) ==
  [s EXCEPT !.calendar = c, !.heard = IF c = NoCalendar THEN @ ELSE @ \cup {c}, !.posted = @ + 1]

\* mailFreeBusy(): the dialog, and the mail if it is accepted.
MailFreeBusy(s) == IF s.calendar = NoCalendar THEN s ELSE [s EXCEPT !.asking = @ + 1]
PublishDialogClosed(s, accepted) == [s EXCEPT !.asking = @ - 1, !.mails = IF accepted THEN @ + 1 ELSE @]

\* processMailSchedulerResult(): the user is told how the mail ended.
ProcessMailSchedulerResult(s) == [s EXCEPT !.mails = @ - 1]
=============================================================================
