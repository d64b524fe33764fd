------------------------- MODULE KalendarAlarmClient -------------------------
(***************************************************************************)
(* The reminder daemon (src/reminder-daemon): KalendarAlarmClient looks    *)
(* for the alarms since its last check once a minute, keeps a notification *)
(* for each incidence that has one, in memory and in its configuration,    *)
(* and shows it until it is dismissed or suspended.  The daemon may be     *)
(* killed at any time, also in the middle of a check, and starts again     *)
(* from the configuration.                                                 *)
(*                                                                         *)
(* Time is counted in checks' worth of it.  An alarm here is one that      *)
(* shouldNotify() lets through; the text, the occurrence and the actions   *)
(* that only open something are left out.                                  *)
(***************************************************************************)
EXTENDS Naturals

CONSTANTS
  Uids,      \* the incidences
  MaxTime,   \* bound on the clock
  MaxDelay   \* bound on the delays chosen in the SuspendDialog

ASSUME BoundsAssumption == MaxTime \in Nat /\ MaxDelay \in Nat

VARIABLES
  now,       \* the clock
  alarms,    \* external: the times of the alarms of each incidence
  calendar,  \* external: what the ETMCalendar holds and knows of its collections
  client,    \* the state of KalendarAlarmClient and of its notifications
  config,    \* the state configuration, synced at each write
  past       \* history: the alarms that need no reminder any more, and the postponed ones

vars == <<now, alarms, calendar, client, config, past>>

Times   == 0 .. MaxTime
Remind  == 0 .. MaxTime + MaxDelay
Alarms  == Uids \X Times
MaxMisses == 5   \* in checkAlarms()

\* AlarmNotification: `shown` when m_notification is there, `asking` while
\* m_remindLaterDialogVisible, `missed` is m_incidenceMissedCount.
Notification == [remindAt : Remind, wasSuspended : BOOLEAN, shown : BOOLEAN,
                 asking : BOOLEAN, missed : 0 .. MaxMisses - 1]
Stored       == [remindAt : Remind, wasSuspended : BOOLEAN]
Tables(S)    == UNION {[some -> S] : some \in SUBSET Uids}

TypeOK ==
  /\ now \in Times
  /\ alarms \in [Uids -> SUBSET Times]
  /\ calendar \in [present : SUBSET Uids, available : BOOLEAN, loading : BOOLEAN]
  /\ client \in [status : {"down", "waiting", "up"}, lastChecked : Times,
                 notifications : Tables(Notification), dialogs : SUBSET Uids]
  /\ config \in [lastChecked : Times, suspended : Tables(Stored)]
  /\ past \in [settled : SUBSET Alarms, postponed : SUBSET Alarms]

Nothing == [u \in {} |-> {}]
Down    == [status |-> "down", lastChecked |-> 0, notifications |-> Nothing, dialogs |-> {}]

\* The first start looks nine days back: every alarm is later than 0.
Init ==
  /\ now = 0
  /\ alarms \in [Uids -> SUBSET (Times \ {0})]
  /\ calendar = [present |-> Uids, available |-> FALSE, loading |-> TRUE]
  /\ client = Down
  /\ config = [lastChecked |-> 0, suspended |-> Nothing]
  /\ past = [settled |-> {}, postponed |-> {}]

-----------------------------------------------------------------------------
(* The table of notifications and the group of the configuration.          *)

Set(table, u, entry) == [v \in DOMAIN table \cup {u} |-> IF v = u THEN entry ELSE table[v]]
Without(table, gone) == [v \in DOMAIN table \ gone |-> table[v]]
Entry(n)             == [remindAt |-> n.remindAt, wasSuspended |-> n.wasSuspended]

\* storeNotification() of those of `stored`.
StoreNotifications(suspended, table, stored) ==
  [v \in DOMAIN suspended \cup stored |-> IF v \in stored THEN Entry(table[v]) ELSE suspended[v]]

\* addNotification(): the one there is stays if it is due earlier than the new one.
Replaces(table, u, at) == ~(u \in DOMAIN table /\ table[u].remindAt < at)

AlarmNotification(remindAt, wasSuspended) ==
  [remindAt |-> remindAt, wasSuspended |-> wasSuspended, shown |-> FALSE, asking |-> FALSE, missed |-> 0]

Rescheduled(table, u, at) ==
  IF u \in DOMAIN table THEN [table[u] EXCEPT !.remindAt = at, !.wasSuspended = FALSE]
  ELSE AlarmNotification(at, FALSE)

-----------------------------------------------------------------------------
(* The daemon comes and goes.                                              *)

\* restoreSuspendedFromConfig(): what is stored is added anew.
RestoreSuspendedFromConfig ==
  [u \in DOMAIN config.suspended |-> AlarmNotification(config.suspended[u].remindAt, config.suspended[u].wasSuspended)]

\* The constructor; Akonadi may have to be waited for.
Start ==
  /\ client.status = "down"
  /\ \E status \in {"waiting", "up"} :
       client' = [status |-> status, lastChecked |-> config.lastChecked, dialogs |-> {},
                  notifications |-> RestoreSuspendedFromConfig]
  /\ UNCHANGED <<now, alarms, calendar, config, past>>

\* The server runs: setupAkonadi().
SetupAkonadi ==
  /\ client.status = "waiting"
  /\ client' = [client EXCEPT !.status = "up"]
  /\ UNCHANGED <<now, alarms, calendar, config, past>>

Crash ==
  /\ client.status # "down"
  /\ client' = Down
  /\ UNCHANGED <<now, alarms, calendar, config, past>>

-----------------------------------------------------------------------------
(* checkAlarms().                                                          *)

\* collectionsAvailable(): the collections are listed, and those at the top are filled.
CollectionsAvailable == calendar.available

\* The incidences with an alarm since the last check.
Found == {u \in calendar.present : \E t \in alarms[u] : client.lastChecked < t /\ t <= now}

\* The notifications once those found are added.
Added ==
  [u \in DOMAIN client.notifications \cup Found |->
     IF u \in Found /\ Replaces(client.notifications, u, now)
     THEN Rescheduled(client.notifications, u, now) ELSE client.notifications[u]]

Renewed == {u \in Found : Replaces(client.notifications, u, now)}

\* Mutant of Active: neither is the time.
ActiveEarly(n) == ~n.asking

\* A notification that is due, while the user is not being asked how long to wait.
Active(n) == n.remindAt <= now /\ ~n.asking

\* AlarmNotification::send(): shown, or what is shown is brought up to date.
Send(n) == [n EXCEPT !.shown = TRUE, !.missed = 0]

\* Mutant of Executed: a check in which the incidence is missed is not counted.
ExecutedUncounted(u, n) ==
  IF Active(n) /\ u \in calendar.present THEN Send(n) ELSE n

\* send(), or one more check in which the incidence was missed.
Executed(u, n) ==
  IF ~Active(n) \/ (u \notin calendar.present /\ calendar.loading) THEN n
  ELSE IF u \in calendar.present THEN Send(n)
  ELSE [n EXCEPT !.missed = @ + 1]

\* Those dismissed because their incidence is gone.
Missed ==
  {u \in DOMAIN Added : Executed(u, Added[u]).missed = MaxMisses}

\* The alarms of u that a check has looked for.
Passed(u, upTo) == {<<u, t>> : t \in {t \in alarms[u] : t <= upTo}}
PassedOf(some, upTo) == UNION {Passed(u, upTo) : u \in some}

\* The alarms in the range of the check whose incidence is not in the calendar.
Overlooked == {a \in PassedOf(Uids \ calendar.present, now) : a[2] > client.lastChecked}

\* A check, when the collections are there and filled.
CheckAlarms ==
  /\ client.status = "up" /\ CollectionsAvailable
  /\ client' = [client EXCEPT !.lastChecked = now,
                  !.notifications = Without([u \in DOMAIN Added |-> Executed(u, Added[u])], Missed)]
  /\ config' = [lastChecked |-> now,
                suspended |-> Without(StoreNotifications(config.suspended, Added, Renewed), Missed)]
  /\ past' = [past EXCEPT !.settled = @ \cup Overlooked \cup PassedOf(Missed, now)]
  /\ UNCHANGED <<now, alarms, calendar>>

\* Mutant of KilledDuringCheck: the time of the check was written first.
KilledAfterSaving ==
  /\ client.status = "up" /\ CollectionsAvailable
  /\ \E written \in SUBSET Renewed :
       config' = [config EXCEPT !.suspended = StoreNotifications(@, Added, written), !.lastChecked = now]
  /\ client' = Down
  /\ UNCHANGED <<now, alarms, calendar, past>>

\* The daemon is killed in a check, before saveLastCheckTime(): some notifications
\* have been written, and some whose incidence is gone removed.
KilledDuringCheck ==
  /\ client.status = "up" /\ CollectionsAvailable
  /\ \/ \E written \in SUBSET Renewed :
          /\ config' = [config EXCEPT !.suspended = StoreNotifications(@, Added, written)]
          /\ UNCHANGED past
     \/ \E gone \in SUBSET Missed :
          /\ config' = [config EXCEPT !.suspended = Without(StoreNotifications(@, Added, Renewed), gone)]
          /\ past' = [past EXCEPT !.settled = @ \cup PassedOf(gone, now)]
  /\ client' = Down
  /\ UNCHANGED <<now, alarms, calendar>>

-----------------------------------------------------------------------------
(* The user.                                                               *)

Shows(u) == u \in DOMAIN client.notifications /\ client.notifications[u].shown

\* removeNotification()
RemoveNotification(table, u) == Without(table, {u})

\* Mutant of Dismiss: the configuration keeps it.
DismissKept(u) ==
  /\ Shows(u)
  /\ client' = [client EXCEPT !.notifications = Without(@, {u})]
  /\ past' = [past EXCEPT !.settled = @ \cup Passed(u, client.lastChecked)]
  /\ UNCHANGED <<now, alarms, calendar, config>>

\* dismiss(), by its action, by viewing the incidence, by closing the notification or
\* because it timed out.
Dismiss(u) ==
  /\ Shows(u)
  /\ client' = [client EXCEPT !.notifications = Without(@, {u})]
  /\ config' = [config EXCEPT !.suspended = RemoveNotification(@, u)]
  /\ past' = [past EXCEPT !.settled = @ \cup Passed(u, client.lastChecked)]
  /\ UNCHANGED <<now, alarms, calendar>>

\* suspend(): until a time counted from now.
Suspend(u, delay, dialogs) ==
  LET n == [client.notifications[u] EXCEPT !.remindAt = now + delay, !.wasSuspended = TRUE,
                                           !.shown = FALSE, !.asking = FALSE]
  IN  /\ client' = [client EXCEPT !.notifications[u] = n, !.dialogs = dialogs]
      /\ config' = [config EXCEPT !.suspended = Set(@, u, Entry(n))]
      /\ past' = [past EXCEPT !.postponed = @ \cup Passed(u, client.lastChecked)]
      /\ UNCHANGED <<now, alarms, calendar>>

\* "Remind in 5 mins".
RemindIn5(u) == Shows(u) /\ MaxDelay > 0 /\ Suspend(u, 1, client.dialogs)

\* "Remind later...": askAndSuspend(); the notification closes and is not dismissed.
RemindLater(u) ==
  /\ Shows(u)
  /\ client' = [client EXCEPT !.notifications[u].shown = FALSE, !.notifications[u].asking = TRUE,
                              !.dialogs = @ \cup {u}]
  /\ UNCHANGED <<now, alarms, calendar, config, past>>

\* The SuspendDialog: a delay is chosen,
SuspendRequested(u) ==
  /\ u \in client.dialogs
  /\ \E delay \in 1 .. MaxDelay : Suspend(u, delay, client.dialogs \ {u})

\* or it is cancelled and the notification shown again,
CancelRequested(u) ==
  /\ u \in client.dialogs
  /\ client' = [client EXCEPT !.notifications[u] = Send([@ EXCEPT !.asking = FALSE]), !.dialogs = @ \ {u}]
  /\ UNCHANGED <<now, alarms, calendar, config, past>>

\* or its window is closed: neither signal is emitted.
DialogClosed(u) ==
  /\ u \in client.dialogs
  /\ client' = [client EXCEPT !.dialogs = @ \ {u}]
  /\ UNCHANGED <<now, alarms, calendar, config, past>>

-----------------------------------------------------------------------------
(* The rest of the world.                                                  *)

Tick ==
  /\ now < MaxTime
  /\ now' = now + 1
  /\ UNCHANGED <<alarms, calendar, client, config, past>>

\* Incidences come and go, also because collections are filled again.
CalendarChanges ==
  /\ calendar' \in [present : SUBSET Uids, available : BOOLEAN, loading : BOOLEAN]
  /\ calendar' # calendar
  /\ UNCHANGED <<now, alarms, client, config, past>>

Next ==
  \/ Start \/ SetupAkonadi \/ Crash
  \/ CheckAlarms \/ KilledDuringCheck
  \/ \E u \in Uids : \/ Dismiss(u) \/ RemindIn5(u) \/ RemindLater(u)
                     \/ SuspendRequested(u) \/ CancelRequested(u) \/ DialogClosed(u)
  \/ Tick \/ CalendarChanges

\* The check runs again a minute after each check, and the clock goes on.
Spec == Init /\ [][Next]_vars /\ WF_vars(CheckAlarms) /\ WF_vars(Tick)

-----------------------------------------------------------------------------
(* Properties.                                                             *)

\* An alarm that a check has gone past has a notification that outlives the daemon,
\* due by then or put off by the user since, until it is dismissed; only an incidence
\* that was not in the calendar at the check is overlooked.
NoReminderLost ==
  \A a \in PassedOf(Uids, config.lastChecked) \ past.settled :
    /\ a[1] \in DOMAIN config.suspended
    /\ config.suspended[a[1]].remindAt <= config.lastChecked \/ a \in past.postponed

\* What the daemon knows is what it would know if it were started again.
ConfigIsCurrent ==
  /\ TypeOK
  /\ client.status # "down" =>
       /\ config.lastChecked = client.lastChecked
       /\ DOMAIN config.suspended = DOMAIN client.notifications
       /\ \A u \in DOMAIN config.suspended : config.suspended[u] = Entry(client.notifications[u])

\* The dialog for a notification never outlives it: its answer goes to a notification
\* that waits for one and is not on the screen.
DialogHasItsNotification ==
  \A u \in client.dialogs :
    /\ u \in DOMAIN client.notifications
    /\ client.notifications[u].asking /\ ~client.notifications[u].shown

\* What is on the screen is due: a suspended reminder stays away until its time,
\* through restarts too.
ShownWhenDue == \A u \in Uids : Shows(u) => client.notifications[u].remindAt <= now

\* What the user sees, the notifications and the dialogs, is what waits for the user.
ScreenIsTrue == DialogHasItsNotification /\ ShownWhenDue

\* The daemon runs and the incidence stays in, or out of, a calendar that is there.
Steady(u, there) ==
  client.status = "up" /\ calendar.available /\ ~calendar.loading /\ ((u \in calendar.present) <=> there)

\* Set aside: the user has closed the window of the dialog without an answer, or the
\* reminder is suspended until after the bound of the clock.
SetAside(u) ==
  client.notifications[u].asking \/ client.notifications[u].remindAt > MaxTime

\* A reminder that is stored is shown in the end, and taken away when its incidence is
\* gone, also when it is suspended, unless it is set aside.
EveryReminderComesUp ==
  \A u \in Uids :
    /\ <>[]Steady(u, TRUE) => []<>(u \in DOMAIN client.notifications => Shows(u) \/ SetAside(u))
    /\ <>[]Steady(u, FALSE) => []<>(u \in DOMAIN client.notifications => SetAside(u))
=============================================================================
