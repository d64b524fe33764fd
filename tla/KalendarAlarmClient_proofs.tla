--------------------- MODULE KalendarAlarmClient_proofs ---------------------
(***************************************************************************)
(* Proofs about the reminder daemon, for any set of incidences and any     *)
(* bound on the clock: no reminder is lost through restarts, crashes and   *)
(* checks cut short, and the screen tells the truth.                       *)
(***************************************************************************)
EXTENDS KalendarAlarmClient, TLAPS

\* The part of ConfigIsCurrent that is not about types.
Current ==
  client.status # "down" =>
    /\ config.lastChecked = client.lastChecked
    /\ DOMAIN config.suspended = DOMAIN client.notifications
    /\ \A u \in DOMAIN config.suspended : config.suspended[u] = Entry(client.notifications[u])

\* The clock goes forward, and a daemon that is down has no state.
Ordered == client.lastChecked <= now /\ config.lastChecked <= now
DownIsEmpty == client.status = "down" => client = Down

\* A reminder whose dialog is open, or was, is due: Cancel shows it again.
AskedWhenDue ==
  \A u \in DOMAIN client.notifications : client.notifications[u].asking => client.notifications[u].remindAt <= now

IInv ==
  /\ TypeOK /\ Ordered /\ DownIsEmpty
  /\ Current /\ AskedWhenDue
  /\ DialogHasItsNotification /\ ShownWhenDue
  /\ NoReminderLost

-----------------------------------------------------------------------------
(* Tables.                                                                 *)

LEMMA TableIs ==
  ASSUME NEW S, NEW D \in SUBSET Uids, NEW f \in [D -> S]
  PROVE  f \in Tables(S)
BY DEF Tables

LEMMA TableHas ==
  ASSUME NEW S, NEW f \in Tables(S)
  PROVE  f \in [DOMAIN f -> S] /\ DOMAIN f \in SUBSET Uids
BY DEF Tables

LEMMA SetIs ==
  ASSUME NEW S, NEW f \in Tables(S), NEW u \in Uids, NEW e \in S
  PROVE  Set(f, u, e) \in Tables(S)
<1>1. f \in [DOMAIN f -> S] /\ DOMAIN f \in SUBSET Uids
  BY TableHas
<1>2. Set(f, u, e) \in [DOMAIN f \cup {u} -> S]
  BY <1>1 DEF Set
<1> QED
  BY <1>1, <1>2, TableIs

LEMMA WithoutIs ==
  ASSUME NEW S, NEW f \in Tables(S), NEW gone
  PROVE  Without(f, gone) \in Tables(S)
<1>1. f \in [DOMAIN f -> S] /\ DOMAIN f \in SUBSET Uids
  BY TableHas
<1>2. Without(f, gone) \in [DOMAIN f \ gone -> S]
  BY <1>1 DEF Without
<1> QED
  BY <1>1, <1>2, TableIs

LEMMA EntryIs == ASSUME NEW n \in Notification PROVE Entry(n) \in Stored
BY DEF Notification, Stored, Entry

LEMMA SendIs ==
  ASSUME NEW n \in Notification
  PROVE  /\ Send(n) \in Notification /\ Send(n).asking = n.asking /\ Send(n).shown
         /\ Send(n).remindAt = n.remindAt /\ Entry(Send(n)) = Entry(n)
<1>1. 0 \in 0 .. MaxMisses - 1
  BY DEF MaxMisses
<1> QED
  BY <1>1 DEF Notification, Send, Entry

LEMMA StoreIs ==
  ASSUME NEW f \in Tables(Stored), NEW g \in Tables(Notification), NEW stored \in SUBSET DOMAIN g
  PROVE  StoreNotifications(f, g, stored) \in Tables(Stored)
<1>1. /\ f \in [DOMAIN f -> Stored] /\ DOMAIN f \in SUBSET Uids
      /\ g \in [DOMAIN g -> Notification] /\ DOMAIN g \in SUBSET Uids
  BY TableHas
<1>2. \A v \in stored : Entry(g[v]) \in Stored
  BY <1>1, EntryIs
<1>3. StoreNotifications(f, g, stored) \in [DOMAIN f \cup stored -> Stored]
  BY <1>1, <1>2 DEF StoreNotifications
<1> QED
  BY <1>1, <1>3, TableIs

LEMMA NothingIs == ASSUME NEW S PROVE Nothing \in Tables(S)
<1>1. Nothing \in [{} -> S]
  BY DEF Nothing
<1> QED
  BY <1>1, TableIs

-----------------------------------------------------------------------------
(* The clock's bounds.                                                     *)

LEMMA TimesAre == Times \subseteq Nat /\ Remind \subseteq Nat /\ Times \subseteq Remind /\ 0 \in Times
BY BoundsAssumption DEF Times, Remind

LEMMA PassedIs == \A u \in Uids : \A upTo : TypeOK => Passed(u, upTo) \subseteq Alarms
BY DEF TypeOK, Passed, Alarms

LEMMA InitInv == Init => IInv
<1> SUFFICES ASSUME Init PROVE IInv
  OBVIOUS
<1>1. Nothing \in Tables(Notification) /\ Nothing \in Tables(Stored) /\ DOMAIN Nothing = {}
  BY NothingIs DEF Nothing
<1>2. TypeOK
  BY <1>1, TimesAre DEF Init, TypeOK, Down
<1>3. Ordered /\ DownIsEmpty /\ Current
  BY TimesAre DEF Init, Ordered, DownIsEmpty, Current, Down
<1>4. AskedWhenDue /\ DialogHasItsNotification /\ ShownWhenDue
  BY <1>1 DEF Init, AskedWhenDue, DialogHasItsNotification, ShownWhenDue, Shows, Down
<1>5. PassedOf(Uids, config.lastChecked) = {}
  BY TimesAre DEF Init, PassedOf, Passed, Times
<1>6. NoReminderLost
  BY <1>5 DEF NoReminderLost
<1> QED
  BY <1>2, <1>3, <1>4, <1>6 DEF IInv

-----------------------------------------------------------------------------
(* The daemon comes and goes.                                              *)

\* Reminders restored from the configuration are hidden, and as they were stored.
LEMMA Restored ==
  ASSUME TypeOK
  PROVE  /\ RestoreSuspendedFromConfig \in Tables(Notification)
         /\ DOMAIN RestoreSuspendedFromConfig = DOMAIN config.suspended
         /\ \A u \in DOMAIN config.suspended :
              /\ Entry(RestoreSuspendedFromConfig[u]) = config.suspended[u]
              /\ ~RestoreSuspendedFromConfig[u].shown /\ ~RestoreSuspendedFromConfig[u].asking
<1>1. config.suspended \in [DOMAIN config.suspended -> Stored] /\ DOMAIN config.suspended \in SUBSET Uids
  BY TableHas DEF TypeOK
<1>2. \A e \in Stored : /\ AlarmNotification(e.remindAt, e.wasSuspended) \in Notification
                        /\ Entry(AlarmNotification(e.remindAt, e.wasSuspended)) = e
                        /\ ~AlarmNotification(e.remindAt, e.wasSuspended).shown
                        /\ ~AlarmNotification(e.remindAt, e.wasSuspended).asking
  BY DEF Stored, Notification, AlarmNotification, Entry, MaxMisses
<1>3. RestoreSuspendedFromConfig \in [DOMAIN config.suspended -> Notification]
  BY <1>1, <1>2 DEF RestoreSuspendedFromConfig
<1> QED
  BY <1>1, <1>2, <1>3, TableIs DEF RestoreSuspendedFromConfig

LEMMA StartInv == IInv /\ Start => IInv'
<1> SUFFICES ASSUME IInv, Start PROVE IInv'
  OBVIOUS
<1> USE DEF IInv
<1> DEFINE table == RestoreSuspendedFromConfig
<1>1. PICK status \in {"waiting", "up"} :
        client' = [status |-> status, lastChecked |-> config.lastChecked, dialogs |-> {},
                   notifications |-> table]
  BY DEF Start
<1>2. UNCHANGED <<now, alarms, calendar, config, past>>
  BY DEF Start
<1>3. /\ table \in Tables(Notification) /\ DOMAIN table = DOMAIN config.suspended
      /\ \A u \in DOMAIN table : Entry(table[u]) = config.suspended[u] /\ ~table[u].shown /\ ~table[u].asking
  BY Restored
<1> HIDE DEF table
<1>4. TypeOK'
  BY <1>1, <1>2, <1>3 DEF TypeOK
<1>5. Ordered' /\ DownIsEmpty' /\ Current'
  BY <1>1, <1>2, <1>3 DEF Ordered, DownIsEmpty, Current
<1>6. AskedWhenDue' /\ DialogHasItsNotification' /\ ShownWhenDue'
  BY <1>1, <1>3 DEF AskedWhenDue, DialogHasItsNotification, ShownWhenDue, Shows
<1>7. NoReminderLost'
  BY <1>2 DEF NoReminderLost, PassedOf, Passed
<1> QED
  BY <1>4, <1>5, <1>6, <1>7

LEMMA SetupInv == IInv /\ SetupAkonadi => IInv'
<1> SUFFICES ASSUME IInv, SetupAkonadi PROVE IInv'
  OBVIOUS
<1> USE DEF IInv
<1>1. client \in [status : {"down", "waiting", "up"}, lastChecked : Times,
                  notifications : Tables(Notification), dialogs : SUBSET Uids]
  BY DEF TypeOK
<1>2. /\ client' = [client EXCEPT !.status = "up"] /\ client.status = "waiting"
      /\ UNCHANGED <<now, alarms, calendar, config, past>>
  BY DEF SetupAkonadi
<1>3. /\ client'.status = "up" /\ client'.lastChecked = client.lastChecked
      /\ client'.notifications = client.notifications /\ client'.dialogs = client.dialogs
  BY <1>1, <1>2
<1>4. TypeOK'
  BY <1>1, <1>2 DEF TypeOK
<1>5. Ordered' /\ DownIsEmpty' /\ Current'
  BY <1>2, <1>3 DEF Ordered, DownIsEmpty, Current
<1>6. AskedWhenDue' /\ DialogHasItsNotification' /\ ShownWhenDue'
  BY <1>2, <1>3 DEF AskedWhenDue, DialogHasItsNotification, ShownWhenDue, Shows
<1>7. NoReminderLost'
  BY <1>2 DEF NoReminderLost, PassedOf, Passed
<1> QED
  BY <1>4, <1>5, <1>6, <1>7

\* A daemon that is killed keeps what was stored.
LEMMA DownInv ==
  ASSUME TypeOK', client' = Down, now' = now, Ordered, config'.lastChecked <= now, NoReminderLost'
  PROVE  IInv'
<1>1. DOMAIN Nothing = {}
  BY DEF Nothing
<1>2. client'.status = "down" /\ client'.lastChecked = 0 /\ client'.notifications = Nothing /\ client'.dialogs = {}
  BY DEF Down
<1>3. now' \in Nat
  BY TimesAre DEF TypeOK
<1>4. Ordered' /\ DownIsEmpty' /\ Current'
  BY <1>2, <1>3 DEF Ordered, DownIsEmpty, Current
<1>5. AskedWhenDue' /\ DialogHasItsNotification' /\ ShownWhenDue'
  BY <1>1, <1>2 DEF AskedWhenDue, DialogHasItsNotification, ShownWhenDue, Shows
<1> QED
  BY <1>4, <1>5 DEF IInv

LEMMA CrashInv == IInv /\ Crash => IInv'
<1> SUFFICES ASSUME IInv, Crash PROVE IInv'
  OBVIOUS
<1> USE DEF IInv
<1>1. client' = Down /\ UNCHANGED <<now, alarms, calendar, config, past>>
  BY DEF Crash
<1>2. Down \in [status : {"down", "waiting", "up"}, lastChecked : Times,
                notifications : Tables(Notification), dialogs : SUBSET Uids]
  BY NothingIs, TimesAre DEF Down
<1>3. TypeOK'
  BY <1>1, <1>2 DEF TypeOK
<1>4. NoReminderLost'
  BY <1>1 DEF NoReminderLost, PassedOf, Passed
<1>5. config'.lastChecked <= now
  BY <1>1 DEF Ordered
<1> QED
  BY <1>1, <1>3, <1>4, <1>5, DownInv

-----------------------------------------------------------------------------
(* The user.                                                               *)

LEMMA ClientIs ==
  ASSUME TypeOK
  PROVE  /\ client \in [status : {"down", "waiting", "up"}, lastChecked : Times,
                        notifications : Tables(Notification), dialogs : SUBSET Uids]
         /\ client.notifications \in [DOMAIN client.notifications -> Notification]
         /\ DOMAIN client.notifications \in SUBSET Uids
         /\ config.suspended \in [DOMAIN config.suspended -> Stored]
         /\ DOMAIN config.suspended \in SUBSET Uids
         /\ client.lastChecked \in Nat /\ config.lastChecked \in Nat /\ now \in Nat
BY TableHas, TimesAre DEF TypeOK

\* A daemon that shows something is not down.
LEMMA ShowsIsUp ==
  ASSUME IInv, NEW u \in Uids, u \in DOMAIN client.notifications
  PROVE  client.status # "down" /\ config.lastChecked = client.lastChecked /\ u \in DOMAIN config.suspended
<1>1. DOMAIN Nothing = {}
  BY DEF Nothing
<1>2. client.status # "down"
  BY <1>1 DEF IInv, DownIsEmpty, Down
<1> QED
  BY <1>2 DEF IInv, Current

LEMMA DismissInv == ASSUME IInv, NEW u \in Uids, Dismiss(u) PROVE IInv'
<1> USE DEF IInv
<1>1. /\ Shows(u) /\ u \in DOMAIN client.notifications
      /\ client' = [client EXCEPT !.notifications = Without(@, {u})]
      /\ config' = [config EXCEPT !.suspended = Without(@, {u})]
      /\ past' = [past EXCEPT !.settled = @ \cup Passed(u, client.lastChecked)]
      /\ UNCHANGED <<now, alarms, calendar>>
  BY DEF Dismiss, RemoveNotification, Shows
<1>2. client.status # "down" /\ config.lastChecked = client.lastChecked
  BY <1>1, ShowsIsUp
<1>3. TypeOK'
  <2>1. client' \in [status : {"down", "waiting", "up"}, lastChecked : Times,
                     notifications : Tables(Notification), dialogs : SUBSET Uids]
    BY <1>1, ClientIs, WithoutIs
  <2>2. config' \in [lastChecked : Times, suspended : Tables(Stored)]
    BY <1>1, WithoutIs DEF TypeOK
  <2>3. past' \in [settled : SUBSET Alarms, postponed : SUBSET Alarms]
    BY <1>1, PassedIs DEF TypeOK
  <2> QED
    BY <1>1, <2>1, <2>2, <2>3 DEF TypeOK
<1>4. /\ client'.status = client.status /\ client'.lastChecked = client.lastChecked
      /\ client'.dialogs = client.dialogs
      /\ client'.notifications = Without(client.notifications, {u})
      /\ config'.lastChecked = config.lastChecked
      /\ config'.suspended = Without(config.suspended, {u})
  BY <1>1, ClientIs DEF TypeOK
<1>5. Ordered' /\ DownIsEmpty'
  BY <1>1, <1>2, <1>4 DEF Ordered, DownIsEmpty
<1>6. Current'
  BY <1>2, <1>4 DEF Current, Without
<1>7. AskedWhenDue' /\ ShownWhenDue'
  BY <1>1, <1>4 DEF AskedWhenDue, ShownWhenDue, Shows, Without
<1>8. DialogHasItsNotification'
  BY <1>1, <1>4 DEF DialogHasItsNotification, Without, Shows
<1>9. NoReminderLost'
  <2> SUFFICES ASSUME NEW a \in PassedOf(Uids, config.lastChecked)', a \notin past'.settled
               PROVE  /\ a[1] \in DOMAIN config'.suspended
                      /\ config'.suspended[a[1]].remindAt <= config'.lastChecked \/ a \in past'.postponed
    BY DEF NoReminderLost
  <2>1. PICK v \in Uids : a \in Passed(v, config.lastChecked)
    BY <1>1, <1>4 DEF PassedOf, Passed
  <2>2. a[1] = v
    BY <2>1 DEF Passed
  <2>3. past'.settled = past.settled \cup Passed(u, client.lastChecked) /\ past'.postponed = past.postponed
    BY <1>1 DEF TypeOK
  <2>4. v # u
    BY <1>2, <2>1, <2>3
  <2>5. a \in PassedOf(Uids, config.lastChecked) \ past.settled
    BY <2>1, <2>3 DEF PassedOf
  <2>6. /\ v \in DOMAIN config.suspended
        /\ config.suspended[v].remindAt <= config.lastChecked \/ a \in past.postponed
    BY <2>2, <2>5 DEF NoReminderLost
  <2> QED
    BY <1>4, <2>2, <2>3, <2>4, <2>6 DEF Without
<1> QED
  BY <1>3, <1>5, <1>6, <1>7, <1>8, <1>9

\* A reminder that is on the screen, or whose dialog is open, is suspended.
LEMMA SuspendInv ==
  ASSUME IInv, NEW u \in Uids, u \in DOMAIN client.notifications, NEW delay \in Nat, delay <= MaxDelay,
         NEW dialogs \in SUBSET client.dialogs, u \notin dialogs, Suspend(u, delay, dialogs)
  PROVE  IInv'
<1> USE DEF IInv
<1> DEFINE n == [client.notifications[u] EXCEPT !.remindAt = now + delay, !.wasSuspended = TRUE,
                                                !.shown = FALSE, !.asking = FALSE]
<1>1. /\ client' = [client EXCEPT !.notifications[u] = n, !.dialogs = dialogs]
      /\ config' = [config EXCEPT !.suspended = Set(@, u, Entry(n))]
      /\ past' = [past EXCEPT !.postponed = @ \cup Passed(u, client.lastChecked)]
      /\ UNCHANGED <<now, alarms, calendar>>
  BY DEF Suspend
<1>2. client.status # "down" /\ config.lastChecked = client.lastChecked /\ u \in DOMAIN config.suspended
  BY ShowsIsUp
<1>3. n \in Notification /\ n.remindAt = now + delay /\ ~n.shown /\ ~n.asking
  <2>1. now + delay \in Remind
    BY BoundsAssumption DEF TypeOK, Times, Remind
  <2>2. client.notifications[u] \in Notification
    BY ClientIs
  <2> QED
    BY <2>1, <2>2 DEF Notification
<1> HIDE DEF n
<1>4. [client.notifications EXCEPT ![u] = n] \in Tables(Notification)
  BY <1>3, ClientIs, TableIs
<1>5. /\ client'.status = client.status /\ client'.lastChecked = client.lastChecked
      /\ client'.dialogs = dialogs
      /\ client'.notifications = [client.notifications EXCEPT ![u] = n]
      /\ config'.lastChecked = config.lastChecked
      /\ config'.suspended = Set(config.suspended, u, Entry(n))
      /\ past'.settled = past.settled /\ past'.postponed = past.postponed \cup Passed(u, client.lastChecked)
  BY <1>1, ClientIs DEF TypeOK
<1>6. TypeOK'
  <2>1. client' \in [status : {"down", "waiting", "up"}, lastChecked : Times,
                     notifications : Tables(Notification), dialogs : SUBSET Uids]
    BY <1>1, <1>4, ClientIs
  <2>2. config' \in [lastChecked : Times, suspended : Tables(Stored)]
    BY <1>1, <1>3, SetIs, EntryIs DEF TypeOK
  <2>3. past' \in [settled : SUBSET Alarms, postponed : SUBSET Alarms]
    BY <1>1, PassedIs DEF TypeOK
  <2> QED
    BY <1>1, <2>1, <2>2, <2>3 DEF TypeOK
<1>7. Ordered' /\ DownIsEmpty'
  BY <1>1, <1>2, <1>5 DEF Ordered, DownIsEmpty
<1>8. Current'
  BY <1>2, <1>5, ClientIs DEF Current, Set
<1>9. AskedWhenDue' /\ ShownWhenDue' /\ DialogHasItsNotification'
  BY <1>1, <1>3, <1>5, ClientIs DEF AskedWhenDue, ShownWhenDue, DialogHasItsNotification, Shows
<1>10. NoReminderLost'
  <2> SUFFICES ASSUME NEW a \in PassedOf(Uids, config.lastChecked)', a \notin past'.settled
               PROVE  /\ a[1] \in DOMAIN config'.suspended
                      /\ config'.suspended[a[1]].remindAt <= config'.lastChecked \/ a \in past'.postponed
    BY DEF NoReminderLost
  <2>1. PICK v \in Uids : a \in Passed(v, config.lastChecked)
    BY <1>1, <1>5 DEF PassedOf, Passed
  <2>2. a[1] = v
    BY <2>1 DEF Passed
  <2>3. /\ v \in DOMAIN config.suspended
        /\ config.suspended[v].remindAt <= config.lastChecked \/ a \in past.postponed
    BY <1>5, <2>1, <2>2 DEF NoReminderLost, PassedOf
  <2>4. CASE v = u
    BY <1>2, <1>5, <2>1, <2>2, <2>4 DEF Set
  <2>5. CASE v # u
    BY <1>5, <2>2, <2>3, <2>5 DEF Set
  <2> QED
    BY <2>4, <2>5
<1> QED
  BY <1>6, <1>7, <1>8, <1>9, <1>10

\* Only the notifications and the dialogs change, as long as the entries do not.
LEMMA ScreenInv ==
  ASSUME IInv, UNCHANGED <<now, alarms, calendar, config, past>>, NEW table \in Tables(Notification),
         NEW dialogs \in SUBSET Uids,
         client' = [client EXCEPT !.notifications = table, !.dialogs = dialogs],
         DOMAIN table = DOMAIN client.notifications,
         \A u \in DOMAIN table :
           /\ Entry(table[u]) = Entry(client.notifications[u])
           /\ table[u].asking \/ table[u].shown =>
                client.notifications[u].asking \/ client.notifications[u].shown,
         \A u \in dialogs : u \in DOMAIN table /\ table[u].asking /\ ~table[u].shown
  PROVE  IInv'
<1> USE DEF IInv
<1>1. /\ client'.status = client.status /\ client'.lastChecked = client.lastChecked
      /\ client'.dialogs = dialogs /\ client'.notifications = table
  BY ClientIs
<1>2. TypeOK'
  BY ClientIs DEF TypeOK
<1>3. Ordered'
  BY <1>1 DEF Ordered
<1>4. DownIsEmpty'
  <2> SUFFICES ASSUME client'.status = "down" PROVE client' = Down
    BY DEF DownIsEmpty
  <2>1. client = Down
    BY <1>1 DEF DownIsEmpty
  <2>2. DOMAIN table = {} /\ dialogs = {}
    BY <2>1 DEF Down, Nothing
  <2>3. table = Nothing
    BY <2>2, TableHas DEF Nothing
  <2> QED
    BY <2>1, <2>2, <2>3 DEF Down
<1>5. Current'
  BY <1>1 DEF Current
<1>6. \A u \in DOMAIN table : table[u].remindAt = client.notifications[u].remindAt
  BY DEF Entry
<1>7. AskedWhenDue' /\ ShownWhenDue'
  <2>1. \A u \in DOMAIN table : client.notifications[u].asking \/ client.notifications[u].shown
                               => client.notifications[u].remindAt <= now
    BY ClientIs DEF AskedWhenDue, ShownWhenDue, Shows
  <2> QED
    BY <1>1, <1>6, <2>1 DEF AskedWhenDue, ShownWhenDue, Shows
<1>8. DialogHasItsNotification'
  BY <1>1 DEF DialogHasItsNotification
<1>9. NoReminderLost'
  BY DEF NoReminderLost, PassedOf, Passed
<1> QED
  BY <1>2, <1>3, <1>4, <1>5, <1>7, <1>8, <1>9

LEMMA RemindLaterInv == ASSUME IInv, NEW u \in Uids, RemindLater(u) PROVE IInv'
<1> DEFINE n == [client.notifications[u] EXCEPT !.shown = FALSE, !.asking = TRUE]
<1> DEFINE table == [client.notifications EXCEPT ![u] = n]
<1>1. u \in DOMAIN client.notifications /\ client.notifications[u].shown
  BY DEF RemindLater, Shows
<1>2. TypeOK /\ DialogHasItsNotification
  BY DEF IInv
<1>3. client.notifications[u] \in Notification
  BY <1>1, <1>2, ClientIs
<1>4. n \in Notification /\ n.asking /\ ~n.shown /\ Entry(n) = Entry(client.notifications[u])
  BY <1>3 DEF Notification, Entry
<1>5. table \in Tables(Notification) /\ DOMAIN table = DOMAIN client.notifications
  BY <1>2, <1>4, ClientIs, TableIs
<1>6. client' = [client EXCEPT !.notifications = table, !.dialogs = client.dialogs \cup {u}]
  BY <1>2, ClientIs DEF RemindLater
<1>7. UNCHANGED <<now, alarms, calendar, config, past>>
  BY DEF RemindLater
<1>8. \A v \in DOMAIN table :
        /\ Entry(table[v]) = Entry(client.notifications[v])
        /\ table[v].asking \/ table[v].shown =>
             client.notifications[v].asking \/ client.notifications[v].shown
  BY <1>1, <1>4, <1>2, ClientIs
<1>9. \A v \in client.dialogs \cup {u} : v \in DOMAIN table /\ table[v].asking /\ ~table[v].shown
  BY <1>1, <1>4, <1>2, ClientIs DEF DialogHasItsNotification
<1>10. client.dialogs \cup {u} \in SUBSET Uids
  BY <1>2, ClientIs
<1> HIDE DEF table
<1> QED
  BY <1>5, <1>6, <1>7, <1>8, <1>9, <1>10, ScreenInv

LEMMA CancelInv == ASSUME IInv, NEW u \in Uids, CancelRequested(u) PROVE IInv'
<1> DEFINE n == Send([client.notifications[u] EXCEPT !.asking = FALSE])
<1> DEFINE table == [client.notifications EXCEPT ![u] = n]
<1>1. TypeOK /\ DialogHasItsNotification
  BY DEF IInv
<1>2. u \in client.dialogs /\ u \in DOMAIN client.notifications /\ client.notifications[u].asking
  BY <1>1 DEF CancelRequested, DialogHasItsNotification
<1>3. client.notifications[u] \in Notification
  BY <1>1, <1>2, ClientIs
<1>4. n \in Notification /\ Entry(n) = Entry(client.notifications[u])
  <2> DEFINE m == [client.notifications[u] EXCEPT !.asking = FALSE]
  <2>1. m \in Notification /\ Entry(m) = Entry(client.notifications[u])
    BY <1>3 DEF Notification, Entry
  <2> HIDE DEF m
  <2>2. Send(m) \in Notification /\ Entry(Send(m)) = Entry(m)
    BY <2>1, SendIs
  <2> QED
    BY <2>1, <2>2 DEF m
<1>5. table \in Tables(Notification) /\ DOMAIN table = DOMAIN client.notifications
  BY <1>1, <1>4, ClientIs, TableIs
<1>6. client' = [client EXCEPT !.notifications = table, !.dialogs = client.dialogs \ {u}]
  BY <1>1, ClientIs DEF CancelRequested
<1>7. UNCHANGED <<now, alarms, calendar, config, past>>
  BY DEF CancelRequested
<1>8. \A v \in DOMAIN table :
        /\ Entry(table[v]) = Entry(client.notifications[v])
        /\ table[v].asking \/ table[v].shown =>
             client.notifications[v].asking \/ client.notifications[v].shown
  BY <1>1, <1>2, <1>4, ClientIs
<1>9. \A v \in client.dialogs \ {u} : v \in DOMAIN table /\ table[v].asking /\ ~table[v].shown
  BY <1>1, ClientIs DEF DialogHasItsNotification
<1>10. client.dialogs \ {u} \in SUBSET Uids
  BY <1>1, ClientIs
<1> HIDE DEF table
<1> QED
  BY <1>5, <1>6, <1>7, <1>8, <1>9, <1>10, ScreenInv

LEMMA ClosedInv == ASSUME IInv, NEW u \in Uids, DialogClosed(u) PROVE IInv'
<1>1. TypeOK /\ DialogHasItsNotification
  BY DEF IInv
<1>2. client' = [client EXCEPT !.notifications = client.notifications, !.dialogs = client.dialogs \ {u}]
  BY <1>1, ClientIs DEF DialogClosed
<1>3. UNCHANGED <<now, alarms, calendar, config, past>>
  BY DEF DialogClosed
<1>4. client.notifications \in Tables(Notification) /\ client.dialogs \ {u} \in SUBSET Uids
  BY <1>1, ClientIs
<1>5. \A v \in client.dialogs \ {u} :
        v \in DOMAIN client.notifications /\ client.notifications[v].asking /\ ~client.notifications[v].shown
  BY <1>1 DEF DialogHasItsNotification
<1> QED
  BY <1>2, <1>3, <1>4, <1>5, ScreenInv

-----------------------------------------------------------------------------
(* A check.                                                                *)

\* What a check finds is added, or moved to now if it was to come later; nothing
\* else about a reminder changes.
LEMMA AddedIs ==
  ASSUME IInv
  PROVE  /\ Added \in Tables(Notification) /\ Added \in [DOMAIN Added -> Notification]
         /\ DOMAIN Added = DOMAIN client.notifications \cup Found
         /\ DOMAIN Added \subseteq Uids /\ Renewed \subseteq DOMAIN Added
         /\ \A u \in DOMAIN Added \ Renewed :
              u \in DOMAIN client.notifications /\ Added[u] = client.notifications[u]
         /\ \A u \in Renewed :
              /\ Added[u].remindAt = now
              /\ u \in DOMAIN client.notifications =>
                   /\ client.notifications[u].remindAt >= now
                   /\ Added[u].asking = client.notifications[u].asking
                   /\ Added[u].shown = client.notifications[u].shown
              /\ u \notin DOMAIN client.notifications => ~Added[u].asking /\ ~Added[u].shown
<1> DEFINE table == client.notifications
<1>1. TypeOK
  BY DEF IInv
<1>2. table \in [DOMAIN table -> Notification] /\ DOMAIN table \in SUBSET Uids /\ now \in Remind /\ now \in Nat
  BY <1>1, ClientIs, TimesAre DEF TypeOK
<1>3. Found \subseteq Uids
  BY <1>1 DEF Found, TypeOK
<1>4. \A u \in Found : /\ Rescheduled(table, u, now) \in Notification
                       /\ Rescheduled(table, u, now).remindAt = now
                       /\ u \in DOMAIN table => /\ Rescheduled(table, u, now).asking = table[u].asking
                                                /\ Rescheduled(table, u, now).shown = table[u].shown
                       /\ u \notin DOMAIN table => /\ ~Rescheduled(table, u, now).asking
                                                   /\ ~Rescheduled(table, u, now).shown
  <2> SUFFICES ASSUME NEW u \in Found
               PROVE  /\ Rescheduled(table, u, now) \in Notification
                      /\ Rescheduled(table, u, now).remindAt = now
                      /\ u \in DOMAIN table => /\ Rescheduled(table, u, now).asking = table[u].asking
                                               /\ Rescheduled(table, u, now).shown = table[u].shown
                      /\ u \notin DOMAIN table => /\ ~Rescheduled(table, u, now).asking
                                                  /\ ~Rescheduled(table, u, now).shown
    OBVIOUS
  <2>1. CASE u \in DOMAIN table
    <3>1. table[u] \in Notification
      BY <1>2, <2>1
    <3>2. Rescheduled(table, u, now) = [table[u] EXCEPT !.remindAt = now, !.wasSuspended = FALSE]
      BY <2>1 DEF Rescheduled
    <3> HIDE DEF table
    <3> QED
      BY <1>2, <2>1, <3>1, <3>2 DEF Notification
  <2>2. CASE u \notin DOMAIN table
    <3>1. Rescheduled(table, u, now) = AlarmNotification(now, FALSE)
      BY <2>2 DEF Rescheduled
    <3>2. 0 \in 0 .. MaxMisses - 1
      BY DEF MaxMisses
    <3>3. AlarmNotification(now, FALSE) \in Notification
      BY <1>2, <3>2 DEF AlarmNotification, Notification
    <3>4. /\ AlarmNotification(now, FALSE).remindAt = now
          /\ ~AlarmNotification(now, FALSE).asking /\ ~AlarmNotification(now, FALSE).shown
      BY DEF AlarmNotification
    <3> HIDE DEF table
    <3> QED
      BY <2>2, <3>1, <3>3, <3>4
  <2> QED
    BY <2>1, <2>2
<1>5. Added \in [DOMAIN table \cup Found -> Notification]
  BY <1>2, <1>4 DEF Added, Replaces
<1>6. \A u \in Renewed : u \in Found /\ Added[u] = Rescheduled(table, u, now)
  BY DEF Renewed, Added
<1>7. \A u \in DOMAIN Added \ Renewed : u \in DOMAIN table /\ Added[u] = table[u]
  BY <1>5 DEF Renewed, Added, Replaces
<1>8. \A u \in Renewed : u \in DOMAIN table => table[u].remindAt >= now
  <2> SUFFICES ASSUME NEW u \in Renewed, u \in DOMAIN table PROVE table[u].remindAt >= now
    OBVIOUS
  <2>1. ~(table[u].remindAt < now)
    BY DEF Renewed, Replaces
  <2>2. table[u].remindAt \in Nat
    BY <1>2, TimesAre DEF Notification
  <2> QED
    BY <1>2, <2>1, <2>2
<1>9. Added \in Tables(Notification) /\ Renewed \subseteq DOMAIN Added /\ DOMAIN Added \subseteq Uids
  BY <1>2, <1>3, <1>5, <1>6, TableIs
<1> QED
  BY <1>4, <1>5, <1>6, <1>7, <1>8, <1>9

\* A check shows only what is due, and touches nothing the user is asked about.
LEMMA ExecutedIs ==
  ASSUME IInv, NEW u, NEW n \in Notification
  PROVE  /\ Executed(u, n).missed # MaxMisses => Executed(u, n) \in Notification
         /\ Entry(Executed(u, n)) = Entry(n) /\ Executed(u, n).remindAt = n.remindAt
         /\ Executed(u, n).asking = n.asking
         /\ n.asking => Executed(u, n) = n
         /\ Executed(u, n).shown /\ ~n.shown => n.remindAt <= now
         /\ n.missed # MaxMisses
<1>1. n.missed \in 0 .. MaxMisses - 1 /\ MaxMisses = 5 /\ n.missed # MaxMisses
  BY DEF Notification, MaxMisses
<1>2. CASE ~Active(n)
  <2>1. Executed(u, n) = n
    BY <1>2 DEF Executed
  <2> QED
    BY <1>1, <2>1
<1>3. CASE Active(n) /\ u \in calendar.present
  <2>1. Executed(u, n) = Send(n)
    BY <1>3 DEF Executed
  <2>2. n.remindAt <= now /\ ~n.asking
    BY <1>3 DEF Active
  <2> QED
    BY <1>1, <2>1, <2>2, SendIs
<1>4. CASE Active(n) /\ u \notin calendar.present
  <2>1. n.remindAt <= now /\ ~n.asking
    BY <1>4 DEF Active
  <2>2. CASE calendar.loading
    BY <1>1, <1>4, <2>1, <2>2 DEF Executed
  <2>3. CASE ~calendar.loading
    <3>1. Executed(u, n) = [n EXCEPT !.missed = @ + 1]
      BY <1>4, <2>3 DEF Executed
    <3>2. Executed(u, n).missed = n.missed + 1
      BY <3>1 DEF Notification
    <3>3. Executed(u, n).missed # MaxMisses => Executed(u, n).missed \in 0 .. MaxMisses - 1
      BY <1>1, <3>2
    <3>4. /\ Executed(u, n).remindAt = n.remindAt /\ Executed(u, n).asking = n.asking
          /\ Executed(u, n).shown = n.shown /\ Entry(Executed(u, n)) = Entry(n)
      BY <3>1 DEF Notification, Entry
    <3>5. Executed(u, n).missed # MaxMisses => Executed(u, n) \in Notification
      BY <3>1, <3>3 DEF Notification
    <3> QED
      BY <1>1, <2>1, <3>4, <3>5
  <2> QED
    BY <2>2, <2>3
<1> QED
  BY <1>2, <1>3, <1>4

\* What is stored in a check is what is remembered.
LEMMA StoredIs ==
  ASSUME IInv, client.status = "up", NEW stored \in SUBSET Renewed
  PROVE  /\ StoreNotifications(config.suspended, Added, stored) \in Tables(Stored)
         /\ \A u \in DOMAIN StoreNotifications(config.suspended, Added, stored) :
              /\ u \in stored => StoreNotifications(config.suspended, Added, stored)[u].remindAt = now
              /\ u \notin stored =>
                   /\ u \in DOMAIN config.suspended
                   /\ StoreNotifications(config.suspended, Added, stored)[u] = config.suspended[u]
         /\ DOMAIN StoreNotifications(config.suspended, Added, stored) = DOMAIN config.suspended \cup stored
<1>1. /\ Added \in Tables(Notification) /\ stored \in SUBSET DOMAIN Added
      /\ \A u \in stored : Added[u].remindAt = now
  BY AddedIs
<1>2. config.suspended \in Tables(Stored)
  BY DEF IInv, TypeOK
<1>3. StoreNotifications(config.suspended, Added, stored) \in Tables(Stored)
  BY <1>1, <1>2, StoreIs
<1> QED
  BY <1>1, <1>3 DEF StoreNotifications, Entry

\* An alarm that is passed and not settled is stored, to come up by now or postponed;
\* one that the check goes past is found or overlooked.
LEMMA CheckInv == IInv /\ CheckAlarms => IInv'
<1> SUFFICES ASSUME IInv, CheckAlarms PROVE IInv'
  OBVIOUS
<1> DEFINE E == [u \in DOMAIN Added |-> Executed(u, Added[u])]
<1> DEFINE stored == StoreNotifications(config.suspended, Added, Renewed)
<1>1. /\ client.status = "up"
      /\ client' = [client EXCEPT !.lastChecked = now, !.notifications = Without(E, Missed)]
      /\ config' = [lastChecked |-> now, suspended |-> Without(stored, Missed)]
      /\ past' = [past EXCEPT !.settled = @ \cup Overlooked \cup PassedOf(Missed, now)]
      /\ UNCHANGED <<now, alarms, calendar>>
  BY DEF CheckAlarms
<1>2. TypeOK /\ Current /\ DialogHasItsNotification /\ ShownWhenDue /\ AskedWhenDue /\ NoReminderLost /\ Ordered
  BY DEF IInv
<1>3. config.lastChecked = client.lastChecked /\ DOMAIN config.suspended = DOMAIN client.notifications
  BY <1>1, <1>2 DEF Current
<1>4. Missed \subseteq DOMAIN Added /\ \A u \in DOMAIN Added : u \in Missed <=> Executed(u, Added[u]).missed = MaxMisses
  BY DEF Missed
<1>5. \A u \in DOMAIN Added : Added[u] \in Notification
  BY AddedIs
<1>6. Without(E, Missed) \in Tables(Notification)
  <2>1. DOMAIN E = DOMAIN Added /\ \A u \in DOMAIN Added \ Missed : E[u] \in Notification
    BY <1>4, <1>5, ExecutedIs
  <2>2. Without(E, Missed) \in [DOMAIN Added \ Missed -> Notification]
    BY <2>1 DEF Without
  <2>3. DOMAIN Added \ Missed \in SUBSET Uids
    BY AddedIs
  <2> QED
    BY <2>2, <2>3, TableIs
<1>7. stored \in Tables(Stored) /\ DOMAIN stored = DOMAIN Added
      /\ \A u \in DOMAIN stored : /\ u \in Renewed => stored[u].remindAt = now
                                  /\ u \notin Renewed => u \in DOMAIN config.suspended /\ stored[u] = config.suspended[u]
  <2>1. DOMAIN Added = DOMAIN config.suspended \cup Renewed
    BY <1>3, AddedIs
  <2> QED
    BY <1>1, <2>1, StoredIs
<1>8. \A u \in DOMAIN Added : stored[u] = Entry(Executed(u, Added[u]))
  <2> SUFFICES ASSUME NEW u \in DOMAIN Added PROVE stored[u] = Entry(Added[u])
    BY <1>5, ExecutedIs
  <2>1. CASE u \in Renewed
    BY <1>7, <2>1 DEF StoreNotifications
  <2>2. CASE u \notin Renewed
    BY <1>1, <1>2, <1>3, <1>7, <2>2, AddedIs DEF Current
  <2> QED
    BY <2>1, <2>2
<1> HIDE DEF stored
<1>9. /\ client'.status = "up" /\ client'.lastChecked = now /\ client'.dialogs = client.dialogs
      /\ client'.notifications = Without(E, Missed)
      /\ config'.lastChecked = now /\ config'.suspended = Without(stored, Missed)
      /\ past'.postponed = past.postponed
      /\ past'.settled = past.settled \cup Overlooked \cup PassedOf(Missed, now)
  BY <1>1, <1>2, ClientIs DEF TypeOK
<1>10. DOMAIN E = DOMAIN Added /\ \A u \in DOMAIN Added : E[u] = Executed(u, Added[u])
  OBVIOUS
<1> HIDE DEF E
<1>11. TypeOK'
  <2>1. client' \in [status : {"down", "waiting", "up"}, lastChecked : Times,
                     notifications : Tables(Notification), dialogs : SUBSET Uids]
    BY <1>1, <1>2, <1>6, ClientIs DEF TypeOK
  <2>2. config' \in [lastChecked : Times, suspended : Tables(Stored)]
    BY <1>1, <1>2, <1>7, WithoutIs DEF TypeOK
  <2>3. Overlooked \subseteq Alarms /\ PassedOf(Missed, now) \subseteq Alarms
    <3>1. \A u \in Uids : Passed(u, now) \subseteq Alarms
      BY <1>2, PassedIs
    <3>2. Missed \subseteq Uids
      BY <1>4, AddedIs
    <3> QED
      BY <3>1, <3>2 DEF Overlooked, PassedOf
  <2>4. past' \in [settled : SUBSET Alarms, postponed : SUBSET Alarms]
    BY <1>1, <1>2, <2>3 DEF TypeOK
  <2> QED
    BY <1>1, <1>2, <2>1, <2>2, <2>4 DEF TypeOK
<1>12. Ordered' /\ DownIsEmpty'
  BY <1>1, <1>2, <1>9, ClientIs DEF Ordered, DownIsEmpty
<1>13. Current'
  BY <1>7, <1>8, <1>9, <1>10 DEF Current, Without
<1>14. \A u \in DOMAIN Added : E[u].asking => E[u].remindAt <= now
  <2> SUFFICES ASSUME NEW u \in DOMAIN Added, E[u].asking PROVE E[u].remindAt <= now
    OBVIOUS
  <2>1. Added[u].asking /\ E[u].remindAt = Added[u].remindAt
    BY <1>5, <1>10, ExecutedIs
  <2>2. CASE u \in Renewed
    BY <1>2, <2>1, <2>2, AddedIs, ClientIs
  <2>3. CASE u \notin Renewed
    BY <1>2, <2>1, <2>3, AddedIs DEF AskedWhenDue
  <2> QED
    BY <2>2, <2>3
<1>15. \A u \in DOMAIN Added : E[u].shown => E[u].remindAt <= now
  <2> SUFFICES ASSUME NEW u \in DOMAIN Added, E[u].shown PROVE E[u].remindAt <= now
    OBVIOUS
  <2>1. E[u].remindAt = Added[u].remindAt /\ (~Added[u].shown => Added[u].remindAt <= now)
    BY <1>5, <1>10, ExecutedIs
  <2>2. CASE u \in Renewed
    BY <1>2, <2>1, <2>2, AddedIs, ClientIs
  <2>3. CASE u \notin Renewed
    BY <1>2, <2>1, <2>3, AddedIs DEF ShownWhenDue, Shows
  <2> QED
    BY <2>2, <2>3
<1>16. AskedWhenDue' /\ ShownWhenDue'
  BY <1>1, <1>9, <1>10, <1>14, <1>15 DEF AskedWhenDue, ShownWhenDue, Shows, Without
<1>17. DialogHasItsNotification'
  <2> SUFFICES ASSUME NEW u \in client.dialogs
               PROVE  u \in DOMAIN Added \ Missed /\ E[u].asking /\ ~E[u].shown
    BY <1>9, <1>10 DEF DialogHasItsNotification, Without
  <2>1. u \in DOMAIN client.notifications /\ client.notifications[u].asking /\ ~client.notifications[u].shown
    BY <1>2 DEF DialogHasItsNotification
  <2>2. u \in DOMAIN Added /\ Added[u].asking /\ ~Added[u].shown
    <3>1. CASE u \in Renewed
      BY <2>1, <3>1, AddedIs
    <3>2. CASE u \notin Renewed
      BY <2>1, <3>2, AddedIs
    <3> QED
      BY <3>1, <3>2
  <2>3. Executed(u, Added[u]) = Added[u] /\ Added[u].missed # MaxMisses
    BY <1>5, <2>2, ExecutedIs
  <2> QED
    BY <1>4, <1>10, <2>2, <2>3
<1>18. NoReminderLost'
  <2> SUFFICES ASSUME NEW a \in PassedOf(Uids, config.lastChecked)', a \notin past'.settled
               PROVE  /\ a[1] \in DOMAIN config'.suspended
                      /\ config'.suspended[a[1]].remindAt <= config'.lastChecked \/ a \in past'.postponed
    BY DEF NoReminderLost
  <2>1. PICK u \in Uids : a \in Passed(u, now)
    BY <1>1, <1>9 DEF PassedOf, Passed
  <2>2. PICK t \in alarms[u] : a = <<u, t>> /\ t <= now
    BY <2>1 DEF Passed
  <2>3. u \notin Missed
    BY <1>9, <2>1 DEF PassedOf
  <2>4. t \in Nat /\ now \in Nat /\ client.lastChecked \in Nat /\ client.lastChecked <= now
    BY <1>2, <2>2, ClientIs, TimesAre DEF TypeOK, Ordered
  <2>5. CASE t <= client.lastChecked
    <3>1. a \in PassedOf(Uids, config.lastChecked) \ past.settled
      BY <1>3, <1>9, <2>2, <2>5 DEF PassedOf, Passed
    <3>2. /\ u \in DOMAIN config.suspended
          /\ config.suspended[u].remindAt <= client.lastChecked \/ a \in past.postponed
      BY <1>2, <1>3, <2>2, <3>1 DEF NoReminderLost
    <3>3. u \in DOMAIN stored /\ (stored[u].remindAt <= now \/ a \in past.postponed)
      <4>1. u \in DOMAIN stored
        BY <1>3, <1>7, <3>2, AddedIs
      <4>2. CASE u \in Renewed
        BY <1>7, <2>4, <4>1, <4>2
      <4>3. CASE u \notin Renewed
        <5>1. config.suspended[u].remindAt \in Nat
          BY <1>2, <3>2, ClientIs, TimesAre DEF Stored
        <5> QED
          BY <1>7, <2>4, <3>2, <4>1, <4>3, <5>1
      <4> QED
        BY <4>2, <4>3
    <3> QED
      BY <1>9, <2>2, <2>3, <3>3 DEF Without
  <2>6. CASE ~(t <= client.lastChecked)
    <3>1. client.lastChecked < t
      BY <2>4, <2>6
    <3>2. u \in calendar.present
      <4> SUFFICES ASSUME u \notin calendar.present PROVE FALSE
        OBVIOUS
      <4>1. a \in Overlooked
        BY <2>1, <2>2, <2>4, <3>1 DEF Overlooked, PassedOf
      <4> QED
        BY <1>9, <4>1
    <3>3. u \in Found
      BY <2>2, <3>1, <3>2 DEF Found
    <3>4. u \in DOMAIN stored
      BY <1>7, <3>3, AddedIs
    <3>5. stored[u].remindAt <= now
      <4>1. CASE u \in Renewed
        BY <1>7, <2>4, <3>4, <4>1
      <4>2. CASE u \notin Renewed
        <5>1. u \in DOMAIN client.notifications /\ client.notifications[u].remindAt < now
          BY <3>3, <4>2 DEF Renewed, Replaces
        <5>2. stored[u].remindAt = client.notifications[u].remindAt
          <6>1. u \in DOMAIN config.suspended /\ stored[u] = config.suspended[u]
            BY <1>7, <3>4, <4>2
          <6>2. config.suspended[u] = Entry(client.notifications[u])
            BY <1>1, <1>2, <6>1 DEF Current
          <6> QED
            BY <6>1, <6>2 DEF Entry
        <5>3. client.notifications[u].remindAt \in Nat
          BY <1>2, <5>1, ClientIs, TimesAre DEF Notification
        <5> QED
          BY <2>4, <5>1, <5>2, <5>3
      <4> QED
        BY <4>1, <4>2
    <3> QED
      BY <1>9, <2>2, <2>3, <3>4, <3>5 DEF Without
  <2> QED
    BY <2>5, <2>6
<1> QED
  BY <1>11, <1>12, <1>13, <1>16, <1>17, <1>18 DEF IInv

\* A daemon killed in a check has stored some of what it found, or has dismissed some
\* of those whose incidence is gone; the time of the check is not stored.
LEMMA KilledInv == IInv /\ KilledDuringCheck => IInv'
<1> SUFFICES ASSUME IInv, KilledDuringCheck PROVE IInv'
  OBVIOUS
<1>1. client.status = "up" /\ client' = Down /\ UNCHANGED <<now, alarms, calendar>>
  BY DEF KilledDuringCheck
<1>2. TypeOK /\ Current /\ NoReminderLost /\ Ordered
  BY DEF IInv
<1>3. config.lastChecked = client.lastChecked /\ DOMAIN config.suspended = DOMAIN client.notifications
  BY <1>1, <1>2 DEF Current
<1>4. PICK written \in SUBSET Renewed, gone \in SUBSET Missed :
        /\ config' = [config EXCEPT !.suspended =
                        Without(StoreNotifications(config.suspended, Added, written), gone)]
        /\ past' = [past EXCEPT !.settled = @ \cup PassedOf(gone, now)]
  <2>1. CASE /\ \E written \in SUBSET Renewed :
                  config' = [config EXCEPT !.suspended = StoreNotifications(@, Added, written)]
             /\ UNCHANGED past
    <3>1. PICK written \in SUBSET Renewed :
            config' = [config EXCEPT !.suspended = StoreNotifications(@, Added, written)]
      BY <2>1
    <3>2. Without(StoreNotifications(config.suspended, Added, written), {})
            = StoreNotifications(config.suspended, Added, written)
      BY DEF Without, StoreNotifications
    <3>3. past' = [past EXCEPT !.settled = @ \cup PassedOf({}, now)]
      BY <1>2, <2>1 DEF PassedOf, TypeOK
    <3> QED
      BY <3>1, <3>2, <3>3
  <2>2. CASE \E gone \in SUBSET Missed :
               /\ config' = [config EXCEPT !.suspended = Without(StoreNotifications(@, Added, Renewed), gone)]
               /\ past' = [past EXCEPT !.settled = @ \cup PassedOf(gone, now)]
    BY <2>2
  <2> QED
    BY <2>1, <2>2 DEF KilledDuringCheck
<1> DEFINE stored == StoreNotifications(config.suspended, Added, written)
<1>5. /\ stored \in Tables(Stored) /\ DOMAIN stored = DOMAIN config.suspended \cup written
      /\ \A u \in DOMAIN stored : /\ u \in written => stored[u].remindAt = now
                                  /\ u \notin written => u \in DOMAIN config.suspended /\ stored[u] = config.suspended[u]
  BY <1>1, StoredIs
<1> HIDE DEF stored
<1>6. /\ config'.lastChecked = config.lastChecked /\ config'.suspended = Without(stored, gone)
      /\ past'.postponed = past.postponed /\ past'.settled = past.settled \cup PassedOf(gone, now)
  BY <1>2, <1>4 DEF TypeOK, stored
<1>7. TypeOK'
  <2>1. Down \in [status : {"down", "waiting", "up"}, lastChecked : Times,
                  notifications : Tables(Notification), dialogs : SUBSET Uids]
    BY NothingIs, TimesAre DEF Down
  <2>2. config' \in [lastChecked : Times, suspended : Tables(Stored)]
    BY <1>2, <1>4, <1>5, WithoutIs DEF TypeOK, stored
  <2>3. PassedOf(gone, now) \subseteq Alarms
    <3>1. gone \subseteq Uids
      BY AddedIs DEF Missed
    <3> QED
      BY <1>2, <3>1, PassedIs DEF PassedOf
  <2>4. past' \in [settled : SUBSET Alarms, postponed : SUBSET Alarms]
    BY <1>2, <1>4, <2>3 DEF TypeOK
  <2> QED
    BY <1>1, <1>2, <2>1, <2>2, <2>4 DEF TypeOK
<1>8. NoReminderLost'
  <2> SUFFICES ASSUME NEW a \in PassedOf(Uids, config.lastChecked)', a \notin past'.settled
               PROVE  /\ a[1] \in DOMAIN config'.suspended
                      /\ config'.suspended[a[1]].remindAt <= config'.lastChecked \/ a \in past'.postponed
    BY DEF NoReminderLost
  <2>1. PICK u \in Uids : a \in Passed(u, config.lastChecked)
    BY <1>1, <1>6 DEF PassedOf, Passed
  <2>2. PICK t \in alarms[u] : a = <<u, t>> /\ t <= config.lastChecked
    BY <2>1 DEF Passed
  <2>3. t \in Nat /\ now \in Nat /\ config.lastChecked \in Nat /\ config.lastChecked <= now
    BY <1>2, <2>2, ClientIs, TimesAre DEF TypeOK, Ordered
  <2>4. u \notin gone
    BY <1>6, <2>2, <2>3 DEF PassedOf, Passed
  <2>5. /\ u \in DOMAIN config.suspended
        /\ config.suspended[u].remindAt <= config.lastChecked \/ a \in past.postponed
    BY <1>2, <1>6, <2>1, <2>2 DEF NoReminderLost, PassedOf
  <2>6. u \in DOMAIN stored
    BY <1>5, <2>5
  <2>7. stored[u].remindAt <= config.lastChecked \/ a \in past.postponed
    <3>1. CASE u \notin written
      BY <1>5, <2>5, <2>6, <3>1
    <3>2. CASE u \in written
      <4>1. u \in Renewed /\ u \in DOMAIN client.notifications
        BY <1>3, <2>5, <3>2
      <4>2. client.notifications[u].remindAt >= now /\ stored[u].remindAt = now
        BY <1>5, <2>6, <3>2, <4>1, AddedIs
      <4>3. config.suspended[u].remindAt = client.notifications[u].remindAt
        <5>1. config.suspended[u] = Entry(client.notifications[u])
          BY <1>1, <1>2, <2>5 DEF Current
        <5> QED
          BY <5>1 DEF Entry
      <4>4. client.notifications[u].remindAt \in Nat
        BY <1>2, <4>1, ClientIs, TimesAre DEF Notification
      <4> QED
        BY <2>3, <2>5, <4>2, <4>3, <4>4
    <3> QED
      BY <3>1, <3>2
  <2> QED
    BY <1>6, <2>2, <2>4, <2>6, <2>7 DEF Without
<1>9. config'.lastChecked <= now
  BY <1>2, <1>6 DEF Ordered
<1> QED
  BY <1>1, <1>2, <1>7, <1>8, <1>9, DownInv

-----------------------------------------------------------------------------
(* The rest of the world, and the theorems.                                *)

LEMMA TickInv == IInv /\ Tick => IInv'
<1> SUFFICES ASSUME IInv, Tick PROVE IInv'
  OBVIOUS
<1> USE DEF IInv
<1>1. now' = now + 1 /\ now < MaxTime /\ UNCHANGED <<alarms, calendar, client, config, past>>
  BY DEF Tick
<1>2. now \in Nat /\ client.lastChecked \in Nat /\ config.lastChecked \in Nat
  BY ClientIs
<1>3. TypeOK'
  BY <1>1, <1>2, BoundsAssumption DEF TypeOK, Times
<1>4. Ordered' /\ DownIsEmpty' /\ Current' /\ DialogHasItsNotification'
  BY <1>1, <1>2 DEF Ordered, DownIsEmpty, Current, DialogHasItsNotification
<1>5. \A u \in DOMAIN client.notifications : client.notifications[u].remindAt \in Nat
  BY ClientIs, TimesAre DEF Notification
<1>6. AskedWhenDue' /\ ShownWhenDue'
  BY <1>1, <1>2, <1>5 DEF AskedWhenDue, ShownWhenDue, Shows
<1>7. NoReminderLost'
  BY <1>1 DEF NoReminderLost, PassedOf, Passed
<1> QED
  BY <1>3, <1>4, <1>6, <1>7

LEMMA CalendarInv == IInv /\ CalendarChanges => IInv'
<1> SUFFICES ASSUME IInv, CalendarChanges PROVE IInv'
  OBVIOUS
<1>1. /\ UNCHANGED <<now, alarms, client, config, past>>
      /\ calendar' \in [present : SUBSET Uids, available : BOOLEAN, loading : BOOLEAN]
  BY DEF CalendarChanges
<1> QED
  BY <1>1 DEF IInv, TypeOK, Ordered, DownIsEmpty, Current, AskedWhenDue, ShownWhenDue, Shows,
              DialogHasItsNotification, NoReminderLost, PassedOf, Passed

LEMMA UserInv ==
  ASSUME IInv, NEW u \in Uids,
         \/ Dismiss(u) \/ RemindIn5(u) \/ RemindLater(u)
         \/ SuspendRequested(u) \/ CancelRequested(u) \/ DialogClosed(u)
  PROVE  IInv'
<1>1. TypeOK /\ DialogHasItsNotification
  BY DEF IInv
<1>2. client.dialogs \subseteq Uids
  BY <1>1, ClientIs
<1>3. CASE RemindIn5(u)
  <2>1. /\ u \in DOMAIN client.notifications /\ client.notifications[u].shown
        /\ 1 <= MaxDelay /\ Suspend(u, 1, client.dialogs)
    BY <1>3, BoundsAssumption DEF RemindIn5, Shows
  <2>2. u \notin client.dialogs
    BY <1>1, <2>1 DEF DialogHasItsNotification
  <2> QED
    BY <2>1, <2>2, SuspendInv
<1>4. CASE SuspendRequested(u)
  <2>1. PICK delay \in 1 .. MaxDelay : Suspend(u, delay, client.dialogs \ {u})
    BY <1>4 DEF SuspendRequested
  <2>2. u \in DOMAIN client.notifications
    BY <1>1, <1>4 DEF SuspendRequested, DialogHasItsNotification
  <2>3. delay \in Nat /\ delay <= MaxDelay
    BY BoundsAssumption
  <2> QED
    BY <2>1, <2>2, <2>3, SuspendInv
<1> QED
  BY <1>3, <1>4, DismissInv, RemindLaterInv, CancelInv, ClosedInv

LEMMA NextInv == IInv /\ [Next]_vars => IInv'
<1> SUFFICES ASSUME IInv, [Next]_vars PROVE IInv'
  OBVIOUS
<1>1. CASE UNCHANGED vars
  BY <1>1 DEF vars, IInv, TypeOK, Ordered, DownIsEmpty, Current, AskedWhenDue, ShownWhenDue, Shows,
              DialogHasItsNotification, NoReminderLost, PassedOf, Passed
<1>2. CASE Next
  BY <1>2, StartInv, SetupInv, CrashInv, CheckInv, KilledInv, UserInv, TickInv, CalendarInv DEF Next
<1> QED
  BY <1>1, <1>2

\* The invariant from which the rest follows, in every behaviour of the daemon
\* (KalendarAlarmClient).
THEOREM Invariance == Spec => []IInv
<1>1. Init => IInv
  BY InitInv
<1>2. IInv /\ [Next]_vars => IInv'
  BY NextInv
<1> QED
  BY <1>1, <1>2, PTL DEF Spec

\* No alarm that a check went past is lost, though the daemon be killed in that check:
\* it is settled, or stored to come up (checkAlarms(), storeNotification()).
THEOREM RemindersAreKept == Spec => []NoReminderLost
<1>1. IInv => NoReminderLost
  BY DEF IInv
<1> QED
  BY <1>1, Invariance, PTL

\* The configuration is what the daemon would need if it were started again
\* (storeNotification(), removeNotification(), saveLastCheckTime()).
THEOREM ConfigKeepsUp == Spec => []ConfigIsCurrent
<1>1. IInv => ConfigIsCurrent
  BY DEF IInv, Current, ConfigIsCurrent
<1> QED
  BY <1>1, Invariance, PTL

\* What is on the screen is due, and a dialog has the notification it answers to
\* (AlarmNotification::send(), askAndSuspend()).
THEOREM ScreenTellsTheTruth == Spec => []ScreenIsTrue
<1>1. IInv => ScreenIsTrue
  BY DEF IInv, ScreenIsTrue
<1> QED
  BY <1>1, Invariance, PTL
=============================================================================
