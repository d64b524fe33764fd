--------------------------- MODULE FreeBusyManager ---------------------------
(***************************************************************************)
(* Akonadi::FreeBusyManager (src/src/freebusymanager.cpp): how the         *)
(* free/busy list of somebody else is retrieved.  Emails wait in a queue;  *)
(* the one taken from it is asked of every resource that provides          *)
(* free/busy lists, over D-Bus; if none handles it a URL is looked for,    *)
(* and the list found there is downloaded and kept in a file.              *)
(*                                                                         *)
(* A provider's answer is a D-Bus signal that names the email only: every  *)
(* interface object connected to that signal of that provider hears it,    *)
(* one after the other, also those made for another email.  An interface   *)
(* lives as long as the request that holds it.                             *)
(*                                                                         *)
(* Handlers are operators on the state `s` of the manager; one may run     *)
(* another within the same step.  Publishing the user's own list is in     *)
(* FreeBusyPublishing; a client that asks again while it is being answered *)
(* is left out.                                                            *)
(***************************************************************************)
EXTENDS Integers, FiniteSets, SequencesExt

CONSTANTS
  Emails,       \* the addresses asked about, none of them the user's own
  Providers,    \* the resources with the capability FreeBusyProvider
  Urls,         \* where lists may be found
  Displayed,    \* QUrl::toDisplayString(): the URL without the password in it
  MaxRequests,  \* bound on the calls of retrieveFreeBusy()
  MaxInterfaces \* bound on the calls of retrieveFreeBusy() times the providers installed

ASSUME BoundsAssumption ==
  /\ IsFiniteSet(Emails) /\ IsFiniteSet(Providers) /\ IsFiniteSet(Urls)
  /\ MaxRequests \in Nat /\ MaxInterfaces \in Nat /\ Displayed \in [Urls -> Urls]
  /\ "no url" \notin Urls /\ "no email" \notin Emails

VARIABLES
  providers,    \* external: the resources that are installed
  manager,      \* the state of FreeBusyManagerPrivate and of its jobs
  past          \* history: what became of the calls so far

vars == <<providers, manager, past>>

NoUrl   == "no url"
NoEmail == "no email"
Signals == {"handlesFreeBusy", "freeBusyRetrieved"}
Calls   == [provider : Providers, signal : Signals, email : Emails]
Kinds   == {"some list", "empty list", "early list"}

\* FreeBusyProvidersRequestsQueue; mRequestStatus and the period are never read.
Closed == [open |-> FALSE, requests |-> <<>>, handlers |-> 0, merged |-> {}]

InterfaceIds == 1 .. MaxInterfaces
Request      == [id : InterfaceIds, provider : Providers, hears : SUBSET Signals]

\* Fields of manager: `queue` is mRetrieveQueue and `posted` the queued calls of
\* processRetrieveQueue(); byEmail is mProvidersRequestsByEmail, emailOf
\* mFreeBusyUrlEmailMap; `calls` are the D-Bus calls a provider has still to
\* answer; searches, checks and downloads are jobs that run, and boxes the error
\* boxes shown; `known` are the URLs of the configuration and `files` the lists kept;
\* For the properties: the kinds of lists `given` out from providers, the number of
\* retrievals that `ended`, and whether one ran `dry` for want of a URL.
TypeOK ==
  /\ providers \subseteq Providers
  /\ manager.queue \in Seq(Emails) /\ manager.posted \in Nat /\ manager.boxes \in Nat
  /\ \A e \in Emails : LET q == manager.byEmail[e]
                       IN  /\ q.open \in BOOLEAN /\ q.requests \in Seq(Request)
                           /\ q.handlers \in Int /\ q.merged \subseteq Providers
  /\ manager.calls \in [Calls -> Nat] /\ manager.downloads \in [Urls -> Nat]
  /\ manager.searches \in [Emails -> Nat] /\ manager.checks \in [Emails -> Nat]
  /\ manager.known \in [Emails -> Urls \cup {NoUrl}]
  /\ manager.emailOf \in [Urls -> Emails \cup {NoEmail}]
  /\ manager.files \subseteq Emails /\ manager.given \subseteq Kinds
  /\ manager.ended \in [Emails -> Nat] /\ manager.dry \in BOOLEAN

Init ==
  /\ providers \in SUBSET Providers
  /\ manager = [queue |-> <<>>, posted |-> 0, byEmail |-> [e \in Emails |-> Closed],
                calls |-> [c \in Calls |-> 0], searches |-> [e \in Emails |-> 0],
                checks |-> [e \in Emails |-> 0], known |-> [e \in Emails |-> NoUrl],
                emailOf |-> [u \in Urls |-> NoEmail], downloads |-> [u \in Urls |-> 0],
                boxes |-> 0, files |-> {}, given |-> {}, dry |-> FALSE,
                ended |-> [e \in Emails |-> 0]]
  /\ past = [calls |-> 0, asked |-> [e \in Emails |-> 0], crossed |-> FALSE, failed |-> FALSE]

Ended(s, e) == [s EXCEPT !.ended[e] = @ + 1]
Dry(s, e)   == [Ended(s, e) EXCEPT !.dry = TRUE]

-----------------------------------------------------------------------------
(* From a URL to a list.                                                   *)

\* finishProcessRetrieveQueue(): without a valid URL, or while the same URL is being
\* downloaded for whomever, it only returns.
FinishProcessRetrieveQueue(s, e, url) ==
  IF IF url = NoUrl THEN TRUE ELSE s.emailOf[url] # NoEmail
  THEN Dry(s, e)
  ELSE [s EXCEPT !.emailOf[url] = e, !.downloads[url] = @ + 1]

\* fetchFreeBusyUrl(): the URL of the configuration, or a ContactSearchJob.
FetchFreeBusyUrl(s, e) ==
  IF s.known[e] # NoUrl THEN FinishProcessRetrieveQueue(s, e, s.known[e])
  ELSE [s EXCEPT !.searches[e] = @ + 1]

-----------------------------------------------------------------------------
(* The providers.                                                          *)

Requests(s) == UNION {ToSet(s.byEmail[e].requests) : e \in Emails}

\* The interface `id`, if it still lives, is connected to other signals of its provider.
Hearing(s, id, lost, won) ==
  LET reconnected(r) == IF r.id = id THEN [r EXCEPT !.hears = (@ \ lost) \cup won] ELSE r
      rewired(q)     == [k \in DOMAIN q |-> reconnected(q[k])]
  IN  [s EXCEPT !.byEmail = [e \in Emails |->
         [s.byEmail[e] EXCEPT !.requests = rewired(s.byEmail[e].requests)]]]

\* A new interface object and its first call.
Ask(s, e, p) ==
  LET id == CHOOSE n \in InterfaceIds : n \notin {r.id : r \in Requests(s)}
  IN  [s EXCEPT !.byEmail[e].requests =
                  Append(@, [id |-> id, provider |-> p, hears |-> {"handlesFreeBusy"}]),
                !.calls[[provider |-> p, signal |-> "handlesFreeBusy", email |-> e]] = @ + 1]

\* queryFreeBusyProviders(): one more request for each provider.
Opened(s, e) ==
  IF s.byEmail[e].open THEN s ELSE [s EXCEPT !.byEmail[e] = [Closed EXCEPT !.open = TRUE]]

QueryFreeBusyProviders(s, e) ==
  FoldLeft(LAMBDA r, p : Ask(r, e, p), Opened(s, e), SetToSeq(providers))

\* processRetrieveQueue(): one email is taken from the queue.
ProcessRetrieveQueue(s) ==
  IF s.queue = <<>> THEN s
  ELSE LET e == Head(s.queue)
           r == [s EXCEPT !.queue = Tail(@)]
       IN  IF providers # {} THEN QueryFreeBusyProviders(r, e) ELSE FetchFreeBusyUrl(r, e)

\* The last request to that provider in the queue of e, 0 if there is none.
RequestIndex(s, e, p) ==
  LET found == {k \in DOMAIN s.byEmail[e].requests : s.byEmail[e].requests[k].provider = p}
  IN  IF found = {} THEN 0 ELSE CHOOSE k \in found : \A j \in found : j <= k

\* Mutant of Declined: the queue is forgotten and no URL is looked for.
DeclinedForGood(s, e, index) ==
  LET r == [s EXCEPT !.byEmail[e].requests = RemoveAt(@, index)]
  IN  IF r.byEmail[e].requests = <<>> /\ r.byEmail[e].handlers = 0
      THEN [r EXCEPT !.byEmail[e] = Closed]
      ELSE r

\* A provider does not know the email: when it was the last to say so and none
\* accepted, a URL is looked for.
Declined(s, e, index) ==
  LET r == [s EXCEPT !.byEmail[e].requests = RemoveAt(@, index)]
  IN  IF r.byEmail[e].requests = <<>> /\ r.byEmail[e].handlers = 0
      THEN FetchFreeBusyUrl([r EXCEPT !.byEmail[e] = Closed], e)
      ELSE r

\* onHandlesFreeBusy(), called by the interface `id` to p, whichever email it was made for.
OnHandlesFreeBusy(s, id, p, e, handles) ==
  LET index    == RequestIndex(s, e, p)
      deaf     == Hearing(s, id, {"handlesFreeBusy"}, {})
      listener == Hearing(deaf, id, {}, {"freeBusyRetrieved"})
  IN  IF ~s.byEmail[e].open \/ index = 0 THEN s
      ELSE IF handles
      THEN [listener EXCEPT !.byEmail[e].handlers = @ + 1,
              !.calls[[provider |-> p, signal |-> "freeBusyRetrieved", email |-> e]] = @ + 1]
      ELSE Declined(deaf, e, index)

\* The list put together from the providers is given out, as it is then.
GiveOut(s, e) ==
  LET early == \E c \in Calls : c.email = e /\ s.calls[c] > 0
      kind  == IF early THEN "early list"
               ELSE IF s.byEmail[e].merged = {} THEN "empty list" ELSE "some list"
  IN  [Ended(s, e) EXCEPT !.given = @ \cup {kind}]

\* Mutant of Answered: the list is given out with the first answer.
AnsweredEarly(s, e) ==
  LET closed(r) == [r EXCEPT !.byEmail[e] = Closed]
  IN  IF s.byEmail[e].handlers = 0 THEN closed(FetchFreeBusyUrl(s, e)) ELSE closed(GiveOut(s, e))

\* What follows the last answer: the list is given out, or a URL is looked for.
Answered(s, e) ==
  LET closed(r) == [r EXCEPT !.byEmail[e] = Closed]
  IN  IF s.byEmail[e].requests # <<>> THEN s
      ELSE IF s.byEmail[e].handlers = 0 THEN closed(FetchFreeBusyUrl(s, e))
      ELSE closed(GiveOut(s, e))

\* mHandlersCount after an answer.
HandlersAfter(handlers, list) == IF list = "unreadable" THEN handlers - 1 ELSE handlers

\* onFreeBusyRetrieved(): a list that cannot be read takes the handler back, a failure
\* does not.
OnFreeBusyRetrieved(s, id, p, e, list) ==
  LET index == RequestIndex(s, e, p)
      taken == [Hearing(s, id, {"freeBusyRetrieved"}, {}) EXCEPT
                  !.byEmail[e].requests = RemoveAt(@, index),
                  !.byEmail[e].handlers = HandlersAfter(@, list),
                  !.byEmail[e].merged   = IF list = "good" THEN @ \cup {p} ELSE @]
  IN  IF ~s.byEmail[e].open \/ index = 0 THEN s ELSE Answered(taken, e)

-----------------------------------------------------------------------------
(* Actions.                                                                *)

\* loadFreeBusy(): the list of e that is kept in a file, however old.
LoadFreeBusy(e) == e \in manager.files

\* saveFreeBusy(): nothing is kept if the directory cannot be made or the file not written.
SaveFreeBusy(s, e, saved) == IF saved THEN [s EXCEPT !.files = @ \cup {e}] ELSE s

\* retrieveFreeBusy() for somebody else: a list kept in a file is given out at once;
\* a call that is not forced when lists are not retrieved automatically returns FALSE
\* and changes nothing.  The queue is served only if it was empty.
RetrieveFreeBusy(e) ==
  /\ past.calls < MaxRequests
  /\ (past.calls + 1) * Cardinality(providers) <= MaxInterfaces
  /\ past' = [past EXCEPT !.calls = @ + 1, !.asked[e] = @ + 1]
  /\ manager' = IF LoadFreeBusy(e) THEN Ended(manager, e)
                ELSE [manager EXCEPT !.queue = Append(@, e),
                                     !.posted = IF manager.queue = <<>> THEN @ + 1 ELSE @]
  /\ UNCHANGED providers

\* The retrievals of e that wait in a queue.
WaitingIn(queue, e) == Cardinality({k \in DOMAIN queue : queue[k] = e})

\* cancelRetrieval(): what has left the queue goes on.
CancelRetrieval ==
  /\ manager.queue # <<>>
  /\ manager' = [manager EXCEPT !.queue = <<>>,
                                !.ended = [e \in Emails |-> @[e] + WaitingIn(manager.queue, e)]]
  /\ UNCHANGED <<providers, past>>

\* An email is asked of the providers while it is being asked of them already.
AskedAgain(s) == s.queue # <<>> /\ providers # {} /\ s.byEmail[Head(s.queue)].open

\* The queue is served in a step that leaves the manager in state s before that.
Serve(s) ==
  /\ manager' = ProcessRetrieveQueue(s)
  /\ past' = [past EXCEPT !.crossed = @ \/ AskedAgain(s)]
  /\ UNCHANGED providers

\* The queued call of processRetrieveQueue().
PostedCall ==
  /\ manager.posted > 0
  /\ Serve([manager EXCEPT !.posted = @ - 1])

\* contactSearchJobFinished(): the URL of the preferred email, the full path of the
\* settings, none (an error, no automatic retrieval, no or a foreign host), or the
\* candidates are tried.
ContactSearchJobFinished(e) ==
  LET s == [manager EXCEPT !.searches[e] = @ - 1]
  IN  /\ manager.searches[e] > 0
      /\ \/ \E url \in Urls \cup {NoUrl} : manager' = FinishProcessRetrieveQueue(s, e, url)
         \/ manager' = [s EXCEPT !.checks[e] = @ + 1]
      /\ UNCHANGED <<providers, past>>

\* FbCheckerJob: the first candidate with a calendar in it, if there is one.
FoundByChecker == Urls \cup {NoUrl}

\* fbCheckerJobFinished(): a URL found is written to the configuration, without password.
FbCheckerJobFinished(e) ==
  /\ manager.checks[e] > 0
  /\ \E url \in FoundByChecker :
       manager' = FinishProcessRetrieveQueue(
                    [manager EXCEPT !.checks[e] = @ - 1,
                                    !.known[e] = IF url = NoUrl THEN @ ELSE Displayed[url]], e, url)
  /\ UNCHANGED <<providers, past>>

\* Mutant of ProcessFreeBusyDownloadResult: after the error box, nothing.
ProcessFreeBusyDownloadResultStops(url) ==
  LET e     == manager.emailOf[url]
      taken == [manager EXCEPT !.downloads[url] = @ - 1, !.emailOf[url] = NoEmail]
  IN  /\ manager.downloads[url] > 0
      /\ \/ \E saved \in BOOLEAN :
              Serve(SaveFreeBusy(Ended(taken, e), e, saved))
         \/ manager' = Ended(taken, e) /\ UNCHANGED <<providers, past>>

\* processFreeBusyDownloadResult(): a good list is kept, if the file can be written,
\* and given out, then the queue is served; for a bad one an error box runs its own
\* event loop first.  FreeBusyDownloadJob::slotResult() sets the text of an error and not
\* its code, so that a failed download is one whose data cannot be read.
ProcessFreeBusyDownloadResult(url) ==
  LET e     == manager.emailOf[url]
      taken == [manager EXCEPT !.downloads[url] = @ - 1, !.emailOf[url] = NoEmail]
  IN  /\ manager.downloads[url] > 0
      /\ \/ \E saved \in BOOLEAN :
              Serve(SaveFreeBusy(Ended(taken, e), e, saved))
         \/ /\ manager' = [Ended(taken, e) EXCEPT !.boxes = @ + 1]
            /\ UNCHANGED <<providers, past>>

\* The error box of an unreadable list is closed.
BoxClosed ==
  /\ manager.boxes > 0
  /\ Serve([manager EXCEPT !.boxes = @ - 1])

\* The interfaces that hear a signal of p.
Hearers(p, signal) == {r \in Requests(manager) : r.provider = p /\ signal \in r.hears}
MadeFor(r) == CHOOSE e \in Emails : r \in ToSet(manager.byEmail[e].requests)

\* The interface r, if it still lives and is connected, hears the answer to the call.
Hear(s, r, call, answer) ==
  IF ~\E q \in Requests(s) : q.id = r.id /\ call.signal \in q.hears THEN s
  ELSE IF call.signal = "handlesFreeBusy"
  THEN OnHandlesFreeBusy(s, r.id, call.provider, call.email, answer = "handles")
  ELSE OnFreeBusyRetrieved(s, r.id, call.provider, call.email, answer)

HeardBy(s, order, call, answer) ==
  FoldLeft(LAMBDA q, r : Hear(q, r, call, answer), s, order)

\* A provider answers one of its calls: every interface that hears the signal, in any
\* order.
Signal(call, answer) ==
  LET hearers == Hearers(call.provider, call.signal)
  IN  /\ manager.calls[call] > 0
      /\ \E order \in SetToSeqs(hearers) :
           manager' = HeardBy([manager EXCEPT !.calls[call] = @ - 1], order, call, answer)
      /\ past' = [past EXCEPT !.crossed = @ \/ (\E r \in hearers : MadeFor(r) # call.email),
                              !.failed = @ \/ answer = "failed"]
      /\ UNCHANGED providers

HandlesFreeBusy(p, e) ==
  \E answer \in {"handles", "declines"} :
    Signal([provider |-> p, signal |-> "handlesFreeBusy", email |-> e], answer)

FreeBusyRetrieved(p, e) ==
  \E answer \in {"good", "unreadable", "failed"} :
    Signal([provider |-> p, signal |-> "freeBusyRetrieved", email |-> e], answer)

Next ==
  \/ \E e \in Emails : \/ RetrieveFreeBusy(e)
                       \/ ContactSearchJobFinished(e)
                       \/ FbCheckerJobFinished(e)
  \/ CancelRetrieval
  \/ PostedCall
  \/ \E url \in Urls : ProcessFreeBusyDownloadResult(url)
  \/ BoxClosed
  \/ \E p \in Providers, e \in Emails : HandlesFreeBusy(p, e) \/ FreeBusyRetrieved(p, e)

Spec == Init /\ [][Next]_vars

-----------------------------------------------------------------------------
(* Properties.                                                             *)

\* A URL is downloaded once at a time and while it is, the email it is for is known:
\* what processFreeBusyDownloadResult() asserts before it takes the email.
DownloadsHaveAnEmail ==
  \A url \in Urls : manager.downloads[url] = IF manager.emailOf[url] = NoEmail THEN 0 ELSE 1

\* Of an email: how many retrievals wait, are under way, and have come to an end.
Waiting(e)  == WaitingIn(manager.queue, e)
UnderWay(e) == (IF manager.byEmail[e].open THEN 1 ELSE 0) + manager.searches[e] + manager.checks[e]
               + Cardinality({url \in Urls : manager.emailOf[url] = e})

\* Even when signals cross, nobody is answered more often than asked.
AnsweredWhenAsked ==
  \A e \in Emails : manager.ended[e] <= past.asked[e]

\* No retrieval is lost or doubled between the queue, the providers, the search for a
\* URL and the download, unless a provider's signal crossed with that of another
\* retrieval.
Accounted ==
  /\ TypeOK /\ DownloadsHaveAnEmail /\ AnsweredWhenAsked
  /\ ~past.crossed =>
       \A e \in Emails : past.asked[e] = Waiting(e) + UnderWay(e) + manager.ended[e]

AtRest ==
  /\ manager.posted = 0 /\ manager.boxes = 0
  /\ \A c \in Calls : manager.calls[c] = 0
  /\ \A e \in Emails : manager.searches[e] = 0 /\ manager.checks[e] = 0
  /\ \A url \in Urls : manager.downloads[url] = 0

\* The queue of the others stands still only after a retrieval that ended without a
\* download, or that a provider left open: a download, readable or not, serves the next.
QueueMoves ==
  (AtRest /\ manager.queue # <<>> /\ ~past.crossed) =>
    manager.dry \/ manager.given # {} \/ \E e \in Emails : manager.byEmail[e].open

\* A list given out as the providers' has something of one of them, unless a provider
\* failed or signals crossed: then a URL should have been looked for.
GivenIsFromAProvider ==
  "empty list" \in manager.given => past.failed \/ past.crossed

\* A list is given out when every provider asked has answered, and a retrieval that
\* stays open has lost its last request to a provider that declined after another
\* had answered: unless signals crossed.
AllHaveAnswered ==
  /\ GivenIsFromAProvider
  /\ ~past.crossed => /\ "early list" \notin manager.given
                      /\ AtRest => \A e \in Emails : manager.byEmail[e].open =>
                                     /\ manager.byEmail[e].requests = <<>>
                                     /\ manager.byEmail[e].handlers > 0
=============================================================================
