----------------------- MODULE FreeBusyManager_proofs -----------------------
(***************************************************************************)
(* Proofs about FreeBusyManager, for every set of emails, providers and    *)
(* URLs and every bound on calls.                                          *)
(*                                                                         *)
(* RetrievalsInv holds whatever the providers answer and however their     *)
(* signals cross: a retrieval is in one place at a time (Balance), a       *)
(* download has its email and an interface is of one request (Good), an    *)
(* interface is free for every request that the queue may still ask for    *)
(* (Room), and something is under way that serves the queue (Served).      *)
(*                                                                         *)
(* Two handlers are folds: the providers are asked one after the other,    *)
(* and a signal is heard by one interface after the other.  AskFold and    *)
(* HearFold give the states in between; what holds of all of them follows  *)
(* step by step (UpTo).  Handled(s, t) is what every handler of a          *)
(* provider's signal keeps, whichever retrieval it is for.                 *)
(*                                                                         *)
(* FreeBusyInv adds what holds until the signals of two retrievals cross:  *)
(* every email has its turn (TurnOf), whose requests and calls match one   *)
(* to one and whose handlers are counted.  CallTaken and Awaiting are the  *)
(* states inside a step: the call is answered, the answer is taken.        *)
(***************************************************************************)
EXTENDS FreeBusyManager, FiniteSetTheorems, SequenceTheorems, TLAPS

-----------------------------------------------------------------------------
(* The types.                                                              *)

AskType ==
  [open : BOOLEAN, requests : Seq(Request), handlers : Int, merged : SUBSET Providers]

ManagerType ==
  [queue : Seq(Emails), posted : Nat, byEmail : [Emails -> AskType], calls : [Calls -> Nat],
   searches : [Emails -> Nat], checks : [Emails -> Nat], known : [Emails -> Urls \cup {NoUrl}],
   emailOf : [Urls -> Emails \cup {NoEmail}], downloads : [Urls -> Nat], boxes : Nat,
   files : SUBSET Emails, given : SUBSET Kinds, dry : BOOLEAN, ended : [Emails -> Nat]]

PastType == [calls : Nat, asked : [Emails -> Nat], crossed : BOOLEAN, failed : BOOLEAN]

Types == providers \subseteq Providers /\ manager \in ManagerType /\ past \in PastType

-----------------------------------------------------------------------------
(* What always holds of a manager s.                                       *)

\* Who is not asked about has no requests.
ClosedIsEmpty(s) ==
  \A e \in Emails : ~s.byEmail[e].open =>
    s.byEmail[e].requests = <<>> /\ s.byEmail[e].handlers = 0 /\ s.byEmail[e].merged = {}

EmailsOfDownloads(s) ==
  \A url \in Urls : s.downloads[url] = IF s.emailOf[url] = NoEmail THEN 0 ELSE 1

IdsOf(s) == {r.id : r \in Requests(s)}

\* An interface is of one request.
DistinctIds(s) ==
  \A e, f \in Emails :
    \A k \in DOMAIN s.byEmail[e].requests, m \in DOMAIN s.byEmail[f].requests :
      s.byEmail[e].requests[k].id = s.byEmail[f].requests[m].id => e = f /\ k = m

Good(s) == s \in ManagerType /\ ClosedIsEmpty(s) /\ EmailsOfDownloads(s) /\ DistinctIds(s)

\* The interfaces alive and those the queue may need: at most as many as the bound.
Room ==
  /\ past.calls * Cardinality(providers) <= MaxInterfaces
  /\ Cardinality(IdsOf(manager)) + Len(manager.queue) * Cardinality(providers)
       <= past.calls * Cardinality(providers)

\* The retrievals of e that wait, are under way or have ended.
UrlsOf(s, e) == {url \in Urls : s.emailOf[url] = e}
Under(s, e)  == (IF s.byEmail[e].open THEN 1 ELSE 0) + s.searches[e] + s.checks[e]
                + Cardinality(UrlsOf(s, e))
Total(s, e)  == WaitingIn(s.queue, e) + Under(s, e) + s.ended[e]

Balance ==
  \A e \in Emails : /\ Total(manager, e) <= past.asked[e]
                    /\ ~past.crossed => Total(manager, e) = past.asked[e]

\* Something is under way that serves the queue in the end, or ended without a download.
Busy(s) ==
  \/ s.posted > 0 \/ s.boxes > 0 \/ s.dry \/ s.given # {}
  \/ \E e \in Emails : s.byEmail[e].open \/ s.searches[e] > 0 \/ s.checks[e] > 0
  \/ \E url \in Urls : s.downloads[url] > 0

Served == manager.queue # <<>> => Busy(manager)

-----------------------------------------------------------------------------
(* Sequences.                                                              *)

LEMMA SeqFacts ==
  ASSUME NEW S, NEW s \in Seq(S)
  PROVE  /\ Len(s) \in Nat /\ DOMAIN s = 1 .. Len(s) /\ s \in [1 .. Len(s) -> S]
         /\ \A k \in DOMAIN s : s[k] \in S
BY LenProperties, ElementOfSeq

LEMMA FunctionIsSeq ==
  ASSUME NEW S, NEW n \in Nat, NEW f \in [1 .. n -> S]
  PROVE  f \in Seq(S) /\ Len(f) = n /\ DOMAIN f = 1 .. n
BY SeqDef

\* Every set of naturals that is not empty has a least element.
LEMMA LeastNumber ==
  ASSUME NEW T, T \subseteq Nat, T # {}
  PROVE  \E n \in T : \A m \in T : n <= m
<1> DEFINE R == OpToRel(<, Nat)
<1>1. IsWellFoundedOn(R, Nat)
  BY NatLessThanWellFounded
<1>2. \A x, y \in Nat : x < y => <<x, y>> \in R
  BY DEF OpToRel
<1> HIDE DEF R
<1>3. PICK n \in T : \A m \in T : ~(<<m, n>> \in R)
  BY <1>1, WFMin
<1>4. \A m \in T : ~(m < n)
  BY <1>2, <1>3
<1> QED BY <1>4

\* A set of naturals with 0 and every successor up to a bound has all of them.
LEMMA UpTo ==
  ASSUME NEW b \in Nat, NEW T, 0 \in T, \A n \in Nat : n < b /\ n \in T => n + 1 \in T
  PROVE  0 .. b \subseteq T
<1> DEFINE B == (0 .. b) \ T
<1> SUFFICES ASSUME B # {} PROVE FALSE
  OBVIOUS
<1>0. B \subseteq Nat
  OBVIOUS
<1>1. PICK n \in B : \A m \in B : n <= m
  <2> HIDE DEF B
  <2> QED BY <1>0, LeastNumber
<1>2. n \in Nat /\ n # 0 /\ n <= b
  OBVIOUS
<1>3. n - 1 \in Nat /\ n - 1 < b /\ ~(n <= n - 1) /\ (n - 1) + 1 = n
  BY <1>2
<1>4. n - 1 \in 0 .. b /\ n - 1 \notin B
  BY <1>1, <1>2, <1>3
<1> QED BY <1>1, <1>3, <1>4

-----------------------------------------------------------------------------
(* The two folds: their values, one after the other.                       *)

\* queryFreeBusyProviders() asks one provider after the other.
AskedInTurn(q, e, r) ==
  /\ r[0] = Opened(q, e)
  /\ \A k \in 1 .. Len(SetToSeq(providers)) : r[k] = Ask(r[k - 1], e, SetToSeq(providers)[k])
  /\ QueryFreeBusyProviders(q, e) = r[Len(SetToSeq(providers))]

LEMMA AskFold ==
  ASSUME NEW S, SetToSeq(providers) \in Seq(S), NEW q, NEW e
  PROVE  \E r : AskedInTurn(q, e, r)
<1> DEFINE seq == SetToSeq(providers)
           base == Opened(q, e)
           n == Len(seq)
           Op(s, k) == Ask(s, e, seq[k])
           Body(f, m) == [s \in SUBSET (1 .. m) |-> IF s = {} THEN base
                                                  ELSE Op(f[s \ {Max(s)}], Max(s))]
           iter == CHOOSE f : f = Body(f, n)
           r == [k \in 0 .. n |-> iter[1 .. k]]
<1>1. n \in Nat /\ DOMAIN seq = 1 .. n
  BY SeqFacts
<1>2. QueryFreeBusyProviders(q, e) = iter[1 .. n]
  BY <1>1 DEF QueryFreeBusyProviders, Opened, FoldLeft, MapThenFoldSet
<1> HIDE DEF Op, seq, base, n
<1> DEFINE Built == {m \in 0 .. n : \E f : f = Body(f, m)}
<1>3. 0 \in Built
  <2>1. Body(base, 0) = Body(Body(base, 0), 0)
    <3>1. SUBSET (1 .. 0) = {{}}
      OBVIOUS
    <3> QED BY <3>1
  <2> HIDE DEF Body
  <2> QED BY <1>1, <2>1
<1>4. ASSUME NEW m \in Nat, m < n, m \in Built
      PROVE  m + 1 \in Built
  <2>1. PICK f : f = Body(f, m)
    BY <1>4
  <2> DEFINE g == [s \in SUBSET (1 .. m + 1) |-> IF m + 1 \in s THEN Op(f[s \ {m + 1}], m + 1) ELSE f[s]]
  <2>2. ASSUME NEW s \in SUBSET (1 .. m + 1)
        PROVE  g[s] = IF s = {} THEN base ELSE Op(g[s \ {Max(s)}], Max(s))
    <3>1. CASE m + 1 \in s
      <4>1. \A y \in s : m + 1 >= y
        BY <2>2
      <4>2. \A x \in s : (\A y \in s : x >= y) => x = m + 1
        BY <2>2, <3>1
      <4>3. Max(s) = m + 1
        BY <3>1, <4>1, <4>2 DEF Max
      <4>4. s \ {m + 1} \in SUBSET (1 .. m + 1) /\ m + 1 \notin s \ {m + 1} /\ s # {}
        BY <3>1
      <4>5. g[s \ {m + 1}] = f[s \ {m + 1}]
        BY <4>4
      <4> QED BY <3>1, <4>3, <4>4, <4>5
    <3>2. CASE m + 1 \notin s
      <4>1. s \in SUBSET (1 .. m)
        BY <3>2
      <4>2. f[s] = Body(f, m)[s]
        <5> HIDE DEF Body
        <5> QED BY <2>1
      <4>3. f[s] = IF s = {} THEN base ELSE Op(f[s \ {Max(s)}], Max(s))
        BY <4>1, <4>2
      <4>4. s \ {Max(s)} \in SUBSET (1 .. m + 1) /\ m + 1 \notin s \ {Max(s)}
        BY <3>2
      <4>5. g[s \ {Max(s)}] = f[s \ {Max(s)}] /\ g[s] = f[s]
        BY <3>2, <4>4
      <4> QED BY <4>3, <4>5
    <3> QED BY <3>1, <3>2
  <2>3. g = Body(g, m + 1)
    <3>1. g = [s \in SUBSET (1 .. m + 1) |-> g[s]]
      OBVIOUS
    <3> HIDE DEF g
    <3> QED BY <2>2, <3>1
  <2> HIDE DEF g, Body
  <2>4. m + 1 \in 0 .. n
    BY <1>1, <1>4
  <2> QED BY <2>3, <2>4
<1>5. n \in Built
  <2> HIDE DEF Built
  <2>1. 0 .. n \subseteq Built
    BY <1>1, <1>3, <1>4, UpTo
  <2> QED BY <1>1, <2>1
<1>6. iter = Body(iter, n)
  <2>1. \E f : f = Body(f, n)
    BY <1>5
  <2> HIDE DEF Body
  <2> QED BY <2>1
<1> HIDE DEF iter
<1>7. \A s \in SUBSET (1 .. n) : iter[s] = IF s = {} THEN base ELSE Op(iter[s \ {Max(s)}], Max(s))
  BY <1>6
<1>8. r[0] = base
  <2>1. 1 .. 0 = {} /\ {} \in SUBSET (1 .. n) /\ 0 \in 0 .. n
    BY <1>1
  <2> QED BY <1>1, <1>7, <2>1
<1>9. ASSUME NEW k \in 1 .. n
      PROVE  r[k] = Op(r[k - 1], k)
  <2>0. k - 1 \in 0 .. n /\ k \in 0 .. n /\ k \in 1 .. k
    BY <1>1
  <2>1. 1 .. k \in SUBSET (1 .. n) /\ 1 .. k # {}
    <3>1. \A x \in 1 .. k : x \in 1 .. n
      BY <1>1
    <3> QED BY <2>0, <3>1
  <2>2. Max(1 .. k) = k
    <3>1. \A y \in 1 .. k : k >= y
      BY <1>1
    <3>2. \A x \in 1 .. k : (\A y \in 1 .. k : x >= y) => x = k
      BY <1>1, <2>0
    <3> QED BY <2>0, <3>1, <3>2 DEF Max
  <2>3. (1 .. k) \ {k} = 1 .. k - 1
    BY <1>1
  <2>4. iter[1 .. k] = Op(iter[1 .. k - 1], k)
    BY <1>7, <2>1, <2>2, <2>3
  <2> QED BY <2>0, <2>4
<1> HIDE DEF r
<1>10. QueryFreeBusyProviders(q, e) = r[n]
  <2>1. n \in 0 .. n
    BY <1>1
  <2> QED BY <1>2, <2>1 DEF r
<1>11. \A k \in 1 .. n : r[k] = Ask(r[k - 1], e, seq[k])
  BY <1>9 DEF Op
<1> QED BY <1>8, <1>10, <1>11 DEF n, seq, base, AskedInTurn

\* The interfaces hear an answer one after the other.
LEMMA HearFold ==
  ASSUME NEW S, NEW seq \in Seq(S), NEW base, NEW call, NEW answer
  PROVE  \E r : /\ r[0] = base
                /\ \A k \in 1 .. Len(seq) : r[k] = Hear(r[k - 1], seq[k], call, answer)
                /\ HeardBy(base, seq, call, answer) = r[Len(seq)]
<1> DEFINE n == Len(seq)
           Op(s, k) == Hear(s, seq[k], call, answer)
           Body(f, m) == [s \in SUBSET (1 .. m) |-> IF s = {} THEN base
                                                  ELSE Op(f[s \ {Max(s)}], Max(s))]
           iter == CHOOSE f : f = Body(f, n)
           r == [k \in 0 .. n |-> iter[1 .. k]]
<1>1. n \in Nat /\ DOMAIN seq = 1 .. n
  BY SeqFacts
<1>2. HeardBy(base, seq, call, answer) = iter[1 .. n]
  BY <1>1 DEF HeardBy, FoldLeft, MapThenFoldSet
<1> HIDE DEF Op, n
<1> DEFINE Built == {m \in 0 .. n : \E f : f = Body(f, m)}
<1>3. 0 \in Built
  <2>1. Body(base, 0) = Body(Body(base, 0), 0)
    <3>1. SUBSET (1 .. 0) = {{}}
      OBVIOUS
    <3> QED BY <3>1
  <2> HIDE DEF Body
  <2> QED BY <1>1, <2>1
<1>4. ASSUME NEW m \in Nat, m < n, m \in Built
      PROVE  m + 1 \in Built
  <2>1. PICK f : f = Body(f, m)
    BY <1>4
  <2> DEFINE g == [s \in SUBSET (1 .. m + 1) |-> IF m + 1 \in s THEN Op(f[s \ {m + 1}], m + 1) ELSE f[s]]
  <2>2. ASSUME NEW s \in SUBSET (1 .. m + 1)
        PROVE  g[s] = IF s = {} THEN base ELSE Op(g[s \ {Max(s)}], Max(s))
    <3>1. CASE m + 1 \in s
      <4>1. \A y \in s : m + 1 >= y
        BY <2>2
      <4>2. \A x \in s : (\A y \in s : x >= y) => x = m + 1
        BY <2>2, <3>1
      <4>3. Max(s) = m + 1
        BY <3>1, <4>1, <4>2 DEF Max
      <4>4. s \ {m + 1} \in SUBSET (1 .. m + 1) /\ m + 1 \notin s \ {m + 1} /\ s # {}
        BY <3>1
      <4>5. g[s \ {m + 1}] = f[s \ {m + 1}]
        BY <4>4
      <4> QED BY <3>1, <4>3, <4>4, <4>5
    <3>2. CASE m + 1 \notin s
      <4>1. s \in SUBSET (1 .. m)
        BY <3>2
      <4>2. f[s] = Body(f, m)[s]
        <5> HIDE DEF Body
        <5> QED BY <2>1
      <4>3. f[s] = IF s = {} THEN base ELSE Op(f[s \ {Max(s)}], Max(s))
        BY <4>1, <4>2
      <4>4. s \ {Max(s)} \in SUBSET (1 .. m + 1) /\ m + 1 \notin s \ {Max(s)}
        BY <3>2
      <4>5. g[s \ {Max(s)}] = f[s \ {Max(s)}] /\ g[s] = f[s]
        BY <3>2, <4>4
      <4> QED BY <4>3, <4>5
    <3> QED BY <3>1, <3>2
  <2>3. g = Body(g, m + 1)
    <3>1. g = [s \in SUBSET (1 .. m + 1) |-> g[s]]
      OBVIOUS
    <3> HIDE DEF g
    <3> QED BY <2>2, <3>1
  <2> HIDE DEF g, Body
  <2>4. m + 1 \in 0 .. n
    BY <1>1, <1>4
  <2> QED BY <2>3, <2>4
<1>5. n \in Built
  <2> HIDE DEF Built
  <2>1. 0 .. n \subseteq Built
    BY <1>1, <1>3, <1>4, UpTo
  <2> QED BY <1>1, <2>1
<1>6. iter = Body(iter, n)
  <2>1. \E f : f = Body(f, n)
    BY <1>5
  <2> HIDE DEF Body
  <2> QED BY <2>1
<1> HIDE DEF iter
<1>7. \A s \in SUBSET (1 .. n) : iter[s] = IF s = {} THEN base ELSE Op(iter[s \ {Max(s)}], Max(s))
  BY <1>6
<1>8. r[0] = base
  <2>1. 1 .. 0 = {} /\ {} \in SUBSET (1 .. n) /\ 0 \in 0 .. n
    BY <1>1
  <2> QED BY <1>1, <1>7, <2>1
<1>9. ASSUME NEW k \in 1 .. n
      PROVE  r[k] = Op(r[k - 1], k)
  <2>0. k - 1 \in 0 .. n /\ k \in 0 .. n /\ k \in 1 .. k
    BY <1>1
  <2>1. 1 .. k \in SUBSET (1 .. n) /\ 1 .. k # {}
    <3>1. \A x \in 1 .. k : x \in 1 .. n
      BY <1>1
    <3> QED BY <2>0, <3>1
  <2>2. Max(1 .. k) = k
    <3>1. \A y \in 1 .. k : k >= y
      BY <1>1
    <3>2. \A x \in 1 .. k : (\A y \in 1 .. k : x >= y) => x = k
      BY <1>1, <2>0
    <3> QED BY <2>0, <3>1, <3>2 DEF Max
  <2>3. (1 .. k) \ {k} = 1 .. k - 1
    BY <1>1
  <2>4. iter[1 .. k] = Op(iter[1 .. k - 1], k)
    BY <1>7, <2>1, <2>2, <2>3
  <2> QED BY <2>0, <2>4
<1> HIDE DEF r
<1>10. HeardBy(base, seq, call, answer) = r[n]
  <2>1. n \in 0 .. n
    BY <1>1
  <2> QED BY <1>2, <2>1 DEF r
<1>11. \A k \in 1 .. n : r[k] = Hear(r[k - 1], seq[k], call, answer)
  BY <1>9 DEF Op
<1> QED BY <1>8, <1>10, <1>11 DEF n

-----------------------------------------------------------------------------
(* From a URL to a list.                                                   *)

Score(s, e) == Under(s, e) + s.ended[e]

\* The parts of the manager that the search for a URL leaves alone.
SameAsks(s, t) ==
  /\ t.queue = s.queue /\ t.posted = s.posted /\ t.boxes = s.boxes
  /\ t.byEmail = s.byEmail /\ t.calls = s.calls /\ t.given = s.given

\* Somebody's list is looked for, or none was found.
Sought(s) ==
  s.dry \/ (\E e \in Emails : s.searches[e] > 0) \/ \E url \in Urls : s.downloads[url] > 0

\* A retrieval of e that was nowhere is searched for, downloaded or has ended.
Looked(s, t, e) ==
  /\ t \in ManagerType /\ EmailsOfDownloads(t) /\ SameAsks(s, t) /\ Sought(t)
  /\ \A f \in Emails : Score(t, f) = Score(s, f) + IF f = e THEN 1 ELSE 0

LEMMA ManagerFields ==
  ASSUME NEW s \in ManagerType
  PROVE  /\ s.queue \in Seq(Emails) /\ s.posted \in Nat /\ s.byEmail \in [Emails -> AskType]
         /\ s.calls \in [Calls -> Nat] /\ s.searches \in [Emails -> Nat]
         /\ s.checks \in [Emails -> Nat] /\ s.known \in [Emails -> Urls \cup {NoUrl}]
         /\ s.emailOf \in [Urls -> Emails \cup {NoEmail}] /\ s.downloads \in [Urls -> Nat]
         /\ s.boxes \in Nat /\ s.files \subseteq Emails /\ s.given \subseteq Kinds
         /\ s.dry \in BOOLEAN /\ s.ended \in [Emails -> Nat]
BY DEF ManagerType

LEMMA UrlsCounted ==
  ASSUME NEW s, NEW e
  PROVE  IsFiniteSet(UrlsOf(s, e)) /\ Cardinality(UrlsOf(s, e)) \in Nat
<1>1. UrlsOf(s, e) \subseteq Urls
  BY DEF UrlsOf
<1>2. IsFiniteSet(UrlsOf(s, e))
  BY <1>1, BoundsAssumption, FS_Subset
<1> QED BY <1>2, FS_CardinalityType

LEMMA ScoreTyped ==
  ASSUME NEW s \in ManagerType, NEW e \in Emails
  PROVE  /\ Under(s, e) \in Nat /\ Score(s, e) \in Nat
         /\ s.searches[e] \in Nat /\ s.checks[e] \in Nat /\ s.ended[e] \in Nat
         /\ Cardinality(UrlsOf(s, e)) \in Nat
<1>1. s.searches[e] \in Nat /\ s.checks[e] \in Nat /\ s.ended[e] \in Nat
  BY ManagerFields
<1>2. Cardinality(UrlsOf(s, e)) \in Nat
  BY UrlsCounted
<1>3. (IF s.byEmail[e].open THEN 1 ELSE 0) \in Nat
  OBVIOUS
<1>4. Under(s, e) \in Nat
  BY <1>1, <1>2, <1>3 DEF Under
<1> QED BY <1>1, <1>2, <1>4 DEF Score

\* The score of an email depends on these parts only.
LEMMA SameScore ==
  ASSUME NEW s, NEW t, NEW e \in Emails,
         t.byEmail[e].open = s.byEmail[e].open, t.searches[e] = s.searches[e],
         t.checks[e] = s.checks[e], t.emailOf = s.emailOf, t.ended[e] = s.ended[e]
  PROVE  Score(t, e) = Score(s, e)
BY DEF Score, Under, UrlsOf

LEMMA EndedFacts ==
  ASSUME NEW s \in ManagerType, NEW e \in Emails
  PROVE  /\ Ended(s, e) \in ManagerType /\ SameAsks(s, Ended(s, e))
         /\ Ended(s, e).searches = s.searches /\ Ended(s, e).checks = s.checks
         /\ Ended(s, e).downloads = s.downloads /\ Ended(s, e).emailOf = s.emailOf
         /\ Ended(s, e).dry = s.dry /\ Ended(s, e).files = s.files
         /\ Ended(s, e).known = s.known
         /\ \A f \in Emails : Score(Ended(s, e), f) = Score(s, f) + IF f = e THEN 1 ELSE 0
<1> DEFINE t == Ended(s, e)
<1>1. s.ended \in [Emails -> Nat] /\ s.ended[e] + 1 \in Nat
  BY ManagerFields
<1>2. t = [s EXCEPT !.ended = [s.ended EXCEPT ![e] = s.ended[e] + 1]]
  BY <1>1 DEF Ended, ManagerType
<1>3. [s.ended EXCEPT ![e] = s.ended[e] + 1] \in [Emails -> Nat]
  BY <1>1
<1>4. t \in ManagerType
  BY <1>2, <1>3 DEF ManagerType
<1>5. /\ SameAsks(s, t) /\ t.searches = s.searches /\ t.checks = s.checks
      /\ t.downloads = s.downloads /\ t.emailOf = s.emailOf /\ t.dry = s.dry
      /\ t.files = s.files /\ t.known = s.known
  BY <1>2 DEF SameAsks, ManagerType
<1>6. \A f \in Emails : t.ended[f] = s.ended[f] + IF f = e THEN 1 ELSE 0
  BY <1>1, <1>2 DEF ManagerType
<1>7. \A f \in Emails : Under(t, f) = Under(s, f)
  BY <1>5 DEF Under, UrlsOf, SameAsks
<1> HIDE DEF t
<1>8. ASSUME NEW f \in Emails
      PROVE  Score(t, f) = Score(s, f) + IF f = e THEN 1 ELSE 0
  <2>1. Under(s, f) \in Nat /\ s.ended[f] \in Nat
    BY ScoreTyped
  <2> QED BY <1>6, <1>7, <2>1 DEF Score
<1> QED BY <1>4, <1>5, <1>8 DEF t

LEMMA DryFacts ==
  ASSUME NEW s \in ManagerType, NEW e \in Emails, EmailsOfDownloads(s)
  PROVE  Looked(s, Dry(s, e), e)
<1> DEFINE r == Ended(s, e)
           t == Dry(s, e)
<1>1. t = [r EXCEPT !.dry = TRUE]
  BY DEF Dry
<1>2. /\ r \in ManagerType /\ SameAsks(s, r) /\ r.searches = s.searches /\ r.checks = s.checks
      /\ r.downloads = s.downloads /\ r.emailOf = s.emailOf
      /\ \A f \in Emails : Score(r, f) = Score(s, f) + IF f = e THEN 1 ELSE 0
  BY EndedFacts
<1> HIDE DEF r, t
<1>3. t \in ManagerType
  BY <1>1, <1>2 DEF ManagerType
<1>4. /\ SameAsks(r, t) /\ t.searches = r.searches /\ t.checks = r.checks /\ t.ended = r.ended
      /\ t.downloads = r.downloads /\ t.emailOf = r.emailOf /\ t.dry = TRUE
  BY <1>1, <1>2 DEF ManagerType, SameAsks
<1>5. \A f \in Emails : Score(t, f) = Score(r, f)
  BY <1>4, SameScore DEF SameAsks
<1>6. SameAsks(s, t) /\ EmailsOfDownloads(t)
  BY <1>2, <1>4 DEF SameAsks, EmailsOfDownloads
<1>7. Sought(t)
  BY <1>4 DEF Sought
<1> QED BY <1>2, <1>3, <1>5, <1>6, <1>7 DEF Looked, t

LEMMA FinishFacts ==
  ASSUME NEW s \in ManagerType, NEW e \in Emails, NEW url \in Urls \cup {NoUrl},
         EmailsOfDownloads(s)
  PROVE  Looked(s, FinishProcessRetrieveQueue(s, e, url), e)
<1>1. CASE IF url = NoUrl THEN TRUE ELSE s.emailOf[url] # NoEmail
  BY <1>1, DryFacts DEF FinishProcessRetrieveQueue
<1>2. CASE ~(IF url = NoUrl THEN TRUE ELSE s.emailOf[url] # NoEmail)
  <2> DEFINE t == [s EXCEPT !.emailOf[url] = e, !.downloads[url] = @ + 1]
  <2>1. url \in Urls /\ s.emailOf[url] = NoEmail /\ e # NoEmail
    BY <1>2, BoundsAssumption DEF NoUrl, NoEmail
  <2>2. FinishProcessRetrieveQueue(s, e, url) = t
    BY <2>1, BoundsAssumption DEF FinishProcessRetrieveQueue, NoUrl
  <2>3. s.emailOf \in [Urls -> Emails \cup {NoEmail}] /\ s.downloads \in [Urls -> Nat]
    BY ManagerFields
  <2>4. s.downloads[url] = 0
    BY <2>1 DEF EmailsOfDownloads
  <2>5. t = [s EXCEPT !.emailOf = [s.emailOf EXCEPT ![url] = e],
                      !.downloads = [s.downloads EXCEPT ![url] = s.downloads[url] + 1]]
    BY DEF ManagerType
  <2> HIDE DEF t
  <2>6. /\ t.emailOf = [s.emailOf EXCEPT ![url] = e] /\ t.downloads = [s.downloads EXCEPT ![url] = 1]
        /\ SameAsks(s, t) /\ t.searches = s.searches /\ t.checks = s.checks /\ t.ended = s.ended
    BY <2>4, <2>5 DEF ManagerType, SameAsks
  <2>8. t \in ManagerType
    <3>1. /\ [s.emailOf EXCEPT ![url] = e] \in [Urls -> Emails \cup {NoEmail}]
          /\ [s.downloads EXCEPT ![url] = s.downloads[url] + 1] \in [Urls -> Nat]
      <4>1. s.downloads[url] + 1 \in Nat
        BY <2>1, <2>3
      <4> QED BY <2>1, <2>3, <4>1
    <3> QED BY <2>5, <3>1 DEF ManagerType
  <2>9. EmailsOfDownloads(t)
    BY <2>1, <2>3, <2>6 DEF EmailsOfDownloads
  <2>10. Sought(t)
    <3>1. t.downloads[url] = 1
      BY <2>1, <2>3, <2>6
    <3> QED BY <2>1, <3>1 DEF Sought
  <2>11. ASSUME NEW f \in Emails
         PROVE  Score(t, f) = Score(s, f) + IF f = e THEN 1 ELSE 0
    <3>1. Cardinality(UrlsOf(t, f)) = Cardinality(UrlsOf(s, f)) + IF f = e THEN 1 ELSE 0
      <4>1. CASE f = e
        <5>1. UrlsOf(t, f) = UrlsOf(s, f) \cup {url} /\ url \notin UrlsOf(s, f)
          BY <2>1, <2>3, <2>6, <4>1 DEF UrlsOf
        <5>2. Cardinality(UrlsOf(s, f) \cup {url}) = Cardinality(UrlsOf(s, f)) + 1
          BY <5>1, UrlsCounted, FS_AddElement
        <5> QED BY <4>1, <5>1, <5>2
      <4>2. CASE f # e
        <5>1. UrlsOf(t, f) = UrlsOf(s, f)
          BY <2>1, <2>3, <2>6, <4>2, BoundsAssumption DEF UrlsOf, NoEmail
        <5>2. Cardinality(UrlsOf(s, f)) \in Nat
          BY UrlsCounted
        <5> QED BY <4>2, <5>1, <5>2
      <4> QED BY <4>1, <4>2
    <3>2. /\ Cardinality(UrlsOf(s, f)) \in Nat /\ s.searches[f] \in Nat /\ s.checks[f] \in Nat
          /\ s.ended[f] \in Nat
      BY ScoreTyped
    <3>3. t.byEmail = s.byEmail
      BY <2>6 DEF SameAsks
    <3> QED BY <2>6, <3>1, <3>2, <3>3 DEF Score, Under
  <2> QED BY <2>2, <2>6, <2>8, <2>9, <2>10, <2>11 DEF Looked
<1> QED BY <1>1, <1>2

LEMMA FetchFacts ==
  ASSUME NEW s \in ManagerType, NEW e \in Emails, EmailsOfDownloads(s)
  PROVE  Looked(s, FetchFreeBusyUrl(s, e), e)
<1>1. CASE s.known[e] # NoUrl
  <2>1. s.known[e] \in Urls \cup {NoUrl}
    BY ManagerFields
  <2> QED BY <1>1, <2>1, FinishFacts DEF FetchFreeBusyUrl
<1>2. CASE s.known[e] = NoUrl
  <2> DEFINE t == [s EXCEPT !.searches[e] = @ + 1]
  <2>1. FetchFreeBusyUrl(s, e) = t
    BY <1>2 DEF FetchFreeBusyUrl
  <2>2. s.searches \in [Emails -> Nat]
    BY ManagerFields
  <2>3. t = [s EXCEPT !.searches = [s.searches EXCEPT ![e] = s.searches[e] + 1]]
    BY DEF ManagerType
  <2> HIDE DEF t
  <2>4. [s.searches EXCEPT ![e] = s.searches[e] + 1] \in [Emails -> Nat]
    BY <2>2
  <2>5. t \in ManagerType
    BY <2>3, <2>4 DEF ManagerType
  <2>6. /\ t.searches = [s.searches EXCEPT ![e] = s.searches[e] + 1]
        /\ SameAsks(s, t) /\ t.checks = s.checks /\ t.ended = s.ended /\ t.emailOf = s.emailOf
        /\ t.downloads = s.downloads
    BY <2>3 DEF ManagerType, SameAsks
  <2>7. EmailsOfDownloads(t)
    BY <2>6 DEF EmailsOfDownloads
  <2>8. Sought(t)
    <3>1. t.searches[e] > 0
      BY <2>2, <2>6
    <3> QED BY <3>1 DEF Sought
  <2>9. ASSUME NEW f \in Emails
        PROVE  Score(t, f) = Score(s, f) + IF f = e THEN 1 ELSE 0
    <3>1. /\ Cardinality(UrlsOf(s, f)) \in Nat /\ s.searches[f] \in Nat /\ s.checks[f] \in Nat
          /\ s.ended[f] \in Nat
      BY ScoreTyped
    <3>2. t.byEmail = s.byEmail /\ UrlsOf(t, f) = UrlsOf(s, f)
      BY <2>6 DEF SameAsks, UrlsOf
    <3>3. t.searches[f] = s.searches[f] + IF f = e THEN 1 ELSE 0
      BY <2>2, <2>6
    <3> QED BY <2>6, <3>1, <3>2, <3>3 DEF Score, Under
  <2> QED BY <2>1, <2>5, <2>6, <2>7, <2>8, <2>9 DEF Looked
<1> QED BY <1>1, <1>2

-----------------------------------------------------------------------------
(* The requests.                                                           *)

SameRest(s, t) ==
  /\ t.queue = s.queue /\ t.posted = s.posted /\ t.boxes = s.boxes /\ t.calls = s.calls
  /\ t.searches = s.searches /\ t.checks = s.checks /\ t.known = s.known
  /\ t.emailOf = s.emailOf /\ t.downloads = s.downloads /\ t.files = s.files
  /\ t.given = s.given /\ t.dry = s.dry /\ t.ended = s.ended

\* What is asked about e is `ask` from now on.
WithAsk(s, e, ask) == [s EXCEPT !.byEmail[e] = ask]

LEMMA AskFields ==
  ASSUME NEW s \in ManagerType, NEW e \in Emails
  PROVE  /\ s.byEmail[e] \in AskType /\ s.byEmail[e].open \in BOOLEAN
         /\ s.byEmail[e].requests \in Seq(Request) /\ s.byEmail[e].handlers \in Int
         /\ s.byEmail[e].merged \subseteq Providers
<1>1. s.byEmail[e] \in AskType
  BY ManagerFields
<1> QED BY <1>1 DEF AskType

LEMMA RequestFields ==
  ASSUME NEW s \in ManagerType, NEW e \in Emails, NEW k \in DOMAIN s.byEmail[e].requests
  PROVE  /\ s.byEmail[e].requests[k] \in Request
         /\ s.byEmail[e].requests[k].id \in InterfaceIds
         /\ s.byEmail[e].requests[k].provider \in Providers
         /\ s.byEmail[e].requests[k].hears \subseteq Signals
<1>1. s.byEmail[e].requests \in Seq(Request)
  BY AskFields
<1>2. s.byEmail[e].requests[k] \in Request
  BY <1>1, SeqFacts
<1> QED BY <1>2 DEF Request

LEMMA ClosedTyped == Closed \in AskType /\ DOMAIN Closed.requests = {}
<1>1. <<>> \in Seq(Request) /\ DOMAIN <<>> = {}
  OBVIOUS
<1> QED BY <1>1 DEF Closed, AskType

LEMMA WithAskFacts ==
  ASSUME NEW s \in ManagerType, NEW e \in Emails, NEW ask \in AskType
  PROVE  /\ WithAsk(s, e, ask) \in ManagerType /\ SameRest(s, WithAsk(s, e, ask))
         /\ WithAsk(s, e, ask).byEmail[e] = ask
         /\ \A f \in Emails : f # e => WithAsk(s, e, ask).byEmail[f] = s.byEmail[f]
         /\ EmailsOfDownloads(s) => EmailsOfDownloads(WithAsk(s, e, ask))
<1> DEFINE t == WithAsk(s, e, ask)
<1>1. s.byEmail \in [Emails -> AskType]
  BY ManagerFields
<1>2. t = [s EXCEPT !.byEmail = [s.byEmail EXCEPT ![e] = ask]]
  BY DEF WithAsk, ManagerType
<1>3. [s.byEmail EXCEPT ![e] = ask] \in [Emails -> AskType]
  BY <1>1
<1>4. t \in ManagerType
  BY <1>2, <1>3 DEF ManagerType
<1>5. t.byEmail = [s.byEmail EXCEPT ![e] = ask] /\ SameRest(s, t)
  BY <1>2 DEF ManagerType, SameRest
<1>6. EmailsOfDownloads(s) => EmailsOfDownloads(t)
  BY <1>5 DEF EmailsOfDownloads, SameRest
<1> HIDE DEF t
<1> QED BY <1>1, <1>4, <1>5, <1>6 DEF t

\* The same requests, or fewer of them, have distinct interfaces too.
LEMMA DistinctCopied ==
  ASSUME NEW s, NEW t, DistinctIds(s),
         \A e \in Emails : DOMAIN t.byEmail[e].requests \subseteq DOMAIN s.byEmail[e].requests,
         \A e \in Emails : \A k \in DOMAIN t.byEmail[e].requests :
           t.byEmail[e].requests[k].id = s.byEmail[e].requests[k].id
  PROVE  DistinctIds(t)
<1> SUFFICES ASSUME NEW e \in Emails, NEW f \in Emails,
                    NEW k \in DOMAIN t.byEmail[e].requests, NEW m \in DOMAIN t.byEmail[f].requests,
                    t.byEmail[e].requests[k].id = t.byEmail[f].requests[m].id
             PROVE  e = f /\ k = m
  BY DEF DistinctIds
<1>1. k \in DOMAIN s.byEmail[e].requests /\ m \in DOMAIN s.byEmail[f].requests
  OBVIOUS
<1>2. s.byEmail[e].requests[k].id = s.byEmail[f].requests[m].id
  OBVIOUS
<1> QED BY <1>1, <1>2 DEF DistinctIds

LEMMA OfOneRequest ==
  ASSUME NEW s, DistinctIds(s), NEW e \in Emails, NEW f \in Emails,
         NEW k \in DOMAIN s.byEmail[e].requests, NEW m \in DOMAIN s.byEmail[f].requests,
         s.byEmail[e].requests[k].id = s.byEmail[f].requests[m].id
  PROVE  e = f /\ k = m
BY DEF DistinctIds

LEMMA IdsAreInterfaces ==
  ASSUME NEW s \in ManagerType
  PROVE  /\ \A n : n \in IdsOf(s) <=> \E e \in Emails : \E k \in DOMAIN s.byEmail[e].requests :
                                        s.byEmail[e].requests[k].id = n
         /\ IdsOf(s) \subseteq InterfaceIds /\ IsFiniteSet(IdsOf(s)) /\ Cardinality(IdsOf(s)) \in Nat
<1>1. \A n : n \in IdsOf(s) <=> \E e \in Emails : \E k \in DOMAIN s.byEmail[e].requests :
                                  s.byEmail[e].requests[k].id = n
  BY DEF IdsOf, Requests, ToSet
<1>2. IdsOf(s) \subseteq InterfaceIds
  BY <1>1, RequestFields
<1>3. IsFiniteSet(InterfaceIds)
  <2>0. MaxInterfaces \in Nat
    BY BoundsAssumption
  <2>1. 1 \in Int /\ MaxInterfaces \in Int
    BY <2>0
  <2>2. IsFiniteSet(1 .. MaxInterfaces)
    BY <2>1, FS_Interval
  <2> QED BY <2>2 DEF InterfaceIds
<1>4. IsFiniteSet(IdsOf(s))
  BY <1>2, <1>3, FS_Subset
<1> QED BY <1>1, <1>2, <1>4, FS_CardinalityType

\* A request is taken from a queue.
LEMMA RemovedFacts ==
  ASSUME NEW S, NEW q \in Seq(S), NEW i \in DOMAIN q
  PROVE  /\ RemoveAt(q, i) \in Seq(S) /\ Len(RemoveAt(q, i)) = Len(q) - 1
         /\ DOMAIN RemoveAt(q, i) = 1 .. Len(q) - 1
         /\ \A k \in 1 .. Len(q) - 1 : RemoveAt(q, i)[k] = q[IF k < i THEN k ELSE k + 1]
<1> DEFINE a == SubSeq(q, 1, i - 1)
           b == SubSeq(q, i + 1, Len(q))
<1>1. Len(q) \in Nat /\ DOMAIN q = 1 .. Len(q) /\ i \in 1 .. Len(q)
  BY SeqFacts
<1>2. /\ a \in Seq(S) /\ Len(a) = i - 1
      /\ \A k \in 1 .. i - 1 : a[k] = q[k]
  BY <1>1, SubSeqProperties
<1>3. /\ b \in Seq(S) /\ Len(b) = Len(q) - i
      /\ \A k \in 1 .. Len(q) - i : b[k] = q[i + k]
  <2>1. \A k \in i + 1 .. Len(q) : k \in 1 .. Len(q)
    BY <1>1
  <2>2. b \in Seq(S) /\ Len(b) = Len(q) - i
    BY <1>1, <2>1, SubSeqProperties
  <2>3. \A k \in 1 .. Len(q) - i : b[k] = q[i + 1 + k - 1]
    BY <1>1, <2>1, <2>2, SubSeqProperties
  <2>4. \A k \in 1 .. Len(q) - i : i + 1 + k - 1 = i + k
    BY <1>1
  <2> QED BY <2>2, <2>3, <2>4
<1> HIDE DEF a, b
<1>4. /\ a \o b \in Seq(S) /\ Len(a \o b) = Len(q) - 1
      /\ \A k \in 1 .. Len(q) - 1 : (a \o b)[k] = IF k <= i - 1 THEN a[k] ELSE b[k - (i - 1)]
  <2>1. a \o b \in Seq(S) /\ Len(a \o b) = Len(a) + Len(b)
    BY <1>2, <1>3, ConcatProperties
  <2>2. Len(a) + Len(b) = Len(q) - 1
    BY <1>1, <1>2, <1>3
  <2>3. \A k \in 1 .. Len(a) + Len(b) : (a \o b)[k] = IF k <= Len(a) THEN a[k] ELSE b[k - Len(a)]
    BY <1>2, <1>3, ConcatProperties
  <2> QED BY <1>2, <2>1, <2>2, <2>3
<1>5. RemoveAt(q, i) = a \o b
  BY DEF RemoveAt, a, b
<1>6. ASSUME NEW k \in 1 .. Len(q) - 1
      PROVE  (a \o b)[k] = q[IF k < i THEN k ELSE k + 1]
  <2>1. CASE k < i
    <3>1. k \in 1 .. i - 1 /\ k <= i - 1
      BY <1>1, <2>1
    <3> QED BY <1>2, <1>4, <2>1, <3>1
  <2>2. CASE ~(k < i)
    <3>1. k - (i - 1) \in 1 .. Len(q) - i /\ ~(k <= i - 1) /\ i + (k - (i - 1)) = k + 1
      BY <1>1, <2>2
    <3> QED BY <1>3, <1>4, <2>2, <3>1
  <2> QED BY <2>1, <2>2
<1>7. DOMAIN (a \o b) = 1 .. Len(q) - 1
  BY <1>4, SeqFacts
<1> QED BY <1>4, <1>5, <1>6, <1>7

\* The requests of t are requests of s, each in the same queue and none twice.
Fewer(s, t) == DistinctIds(t) /\ IdsOf(t) \subseteq IdsOf(s)

LEMMA ClosedAskFacts ==
  ASSUME NEW s \in ManagerType, NEW e \in Emails, DistinctIds(s)
  PROVE  Fewer(s, WithAsk(s, e, Closed))
<1> DEFINE t == WithAsk(s, e, Closed)
<1>1. /\ t \in ManagerType /\ t.byEmail[e] = Closed
      /\ \A f \in Emails : f # e => t.byEmail[f] = s.byEmail[f]
  BY WithAskFacts, ClosedTyped
<1> HIDE DEF t
<1>2. \A f \in Emails : \A k \in DOMAIN t.byEmail[f].requests : t.byEmail[f] = s.byEmail[f]
  BY <1>1, ClosedTyped
<1>3. DistinctIds(t)
  BY <1>2 DEF DistinctIds
<1>4. IdsOf(t) \subseteq IdsOf(s)
  BY <1>1, <1>2, IdsAreInterfaces
<1> QED BY <1>3, <1>4 DEF Fewer, t

LEMMA RemovedAskFacts ==
  ASSUME NEW s \in ManagerType, NEW e \in Emails, DistinctIds(s),
         NEW i \in DOMAIN s.byEmail[e].requests, NEW ask \in AskType,
         ask.requests = RemoveAt(s.byEmail[e].requests, i)
  PROVE  Fewer(s, WithAsk(s, e, ask))
<1> DEFINE t == WithAsk(s, e, ask)
           q == s.byEmail[e].requests
           from(f, k) == IF f # e \/ k < i THEN k ELSE k + 1
<1>1. /\ t \in ManagerType /\ t.byEmail[e] = ask
      /\ \A f \in Emails : f # e => t.byEmail[f] = s.byEmail[f]
  BY WithAskFacts
<1>2. q \in Seq(Request) /\ Len(q) \in Nat /\ DOMAIN q = 1 .. Len(q)
  BY AskFields, SeqFacts
<1>3. /\ DOMAIN ask.requests = 1 .. Len(q) - 1
      /\ \A k \in 1 .. Len(q) - 1 : ask.requests[k] = q[IF k < i THEN k ELSE k + 1]
  BY <1>2, RemovedFacts
<1> HIDE DEF t
<1>4. ASSUME NEW f \in Emails, NEW k \in DOMAIN t.byEmail[f].requests
      PROVE  /\ from(f, k) \in DOMAIN s.byEmail[f].requests
             /\ t.byEmail[f].requests[k] = s.byEmail[f].requests[from(f, k)]
             /\ f = e => k \in Nat
  <2>1. CASE f # e
    BY <1>1, <2>1
  <2>2. CASE f = e
    <3>1. k \in 1 .. Len(q) - 1
      BY <1>1, <1>3, <2>2
    <3>2. k \in 1 .. Len(q) /\ k + 1 \in 1 .. Len(q)
      BY <1>2, <3>1
    <3>3. from(f, k) \in 1 .. Len(q) /\ ask.requests[k] = q[from(f, k)] /\ k \in Nat
      BY <1>2, <1>3, <2>2, <3>1, <3>2
    <3> HIDE DEF from
    <3>4. t.byEmail[f] = ask /\ s.byEmail[f].requests = q
      BY <1>1, <2>2
    <3> HIDE DEF q
    <3> QED BY <1>2, <3>3, <3>4
  <2> QED BY <2>1, <2>2
<1>5. ASSUME NEW f \in Emails, NEW g \in Emails,
             NEW k \in DOMAIN t.byEmail[f].requests, NEW m \in DOMAIN t.byEmail[g].requests,
             t.byEmail[f].requests[k].id = t.byEmail[g].requests[m].id
      PROVE  f = g /\ k = m
  <2>1. f = g /\ from(f, k) = from(g, m)
    <3>1. PICK a : a = from(f, k)
      OBVIOUS
    <3>2. PICK b : b = from(g, m)
      OBVIOUS
    <3> HIDE DEF from
    <3>3. a \in DOMAIN s.byEmail[f].requests /\ s.byEmail[f].requests[a] = t.byEmail[f].requests[k]
      BY <1>4, <3>1
    <3>4. b \in DOMAIN s.byEmail[g].requests /\ s.byEmail[g].requests[b] = t.byEmail[g].requests[m]
      BY <1>4, <3>2
    <3>5. s.byEmail[f].requests[a].id = s.byEmail[g].requests[b].id
      BY <1>5, <3>3, <3>4
    <3>6. a \in DOMAIN s.byEmail[f].requests
      BY <3>3
    <3>7. b \in DOMAIN s.byEmail[g].requests
      BY <3>4
    <3>8. f = g /\ a = b
      BY <3>5, <3>6, <3>7, OfOneRequest
    <3> QED BY <3>1, <3>2, <3>8
  <2>2. f # e => k = m
    BY <2>1
  <2>3. f = e => k \in Nat /\ m \in Nat /\ i \in Nat
    BY <1>2, <1>4, <2>1
  <2>4. f = e => k = m
    BY <2>1, <2>3
  <2> QED BY <2>1, <2>2, <2>4
<1>6. DistinctIds(t)
  BY <1>5 DEF DistinctIds
<1>7. IdsOf(t) \subseteq IdsOf(s)
  <2> HIDE DEF from
  <2> QED BY <1>1, <1>4, IdsAreInterfaces
<1> QED BY <1>6, <1>7 DEF Fewer, t

-----------------------------------------------------------------------------
(* What an interface hears.                                                *)

\* The interface `id` of s is connected to other signals in t.
Rewired(s, t, id, lost, won) ==
  /\ t \in ManagerType /\ SameRest(s, t)
  /\ \A e \in Emails :
       LET q == s.byEmail[e].requests
           u == t.byEmail[e].requests
       IN  /\ t.byEmail[e] = [s.byEmail[e] EXCEPT !.requests = u]
           /\ u \in Seq(Request) /\ Len(u) = Len(q) /\ DOMAIN u = DOMAIN q
           /\ \A k \in DOMAIN q :
                u[k] = IF q[k].id = id THEN [q[k] EXCEPT !.hears = (q[k].hears \ lost) \cup won]
                       ELSE q[k]

LEMMA HearingShape ==
  ASSUME NEW s \in ManagerType, NEW id, NEW lost, NEW won \in SUBSET Signals
  PROVE  Rewired(s, Hearing(s, id, lost, won), id, lost, won)
<1> DEFINE t == Hearing(s, id, lost, won)
           re(r) == IF r.id = id THEN [r EXCEPT !.hears = (r.hears \ lost) \cup won] ELSE r
           u(e) == [k \in DOMAIN s.byEmail[e].requests |-> re(s.byEmail[e].requests[k])]
           b == [e \in Emails |-> [s.byEmail[e] EXCEPT !.requests = u(e)]]
<1>1. t = [s EXCEPT !.byEmail = b]
  BY DEF Hearing
<1>2. ASSUME NEW e \in Emails
      PROVE  /\ u(e) \in Seq(Request) /\ Len(u(e)) = Len(s.byEmail[e].requests)
             /\ DOMAIN u(e) = DOMAIN s.byEmail[e].requests
  <2>1. /\ s.byEmail[e].requests \in Seq(Request) /\ Len(s.byEmail[e].requests) \in Nat
        /\ DOMAIN s.byEmail[e].requests = 1 .. Len(s.byEmail[e].requests)
    BY AskFields, SeqFacts
  <2>2. \A k \in DOMAIN s.byEmail[e].requests : re(s.byEmail[e].requests[k]) \in Request
    <3>1. \A k \in DOMAIN s.byEmail[e].requests : s.byEmail[e].requests[k] \in Request
      BY RequestFields
    <3>2. \A r \in Request : re(r) \in Request
      BY DEF Request
    <3> HIDE DEF re
    <3> QED BY <3>1, <3>2
  <2>3. u(e) \in [1 .. Len(s.byEmail[e].requests) -> Request]
    <3> HIDE DEF re
    <3> QED BY <2>1, <2>2
  <2> HIDE DEF u
  <2>4. /\ u(e) \in Seq(Request) /\ Len(u(e)) = Len(s.byEmail[e].requests)
        /\ DOMAIN u(e) = 1 .. Len(s.byEmail[e].requests)
    BY <2>1, <2>3, FunctionIsSeq
  <2> QED BY <2>1, <2>4
<1>3. b \in [Emails -> AskType]
  <2>1. \A e \in Emails : u(e) \in Seq(Request) /\ s.byEmail[e] \in AskType
    BY <1>2, AskFields
  <2> HIDE DEF u
  <2> QED BY <2>1 DEF AskType
<1>4. t \in ManagerType
  <2> HIDE DEF b
  <2> QED BY <1>1, <1>3 DEF ManagerType
<1>5. t.byEmail = b /\ SameRest(s, t)
  <2> HIDE DEF b
  <2> QED BY <1>1 DEF ManagerType, SameRest
<1>6. ASSUME NEW e \in Emails
      PROVE  t.byEmail[e].requests = u(e) /\ t.byEmail[e] = [s.byEmail[e] EXCEPT !.requests = u(e)]
  <2>1. s.byEmail[e] \in AskType
    BY AskFields
  <2> HIDE DEF u, t
  <2>2. t.byEmail[e] = [s.byEmail[e] EXCEPT !.requests = u(e)]
    BY <1>5
  <2>3. t.byEmail[e].requests = u(e)
    BY <2>1, <2>2 DEF AskType
  <2> QED BY <2>2, <2>3
<1>7. ASSUME NEW e \in Emails, NEW k \in DOMAIN s.byEmail[e].requests
      PROVE  u(e)[k] = re(s.byEmail[e].requests[k])
  BY <1>7
<1> HIDE DEF t, u, b
<1>8. \A e \in Emails : \A k \in DOMAIN s.byEmail[e].requests :
        t.byEmail[e].requests[k] = re(s.byEmail[e].requests[k])
  <2> HIDE DEF re
  <2> QED BY <1>6, <1>7
<1>9. \A e \in Emails : /\ t.byEmail[e] = [s.byEmail[e] EXCEPT !.requests = t.byEmail[e].requests]
                        /\ t.byEmail[e].requests \in Seq(Request)
                        /\ Len(t.byEmail[e].requests) = Len(s.byEmail[e].requests)
                        /\ DOMAIN t.byEmail[e].requests = DOMAIN s.byEmail[e].requests
  BY <1>2, <1>6
<1>10. Rewired(s, t, id, lost, won)
  BY <1>4, <1>5, <1>8, <1>9 DEF Rewired
<1> QED BY <1>10 DEF t

\* The interfaces, and whether somebody is asked about, are the same.
LEMMA RewiredFacts ==
  ASSUME NEW s \in ManagerType, NEW t, NEW id, NEW lost, NEW won, Rewired(s, t, id, lost, won)
  PROVE  /\ \A e \in Emails :
              /\ t.byEmail[e].open = s.byEmail[e].open
              /\ t.byEmail[e].handlers = s.byEmail[e].handlers
              /\ t.byEmail[e].merged = s.byEmail[e].merged
              /\ DOMAIN t.byEmail[e].requests = DOMAIN s.byEmail[e].requests
              /\ Len(t.byEmail[e].requests) = Len(s.byEmail[e].requests)
              /\ \A k \in DOMAIN s.byEmail[e].requests :
                   /\ t.byEmail[e].requests[k].id = s.byEmail[e].requests[k].id
                   /\ t.byEmail[e].requests[k].provider = s.byEmail[e].requests[k].provider
         /\ DistinctIds(s) => Fewer(s, t)
         /\ EmailsOfDownloads(s) => EmailsOfDownloads(t)
         /\ \A e \in Emails : Score(t, e) = Score(s, e)
         /\ ClosedIsEmpty(s) => ClosedIsEmpty(t)
<1>1. ASSUME NEW e \in Emails
      PROVE  /\ t.byEmail[e].open = s.byEmail[e].open
             /\ t.byEmail[e].handlers = s.byEmail[e].handlers
             /\ t.byEmail[e].merged = s.byEmail[e].merged
             /\ DOMAIN t.byEmail[e].requests = DOMAIN s.byEmail[e].requests
             /\ Len(t.byEmail[e].requests) = Len(s.byEmail[e].requests)
  <2>1. s.byEmail[e] \in AskType
    BY AskFields
  <2> QED BY <2>1 DEF Rewired, AskType
<1>2. ASSUME NEW e \in Emails, NEW k \in DOMAIN s.byEmail[e].requests
      PROVE  /\ t.byEmail[e].requests[k].id = s.byEmail[e].requests[k].id
             /\ t.byEmail[e].requests[k].provider = s.byEmail[e].requests[k].provider
  <2> DEFINE r == s.byEmail[e].requests[k]
  <2>1. r \in Request
    BY RequestFields
  <2>2. t.byEmail[e].requests[k] = IF r.id = id THEN [r EXCEPT !.hears = (r.hears \ lost) \cup won] ELSE r
    BY DEF Rewired
  <2> HIDE DEF r
  <2>3. t.byEmail[e].requests[k].id = r.id /\ t.byEmail[e].requests[k].provider = r.provider
    BY <2>1, <2>2 DEF Request
  <2> QED BY <2>3 DEF r
<1>3. DistinctIds(s) => DistinctIds(t)
  BY <1>1, <1>2, DistinctCopied
<1>4. t \in ManagerType /\ SameRest(s, t)
  BY DEF Rewired
<1>5. IdsOf(t) \subseteq IdsOf(s)
  <2> SUFFICES ASSUME NEW n \in IdsOf(t) PROVE n \in IdsOf(s)
    OBVIOUS
  <2>1. PICK e \in Emails : \E k \in DOMAIN t.byEmail[e].requests : t.byEmail[e].requests[k].id = n
    BY <1>4, IdsAreInterfaces
  <2>2. PICK k \in DOMAIN t.byEmail[e].requests : t.byEmail[e].requests[k].id = n
    BY <2>1
  <2>3. k \in DOMAIN s.byEmail[e].requests /\ s.byEmail[e].requests[k].id = n
    BY <1>1, <1>2, <2>2
  <2> QED BY <2>3, IdsAreInterfaces
<1>6. EmailsOfDownloads(s) => EmailsOfDownloads(t)
  BY <1>4 DEF EmailsOfDownloads, SameRest
<1>7. \A e \in Emails : Score(t, e) = Score(s, e)
  BY <1>1, <1>4, SameScore DEF SameRest
<1>8. ClosedIsEmpty(s) => ClosedIsEmpty(t)
  <2> SUFFICES ASSUME ClosedIsEmpty(s), NEW e \in Emails, ~s.byEmail[e].open
               PROVE  t.byEmail[e].requests = <<>>
    BY <1>1 DEF ClosedIsEmpty
  <2>1. s.byEmail[e].requests = <<>> /\ Len(<<>>) = 0
    BY DEF ClosedIsEmpty
  <2>2. t.byEmail[e].requests \in Seq(Request) /\ Len(t.byEmail[e].requests) = 0
    BY <1>1, <1>4, <2>1, AskFields
  <2> QED BY <2>2, EmptySeq
<1> QED BY <1>1, <1>2, <1>3, <1>5, <1>6, <1>7, <1>8 DEF Fewer

\* The last request to a provider is there if one is.
LEMMA RequestIndexFacts ==
  ASSUME NEW s \in ManagerType, NEW e \in Emails, NEW p
  PROVE  /\ RequestIndex(s, e, p) # 0 =>
              /\ RequestIndex(s, e, p) \in DOMAIN s.byEmail[e].requests
              /\ s.byEmail[e].requests[RequestIndex(s, e, p)].provider = p
         /\ RequestIndex(s, e, p) = 0 =>
              \A k \in DOMAIN s.byEmail[e].requests : s.byEmail[e].requests[k].provider # p
<1> DEFINE q == s.byEmail[e].requests
           n == Len(q)
           found == {k \in DOMAIN q : q[k].provider = p}
<1>1. n \in Nat /\ DOMAIN q = 1 .. n
  BY AskFields, SeqFacts
<1>2. CASE found = {}
  BY <1>2 DEF RequestIndex
<1>3. CASE found # {}
  <2> DEFINE T == {m \in Nat : m <= n /\ n - m \in found}
  <2>1. T \subseteq Nat
    OBVIOUS
  <2>2. T # {}
    <3>1. PICK k \in found : TRUE
      BY <1>3
    <3>2. k \in 1 .. n
      BY <1>1, <3>1
    <3>3. n - k \in Nat /\ n - k <= n /\ n - (n - k) = k
      <4> HIDE DEF found, n
      <4> QED BY <1>1, <3>2
    <3>4. n - k \in T
      BY <3>1, <3>3
    <3> QED BY <3>4
  <2>3. PICK m \in T : \A l \in T : m <= l
    <3> HIDE DEF T
    <3> QED BY <2>1, <2>2, LeastNumber
  <2>4. n - m \in found /\ m \in Nat
    BY <2>3
  <2>5. ASSUME NEW j \in found
        PROVE  j <= n - m
    <3>1. j \in 1 .. n
      BY <1>1
    <3>2. n - j \in Nat /\ n - j <= n /\ n - (n - j) = j
      <4> HIDE DEF found, T, n
      <4> QED BY <1>1, <3>1
    <3>3. n - j \in T
      BY <3>2
    <3>4. m <= n - j
      BY <2>3, <3>3
    <3> QED BY <1>1, <2>4, <3>1, <3>4
  <2>6. RequestIndex(s, e, p) \in found
    BY <1>3, <2>4, <2>5 DEF RequestIndex
  <2>7. RequestIndex(s, e, p) # 0
    BY <1>1, <2>6
  <2> QED BY <2>6, <2>7
<1> QED BY <1>2, <1>3

\* A handler ran on s and left t: it kept the retrievals, and something that goes on.
Handled(s, t) ==
  /\ Good(t) /\ IdsOf(t) \subseteq IdsOf(s)
  /\ t.queue = s.queue /\ t.posted = s.posted /\ t.boxes = s.boxes
  /\ \A e \in Emails : Score(t, e) = Score(s, e)
  /\ Busy(s) => Busy(t)

LEMMA NothingHandled ==
  ASSUME NEW s, Good(s)
  PROVE  Handled(s, s)
BY DEF Handled

LEMMA HandledTwice ==
  ASSUME NEW s, NEW t, NEW u, Handled(s, t), Handled(t, u)
  PROVE  Handled(s, u)
<1>1. Good(u) /\ IdsOf(u) \subseteq IdsOf(s)
  BY DEF Handled
<1>2. u.queue = s.queue /\ u.posted = s.posted /\ u.boxes = s.boxes
  BY DEF Handled
<1>3. \A e \in Emails : Score(u, e) = Score(s, e)
  BY DEF Handled
<1>4. Busy(s) => Busy(u)
  BY DEF Handled
<1> QED BY <1>1, <1>2, <1>3, <1>4 DEF Handled

LEMMA RewiredHandled ==
  ASSUME NEW s, Good(s), NEW t, NEW id, NEW lost, NEW won, Rewired(s, t, id, lost, won)
  PROVE  Handled(s, t)
<1>1. s \in ManagerType /\ t \in ManagerType /\ SameRest(s, t)
  BY DEF Good, Rewired
<1>2. \A e \in Emails : t.byEmail[e].open = s.byEmail[e].open
  BY <1>1, RewiredFacts
<1>3. Fewer(s, t) /\ EmailsOfDownloads(t) /\ ClosedIsEmpty(t) /\ \A e \in Emails : Score(t, e) = Score(s, e)
  BY <1>1, RewiredFacts DEF Good
<1>4. Busy(s) => Busy(t)
  BY <1>1, <1>2 DEF Busy, SameRest
<1> QED BY <1>1, <1>3, <1>4 DEF Handled, Good, Fewer, SameRest

\* A request less, other counts.
LEMMA RemovedHandled ==
  ASSUME NEW s, Good(s), NEW e \in Emails, s.byEmail[e].open,
         NEW i \in DOMAIN s.byEmail[e].requests, NEW ask \in AskType, ask.open,
         ask.requests = RemoveAt(s.byEmail[e].requests, i)
  PROVE  Handled(s, WithAsk(s, e, ask))
<1> DEFINE t == WithAsk(s, e, ask)
<1>1. s \in ManagerType /\ DistinctIds(s) /\ EmailsOfDownloads(s) /\ ClosedIsEmpty(s)
  BY DEF Good
<1>2. /\ t \in ManagerType /\ SameRest(s, t) /\ t.byEmail[e] = ask
      /\ \A f \in Emails : f # e => t.byEmail[f] = s.byEmail[f]
      /\ EmailsOfDownloads(t)
  BY <1>1, WithAskFacts
<1>3. Fewer(s, t)
  BY <1>1, RemovedAskFacts
<1> HIDE DEF t
<1>4. \A f \in Emails : t.byEmail[f].open = s.byEmail[f].open
  <2>1. ask.open \in BOOLEAN /\ s.byEmail[e].open \in BOOLEAN
    BY <1>1, AskFields DEF AskType
  <2>2. ask.open = s.byEmail[e].open
    BY <2>1
  <2> QED BY <1>2, <2>2
<1>5. ClosedIsEmpty(t)
  BY <1>1, <1>2 DEF ClosedIsEmpty
<1>6. \A f \in Emails : Score(t, f) = Score(s, f)
  BY <1>2, <1>4, SameScore DEF SameRest
<1>7. Busy(s) => Busy(t)
  BY <1>2, <1>4 DEF Busy, SameRest
<1> QED BY <1>2, <1>3, <1>5, <1>6, <1>7 DEF Handled, Good, Fewer, SameRest, t

LEMMA ClosingScore ==
  ASSUME NEW s \in ManagerType, NEW e \in Emails, s.byEmail[e].open
  PROVE  \A f \in Emails : Score(s, f) = Score(WithAsk(s, e, Closed), f) + IF f = e THEN 1 ELSE 0
<1> DEFINE t == WithAsk(s, e, Closed)
<1>1. /\ t \in ManagerType /\ SameRest(s, t) /\ t.byEmail[e] = Closed
      /\ \A f \in Emails : f # e => t.byEmail[f] = s.byEmail[f]
  BY WithAskFacts, ClosedTyped
<1>2. t.byEmail[e].open = FALSE
  BY <1>1 DEF Closed
<1> HIDE DEF t
<1> SUFFICES ASSUME NEW f \in Emails
             PROVE  Score(s, f) = Score(t, f) + IF f = e THEN 1 ELSE 0
  BY DEF t
<1>3. CASE f # e
  <2>1. t.byEmail[f].open = s.byEmail[f].open
    BY <1>1, <1>3
  <2>2. Score(t, f) = Score(s, f) /\ Score(s, f) \in Nat
    BY <1>1, <2>1, SameScore, ScoreTyped DEF SameRest
  <2> QED BY <1>3, <2>2
<1>4. CASE f = e
  <2>1. /\ Cardinality(UrlsOf(s, e)) \in Nat /\ s.searches[e] \in Nat /\ s.checks[e] \in Nat
        /\ s.ended[e] \in Nat
    BY ScoreTyped
  <2>2. UrlsOf(t, e) = UrlsOf(s, e)
    BY <1>1 DEF UrlsOf, SameRest
  <2> QED BY <1>1, <1>2, <1>4, <2>1, <2>2 DEF Score, Under, SameRest
<1> QED BY <1>3, <1>4

\* Nobody handles the email and nobody is asked: a URL is looked for.
LEMMA GivenUpHandled ==
  ASSUME NEW s, Good(s), NEW e \in Emails, s.byEmail[e].open, NEW t,
         Looked(WithAsk(s, e, Closed), t, e)
  PROVE  Handled(s, t)
<1> DEFINE r == WithAsk(s, e, Closed)
<1>1. s \in ManagerType /\ DistinctIds(s) /\ EmailsOfDownloads(s) /\ ClosedIsEmpty(s)
  BY DEF Good
<1>2. /\ r \in ManagerType /\ SameRest(s, r) /\ r.byEmail[e] = Closed
      /\ \A f \in Emails : f # e => r.byEmail[f] = s.byEmail[f]
  BY <1>1, WithAskFacts, ClosedTyped
<1>3. Fewer(s, r)
  BY <1>1, ClosedAskFacts
<1>4. \A f \in Emails : Score(s, f) = Score(r, f) + IF f = e THEN 1 ELSE 0
  BY <1>1, ClosingScore
<1> HIDE DEF r
<1>5. Looked(r, t, e)
  BY DEF r
<1>6. t \in ManagerType /\ EmailsOfDownloads(t) /\ SameAsks(r, t) /\ Sought(t)
  BY <1>5 DEF Looked
<1>7. ClosedIsEmpty(r)
  BY <1>1, <1>2 DEF ClosedIsEmpty, Closed
<1>8. ClosedIsEmpty(t) /\ DistinctIds(t) /\ IdsOf(t) = IdsOf(r)
  BY <1>3, <1>6, <1>7 DEF ClosedIsEmpty, DistinctIds, IdsOf, Requests, SameAsks, Fewer
<1>9. \A f \in Emails : Score(t, f) = Score(s, f)
  BY <1>4, <1>5 DEF Looked
<1>10. Busy(t)
  BY <1>6 DEF Sought, Busy
<1>11. t.queue = s.queue /\ t.posted = s.posted /\ t.boxes = s.boxes
  BY <1>2, <1>6 DEF SameAsks, SameRest
<1> QED BY <1>3, <1>6, <1>8, <1>9, <1>10, <1>11 DEF Handled, Good, Fewer

\* Closed after the answer: the same, the other way round.
LEMMA ClosedHandled ==
  ASSUME NEW s, Good(s), NEW e \in Emails, s.byEmail[e].open, NEW t \in ManagerType,
         t.byEmail = s.byEmail, t.queue = s.queue, t.posted = s.posted, t.boxes = s.boxes,
         EmailsOfDownloads(t), Sought(t) \/ t.given # {},
         \A f \in Emails : Score(t, f) = Score(s, f) + IF f = e THEN 1 ELSE 0
  PROVE  Handled(s, WithAsk(t, e, Closed))
<1> DEFINE u == WithAsk(t, e, Closed)
<1>1. s \in ManagerType /\ DistinctIds(s) /\ ClosedIsEmpty(s)
  BY DEF Good
<1>2. DistinctIds(t) /\ ClosedIsEmpty(t) /\ IdsOf(t) = IdsOf(s)
  BY <1>1 DEF DistinctIds, ClosedIsEmpty, IdsOf, Requests
<1>3. /\ u \in ManagerType /\ SameRest(t, u) /\ u.byEmail[e] = Closed /\ EmailsOfDownloads(u)
      /\ \A f \in Emails : f # e => u.byEmail[f] = t.byEmail[f]
  BY WithAskFacts, ClosedTyped
<1>4. Fewer(t, u)
  BY <1>2, ClosedAskFacts
<1>5. \A f \in Emails : Score(t, f) = Score(u, f) + IF f = e THEN 1 ELSE 0
  BY ClosingScore
<1> HIDE DEF u
<1>6. ClosedIsEmpty(u)
  BY <1>2, <1>3 DEF ClosedIsEmpty, Closed
<1>7. ASSUME NEW f \in Emails
      PROVE  Score(u, f) = Score(s, f)
  <2>1. Score(u, f) \in Nat /\ Score(t, f) \in Nat /\ Score(s, f) \in Nat
    BY <1>1, <1>3, ScoreTyped
  <2> QED BY <1>5, <2>1
<1>8. Busy(u)
  BY <1>3 DEF Busy, Sought, SameRest
<1>9. u.queue = s.queue /\ u.posted = s.posted /\ u.boxes = s.boxes
  BY <1>3 DEF SameRest
<1> QED BY <1>2, <1>3, <1>4, <1>6, <1>7, <1>8, <1>9 DEF Handled, Good, Fewer, u

\* What is asked about e when its request i has been declined.
WithoutRequest(s, e, i) == [s.byEmail[e] EXCEPT !.requests = RemoveAt(@, i)]

LEMMA WithoutRequestFacts ==
  ASSUME NEW s \in ManagerType, NEW e \in Emails, NEW i \in DOMAIN s.byEmail[e].requests
  PROVE  LET ask == WithoutRequest(s, e, i)
         IN  /\ ask \in AskType /\ ask.open = s.byEmail[e].open
             /\ ask.handlers = s.byEmail[e].handlers /\ ask.merged = s.byEmail[e].merged
             /\ ask.requests = RemoveAt(s.byEmail[e].requests, i)
<1>1. s.byEmail[e] \in AskType /\ s.byEmail[e].requests \in Seq(Request)
  BY AskFields
<1>2. RemoveAt(s.byEmail[e].requests, i) \in Seq(Request)
  BY <1>1, RemovedFacts
<1> QED BY <1>1, <1>2 DEF AskType, WithoutRequest

LEMMA DeclinedShape ==
  ASSUME NEW s \in ManagerType, NEW e \in Emails, NEW i \in DOMAIN s.byEmail[e].requests
  PROVE  LET ask == WithoutRequest(s, e, i)
             r   == WithAsk(s, e, ask)
         IN  Declined(s, e, i) = IF ask.requests = <<>> /\ ask.handlers = 0
                                 THEN FetchFreeBusyUrl(WithAsk(r, e, Closed), e)
                                 ELSE r
<1> DEFINE ask == WithoutRequest(s, e, i)
           r == WithAsk(s, e, ask)
<1> DEFINE x == [s EXCEPT !.byEmail[e].requests = RemoveAt(@, i)]
<1>0. Declined(s, e, i) = IF x.byEmail[e].requests = <<>> /\ x.byEmail[e].handlers = 0
                          THEN FetchFreeBusyUrl(WithAsk(x, e, Closed), e)
                          ELSE x
  BY DEF Declined, WithAsk
<1>1. x = r
  BY DEF WithAsk, WithoutRequest
<1>2. r.byEmail[e] = ask
  <2>1. ask \in AskType
    BY WithoutRequestFacts
  <2> HIDE DEF ask
  <2> QED BY <2>1, WithAskFacts
<1> HIDE DEF r, ask, x
<1>3. Declined(s, e, i) = IF ask.requests = <<>> /\ ask.handlers = 0
                          THEN FetchFreeBusyUrl(WithAsk(r, e, Closed), e)
                          ELSE r
  BY <1>0, <1>1, <1>2
<1> QED BY <1>3 DEF r, ask

LEMMA DeclinedHandled ==
  ASSUME NEW s, Good(s), NEW e \in Emails, s.byEmail[e].open,
         NEW i \in DOMAIN s.byEmail[e].requests
  PROVE  Handled(s, Declined(s, e, i))
<1> DEFINE ask == WithoutRequest(s, e, i)
           r == WithAsk(s, e, ask)
<1>1. s \in ManagerType
  BY DEF Good
<1>2. /\ ask \in AskType /\ ask.open = s.byEmail[e].open
      /\ ask.requests = RemoveAt(s.byEmail[e].requests, i)
  BY <1>1, WithoutRequestFacts
<1>3. Declined(s, e, i) = IF ask.requests = <<>> /\ ask.handlers = 0
                          THEN FetchFreeBusyUrl(WithAsk(r, e, Closed), e)
                          ELSE r
  BY <1>1, DeclinedShape
<1> HIDE DEF ask
<1>4. Handled(s, r) /\ r.byEmail[e].open
  BY <1>1, <1>2, RemovedHandled, WithAskFacts
<1> HIDE DEF r
<1>5. r \in ManagerType /\ Good(r) /\ EmailsOfDownloads(r)
  BY <1>4 DEF Handled, Good
<1>6. WithAsk(r, e, Closed) \in ManagerType /\ EmailsOfDownloads(WithAsk(r, e, Closed))
  BY <1>5, WithAskFacts, ClosedTyped
<1>7. Handled(r, FetchFreeBusyUrl(WithAsk(r, e, Closed), e))
  BY <1>4, <1>5, <1>6, FetchFacts, GivenUpHandled
<1>8. CASE ask.requests = <<>> /\ ask.handlers = 0
  BY <1>3, <1>4, <1>7, <1>8, HandledTwice
<1>9. CASE ~(ask.requests = <<>> /\ ask.handlers = 0)
  BY <1>3, <1>4, <1>9
<1> QED BY <1>8, <1>9

\* The kind of the list that is given out to those who asked for e.
KindNow(s, e) ==
  IF \E c \in Calls : c.email = e /\ s.calls[c] > 0 THEN "early list"
  ELSE IF s.byEmail[e].merged = {} THEN "empty list" ELSE "some list"

LEMMA GiveOutFacts ==
  ASSUME NEW s \in ManagerType, NEW e \in Emails
  PROVE  LET t == GiveOut(s, e)
         IN  /\ t \in ManagerType /\ t.byEmail = s.byEmail /\ t.queue = s.queue
             /\ t.posted = s.posted /\ t.boxes = s.boxes /\ t.calls = s.calls
             /\ EmailsOfDownloads(s) => EmailsOfDownloads(t)
             /\ t.given = s.given \cup {KindNow(s, e)}
             /\ \A f \in Emails : Score(t, f) = Score(s, f) + IF f = e THEN 1 ELSE 0
<1> DEFINE t == GiveOut(s, e)
           kind == KindNow(s, e)
           r == Ended(s, e)
<1>1. t = [r EXCEPT !.given = r.given \cup {kind}]
  BY DEF GiveOut, KindNow
<1>2. kind \in Kinds
  BY DEF Kinds, KindNow
<1>3. /\ r \in ManagerType /\ SameAsks(s, r)
      /\ r.downloads = s.downloads /\ r.emailOf = s.emailOf
      /\ \A f \in Emails : Score(r, f) = Score(s, f) + IF f = e THEN 1 ELSE 0
  BY EndedFacts
<1> HIDE DEF r, t, kind
<1>4. r.given \cup {kind} \subseteq Kinds
  BY <1>2, <1>3, ManagerFields
<1>5. t \in ManagerType
  BY <1>1, <1>3, <1>4 DEF ManagerType
<1>6. /\ t.byEmail = r.byEmail /\ t.queue = r.queue
      /\ t.posted = r.posted /\ t.boxes = r.boxes /\ t.calls = r.calls /\ t.downloads = r.downloads
      /\ t.emailOf = r.emailOf /\ t.searches = r.searches /\ t.checks = r.checks
      /\ t.ended = r.ended /\ t.given = r.given \cup {kind}
  BY <1>1, <1>3 DEF ManagerType
<1>7. \A f \in Emails : Score(t, f) = Score(r, f)
  BY <1>6, SameScore
<1>8. EmailsOfDownloads(s) => EmailsOfDownloads(t)
  BY <1>3, <1>6 DEF EmailsOfDownloads
<1>9. t.given = s.given \cup {kind}
  BY <1>3, <1>6 DEF SameAsks
<1> QED BY <1>3, <1>5, <1>6, <1>7, <1>8, <1>9 DEF t, kind, SameAsks

LEMMA AnsweredHandled ==
  ASSUME NEW s, Good(s), NEW e \in Emails, s.byEmail[e].open
  PROVE  Handled(s, Answered(s, e))
<1>1. s \in ManagerType /\ EmailsOfDownloads(s)
  BY DEF Good
<1>2. CASE s.byEmail[e].requests # <<>>
  BY <1>2, NothingHandled DEF Answered
<1>3. CASE s.byEmail[e].requests = <<>> /\ s.byEmail[e].handlers = 0
  <2> DEFINE t == FetchFreeBusyUrl(s, e)
  <2>1. Looked(s, t, e)
    BY <1>1, FetchFacts
  <2>2. Answered(s, e) = WithAsk(t, e, Closed)
    BY <1>3 DEF Answered, WithAsk
  <2> HIDE DEF t
  <2>3. /\ t \in ManagerType /\ t.byEmail = s.byEmail /\ t.queue = s.queue /\ t.posted = s.posted
        /\ t.boxes = s.boxes /\ EmailsOfDownloads(t) /\ Sought(t)
        /\ \A f \in Emails : Score(t, f) = Score(s, f) + IF f = e THEN 1 ELSE 0
    BY <2>1 DEF Looked, SameAsks
  <2> QED BY <2>2, <2>3, ClosedHandled
<1>4. CASE s.byEmail[e].requests = <<>> /\ s.byEmail[e].handlers # 0
  <2> DEFINE t == GiveOut(s, e)
  <2>1. /\ t \in ManagerType /\ t.byEmail = s.byEmail /\ t.queue = s.queue /\ t.posted = s.posted
        /\ t.boxes = s.boxes /\ EmailsOfDownloads(t) /\ t.given # {}
        /\ \A f \in Emails : Score(t, f) = Score(s, f) + IF f = e THEN 1 ELSE 0
    BY <1>1, GiveOutFacts
  <2>2. Answered(s, e) = WithAsk(t, e, Closed)
    BY <1>4 DEF Answered, WithAsk
  <2> HIDE DEF t
  <2> QED BY <2>1, <2>2, ClosedHandled
<1> QED BY <1>2, <1>3, <1>4

\* A provider has one more or one less call to answer.
LEMMA CallsHandled ==
  ASSUME NEW s, Good(s), NEW c \in Calls, NEW n \in Nat
  PROVE  /\ Handled(s, [s EXCEPT !.calls[c] = n])
         /\ [s EXCEPT !.calls[c] = n].byEmail = s.byEmail
         /\ [s EXCEPT !.calls[c] = n].given = s.given
         /\ [s EXCEPT !.calls[c] = n].calls = [s.calls EXCEPT ![c] = n]
<1> DEFINE t == [s EXCEPT !.calls[c] = n]
<1>1. s \in ManagerType /\ DistinctIds(s) /\ EmailsOfDownloads(s) /\ ClosedIsEmpty(s)
  BY DEF Good
<1>2. s.calls \in [Calls -> Nat]
  BY <1>1, ManagerFields
<1>3. t = [s EXCEPT !.calls = [s.calls EXCEPT ![c] = n]]
  BY <1>1 DEF ManagerType
<1>4. [s.calls EXCEPT ![c] = n] \in [Calls -> Nat]
  BY <1>2
<1> HIDE DEF t
<1>5. t \in ManagerType
  BY <1>1, <1>3, <1>4 DEF ManagerType
<1>6. /\ t.queue = s.queue /\ t.posted = s.posted /\ t.boxes = s.boxes /\ t.byEmail = s.byEmail
      /\ t.searches = s.searches /\ t.checks = s.checks /\ t.emailOf = s.emailOf /\ t.dry = s.dry
      /\ t.downloads = s.downloads /\ t.given = s.given /\ t.ended = s.ended
      /\ t.calls = [s.calls EXCEPT ![c] = n]
  BY <1>1, <1>3 DEF ManagerType
<1>7. DistinctIds(t) /\ EmailsOfDownloads(t) /\ ClosedIsEmpty(t) /\ IdsOf(t) = IdsOf(s)
  BY <1>1, <1>6 DEF DistinctIds, EmailsOfDownloads, ClosedIsEmpty, IdsOf, Requests
<1>8. \A f \in Emails : Score(t, f) = Score(s, f)
  BY <1>6, SameScore
<1>9. Busy(s) => Busy(t)
  BY <1>6 DEF Busy
<1> QED BY <1>5, <1>6, <1>7, <1>8, <1>9 DEF Handled, Good, t

\* A provider that handles the email is counted.
LEMMA CountedHandled ==
  ASSUME NEW s, Good(s), NEW e \in Emails, s.byEmail[e].open, NEW h \in Int
  PROVE  LET t == WithAsk(s, e, [s.byEmail[e] EXCEPT !.handlers = h])
         IN  /\ Handled(s, t) /\ SameRest(s, t)
             /\ t.byEmail[e] = [s.byEmail[e] EXCEPT !.handlers = h]
             /\ \A f \in Emails : f # e => t.byEmail[f] = s.byEmail[f]
<1> DEFINE ask == [s.byEmail[e] EXCEPT !.handlers = h]
           t == WithAsk(s, e, ask)
<1>1. s \in ManagerType /\ DistinctIds(s) /\ EmailsOfDownloads(s) /\ ClosedIsEmpty(s)
  BY DEF Good
<1>2. s.byEmail[e] \in AskType
  BY <1>1, AskFields
<1>3. /\ ask \in AskType /\ ask.open = s.byEmail[e].open /\ ask.requests = s.byEmail[e].requests
  BY <1>2 DEF AskType
<1> HIDE DEF ask
<1>4. /\ t \in ManagerType /\ SameRest(s, t) /\ t.byEmail[e] = ask /\ EmailsOfDownloads(t)
      /\ \A f \in Emails : f # e => t.byEmail[f] = s.byEmail[f]
  BY <1>1, <1>3, WithAskFacts
<1> HIDE DEF t
<1>5. \A f \in Emails : /\ t.byEmail[f].open = s.byEmail[f].open
                        /\ t.byEmail[f].requests = s.byEmail[f].requests
  BY <1>3, <1>4
<1>6. DistinctIds(t) /\ IdsOf(t) = IdsOf(s)
  <2>1. DistinctIds(t)
    BY <1>1, <1>5, DistinctCopied
  <2>2. IdsOf(t) = IdsOf(s)
    BY <1>5 DEF IdsOf, Requests
  <2> QED BY <2>1, <2>2
<1>7. ClosedIsEmpty(t)
  BY <1>1, <1>4, <1>5 DEF ClosedIsEmpty
<1>8. \A f \in Emails : Score(t, f) = Score(s, f)
  BY <1>4, <1>5, SameScore DEF SameRest
<1>9. Busy(s) => Busy(t)
  BY <1>4, <1>5 DEF Busy, SameRest
<1>10. Handled(s, t)
  BY <1>4, <1>6, <1>7, <1>8, <1>9 DEF Handled, Good, SameRest
<1> QED BY <1>4, <1>10 DEF t, ask

\* The calls that a provider has to answer about an email.
CallOf(p, signal, e) == [provider |-> p, signal |-> signal, email |-> e]

LEMMA CallTyped ==
  ASSUME NEW p \in Providers, NEW signal \in Signals, NEW e \in Emails
  PROVE  /\ CallOf(p, signal, e) \in Calls /\ CallOf(p, signal, e).provider = p
         /\ CallOf(p, signal, e).signal = signal /\ CallOf(p, signal, e).email = e
BY DEF CallOf, Calls

LEMMA SignalsTyped == "handlesFreeBusy" \in Signals /\ "freeBusyRetrieved" \in Signals
BY DEF Signals

\* One more handler of e, and one more call.
Counted(s, e)  == WithAsk(s, e, [s.byEmail[e] EXCEPT !.handlers = @ + 1])
NextCall(s, c) == [s EXCEPT !.calls[c] = @ + 1]

\* An interface takes "handlesFreeBusy", and a provider that handles the email gets
\* the next call.
LEMMA OnHandlesShape ==
  ASSUME NEW s, Good(s), NEW e \in Emails, NEW p \in Providers, NEW id, NEW handles \in BOOLEAN,
         s.byEmail[e].open, RequestIndex(s, e, p) # 0
  PROVE  \E deaf, listener :
           /\ Rewired(s, deaf, id, {"handlesFreeBusy"}, {})
           /\ Rewired(deaf, listener, id, {}, {"freeBusyRetrieved"})
           /\ OnHandlesFreeBusy(s, id, p, e, handles) =
                IF handles
                THEN NextCall(Counted(listener, e), CallOf(p, "freeBusyRetrieved", e))
                ELSE Declined(deaf, e, RequestIndex(s, e, p))
<1> DEFINE deaf == Hearing(s, id, {"handlesFreeBusy"}, {})
           listener == Hearing(deaf, id, {}, {"freeBusyRetrieved"})
           c == CallOf(p, "freeBusyRetrieved", e)
<1>1. s \in ManagerType
  BY DEF Good
<1>2. {} \in SUBSET Signals /\ {"freeBusyRetrieved"} \in SUBSET Signals
  BY SignalsTyped
<1>3. Rewired(s, deaf, id, {"handlesFreeBusy"}, {})
  BY <1>1, <1>2, HearingShape
<1>4. deaf \in ManagerType
  BY <1>3 DEF Rewired
<1>5. OnHandlesFreeBusy(s, id, p, e, handles) =
        IF handles
        THEN [listener EXCEPT !.byEmail[e].handlers = @ + 1, !.calls[c] = @ + 1]
        ELSE Declined(deaf, e, RequestIndex(s, e, p))
  BY DEF OnHandlesFreeBusy, CallOf
<1> HIDE DEF deaf
<1>6. Rewired(deaf, listener, id, {}, {"freeBusyRetrieved"})
  BY <1>2, <1>4, HearingShape
<1>7. listener \in ManagerType
  BY <1>6 DEF Rewired
<1> HIDE DEF listener, c
<1>8. [listener EXCEPT !.byEmail[e].handlers = @ + 1, !.calls[c] = @ + 1]
        = NextCall(Counted(listener, e), c)
  BY <1>7 DEF WithAsk, ManagerType, Counted, NextCall
<1>9. OnHandlesFreeBusy(s, id, p, e, handles) =
        IF handles THEN NextCall(Counted(listener, e), c)
        ELSE Declined(deaf, e, RequestIndex(s, e, p))
  BY <1>5, <1>8
<1> QED BY <1>3, <1>6, <1>9 DEF c

LEMMA OnHandlesHandled ==
  ASSUME NEW s, Good(s), NEW e \in Emails, NEW p \in Providers, NEW id, NEW handles \in BOOLEAN
  PROVE  Handled(s, OnHandlesFreeBusy(s, id, p, e, handles))
<1>1. CASE ~s.byEmail[e].open \/ RequestIndex(s, e, p) = 0
  BY <1>1, NothingHandled DEF OnHandlesFreeBusy
<1>2. CASE s.byEmail[e].open /\ RequestIndex(s, e, p) # 0
  <2> DEFINE i == RequestIndex(s, e, p)
             c == CallOf(p, "freeBusyRetrieved", e)
             t == OnHandlesFreeBusy(s, id, p, e, handles)
  <2>1. s \in ManagerType
    BY DEF Good
  <2>2. i \in DOMAIN s.byEmail[e].requests
    BY <1>2, <2>1, RequestIndexFacts
  <2>3. PICK deaf, listener :
          /\ Rewired(s, deaf, id, {"handlesFreeBusy"}, {})
          /\ Rewired(deaf, listener, id, {}, {"freeBusyRetrieved"})
          /\ t = IF handles THEN NextCall(Counted(listener, e), c)
                 ELSE Declined(deaf, e, i)
    BY <1>2, OnHandlesShape
  <2> HIDE DEF i, c, t
  <2>4. Handled(s, deaf)
    BY <2>3, RewiredHandled
  <2>5. Good(deaf) /\ deaf \in ManagerType
    BY <2>4 DEF Handled, Good
  <2>6. deaf.byEmail[e].open /\ i \in DOMAIN deaf.byEmail[e].requests
    BY <1>2, <2>1, <2>2, <2>3, RewiredFacts
  <2>7. CASE ~handles
    <3>1. Handled(deaf, Declined(deaf, e, i))
      BY <2>5, <2>6, DeclinedHandled
    <3>2. t = Declined(deaf, e, i)
      BY <2>3, <2>7
    <3> QED BY <2>4, <3>1, <3>2, HandledTwice DEF t
  <2>8. CASE handles
    <3>1. Handled(s, listener)
      BY <2>3, <2>4, <2>5, RewiredHandled, HandledTwice
    <3>2. Good(listener) /\ listener \in ManagerType
      BY <3>1 DEF Handled, Good
    <3>3. listener.byEmail[e].open
      BY <2>3, <2>5, <2>6, RewiredFacts
    <3>4. listener.byEmail[e].handlers + 1 \in Int
      BY <3>2, AskFields
    <3>5. Handled(listener, Counted(listener, e))
      BY <3>2, <3>3, <3>4, CountedHandled DEF Counted
    <3>6. PICK u : u = Counted(listener, e)
      OBVIOUS
    <3>7. Handled(s, u)
      BY <3>1, <3>5, <3>6, HandledTwice
    <3>8. Good(u) /\ u \in ManagerType
      BY <3>7 DEF Handled, Good
    <3>9. c \in Calls
      BY CallTyped, SignalsTyped DEF c
    <3>10. u.calls[c] + 1 \in Nat
      BY <3>8, <3>9, ManagerFields
    <3>11. Handled(u, [u EXCEPT !.calls[c] = u.calls[c] + 1])
      BY <3>8, <3>9, <3>10, CallsHandled
    <3>12. t = [u EXCEPT !.calls[c] = u.calls[c] + 1]
      BY <2>3, <2>8, <3>6 DEF NextCall
    <3> QED BY <3>7, <3>11, <3>12, HandledTwice DEF t
  <2> QED BY <2>7, <2>8
<1> QED BY <1>1, <1>2

\* What is asked about e when the answer of p to its request i has come.
WithoutAnswered(s, e, i, p, list) ==
  [s.byEmail[e] EXCEPT !.requests = RemoveAt(@, i), !.handlers = HandlersAfter(@, list),
                       !.merged = IF list = "good" THEN @ \cup {p} ELSE @]

AnswerTaken(old, ask, p, list) ==
  /\ ask.handlers = IF list = "unreadable" THEN old.handlers - 1 ELSE old.handlers
  /\ ask.merged = IF list = "good" THEN old.merged \cup {p} ELSE old.merged

LEMMA WithoutAnsweredFacts ==
  ASSUME NEW s \in ManagerType, NEW e \in Emails, NEW i \in DOMAIN s.byEmail[e].requests,
         NEW p \in Providers, NEW list
  PROVE  LET ask == WithoutAnswered(s, e, i, p, list)
         IN  /\ ask \in AskType /\ ask.open = s.byEmail[e].open
             /\ ask.requests = RemoveAt(s.byEmail[e].requests, i)
             /\ AnswerTaken(s.byEmail[e], ask, p, list)
<1> DEFINE ask == WithoutAnswered(s, e, i, p, list)
<1>1. /\ s.byEmail[e] \in AskType /\ s.byEmail[e].requests \in Seq(Request)
      /\ s.byEmail[e].handlers \in Int /\ s.byEmail[e].merged \subseteq Providers
  BY AskFields
<1>2. RemoveAt(s.byEmail[e].requests, i) \in Seq(Request)
  BY <1>1, RemovedFacts
<1>3. HandlersAfter(s.byEmail[e].handlers, list) \in Int
  BY <1>1 DEF HandlersAfter
<1>4. /\ ask \in AskType /\ ask.open = s.byEmail[e].open
      /\ ask.requests = RemoveAt(s.byEmail[e].requests, i)
      /\ ask.handlers = HandlersAfter(s.byEmail[e].handlers, list)
      /\ ask.merged = IF list = "good" THEN s.byEmail[e].merged \cup {p} ELSE s.byEmail[e].merged
  BY <1>1, <1>2, <1>3 DEF AskType, WithoutAnswered
<1> HIDE DEF ask
<1>5. AnswerTaken(s.byEmail[e], ask, p, list)
  BY <1>4 DEF HandlersAfter, AnswerTaken
<1> QED BY <1>4, <1>5 DEF ask

LEMMA OnRetrievedShape ==
  ASSUME NEW s, Good(s), NEW e \in Emails, NEW p \in Providers, NEW id, NEW list,
         s.byEmail[e].open, RequestIndex(s, e, p) # 0
  PROVE  \E deaf :
           /\ Rewired(s, deaf, id, {"freeBusyRetrieved"}, {})
           /\ OnFreeBusyRetrieved(s, id, p, e, list) =
                Answered(WithAsk(deaf, e, WithoutAnswered(deaf, e, RequestIndex(s, e, p), p, list)), e)
<1> DEFINE deaf == Hearing(s, id, {"freeBusyRetrieved"}, {})
           i == RequestIndex(s, e, p)
           taken == [deaf EXCEPT !.byEmail[e].requests = RemoveAt(@, i),
                                 !.byEmail[e].handlers = HandlersAfter(@, list),
                                 !.byEmail[e].merged   = IF list = "good" THEN @ \cup {p} ELSE @]
<1>1. s \in ManagerType
  BY DEF Good
<1>2. Rewired(s, deaf, id, {"freeBusyRetrieved"}, {})
  BY <1>1, HearingShape
<1>3. deaf \in ManagerType
  BY <1>2 DEF Rewired
<1>4. OnFreeBusyRetrieved(s, id, p, e, list) = Answered(taken, e)
  BY DEF OnFreeBusyRetrieved
<1> HIDE DEF deaf, i
<1>5. deaf.byEmail \in [Emails -> AskType]
  BY <1>3, ManagerFields
<1>6. taken = WithAsk(deaf, e, WithoutAnswered(deaf, e, i, p, list))
  <2>1. PICK q : q = RemoveAt(deaf.byEmail[e].requests, i)
    OBVIOUS
  <2>2. PICK h : h = HandlersAfter(deaf.byEmail[e].handlers, list)
    OBVIOUS
  <2>3. PICK m : m = IF list = "good" THEN deaf.byEmail[e].merged \cup {p} ELSE deaf.byEmail[e].merged
    OBVIOUS
  <2>4. taken = [deaf EXCEPT !.byEmail[e].requests = q, !.byEmail[e].handlers = h, !.byEmail[e].merged = m]
    BY <2>1, <2>2, <2>3
  <2>5. WithoutAnswered(deaf, e, i, p, list) = [deaf.byEmail[e] EXCEPT !.requests = q, !.handlers = h, !.merged = m]
    BY <2>1, <2>2, <2>3 DEF WithoutAnswered
  <2> HIDE DEF taken
  <2>6. [deaf EXCEPT !.byEmail[e].requests = q, !.byEmail[e].handlers = h, !.byEmail[e].merged = m]
          = [deaf EXCEPT !.byEmail[e] = [deaf.byEmail[e] EXCEPT !.requests = q, !.handlers = h, !.merged = m]]
    BY <1>3, <1>5 DEF ManagerType, AskType
  <2> QED BY <2>4, <2>5, <2>6 DEF WithAsk
<1> HIDE DEF taken
<1> QED BY <1>2, <1>4, <1>6 DEF i

LEMMA OnRetrievedHandled ==
  ASSUME NEW s, Good(s), NEW e \in Emails, NEW p \in Providers, NEW id, NEW list
  PROVE  Handled(s, OnFreeBusyRetrieved(s, id, p, e, list))
<1>1. CASE ~s.byEmail[e].open \/ RequestIndex(s, e, p) = 0
  BY <1>1, NothingHandled DEF OnFreeBusyRetrieved
<1>2. CASE s.byEmail[e].open /\ RequestIndex(s, e, p) # 0
  <2> DEFINE i == RequestIndex(s, e, p)
  <2>1. s \in ManagerType
    BY DEF Good
  <2>2. i \in DOMAIN s.byEmail[e].requests
    BY <1>2, <2>1, RequestIndexFacts
  <2>3. PICK deaf :
          /\ Rewired(s, deaf, id, {"freeBusyRetrieved"}, {})
          /\ OnFreeBusyRetrieved(s, id, p, e, list) =
               Answered(WithAsk(deaf, e, WithoutAnswered(deaf, e, i, p, list)), e)
    BY <1>2, OnRetrievedShape
  <2> HIDE DEF i
  <2>4. Handled(s, deaf)
    BY <2>3, RewiredHandled
  <2>5. Good(deaf) /\ deaf \in ManagerType
    BY <2>4 DEF Handled, Good
  <2>6. deaf.byEmail[e].open /\ i \in DOMAIN deaf.byEmail[e].requests
    BY <1>2, <2>1, <2>2, <2>3, RewiredFacts
  <2>7. PICK ask : ask = WithoutAnswered(deaf, e, i, p, list)
    OBVIOUS
  <2>8. /\ ask \in AskType /\ ask.open = deaf.byEmail[e].open
        /\ ask.requests = RemoveAt(deaf.byEmail[e].requests, i)
    BY <2>5, <2>6, <2>7, WithoutAnsweredFacts
  <2>9. PICK t : t = WithAsk(deaf, e, ask)
    OBVIOUS
  <2>10. Handled(deaf, t)
    BY <2>5, <2>6, <2>8, <2>9, RemovedHandled
  <2>11. Good(t) /\ t.byEmail[e].open
    BY <2>5, <2>6, <2>8, <2>9, <2>10, WithAskFacts DEF Handled
  <2>12. Handled(t, Answered(t, e))
    BY <2>11, AnsweredHandled
  <2> QED BY <2>3, <2>4, <2>7, <2>9, <2>10, <2>12, HandledTwice
<1> QED BY <1>1, <1>2

LEMMA HearHandled ==
  ASSUME NEW s, Good(s), NEW r, NEW call \in Calls, NEW answer
  PROVE  Handled(s, Hear(s, r, call, answer))
<1>1. call.provider \in Providers /\ call.email \in Emails
  BY DEF Calls
<1>2. (answer = "handles") \in BOOLEAN
  OBVIOUS
<1>3. CASE ~\E q \in Requests(s) : q.id = r.id /\ call.signal \in q.hears
  BY <1>3, NothingHandled DEF Hear
<1>4. CASE ~(~\E q \in Requests(s) : q.id = r.id /\ call.signal \in q.hears)
  <2>1. CASE call.signal = "handlesFreeBusy"
    BY <1>1, <1>2, <1>4, <2>1, OnHandlesHandled DEF Hear
  <2>2. CASE call.signal # "handlesFreeBusy"
    BY <1>1, <1>4, <2>2, OnRetrievedHandled DEF Hear
  <2> QED BY <2>1, <2>2
<1> QED BY <1>3, <1>4

LEMMA HeardHandled ==
  ASSUME NEW s, Good(s), NEW S, NEW order \in Seq(S), NEW call \in Calls, NEW answer
  PROVE  Handled(s, HeardBy(s, order, call, answer))
<1>1. PICK r : /\ r[0] = s
               /\ \A k \in 1 .. Len(order) : r[k] = Hear(r[k - 1], order[k], call, answer)
               /\ HeardBy(s, order, call, answer) = r[Len(order)]
  BY HearFold
<1> DEFINE n == Len(order)
           T == {k \in 0 .. n : Handled(s, r[k])}
<1>2. n \in Nat
  BY SeqFacts
<1> HIDE DEF n
<1>3. 0 \in T
  BY <1>1, <1>2, NothingHandled
<1>4. ASSUME NEW k \in Nat, k < n, k \in T
      PROVE  k + 1 \in T
  <2>1. Handled(s, r[k]) /\ Good(r[k])
    BY <1>4 DEF Handled
  <2>2. k + 1 \in 1 .. n /\ k + 1 \in 0 .. n /\ (k + 1) - 1 = k
    BY <1>2, <1>4
  <2>3. r[k + 1] = Hear(r[k], order[k + 1], call, answer)
    BY <1>1, <2>2 DEF n
  <2>4. Handled(r[k], r[k + 1])
    BY <2>1, <2>3, HearHandled
  <2>5. Handled(s, r[k + 1])
    BY <2>1, <2>4, HandledTwice
  <2> QED BY <2>2, <2>5
<1> HIDE DEF T
<1>5. 0 .. n \subseteq T
  BY <1>2, <1>3, <1>4, UpTo
<1>6. n \in T
  BY <1>2, <1>5
<1> QED BY <1>1, <1>6 DEF T, n

-----------------------------------------------------------------------------
(* The queue of emails.                                                    *)

\* The providers in the order they are asked.
LEMMA ProvidersInOrder ==
  ASSUME providers \subseteq Providers
  PROVE  /\ IsFiniteSet(providers) /\ Cardinality(providers) \in Nat
         /\ SetToSeq(providers) \in Seq(Providers)
         /\ Len(SetToSeq(providers)) = Cardinality(providers)
         /\ DOMAIN SetToSeq(providers) = 1 .. Cardinality(providers)
         /\ \A k \in 1 .. Cardinality(providers) : SetToSeq(providers)[k] \in providers
         /\ \A j, k \in 1 .. Cardinality(providers) :
              SetToSeq(providers)[j] = SetToSeq(providers)[k] => j = k
<1> DEFINE n == Cardinality(providers)
           q == SetToSeq(providers)
<1>1. IsFiniteSet(providers)
  BY BoundsAssumption, FS_Subset
<1>2. n \in Nat
  BY <1>1, FS_CardinalityType
<1>3. PICK f : f \in Bijection(1 .. n, providers)
  BY <1>1, <1>2, FS_CardinalityType DEF ExistsBijection
<1>4. f \in [1 .. n -> providers] /\ IsInjective(f)
  BY <1>3 DEF Bijection, Injection, IsInjective
<1>5. q \in [1 .. n -> providers] /\ IsInjective(q)
  BY <1>4 DEF SetToSeq
<1> HIDE DEF n, q
<1>6. q \in [1 .. n -> Providers]
  BY <1>5
<1>7. q \in Seq(Providers) /\ Len(q) = n /\ DOMAIN q = 1 .. n
  BY <1>2, <1>6, FunctionIsSeq
<1>8. /\ \A k \in 1 .. n : q[k] \in providers
      /\ \A j, k \in 1 .. n : q[j] = q[k] => j = k
  BY <1>5, <1>7 DEF IsInjective
<1> QED BY <1>1, <1>2, <1>7, <1>8 DEF n, q

\* The request that Ask makes, with an interface of its own.
Asked(s, t, e, p, id) ==
  LET r == [id |-> id, provider |-> p, hears |-> {"handlesFreeBusy"}]
      c == CallOf(p, "handlesFreeBusy", e)
  IN  /\ id \in InterfaceIds /\ id \notin IdsOf(s)
      /\ t.byEmail[e] = [s.byEmail[e] EXCEPT !.requests = Append(@, r)]
      /\ \A f \in Emails : f # e => t.byEmail[f] = s.byEmail[f]
      /\ t.calls = [s.calls EXCEPT ![c] = s.calls[c] + 1]
      /\ t.queue = s.queue /\ t.posted = s.posted /\ t.boxes = s.boxes
      /\ t.given = s.given /\ t.emailOf = s.emailOf /\ t.searches = s.searches
      /\ t.checks = s.checks /\ t.ended = s.ended /\ t.downloads = s.downloads /\ t.dry = s.dry

LEMMA AskShape ==
  ASSUME NEW s \in ManagerType, NEW e \in Emails, NEW p \in Providers,
         Cardinality(IdsOf(s)) < MaxInterfaces
  PROVE  /\ Ask(s, e, p) \in ManagerType
         /\ \E id : Asked(s, Ask(s, e, p), e, p, id)
<1> DEFINE id == CHOOSE n \in InterfaceIds : n \notin IdsOf(s)
           r == [id |-> id, provider |-> p, hears |-> {"handlesFreeBusy"}]
           c == CallOf(p, "handlesFreeBusy", e)
           b == [s.byEmail EXCEPT ![e] = [s.byEmail[e] EXCEPT !.requests = Append(s.byEmail[e].requests, r)]]
           d == [s.calls EXCEPT ![c] = s.calls[c] + 1]
           t == Ask(s, e, p)
<1>1. id \in InterfaceIds /\ id \notin IdsOf(s)
  <2>1. IsFiniteSet(IdsOf(s)) /\ IdsOf(s) \subseteq InterfaceIds
    BY IdsAreInterfaces
  <2>2. MaxInterfaces \in Nat
    BY BoundsAssumption
  <2>3. 1 \in Int /\ MaxInterfaces \in Int
    BY <2>2
  <2>4. Cardinality(1 .. MaxInterfaces) = IF 1 > MaxInterfaces THEN 0 ELSE MaxInterfaces - 1 + 1
    BY <2>3, FS_Interval
  <2>5. Cardinality(InterfaceIds) = MaxInterfaces
    BY <2>2, <2>4 DEF InterfaceIds
  <2>6. Cardinality(IdsOf(s)) \in Nat
    BY IdsAreInterfaces
  <2>7. IdsOf(s) # InterfaceIds
    BY <2>2, <2>5, <2>6
  <2>8. \E n \in InterfaceIds : n \notin IdsOf(s)
    BY <2>1, <2>7
  <2> QED BY <2>8
<1>2. t = [s EXCEPT !.byEmail[e].requests = Append(@, r), !.calls[c] = @ + 1]
  BY DEF Ask, IdsOf, CallOf
<1> HIDE DEF id, c
<1>3. r \in Request
  BY <1>1, SignalsTyped DEF Request
<1>4. c \in Calls
  BY CallTyped, SignalsTyped DEF c
<1>5. s.byEmail \in [Emails -> AskType] /\ s.calls \in [Calls -> Nat] /\ s.byEmail[e].requests \in Seq(Request)
  BY ManagerFields, AskFields
<1>6. Append(s.byEmail[e].requests, r) \in Seq(Request)
  BY <1>3, <1>5
<1> HIDE DEF r
<1>7. b \in [Emails -> AskType]
  <2>1. [s.byEmail[e] EXCEPT !.requests = Append(s.byEmail[e].requests, r)] \in AskType
    BY <1>5, <1>6 DEF AskType
  <2> QED BY <1>5, <2>1
<1>8. d \in [Calls -> Nat]
  <2>1. s.calls[c] + 1 \in Nat
    BY <1>4, <1>5
  <2> QED BY <1>5, <2>1
<1>9. t = [s EXCEPT !.byEmail = b, !.calls = d]
  BY <1>2 DEF ManagerType
<1>10. b[e] = [s.byEmail[e] EXCEPT !.requests = Append(@, r)] /\ \A f \in Emails : f # e => b[f] = s.byEmail[f]
  BY <1>5
<1> HIDE DEF t, b, d
<1>11. t \in ManagerType
  BY <1>7, <1>8, <1>9 DEF ManagerType
<1>12. /\ t.byEmail = b /\ t.calls = d /\ t.queue = s.queue /\ t.posted = s.posted /\ t.boxes = s.boxes
       /\ t.given = s.given /\ t.emailOf = s.emailOf /\ t.searches = s.searches
       /\ t.checks = s.checks /\ t.ended = s.ended /\ t.downloads = s.downloads /\ t.dry = s.dry
  BY <1>9 DEF ManagerType
<1>13. Asked(s, t, e, p, id)
  BY <1>1, <1>10, <1>12 DEF Asked, r, c, d
<1> QED BY <1>11, <1>13 DEF t

LEMMA AppendedFacts ==
  ASSUME NEW S, NEW q \in Seq(S), NEW x \in S
  PROVE  /\ Append(q, x) \in Seq(S) /\ Len(Append(q, x)) = Len(q) + 1
         /\ Len(q) \in Nat /\ DOMAIN q = 1 .. Len(q) /\ DOMAIN Append(q, x) = 1 .. Len(q) + 1
         /\ \A k \in DOMAIN q : Append(q, x)[k] = q[k] /\ k # Len(q) + 1
         /\ Append(q, x)[Len(q) + 1] = x
<1>1. Len(q) \in Nat /\ DOMAIN q = 1 .. Len(q)
  BY SeqFacts
<1>2. /\ Append(q, x) \in Seq(S) /\ Len(Append(q, x)) = Len(q) + 1
      /\ \A k \in 1 .. Len(q) : Append(q, x)[k] = q[k]
      /\ Append(q, x)[Len(q) + 1] = x
  BY <1>1, AppendProperties
<1>3. DOMAIN Append(q, x) = 1 .. Len(q) + 1
  BY <1>2, SeqFacts
<1> QED BY <1>1, <1>2, <1>3

\* What one more request leaves.
LEMMA AskedKeeps ==
  ASSUME NEW s, Good(s), NEW e \in Emails, s.byEmail[e].open, NEW p \in Providers,
         NEW t \in ManagerType, NEW id, Asked(s, t, e, p, id)
  PROVE  /\ Good(t) /\ t.byEmail[e].open
         /\ Cardinality(IdsOf(t)) = Cardinality(IdsOf(s)) + 1
         /\ \A f \in Emails : Score(t, f) = Score(s, f)
<1> DEFINE r == [id |-> id, provider |-> p, hears |-> {"handlesFreeBusy"}]
           q == s.byEmail[e].requests
<1>1. s \in ManagerType /\ DistinctIds(s) /\ EmailsOfDownloads(s) /\ ClosedIsEmpty(s)
  BY DEF Good
<1>2. s.byEmail[e] \in AskType /\ q \in Seq(Request)
  BY <1>1, AskFields
<1>3. r \in Request /\ r.id = id
  BY SignalsTyped DEF Request, Asked
<1>4. t.byEmail[e] = [s.byEmail[e] EXCEPT !.requests = Append(q, r)]
  BY DEF Asked
<1> HIDE DEF r
<1>5. /\ t.byEmail[e].open = s.byEmail[e].open /\ t.byEmail[e].requests = Append(q, r)
  BY <1>2, <1>4 DEF AskType
<1>6. /\ DOMAIN Append(q, r) = 1 .. Len(q) + 1 /\ Len(q) \in Nat /\ DOMAIN q = 1 .. Len(q)
      /\ \A k \in DOMAIN q : Append(q, r)[k] = q[k]
      /\ Append(q, r)[Len(q) + 1] = r
  <2> HIDE DEF q
  <2> QED BY <1>2, <1>3, AppendedFacts
<1>7. \A f \in Emails : f # e => t.byEmail[f] = s.byEmail[f]
  BY DEF Asked
<1> DEFINE n == Len(q) + 1
<1>8. n \in DOMAIN t.byEmail[e].requests /\ t.byEmail[e].requests[n].id = id
  <2>1. n \in 1 .. n
    BY <1>6
  <2> QED BY <1>3, <1>5, <1>6, <2>1
<1>9. ASSUME NEW f \in Emails, NEW k \in DOMAIN t.byEmail[f].requests, ~(f = e /\ k = n)
      PROVE  k \in DOMAIN s.byEmail[f].requests /\ t.byEmail[f].requests[k] = s.byEmail[f].requests[k]
  <2>1. CASE f # e
    BY <1>7, <2>1
  <2>2. CASE f = e
    <3>1. k \in 1 .. Len(q) + 1 /\ k # Len(q) + 1
      BY <1>5, <1>6, <1>9, <2>2
    <3>2. k \in DOMAIN q
      BY <1>6, <3>1
    <3> QED BY <1>5, <1>6, <2>2, <3>2
  <2> QED BY <2>1, <2>2
<1>10. \A f \in Emails : \A k \in DOMAIN s.byEmail[f].requests :
         k \in DOMAIN t.byEmail[f].requests /\ t.byEmail[f].requests[k] = s.byEmail[f].requests[k]
  <2> TAKE f \in Emails
  <2> TAKE k \in DOMAIN s.byEmail[f].requests
  <2>1. CASE f # e
    BY <1>7, <2>1
  <2>2. CASE f = e
    <3>1. k \in 1 .. Len(q) + 1
      BY <1>6, <2>2
    <3> QED BY <1>5, <1>6, <2>2, <3>1
  <2> QED BY <2>1, <2>2
<1> HIDE DEF n, q
<1>11. id \notin IdsOf(s)
  BY DEF Asked
<1>12. \A f \in Emails : \A k \in DOMAIN s.byEmail[f].requests : s.byEmail[f].requests[k].id # id
  BY <1>1, <1>11, IdsAreInterfaces
<1>13. DistinctIds(t)
  <2> SUFFICES ASSUME NEW f \in Emails, NEW g \in Emails,
                      NEW k \in DOMAIN t.byEmail[f].requests, NEW m \in DOMAIN t.byEmail[g].requests,
                      t.byEmail[f].requests[k].id = t.byEmail[g].requests[m].id
               PROVE  f = g /\ k = m
    BY DEF DistinctIds
  <2>1. CASE f = e /\ k = n
    <3>1. t.byEmail[g].requests[m].id = id
      BY <1>8, <2>1
    <3>2. g = e /\ m = n
      BY <1>9, <1>12, <3>1
    <3> QED BY <2>1, <3>2
  <2>2. CASE ~(f = e /\ k = n)
    <3>1. k \in DOMAIN s.byEmail[f].requests /\ t.byEmail[f].requests[k] = s.byEmail[f].requests[k]
      BY <1>9, <2>2
    <3>2. ~(g = e /\ m = n)
      <4> SUFFICES ASSUME g = e, m = n PROVE FALSE
        OBVIOUS
      <4>1. t.byEmail[f].requests[k].id = id
        BY <1>8
      <4> QED BY <1>12, <3>1, <4>1
    <3>3. m \in DOMAIN s.byEmail[g].requests /\ t.byEmail[g].requests[m] = s.byEmail[g].requests[m]
      BY <1>9, <3>2
    <3> QED BY <1>1, <3>1, <3>3 DEF DistinctIds
  <2> QED BY <2>1, <2>2
<1>14. IdsOf(t) = IdsOf(s) \cup {id}
  <2>1. IdsOf(t) \subseteq IdsOf(s) \cup {id}
    <3> SUFFICES ASSUME NEW x \in IdsOf(t), x # id PROVE x \in IdsOf(s)
      OBVIOUS
    <3>1. PICK f \in Emails : \E k \in DOMAIN t.byEmail[f].requests : t.byEmail[f].requests[k].id = x
      BY IdsAreInterfaces
    <3>4. PICK k \in DOMAIN t.byEmail[f].requests : t.byEmail[f].requests[k].id = x
      BY <3>1
    <3>2. ~(f = e /\ k = n)
      BY <1>8, <3>4
    <3>3. k \in DOMAIN s.byEmail[f].requests /\ s.byEmail[f].requests[k].id = x
      BY <1>9, <3>4, <3>2
    <3> QED BY <1>1, <3>3, IdsAreInterfaces
  <2>2. IdsOf(s) \subseteq IdsOf(t)
    <3> SUFFICES ASSUME NEW x \in IdsOf(s) PROVE x \in IdsOf(t)
      OBVIOUS
    <3>1. PICK f \in Emails : \E k \in DOMAIN s.byEmail[f].requests : s.byEmail[f].requests[k].id = x
      BY <1>1, IdsAreInterfaces
    <3>3. PICK k \in DOMAIN s.byEmail[f].requests : s.byEmail[f].requests[k].id = x
      BY <3>1
    <3>2. k \in DOMAIN t.byEmail[f].requests /\ t.byEmail[f].requests[k].id = x
      BY <1>10, <3>3
    <3> QED BY <3>2, IdsAreInterfaces
  <2>3. id \in IdsOf(t)
    BY <1>8, IdsAreInterfaces
  <2> QED BY <2>1, <2>2, <2>3
<1>15. Cardinality(IdsOf(t)) = Cardinality(IdsOf(s)) + 1
  <2>1. IsFiniteSet(IdsOf(s))
    BY <1>1, IdsAreInterfaces
  <2>2. Cardinality(IdsOf(s) \cup {id}) = Cardinality(IdsOf(s)) + 1
    BY <1>11, <2>1, FS_AddElement
  <2> QED BY <1>14, <2>2
<1>16. \A f \in Emails : t.byEmail[f].open = s.byEmail[f].open
  BY <1>5, <1>7
<1>17. \A f \in Emails : Score(t, f) = Score(s, f)
  <2>1. t.emailOf = s.emailOf /\ t.searches = s.searches /\ t.checks = s.checks /\ t.ended = s.ended
    BY DEF Asked
  <2> QED BY <1>16, <2>1, SameScore
<1>18. ClosedIsEmpty(t)
  BY <1>1, <1>7, <1>16 DEF ClosedIsEmpty
<1>19. EmailsOfDownloads(t)
  BY <1>1 DEF EmailsOfDownloads, Asked
<1> QED BY <1>13, <1>15, <1>16, <1>17, <1>18, <1>19 DEF Good

OpenAsk == [Closed EXCEPT !.open = TRUE]

LEMMA OpenAskTyped ==
  /\ OpenAsk \in AskType /\ OpenAsk.open = TRUE /\ OpenAsk.requests = <<>>
  /\ OpenAsk.handlers = 0 /\ OpenAsk.merged = {} /\ DOMAIN OpenAsk.requests = {}
<1>1. <<>> \in Seq(Request) /\ DOMAIN <<>> = {}
  OBVIOUS
<1>2. OpenAsk \in AskType
  BY ClosedTyped DEF OpenAsk, AskType
<1>3. /\ OpenAsk.open = TRUE /\ OpenAsk.requests = <<>>
      /\ OpenAsk.handlers = 0 /\ OpenAsk.merged = {}
  BY DEF OpenAsk, Closed
<1> QED BY <1>1, <1>2, <1>3

\* It is noted that somebody is asked about.
LEMMA OpenedFacts ==
  ASSUME NEW s, Good(s), NEW e \in Emails
  PROVE  LET t == Opened(s, e)
         IN  /\ Good(t) /\ t.byEmail[e].open /\ IdsOf(t) = IdsOf(s) /\ SameRest(s, t)
             /\ s.byEmail[e].open => t = s
             /\ ~s.byEmail[e].open => t.byEmail[e] = OpenAsk
             /\ \A f \in Emails : f # e => t.byEmail[f] = s.byEmail[f]
             /\ \A f \in Emails :
                  Score(t, f) = Score(s, f) + IF f = e /\ ~s.byEmail[e].open THEN 1 ELSE 0
<1> DEFINE t == Opened(s, e)
<1>1. s \in ManagerType /\ DistinctIds(s) /\ EmailsOfDownloads(s) /\ ClosedIsEmpty(s)
  BY DEF Good
<1>2. CASE s.byEmail[e].open
  <2>1. t = s
    BY <1>2 DEF Opened
  <2>2. \A f \in Emails : Score(s, f) \in Nat
    BY <1>1, ScoreTyped
  <2> HIDE DEF t
  <2>3. SameRest(s, t)
    BY <2>1 DEF SameRest
  <2>4. \A f \in Emails : Score(t, f) = Score(s, f) + IF f = e /\ ~s.byEmail[e].open THEN 1 ELSE 0
    BY <1>2, <2>1, <2>2
  <2> QED BY <1>2, <2>1, <2>3, <2>4 DEF t
<1>3. CASE ~s.byEmail[e].open
  <2>1. t = WithAsk(s, e, OpenAsk)
    BY <1>3 DEF Opened, WithAsk, OpenAsk
  <2> HIDE DEF t
  <2>2. /\ t \in ManagerType /\ SameRest(s, t) /\ t.byEmail[e] = OpenAsk /\ EmailsOfDownloads(t)
        /\ \A f \in Emails : f # e => t.byEmail[f] = s.byEmail[f]
    BY <1>1, <2>1, WithAskFacts, OpenAskTyped
  <2>3. t.byEmail[e].open = TRUE /\ DOMAIN t.byEmail[e].requests = {}
    BY <2>2, OpenAskTyped
  <2>4. DOMAIN s.byEmail[e].requests = {}
    <3>1. s.byEmail[e].requests = <<>> /\ DOMAIN <<>> = {}
      BY <1>1, <1>3 DEF ClosedIsEmpty
    <3> QED BY <3>1
  <2>5. \A f \in Emails : /\ DOMAIN t.byEmail[f].requests = DOMAIN s.byEmail[f].requests
                          /\ \A k \in DOMAIN s.byEmail[f].requests :
                               t.byEmail[f].requests[k] = s.byEmail[f].requests[k]
    BY <2>2, <2>3, <2>4
  <2>6. IdsOf(t) = IdsOf(s) /\ DistinctIds(t)
    <3>1. \A n : n \in IdsOf(t) <=> n \in IdsOf(s)
      BY <1>1, <2>2, <2>5, IdsAreInterfaces
    <3>2. DistinctIds(t)
      BY <1>1, <2>5, DistinctCopied
    <3> QED BY <3>1, <3>2
  <2>7. ClosedIsEmpty(t)
    BY <1>1, <2>2, <2>3 DEF ClosedIsEmpty
  <2>8. \A f \in Emails : Score(t, f) = Score(s, f) + IF f = e /\ ~s.byEmail[e].open THEN 1 ELSE 0
    <3> TAKE f \in Emails
    <3>1. /\ Cardinality(UrlsOf(s, f)) \in Nat /\ s.searches[f] \in Nat /\ s.checks[f] \in Nat
          /\ s.ended[f] \in Nat /\ Score(s, f) \in Nat
      BY <1>1, ScoreTyped
    <3>2. UrlsOf(t, f) = UrlsOf(s, f)
      BY <2>2 DEF UrlsOf, SameRest
    <3>3. CASE f = e
      BY <1>3, <2>2, <2>3, <3>1, <3>2, <3>3 DEF Score, Under, SameRest
    <3>4. CASE f # e
      <4>1. t.byEmail[f].open = s.byEmail[f].open
        BY <2>2, <3>4
      <4>2. Score(t, f) = Score(s, f)
        BY <2>2, <4>1, SameScore DEF SameRest
      <4> QED BY <3>1, <3>4, <4>2
    <3> QED BY <3>3, <3>4
  <2> QED BY <1>3, <2>2, <2>3, <2>6, <2>7, <2>8 DEF Good, t
<1> QED BY <1>2, <1>3

\* The first k providers have been asked.
AskedSoFar(q, t, e, k) ==
  /\ Good(t) /\ t.byEmail[e].open
  /\ Cardinality(IdsOf(t)) = Cardinality(IdsOf(q)) + k
  /\ t.queue = q.queue /\ t.posted = q.posted /\ t.boxes = q.boxes
  /\ \A f \in Emails : Score(t, f) = Score(q, f)

LEMMA QuerySteps ==
  ASSUME NEW q, Good(q), NEW e \in Emails, q.byEmail[e].open, providers \subseteq Providers,
         Cardinality(IdsOf(q)) + Cardinality(providers) <= MaxInterfaces,
         NEW r, r[0] = q,
         \A k \in 1 .. Cardinality(providers) : r[k] = Ask(r[k - 1], e, SetToSeq(providers)[k])
  PROVE  /\ \A k \in 0 .. Cardinality(providers) : AskedSoFar(q, r[k], e, k)
         /\ \A k \in 1 .. Cardinality(providers) :
              \E id : Asked(r[k - 1], r[k], e, SetToSeq(providers)[k], id)
<1> DEFINE n == Cardinality(providers)
           T == {k \in 0 .. n : AskedSoFar(q, r[k], e, k)}
<1>1. /\ n \in Nat /\ \A k \in 1 .. n : SetToSeq(providers)[k] \in Providers
      /\ MaxInterfaces \in Nat /\ Cardinality(IdsOf(q)) \in Nat
  <2>1. n \in Nat /\ \A k \in 1 .. n : SetToSeq(providers)[k] \in Providers
    BY ProvidersInOrder
  <2>2. Cardinality(IdsOf(q)) \in Nat
    BY IdsAreInterfaces DEF Good
  <2>3. MaxInterfaces \in Nat
    BY BoundsAssumption
  <2> QED BY <2>1, <2>2, <2>3
<1> HIDE DEF n
<1>2. 0 \in T
  <2>1. Cardinality(IdsOf(q)) = Cardinality(IdsOf(q)) + 0
    BY <1>1
  <2> QED BY <1>1, <2>1 DEF AskedSoFar
<1>3. ASSUME NEW k \in Nat, k < n, k \in T
      PROVE  k + 1 \in T /\ \E id : Asked(r[k], r[k + 1], e, SetToSeq(providers)[k + 1], id)
  <2>1. k + 1 \in 1 .. n /\ k + 1 \in 0 .. n /\ (k + 1) - 1 = k
    BY <1>1, <1>3
  <2>2. r[k + 1] = Ask(r[k], e, SetToSeq(providers)[k + 1])
    BY <2>1 DEF n
  <2>3. PICK s, p : s = r[k] /\ p = SetToSeq(providers)[k + 1]
    OBVIOUS
  <2>4. AskedSoFar(q, s, e, k)
    BY <1>3, <2>3
  <2>5. Good(s) /\ s \in ManagerType /\ s.byEmail[e].open /\ p \in Providers
    BY <1>1, <2>1, <2>3, <2>4 DEF AskedSoFar, Good
  <2>6. Cardinality(IdsOf(s)) < MaxInterfaces
    BY <1>1, <1>3, <2>4 DEF AskedSoFar, n
  <2>7. PICK t : t = Ask(s, e, p)
    OBVIOUS
  <2>8. t \in ManagerType /\ \E id : Asked(s, t, e, p, id)
    BY <2>5, <2>6, <2>7, AskShape
  <2>9. PICK id : Asked(s, t, e, p, id)
    BY <2>8
  <2>10. /\ Good(t) /\ t.byEmail[e].open
         /\ Cardinality(IdsOf(t)) = Cardinality(IdsOf(s)) + 1
         /\ \A f \in Emails : Score(t, f) = Score(s, f)
    BY <2>5, <2>8, <2>9, AskedKeeps
  <2>11. t.queue = q.queue /\ t.posted = q.posted /\ t.boxes = q.boxes
    BY <2>4, <2>9 DEF Asked, AskedSoFar
  <2>12. Cardinality(IdsOf(t)) = Cardinality(IdsOf(q)) + (k + 1)
    BY <1>1, <2>4, <2>10 DEF AskedSoFar
  <2>13. AskedSoFar(q, t, e, k + 1)
    BY <2>4, <2>10, <2>11, <2>12 DEF AskedSoFar
  <2>14. t = r[k + 1]
    BY <2>2, <2>3, <2>7
  <2> QED BY <2>1, <2>3, <2>9, <2>13, <2>14
<1>4. 0 .. n \subseteq T
  <2> HIDE DEF T
  <2> QED BY <1>1, <1>2, <1>3, UpTo
<1>5. ASSUME NEW k \in 1 .. n
      PROVE  \E id : Asked(r[k - 1], r[k], e, SetToSeq(providers)[k], id)
  <2>1. k - 1 \in Nat /\ k - 1 < n /\ k - 1 \in 0 .. n /\ (k - 1) + 1 = k
    BY <1>1
  <2>2. k - 1 \in T
    BY <1>4, <2>1
  <2>3. \E id : Asked(r[k - 1], r[(k - 1) + 1], e, SetToSeq(providers)[(k - 1) + 1], id)
    BY <1>3, <2>1, <2>2
  <2> QED BY <2>1, <2>3
<1> QED BY <1>4, <1>5 DEF n

LEMMA QueryKeeps ==
  ASSUME NEW s, Good(s), NEW e \in Emails, providers \subseteq Providers,
         Cardinality(IdsOf(s)) + Cardinality(providers) <= MaxInterfaces
  PROVE  AskedSoFar(Opened(s, e), QueryFreeBusyProviders(s, e), e, Cardinality(providers))
<1> DEFINE q == Opened(s, e)
           n == Cardinality(providers)
<1>1. Good(q) /\ q.byEmail[e].open /\ IdsOf(q) = IdsOf(s)
  BY OpenedFacts
<1>2. n \in Nat /\ SetToSeq(providers) \in Seq(Providers) /\ Len(SetToSeq(providers)) = n
  BY ProvidersInOrder
<1>3. PICK r : AskedInTurn(s, e, r)
  BY <1>2, AskFold
<1> HIDE DEF q
<1>4. \A k \in 0 .. n : AskedSoFar(q, r[k], e, k)
  <2>1. \A k \in 1 .. n : r[k] = Ask(r[k - 1], e, SetToSeq(providers)[k])
    BY <1>2, <1>3 DEF AskedInTurn
  <2>2. r[0] = q /\ Cardinality(IdsOf(q)) + n <= MaxInterfaces
    BY <1>1, <1>3 DEF q, AskedInTurn
  <2> QED BY <1>1, <2>1, <2>2, QuerySteps
<1>5. n \in 0 .. n
  <2> HIDE DEF n
  <2> QED BY <1>2
<1> HIDE DEF n
<1>6. QueryFreeBusyProviders(s, e) = r[n]
  BY <1>2, <1>3 DEF AskedInTurn
<1> QED BY <1>4, <1>5, <1>6 DEF q, n

\* The emails that wait.
LEMMA WaitingTyped ==
  ASSUME NEW q \in Seq(Emails), NEW e
  PROVE  /\ IsFiniteSet({k \in DOMAIN q : q[k] = e}) /\ WaitingIn(q, e) \in Nat
         /\ WaitingIn(<<>>, e) = 0
<1>1. Len(q) \in Nat /\ DOMAIN q = 1 .. Len(q)
  BY SeqFacts
<1>2. IsFiniteSet(1 .. Len(q))
  <2>1. 1 \in Int /\ Len(q) \in Int
    BY <1>1
  <2> QED BY <2>1, FS_Interval
<1>3. {k \in DOMAIN q : q[k] = e} \subseteq 1 .. Len(q)
  BY <1>1
<1>4. IsFiniteSet({k \in DOMAIN q : q[k] = e})
  BY <1>2, <1>3, FS_Subset
<1>5. WaitingIn(q, e) \in Nat
  BY <1>4, FS_CardinalityType DEF WaitingIn
<1>6. {k \in DOMAIN <<>> : <<>>[k] = e} = {}
  <2>1. DOMAIN <<>> = {}
    OBVIOUS
  <2> QED BY <2>1
<1>7. WaitingIn(<<>>, e) = 0
  BY <1>6, FS_EmptySet DEF WaitingIn
<1> QED BY <1>4, <1>5, <1>7

LEMMA WaitingAppend ==
  ASSUME NEW q \in Seq(Emails), NEW e \in Emails, NEW f \in Emails
  PROVE  WaitingIn(Append(q, e), f) = WaitingIn(q, f) + IF f = e THEN 1 ELSE 0
<1> DEFINE A == {k \in DOMAIN q : q[k] = f}
           n == Len(q) + 1
           B == {k \in DOMAIN Append(q, e) : Append(q, e)[k] = f}
<1>1. /\ Len(q) \in Nat /\ DOMAIN q = 1 .. Len(q) /\ DOMAIN Append(q, e) = 1 .. Len(q) + 1
      /\ \A k \in DOMAIN q : Append(q, e)[k] = q[k] /\ k # Len(q) + 1
      /\ Append(q, e)[Len(q) + 1] = e
  BY AppendedFacts
<1>2. IsFiniteSet(A) /\ WaitingIn(q, f) \in Nat
  BY WaitingTyped
<1>3. n \notin A /\ \A k : k \in DOMAIN Append(q, e) <=> k \in DOMAIN q \/ k = n
  BY <1>1
<1>4. CASE f = e
  <2>1. B = A \cup {n}
    BY <1>1, <1>3, <1>4
  <2>2. Cardinality(A \cup {n}) = Cardinality(A) + 1
    <3> HIDE DEF A, n
    <3> QED BY <1>2, <1>3, FS_AddElement
  <2> QED BY <1>4, <2>1, <2>2 DEF WaitingIn
<1>5. CASE f # e
  <2>1. B = A
    BY <1>1, <1>3, <1>5
  <2> HIDE DEF A, B
  <2>2. WaitingIn(Append(q, e), f) = WaitingIn(q, f)
    BY <2>1 DEF WaitingIn, A, B
  <2> QED BY <1>2, <1>5, <2>2
<1> QED BY <1>4, <1>5

LEMMA WaitingTail ==
  ASSUME NEW q \in Seq(Emails), q # <<>>, NEW f \in Emails
  PROVE  /\ Head(q) \in Emails /\ Tail(q) \in Seq(Emails) /\ Len(Tail(q)) = Len(q) - 1
         /\ Len(q) \in Nat \ {0}
         /\ WaitingIn(q, f) = WaitingIn(Tail(q), f) + IF f = Head(q) THEN 1 ELSE 0
<1> DEFINE u == Tail(q)
           A == {k \in DOMAIN q : q[k] = f}
           B == {k \in DOMAIN u : u[k] = f}
           C == A \ {1}
           g == [k \in B |-> k + 1]
<1>1. Len(q) \in Nat /\ DOMAIN q = 1 .. Len(q) /\ Len(q) # 0
  BY SeqFacts, EmptySeq
<1>2. /\ Head(q) \in Emails /\ u \in Seq(Emails) /\ Len(u) = Len(q) - 1 /\ Head(q) = q[1]
      /\ \A k \in 1 .. Len(q) - 1 : u[k] = q[k + 1]
  BY HeadTailProperties
<1>3. DOMAIN u = 1 .. Len(q) - 1
  BY <1>2, SeqFacts
<1>4. IsFiniteSet(A) /\ IsFiniteSet(B) /\ WaitingIn(u, f) \in Nat
  BY <1>2, WaitingTyped
<1>5. g \in [B -> C]
  <2>1. \A k \in B : k + 1 \in C
    BY <1>1, <1>2, <1>3
  <2> QED BY <2>1
<1>6. \A j, k \in B : g[j] = g[k] => j = k
  BY <1>3
<1>7. \A c \in C : \E k \in B : g[k] = c
  <2> TAKE c \in C
  <2>1. c \in 1 .. Len(q) /\ c # 1 /\ q[c] = f
    BY <1>1
  <2>2. c - 1 \in 1 .. Len(q) - 1 /\ (c - 1) + 1 = c
    BY <1>1, <2>1
  <2>3. c - 1 \in B
    BY <1>2, <1>3, <2>1, <2>2
  <2> QED BY <2>2, <2>3
<1> HIDE DEF g, A, B
<1>8. g \in Bijection(B, C)
  BY <1>5, <1>6, <1>7 DEF Bijection, Injection, Surjection, IsInjective
<1>9. Cardinality(C) = Cardinality(B)
  BY <1>4, <1>8, FS_Bijection DEF ExistsBijection
<1>10. Cardinality(C) = IF 1 \in A THEN Cardinality(A) - 1 ELSE Cardinality(A)
  BY <1>4, FS_RemoveElement
<1>11. 1 \in A <=> f = Head(q)
  BY <1>1, <1>2 DEF A
<1>12. Cardinality(A) \in Nat
  BY <1>4, FS_CardinalityType
<1>13. WaitingIn(q, f) = Cardinality(A) /\ WaitingIn(u, f) = Cardinality(B)
  BY DEF WaitingIn, A, B
<1>14. WaitingIn(q, f) = WaitingIn(u, f) + IF f = Head(q) THEN 1 ELSE 0
  BY <1>9, <1>10, <1>11, <1>12, <1>13
<1> QED BY <1>1, <1>2, <1>14

-----------------------------------------------------------------------------
(* The queue is served.                                                    *)

\* What the requests and the downloads look like depends on these parts only.
LEMMA GoodFacts ==
  ASSUME NEW s, Good(s), NEW t \in ManagerType,
         t.byEmail = s.byEmail, t.emailOf = s.emailOf, t.downloads = s.downloads
  PROVE  Good(t) /\ IdsOf(t) = IdsOf(s)
BY DEF Good, DistinctIds, ClosedIsEmpty, EmailsOfDownloads, IdsOf, Requests

LEMMA LookedFacts ==
  ASSUME NEW s, Good(s), NEW t, NEW e \in Emails, Looked(s, t, e)
  PROVE  /\ Good(t) /\ t \in ManagerType /\ IdsOf(t) = IdsOf(s) /\ t.queue = s.queue /\ Busy(t)
         /\ \A f \in Emails : Score(t, f) = Score(s, f) + IF f = e THEN 1 ELSE 0
<1>1. /\ t \in ManagerType /\ EmailsOfDownloads(t) /\ Sought(t) /\ t.byEmail = s.byEmail
      /\ t.queue = s.queue
      /\ \A f \in Emails : Score(t, f) = Score(s, f) + IF f = e THEN 1 ELSE 0
  BY DEF Looked, SameAsks
<1>2. DistinctIds(s) /\ ClosedIsEmpty(s)
  BY DEF Good
<1>3. DistinctIds(t)
  BY <1>1, <1>2 DEF DistinctIds
<1>4. ClosedIsEmpty(t)
  BY <1>1, <1>2 DEF ClosedIsEmpty
<1>5. IdsOf(t) = IdsOf(s)
  BY <1>1 DEF IdsOf, Requests
<1>6. Busy(t)
  BY <1>1 DEF Busy, Sought
<1> QED BY <1>1, <1>3, <1>4, <1>5, <1>6 DEF Good

LEMMA TotalScore ==
  ASSUME NEW s \in ManagerType, NEW e \in Emails
  PROVE  /\ Total(s, e) = WaitingIn(s.queue, e) + Score(s, e)
         /\ WaitingIn(s.queue, e) \in Nat /\ Score(s, e) \in Nat /\ Total(s, e) \in Nat
<1>1. Under(s, e) \in Nat /\ Score(s, e) \in Nat /\ s.ended[e] \in Nat
  BY ScoreTyped
<1>2. WaitingIn(s.queue, e) \in Nat
  BY ManagerFields, WaitingTyped
<1> QED BY <1>1, <1>2 DEF Total, Score

LEMMA Times ==
  ASSUME NEW m \in Nat, NEW n \in Nat
  PROVE  m * n \in Nat /\ (m + 1) * n = m * n + n
OBVIOUS

Load(s) == Cardinality(IdsOf(s)) + Len(s.queue) * Cardinality(providers)

LEMMA LoadTyped ==
  ASSUME NEW s \in ManagerType, providers \subseteq Providers
  PROVE  /\ Cardinality(IdsOf(s)) \in Nat /\ Len(s.queue) \in Nat /\ Cardinality(providers) \in Nat
         /\ Len(s.queue) * Cardinality(providers) \in Nat /\ Load(s) \in Nat
<1>1. Cardinality(IdsOf(s)) \in Nat /\ Cardinality(providers) \in Nat
  BY IdsAreInterfaces, ProvidersInOrder
<1>2. Len(s.queue) \in Nat
  BY ManagerFields, SeqFacts
<1> QED BY <1>1, <1>2, Times DEF Load

\* The queue is served: s before that, t after it.
Processed(s, t) ==
  /\ Good(t) /\ Load(t) <= Load(s)
  /\ s.queue = <<>> => t = s
  /\ s.queue # <<>> => Busy(t)
  /\ \A e \in Emails :
       Total(s, e) = Total(t, e) + IF AskedAgain(s) /\ e = Head(s.queue) THEN 1 ELSE 0

LEMMA ProcessKeeps ==
  ASSUME NEW s, Good(s), providers \subseteq Providers, Load(s) <= MaxInterfaces
  PROVE  Processed(s, ProcessRetrieveQueue(s))
<1> DEFINE N == Cardinality(providers)
           t == ProcessRetrieveQueue(s)
<1>0. s \in ManagerType
  BY DEF Good
<1>1. CASE s.queue = <<>>
  <2>1. t = s
    BY <1>1 DEF ProcessRetrieveQueue
  <2>2. Load(s) \in Nat /\ \A e \in Emails : Total(s, e) \in Nat
    BY <1>0, LoadTyped, TotalScore
  <2>3. ~AskedAgain(s)
    BY <1>1 DEF AskedAgain
  <2> HIDE DEF t
  <2>4. \A e \in Emails : Total(s, e) = Total(t, e) + IF AskedAgain(s) /\ e = Head(s.queue) THEN 1 ELSE 0
    BY <2>1, <2>2, <2>3
  <2> QED BY <1>1, <2>1, <2>2, <2>4 DEF Processed, t
<1>2. CASE s.queue # <<>>
  <2> DEFINE e == Head(s.queue)
             r == [s EXCEPT !.queue = Tail(@)]
  <2>1. s.queue \in Seq(Emails)
    BY <1>0, ManagerFields
  <2>2. /\ e \in Emails /\ Tail(s.queue) \in Seq(Emails)
        /\ Len(Tail(s.queue)) = Len(s.queue) - 1 /\ Len(s.queue) \in Nat \ {0}
        /\ \A f \in Emails : WaitingIn(s.queue, f) = WaitingIn(Tail(s.queue), f) + IF f = e THEN 1 ELSE 0
    <3>1. /\ Head(s.queue) \in Emails /\ Tail(s.queue) \in Seq(Emails)
          /\ Len(Tail(s.queue)) = Len(s.queue) - 1 /\ Len(s.queue) \in Nat \ {0}
      BY <1>2, <2>1, WaitingTail
    <3>2. \A f \in Emails : WaitingIn(s.queue, f) = WaitingIn(Tail(s.queue), f)
                                                    + IF f = Head(s.queue) THEN 1 ELSE 0
      BY <1>2, <2>1, WaitingTail
    <3> QED BY <3>1, <3>2
  <2>3. t = IF providers # {} THEN QueryFreeBusyProviders(r, e) ELSE FetchFreeBusyUrl(r, e)
    BY <1>2 DEF ProcessRetrieveQueue
  <2>4. /\ r \in ManagerType /\ r.queue = Tail(s.queue) /\ r.byEmail = s.byEmail
        /\ r.emailOf = s.emailOf /\ r.downloads = s.downloads /\ r.searches = s.searches
        /\ r.checks = s.checks /\ r.ended = s.ended
    BY <1>0, <2>2 DEF ManagerType
  <2> HIDE DEF r, e, t
  <2>5. Good(r) /\ IdsOf(r) = IdsOf(s) /\ EmailsOfDownloads(r)
    <3>1. Good(r) /\ IdsOf(r) = IdsOf(s)
      BY <2>4, GoodFacts
    <3> QED BY <3>1 DEF Good
  <2>6. \A f \in Emails : Score(r, f) = Score(s, f)
    BY <2>4, SameScore
  <2> DEFINE L == Len(Tail(s.queue))
             I == Cardinality(IdsOf(s))
  <2>7. /\ N \in Nat /\ I \in Nat /\ L \in Nat /\ L * N \in Nat /\ Load(s) = I + L * N + N
        /\ MaxInterfaces \in Nat
    <3>1. N \in Nat /\ I \in Nat /\ Len(s.queue) \in Nat
      BY <1>0, LoadTyped
    <3>2. L \in Nat /\ L + 1 = Len(s.queue)
      BY <2>2
    <3>3. Load(s) = I + Len(s.queue) * N
      BY DEF Load
    <3> HIDE DEF N, I, L
    <3>4. L * N \in Nat /\ Len(s.queue) * N = L * N + N
      BY <3>1, <3>2, Times
    <3>5. MaxInterfaces \in Nat
      BY BoundsAssumption
    <3> QED BY <3>1, <3>2, <3>3, <3>4, <3>5
  <2>8. AskedAgain(s) <=> providers # {} /\ s.byEmail[e].open
    BY <1>2 DEF AskedAgain, e
  <2>9. ASSUME t \in ManagerType, t.queue = Tail(s.queue),
               \A f \in Emails : Score(t, f) = Score(s, f) + IF f = e /\ ~AskedAgain(s) THEN 1 ELSE 0
        PROVE  \A f \in Emails : Total(s, f) = Total(t, f) + IF AskedAgain(s) /\ f = Head(s.queue) THEN 1 ELSE 0
    <3> TAKE f \in Emails
    <3>1. /\ Total(s, f) = WaitingIn(s.queue, f) + Score(s, f)
          /\ WaitingIn(s.queue, f) \in Nat /\ Score(s, f) \in Nat
      BY <1>0, TotalScore
    <3>2. /\ Total(t, f) = WaitingIn(Tail(s.queue), f) + Score(t, f)
          /\ WaitingIn(Tail(s.queue), f) \in Nat
      BY <2>9, TotalScore
    <3>3. e = Head(s.queue)
      BY DEF e
    <3> QED BY <2>2, <2>9, <3>1, <3>2, <3>3
  <2>10. CASE providers # {}
    <3> DEFINE q == Opened(r, e)
    <3>1. /\ Good(q) /\ IdsOf(q) = IdsOf(r) /\ SameRest(r, q)
          /\ \A f \in Emails : Score(q, f) = Score(r, f) + IF f = e /\ ~r.byEmail[e].open THEN 1 ELSE 0
      BY <2>2, <2>5, OpenedFacts
    <3>2. Cardinality(IdsOf(r)) + N <= MaxInterfaces
      BY <2>5, <2>7
    <3>3. AskedSoFar(q, t, e, N)
      BY <2>2, <2>3, <2>5, <2>10, <3>2, QueryKeeps
    <3> HIDE DEF q
    <3>4. Good(t) /\ t \in ManagerType /\ t.byEmail[e].open /\ t.queue = Tail(s.queue)
      BY <2>4, <3>1, <3>3 DEF AskedSoFar, Good, SameRest
    <3>5. Load(t) = I + N + L * N
      BY <2>5, <2>7, <3>1, <3>3, <3>4 DEF Load, AskedSoFar
    <3>6. Load(t) <= Load(s)
      BY <2>7, <3>5
    <3>7. Busy(t)
      BY <2>2, <3>4 DEF Busy
    <3>8. \A f \in Emails : Score(t, f) = Score(s, f) + IF f = e /\ ~AskedAgain(s) THEN 1 ELSE 0
      BY <2>4, <2>6, <2>8, <2>10, <3>1, <3>3 DEF AskedSoFar
    <3>9. \A f \in Emails : Total(s, f) = Total(t, f) + IF AskedAgain(s) /\ f = Head(s.queue) THEN 1 ELSE 0
      BY <2>9, <3>4, <3>8
    <3> QED BY <1>2, <3>4, <3>6, <3>7, <3>9 DEF Processed, t
  <2>11. CASE providers = {}
    <3>1. Looked(r, t, e)
      BY <2>2, <2>3, <2>4, <2>5, <2>11, FetchFacts
    <3>3. /\ Good(t) /\ t \in ManagerType /\ IdsOf(t) = IdsOf(s) /\ t.queue = Tail(s.queue) /\ Busy(t)
          /\ \A f \in Emails : Score(t, f) = Score(r, f) + IF f = e THEN 1 ELSE 0
      BY <2>2, <2>4, <2>5, <3>1, LookedFacts
    <3>5. Load(t) <= Load(s)
      BY <2>7, <3>3 DEF Load
    <3>6. \A f \in Emails : Score(t, f) = Score(s, f) + IF f = e /\ ~AskedAgain(s) THEN 1 ELSE 0
      BY <2>6, <2>8, <2>11, <3>3
    <3>7. \A f \in Emails : Total(s, f) = Total(t, f) + IF AskedAgain(s) /\ f = Head(s.queue) THEN 1 ELSE 0
      BY <2>9, <3>3, <3>6
    <3> QED BY <1>2, <3>3, <3>5, <3>7 DEF Processed, t
  <2> QED BY <2>10, <2>11
<1> QED BY <1>1, <1>2

-----------------------------------------------------------------------------
(* The steps and the retrievals.                                           *)

RetrievalsInv == Types /\ Good(manager) /\ Room /\ Balance /\ Served

LEMMA RoomLoad == Room <=> /\ past.calls * Cardinality(providers) <= MaxInterfaces
                           /\ Load(manager) <= past.calls * Cardinality(providers)
BY DEF Room, Load

LEMMA RetrievalsFacts ==
  ASSUME RetrievalsInv
  PROVE  /\ manager \in ManagerType /\ past \in PastType /\ providers \subseteq Providers
         /\ Load(manager) \in Nat /\ Cardinality(providers) \in Nat
         /\ past.calls \in Nat /\ past.calls * Cardinality(providers) \in Nat
         /\ Load(manager) <= MaxInterfaces /\ MaxInterfaces \in Nat
         /\ \A e \in Emails : /\ Total(manager, e) \in Nat /\ past.asked[e] \in Nat
                              /\ Total(manager, e) <= past.asked[e]
                              /\ ~past.crossed => Total(manager, e) = past.asked[e]
<1>1. manager \in ManagerType /\ past \in PastType /\ providers \subseteq Providers
  BY DEF RetrievalsInv, Types
<1>2. Load(manager) \in Nat /\ Cardinality(providers) \in Nat
  BY <1>1, LoadTyped
<1>3. past.calls \in Nat /\ past.asked \in [Emails -> Nat]
  BY <1>1 DEF PastType
<1>4. past.calls * Cardinality(providers) \in Nat
  BY <1>2, <1>3, Times
<1>5. /\ past.calls * Cardinality(providers) <= MaxInterfaces
      /\ Load(manager) <= past.calls * Cardinality(providers)
  BY RoomLoad DEF RetrievalsInv
<1>6. MaxInterfaces \in Nat
  BY BoundsAssumption
<1>7. Load(manager) <= MaxInterfaces
  BY <1>2, <1>4, <1>5, <1>6
<1>8. ASSUME NEW e \in Emails
      PROVE  /\ Total(manager, e) \in Nat /\ past.asked[e] \in Nat
             /\ Total(manager, e) <= past.asked[e]
             /\ ~past.crossed => Total(manager, e) = past.asked[e]
  BY <1>1, <1>3, TotalScore DEF RetrievalsInv, Balance
<1> QED BY <1>1, <1>2, <1>3, <1>4, <1>6, <1>7, <1>8

\* A step that asks for nothing.
LEMMA StepKeeps ==
  ASSUME RetrievalsInv, NEW t, manager' = t, Good(t), UNCHANGED providers,
         past' \in PastType, past'.calls = past.calls, past'.asked = past.asked,
         past.crossed => past'.crossed,
         Load(t) <= Load(manager), t.queue # <<>> => Busy(t),
         \A e \in Emails : /\ Total(t, e) <= Total(manager, e)
                           /\ ~past'.crossed => Total(t, e) = Total(manager, e)
  PROVE  RetrievalsInv'
<1>1. /\ manager \in ManagerType /\ providers \subseteq Providers /\ Load(manager) \in Nat
      /\ past.calls * Cardinality(providers) \in Nat
      /\ \A e \in Emails : /\ Total(manager, e) \in Nat /\ past.asked[e] \in Nat
                           /\ Total(manager, e) <= past.asked[e]
                           /\ ~past.crossed => Total(manager, e) = past.asked[e]
  BY RetrievalsFacts
<1>2. t \in ManagerType
  BY DEF Good
<1>3. Types'
  BY <1>1, <1>2 DEF Types
<1>4. /\ past.calls * Cardinality(providers) <= MaxInterfaces
      /\ Load(manager) <= past.calls * Cardinality(providers)
  BY RoomLoad DEF RetrievalsInv
<1>5. Load(t) \in Nat
  BY <1>1, <1>2, LoadTyped
<1>6. Load(t) <= past.calls * Cardinality(providers)
  BY <1>1, <1>4, <1>5
<1>7. Room'
  BY <1>4, <1>6 DEF Room, Load
<1>8. \A e \in Emails : Total(t, e) \in Nat
  BY <1>2, TotalScore
<1>9. ASSUME NEW e \in Emails
      PROVE  Total(t, e) <= past.asked[e] /\ (~past'.crossed => Total(t, e) = past.asked[e])
  BY <1>1, <1>8
<1>10. Balance'
  BY <1>9 DEF Balance, Total, Under, UrlsOf, WaitingIn
<1>11. Served'
  BY DEF Served, Busy
<1>12. Good(manager)'
  BY DEF Good, ClosedIsEmpty, EmailsOfDownloads, DistinctIds, ManagerType
<1> QED BY <1>3, <1>7, <1>10, <1>11, <1>12 DEF RetrievalsInv

LEMMA ServeStep ==
  ASSUME RetrievalsInv, NEW s, Good(s), Serve(s), Load(s) <= Load(manager),
         \A e \in Emails : Total(s, e) = Total(manager, e)
  PROVE  RetrievalsInv'
<1> DEFINE t == ProcessRetrieveQueue(s)
<1>1. /\ manager \in ManagerType /\ past \in PastType /\ providers \subseteq Providers
      /\ Load(manager) \in Nat /\ Load(manager) <= MaxInterfaces /\ MaxInterfaces \in Nat
  BY RetrievalsFacts
<1>2. s \in ManagerType /\ Load(s) \in Nat
  BY <1>1, LoadTyped DEF Good
<1>3. Load(s) <= MaxInterfaces
  BY <1>1, <1>2
<1>4. Processed(s, t)
  BY <1>1, <1>3, ProcessKeeps
<1>5. /\ manager' = t /\ past' = [past EXCEPT !.crossed = @ \/ AskedAgain(s)]
      /\ UNCHANGED providers
  BY DEF Serve
<1> HIDE DEF t
<1>6. /\ past' \in PastType /\ past'.calls = past.calls /\ past'.asked = past.asked
      /\ past'.crossed = (past.crossed \/ AskedAgain(s))
  <2>1. past.crossed \in BOOLEAN
    BY <1>1 DEF PastType
  <2>2. (past.crossed \/ AskedAgain(s)) \in BOOLEAN
    OBVIOUS
  <2> HIDE DEF AskedAgain
  <2>3. PICK b \in BOOLEAN : b = (past.crossed \/ AskedAgain(s))
    BY <2>2
  <2>4. past' = [past EXCEPT !.crossed = b]
    BY <1>5, <2>3
  <2>5. past' \in PastType /\ past'.calls = past.calls /\ past'.asked = past.asked /\ past'.crossed = b
    BY <1>1, <2>4 DEF PastType
  <2> QED BY <2>3, <2>5
<1>7. Good(t) /\ Load(t) <= Load(s) /\ t \in ManagerType
  BY <1>4 DEF Processed, Good
<1>8. Load(t) <= Load(manager)
  <2>1. Load(t) \in Nat
    BY <1>1, <1>7, LoadTyped
  <2> QED BY <1>1, <1>2, <1>7, <2>1
<1>9. t.queue # <<>> => Busy(t)
  BY <1>4 DEF Processed
<1>10. ASSUME NEW e \in Emails
       PROVE  /\ Total(t, e) <= Total(manager, e)
              /\ ~past'.crossed => Total(t, e) = Total(manager, e)
  <2>1. Total(s, e) = Total(t, e) + IF AskedAgain(s) /\ e = Head(s.queue) THEN 1 ELSE 0
    BY <1>4 DEF Processed
  <2>2. Total(t, e) \in Nat /\ Total(s, e) \in Nat /\ Total(manager, e) \in Nat
    BY <1>1, <1>2, <1>7, TotalScore
  <2>3. ~past'.crossed => ~AskedAgain(s)
    BY <1>6
  <2> QED BY <2>1, <2>2, <2>3
<1>11. past.crossed => past'.crossed
  BY <1>6
<1> QED BY <1>5, <1>6, <1>7, <1>8, <1>9, <1>10, <1>11, StepKeeps

\* past is the same.
LEMMA OldPast ==
  ASSUME RetrievalsInv, UNCHANGED past
  PROVE  /\ past' \in PastType /\ past'.calls = past.calls /\ past'.asked = past.asked
         /\ (past.crossed => past'.crossed)
BY RetrievalsFacts

LEMMA InitRetrievals == Init => RetrievalsInv
<1> SUFFICES ASSUME Init PROVE RetrievalsInv
  OBVIOUS
<1> DEFINE m == manager
<1>1. /\ m.queue = <<>> /\ m.posted = 0 /\ m.byEmail = [e \in Emails |-> Closed]
      /\ m.calls = [c \in Calls |-> 0] /\ m.searches = [e \in Emails |-> 0]
      /\ m.checks = [e \in Emails |-> 0] /\ m.emailOf = [u \in Urls |-> NoEmail]
      /\ m.downloads = [u \in Urls |-> 0] /\ m.ended = [e \in Emails |-> 0]
  BY DEF Init
<1>2. manager \in ManagerType
  <2>1. <<>> \in Seq(Emails) /\ [e \in Emails |-> Closed] \in [Emails -> AskType]
    BY ClosedTyped
  <2> HIDE DEF m
  <2> QED BY <2>1 DEF Init, ManagerType
<1>3. past \in PastType /\ past.asked = [e \in Emails |-> 0] /\ past.calls = 0
  BY DEF Init, PastType
<1>4. providers \subseteq Providers
  BY DEF Init
<1>5. \A e \in Emails : m.byEmail[e] = Closed
  BY <1>1
<1> HIDE DEF m
<1>6. \A e \in Emails : /\ m.byEmail[e].open = FALSE /\ m.byEmail[e].requests = <<>>
                        /\ m.byEmail[e].handlers = 0 /\ m.byEmail[e].merged = {}
                        /\ DOMAIN m.byEmail[e].requests = {}
  BY <1>5, ClosedTyped DEF Closed
<1>7. ClosedIsEmpty(m)
  BY <1>6 DEF ClosedIsEmpty
<1>8. DistinctIds(m)
  BY <1>6 DEF DistinctIds
<1>9. EmailsOfDownloads(m)
  BY <1>1 DEF EmailsOfDownloads
<1>10. Good(manager)
  BY <1>2, <1>7, <1>8, <1>9 DEF Good, m
<1>11. Load(manager) = 0 /\ past.calls * Cardinality(providers) = 0
  <2>1. IdsOf(m) = {}
    BY <1>2, <1>6, IdsAreInterfaces DEF m
  <2>2. Cardinality(IdsOf(m)) = 0 /\ Len(m.queue) = 0
    BY <1>1, <2>1, FS_EmptySet
  <2>3. Cardinality(providers) \in Nat
    BY <1>4, ProvidersInOrder
  <2>4. 0 * Cardinality(providers) = 0
    BY <2>3
  <2> QED BY <1>3, <2>2, <2>4 DEF Load, m
<1>12. Room
  <2>1. MaxInterfaces \in Nat
    BY BoundsAssumption
  <2> QED BY <1>11, <2>1, RoomLoad
<1>13. ASSUME NEW e \in Emails
       PROVE  Total(m, e) = 0 /\ past.asked[e] = 0
  <2>1. WaitingIn(m.queue, e) = 0
    <3>1. <<>> \in Seq(Emails)
      OBVIOUS
    <3>2. WaitingIn(<<>>, e) = 0
      BY <3>1, WaitingTyped
    <3> QED BY <1>1, <3>2
  <2>2. UrlsOf(m, e) = {}
    BY <1>1, BoundsAssumption DEF UrlsOf, NoEmail
  <2>3. Cardinality(UrlsOf(m, e)) = 0
    BY <2>2, FS_EmptySet
  <2>4. m.searches[e] = 0 /\ m.checks[e] = 0 /\ m.ended[e] = 0 /\ past.asked[e] = 0
    BY <1>1, <1>3
  <2> QED BY <1>6, <2>1, <2>3, <2>4 DEF Total, Under
<1>14. Balance
  BY <1>13 DEF Balance, m
<1>15. Served
  BY <1>1 DEF Served, m
<1> QED BY <1>2, <1>3, <1>4, <1>10, <1>12, <1>14, <1>15 DEF RetrievalsInv, Types

LEMMA PostedStep ==
  ASSUME RetrievalsInv, PostedCall
  PROVE  RetrievalsInv'
<1> DEFINE s == [manager EXCEPT !.posted = @ - 1]
<1>1. manager \in ManagerType /\ Good(manager)
  BY RetrievalsFacts DEF RetrievalsInv
<1>2. manager.posted - 1 \in Nat
  BY <1>1, ManagerFields DEF PostedCall
<1>3. /\ s \in ManagerType /\ s.byEmail = manager.byEmail /\ s.emailOf = manager.emailOf
      /\ s.downloads = manager.downloads /\ s.searches = manager.searches
      /\ s.checks = manager.checks /\ s.ended = manager.ended /\ s.queue = manager.queue
  BY <1>1, <1>2 DEF ManagerType
<1>4. Serve(s)
  BY DEF PostedCall
<1> HIDE DEF s
<1>5. Good(s) /\ IdsOf(s) = IdsOf(manager)
  BY <1>1, <1>3, GoodFacts
<1>6. \A e \in Emails : Total(s, e) = Total(manager, e)
  BY <1>3 DEF Total, Under, UrlsOf
<1>7. Load(s) <= Load(manager)
  BY <1>3, <1>5, RetrievalsFacts DEF Load
<1> QED BY <1>4, <1>5, <1>6, <1>7, ServeStep

LEMMA BoxStep ==
  ASSUME RetrievalsInv, BoxClosed
  PROVE  RetrievalsInv'
<1> DEFINE s == [manager EXCEPT !.boxes = @ - 1]
<1>1. manager \in ManagerType /\ Good(manager)
  BY RetrievalsFacts DEF RetrievalsInv
<1>2. manager.boxes - 1 \in Nat
  BY <1>1, ManagerFields DEF BoxClosed
<1>3. /\ s \in ManagerType /\ s.byEmail = manager.byEmail /\ s.emailOf = manager.emailOf
      /\ s.downloads = manager.downloads /\ s.searches = manager.searches
      /\ s.checks = manager.checks /\ s.ended = manager.ended /\ s.queue = manager.queue
  BY <1>1, <1>2 DEF ManagerType
<1>4. Serve(s)
  BY DEF BoxClosed
<1> HIDE DEF s
<1>5. Good(s) /\ IdsOf(s) = IdsOf(manager)
  BY <1>1, <1>3, GoodFacts
<1>6. \A e \in Emails : Total(s, e) = Total(manager, e)
  BY <1>3 DEF Total, Under, UrlsOf
<1>7. Load(s) <= Load(manager)
  BY <1>3, <1>5, RetrievalsFacts DEF Load
<1> QED BY <1>4, <1>5, <1>6, <1>7, ServeStep

\* A download has come to an end.
LEMMA DownloadTaken ==
  ASSUME NEW s, Good(s), NEW url \in Urls, s.downloads[url] > 0,
         NEW u, u = Ended([s EXCEPT !.downloads[url] = @ - 1, !.emailOf[url] = NoEmail], s.emailOf[url])
  PROVE  /\ Good(u) /\ IdsOf(u) = IdsOf(s) /\ u.queue = s.queue /\ s.emailOf[url] \in Emails
         /\ \A f \in Emails : Score(u, f) = Score(s, f)
         /\ u.byEmail = s.byEmail /\ u.calls = s.calls /\ u.given = s.given
<1> DEFINE e == s.emailOf[url]
           t == [s EXCEPT !.downloads[url] = @ - 1, !.emailOf[url] = NoEmail]
<1>1. s \in ManagerType /\ EmailsOfDownloads(s)
  BY DEF Good
<1>2. s.downloads \in [Urls -> Nat] /\ s.emailOf \in [Urls -> Emails \cup {NoEmail}]
  BY <1>1, ManagerFields
<1>3. e \in Emails /\ e # NoEmail /\ s.downloads[url] = 1
  BY <1>1, <1>2 DEF EmailsOfDownloads
<1>4. t = [s EXCEPT !.downloads = [s.downloads EXCEPT ![url] = s.downloads[url] - 1],
                    !.emailOf = [s.emailOf EXCEPT ![url] = NoEmail]]
  BY <1>1 DEF ManagerType
<1>5. s.downloads[url] - 1 = 0
  BY <1>3
<1> HIDE DEF t, e
<1>6. /\ [s.downloads EXCEPT ![url] = s.downloads[url] - 1] \in [Urls -> Nat]
      /\ [s.emailOf EXCEPT ![url] = NoEmail] \in [Urls -> Emails \cup {NoEmail}]
  BY <1>2, <1>5
<1>7. t \in ManagerType
  BY <1>1, <1>4, <1>6 DEF ManagerType
<1>8. /\ t.downloads = [s.downloads EXCEPT ![url] = 0] /\ t.emailOf = [s.emailOf EXCEPT ![url] = NoEmail]
      /\ t.byEmail = s.byEmail /\ t.queue = s.queue /\ t.searches = s.searches
      /\ t.checks = s.checks /\ t.ended = s.ended /\ t.calls = s.calls /\ t.given = s.given
  BY <1>1, <1>4, <1>5 DEF ManagerType
<1>9. EmailsOfDownloads(t)
  BY <1>1, <1>2, <1>8 DEF EmailsOfDownloads
<1>10. ASSUME NEW f \in Emails
       PROVE  Score(s, f) = Score(t, f) + IF f = e THEN 1 ELSE 0
  <2>1. /\ Cardinality(UrlsOf(s, f)) \in Nat /\ s.searches[f] \in Nat /\ s.checks[f] \in Nat
        /\ s.ended[f] \in Nat
    BY <1>1, ScoreTyped
  <2>2. Cardinality(UrlsOf(s, f)) = Cardinality(UrlsOf(t, f)) + IF f = e THEN 1 ELSE 0
    <3>1. CASE f = e
      <4>1. UrlsOf(t, f) = UrlsOf(s, f) \ {url} /\ url \in UrlsOf(s, f)
        BY <1>2, <1>3, <1>8, <3>1 DEF UrlsOf, e
      <4>2. IsFiniteSet(UrlsOf(s, f))
        BY UrlsCounted
      <4>3. Cardinality(UrlsOf(s, f) \ {url}) = Cardinality(UrlsOf(s, f)) - 1
        BY <4>1, <4>2, FS_RemoveElement
      <4> QED BY <2>1, <3>1, <4>1, <4>3
    <3>2. CASE f # e
      <4>1. f # NoEmail
        BY BoundsAssumption DEF NoEmail
      <4>2. UrlsOf(t, f) = UrlsOf(s, f)
        BY <1>2, <1>8, <3>2, <4>1 DEF UrlsOf, e
      <4> QED BY <2>1, <3>2, <4>2
    <3> QED BY <3>1, <3>2
  <2>3. Cardinality(UrlsOf(t, f)) \in Nat
    BY UrlsCounted
  <2> QED BY <1>8, <2>1, <2>2, <2>3 DEF Score, Under
<1>11. /\ u \in ManagerType /\ SameAsks(t, u) /\ u.downloads = t.downloads /\ u.emailOf = t.emailOf
       /\ \A f \in Emails : Score(u, f) = Score(t, f) + IF f = e THEN 1 ELSE 0
  BY <1>3, <1>7, EndedFacts DEF t, e
<1>12. u.byEmail = s.byEmail /\ u.calls = s.calls /\ u.given = s.given /\ u.queue = s.queue
  BY <1>8, <1>11 DEF SameAsks
<1>13. DistinctIds(u) /\ ClosedIsEmpty(u) /\ EmailsOfDownloads(u) /\ IdsOf(u) = IdsOf(s)
  <2>1. DistinctIds(s) /\ ClosedIsEmpty(s)
    BY DEF Good
  <2>2. DistinctIds(u) /\ ClosedIsEmpty(u)
    <3>1. u.byEmail = s.byEmail
      BY <1>12
    <3>2. DistinctIds(u)
      BY <2>1, <3>1, DistinctCopied
    <3>3. ClosedIsEmpty(u)
      BY <2>1, <3>1 DEF ClosedIsEmpty
    <3> QED BY <3>2, <3>3
  <2>3. EmailsOfDownloads(u)
    BY <1>9, <1>11 DEF EmailsOfDownloads
  <2>4. IdsOf(u) = IdsOf(s)
    BY <1>12 DEF IdsOf, Requests
  <2> QED BY <2>2, <2>3, <2>4
<1>14. \A f \in Emails : Score(u, f) = Score(s, f)
  <2> TAKE f \in Emails
  <2>1. Score(t, f) \in Nat /\ Score(s, f) \in Nat
    BY <1>1, <1>7, ScoreTyped
  <2> QED BY <1>10, <1>11, <2>1
<1> QED BY <1>3, <1>11, <1>12, <1>13, <1>14 DEF Good, e

LEMMA DownloadStep ==
  ASSUME RetrievalsInv, NEW url \in Urls, ProcessFreeBusyDownloadResult(url)
  PROVE  RetrievalsInv'
<1> DEFINE e == manager.emailOf[url]
           u == Ended([manager EXCEPT !.downloads[url] = @ - 1, !.emailOf[url] = NoEmail], e)
<1>1. manager \in ManagerType /\ Good(manager) /\ manager.downloads[url] > 0
  BY RetrievalsFacts DEF RetrievalsInv, ProcessFreeBusyDownloadResult
<1>2. \/ \E saved \in BOOLEAN : Serve(SaveFreeBusy(u, e, saved))
      \/ manager' = [u EXCEPT !.boxes = @ + 1] /\ UNCHANGED <<providers, past>>
  BY DEF ProcessFreeBusyDownloadResult
<1>3. /\ Good(u) /\ IdsOf(u) = IdsOf(manager) /\ u.queue = manager.queue /\ e \in Emails
      /\ \A f \in Emails : Score(u, f) = Score(manager, f)
  BY <1>1, DownloadTaken
<1> HIDE DEF u
<1>4. u \in ManagerType /\ Load(u) <= Load(manager) /\ Load(manager) \in Nat
  BY <1>3, RetrievalsFacts DEF Load, Good
<1>5. \A f \in Emails : Total(u, f) = Total(manager, f)
  BY <1>1, <1>3, <1>4, TotalScore
<1>6. CASE \E saved \in BOOLEAN : Serve(SaveFreeBusy(u, e, saved))
  <2>1. PICK saved \in BOOLEAN : Serve(SaveFreeBusy(u, e, saved))
    BY <1>6
  <2>2. PICK s : s = SaveFreeBusy(u, e, saved)
    OBVIOUS
  <2>3. /\ s \in ManagerType /\ s.byEmail = u.byEmail /\ s.emailOf = u.emailOf
        /\ s.downloads = u.downloads /\ s.searches = u.searches
        /\ s.checks = u.checks /\ s.ended = u.ended /\ s.queue = u.queue
    <3>1. CASE saved
      <4>1. u.files \cup {e} \subseteq Emails
        BY <1>3, <1>4, ManagerFields
      <4>2. s = [u EXCEPT !.files = u.files \cup {e}]
        BY <2>2, <3>1 DEF SaveFreeBusy
      <4> HIDE DEF e
      <4> QED BY <1>4, <4>1, <4>2 DEF ManagerType
    <3>2. CASE ~saved
      BY <1>4, <2>2, <3>2 DEF SaveFreeBusy
    <3> QED BY <3>1, <3>2
  <2>4. Good(s) /\ IdsOf(s) = IdsOf(u)
    BY <1>3, <2>3, GoodFacts
  <2>5. \A f \in Emails : Total(s, f) = Total(manager, f)
    BY <1>5, <2>3 DEF Total, Under, UrlsOf
  <2>6. Load(s) <= Load(manager)
    BY <1>4, <2>3, <2>4 DEF Load
  <2> QED BY <2>1, <2>2, <2>4, <2>5, <2>6, ServeStep
<1>7. CASE manager' = [u EXCEPT !.boxes = @ + 1] /\ UNCHANGED <<providers, past>>
  <2>1. PICK t : t = [u EXCEPT !.boxes = @ + 1]
    OBVIOUS
  <2>2. u.boxes + 1 \in Nat /\ u.boxes + 1 > 0
    BY <1>4, ManagerFields
  <2>3. /\ t \in ManagerType /\ t.byEmail = u.byEmail /\ t.emailOf = u.emailOf
        /\ t.downloads = u.downloads /\ t.searches = u.searches /\ t.boxes = u.boxes + 1
        /\ t.checks = u.checks /\ t.ended = u.ended /\ t.queue = u.queue
    BY <1>4, <2>1, <2>2 DEF ManagerType
  <2>4. Good(t) /\ IdsOf(t) = IdsOf(u)
    BY <1>3, <2>3, GoodFacts
  <2>5. \A f \in Emails : Total(t, f) = Total(manager, f)
    BY <1>5, <2>3 DEF Total, Under, UrlsOf
  <2>6. Load(t) <= Load(manager)
    BY <1>4, <2>3, <2>4 DEF Load
  <2>7. Busy(t)
    BY <2>2, <2>3 DEF Busy
  <2>8. \A f \in Emails : Total(manager, f) \in Nat
    BY <1>1, TotalScore
  <2>9. manager' = t /\ UNCHANGED providers /\ UNCHANGED past
    BY <1>7, <2>1
  <2>10. \A f \in Emails : /\ Total(t, f) <= Total(manager, f)
                           /\ ~past'.crossed => Total(t, f) = Total(manager, f)
    BY <2>5, <2>8
  <2> QED BY <2>4, <2>6, <2>7, <2>9, <2>10, OldPast, StepKeeps
<1> QED BY <1>2, <1>6, <1>7

\* A URL is tried when a search or the check of the candidates has ended.
LEMMA TriedKeeps ==
  ASSUME RetrievalsInv, NEW e \in Emails, NEW s, Good(s), IdsOf(s) = IdsOf(manager),
         s.queue = manager.queue,
         \A f \in Emails : Score(manager, f) = Score(s, f) + IF f = e THEN 1 ELSE 0,
         NEW t, Looked(s, t, e), manager' = t, UNCHANGED <<providers, past>>
  PROVE  RetrievalsInv'
<1>1. manager \in ManagerType /\ Load(manager) \in Nat
  BY RetrievalsFacts
<1>2. s \in ManagerType
  BY DEF Good
<1>3. /\ Good(t) /\ t \in ManagerType /\ IdsOf(t) = IdsOf(manager) /\ t.queue = manager.queue /\ Busy(t)
      /\ \A f \in Emails : Score(t, f) = Score(s, f) + IF f = e THEN 1 ELSE 0
  BY LookedFacts
<1>4. Load(t) <= Load(manager)
  BY <1>1, <1>3 DEF Load
<1>5. ASSUME NEW f \in Emails
      PROVE  /\ Total(t, f) <= Total(manager, f)
             /\ ~past'.crossed => Total(t, f) = Total(manager, f)
  <2>1. Score(t, f) = Score(manager, f)
    BY <1>3
  <2>2. Total(t, f) = Total(manager, f) /\ Total(manager, f) \in Nat
    BY <1>1, <1>3, <2>1, TotalScore
  <2> QED BY <2>2
<1> QED BY <1>3, <1>4, <1>5, OldPast, StepKeeps

LEMMA SearchStep ==
  ASSUME RetrievalsInv, NEW e \in Emails, ContactSearchJobFinished(e)
  PROVE  RetrievalsInv'
<1> DEFINE s == [manager EXCEPT !.searches[e] = @ - 1]
<1>1. manager \in ManagerType /\ Good(manager) /\ Load(manager) \in Nat
  BY RetrievalsFacts DEF RetrievalsInv
<1>2. manager.searches[e] > 0 /\ manager.searches \in [Emails -> Nat] /\ manager.checks \in [Emails -> Nat]
  BY <1>1, ManagerFields DEF ContactSearchJobFinished
<1>3. /\ \/ \E url \in Urls \cup {NoUrl} : manager' = FinishProcessRetrieveQueue(s, e, url)
         \/ manager' = [s EXCEPT !.checks[e] = @ + 1]
      /\ UNCHANGED <<providers, past>>
  BY DEF ContactSearchJobFinished
<1>4. s = [manager EXCEPT !.searches = [manager.searches EXCEPT ![e] = manager.searches[e] - 1]]
  BY <1>1 DEF ManagerType
<1> HIDE DEF s
<1>5. [manager.searches EXCEPT ![e] = manager.searches[e] - 1] \in [Emails -> Nat]
  <2>1. manager.searches[e] - 1 \in Nat
    BY <1>2
  <2> QED BY <1>2, <2>1
<1>6. /\ s \in ManagerType /\ s.byEmail = manager.byEmail /\ s.emailOf = manager.emailOf
      /\ s.downloads = manager.downloads /\ s.checks = manager.checks /\ s.ended = manager.ended
      /\ s.queue = manager.queue
      /\ s.searches = [manager.searches EXCEPT ![e] = manager.searches[e] - 1]
  BY <1>1, <1>4, <1>5 DEF ManagerType
<1>7. Good(s) /\ IdsOf(s) = IdsOf(manager)
  BY <1>1, <1>6, GoodFacts
<1>8. ASSUME NEW f \in Emails
      PROVE  Score(manager, f) = Score(s, f) + IF f = e THEN 1 ELSE 0
  <2>1. /\ Cardinality(UrlsOf(s, f)) \in Nat /\ s.searches[f] \in Nat /\ s.checks[f] \in Nat
        /\ s.ended[f] \in Nat
    BY <1>6, ScoreTyped
  <2>2. UrlsOf(manager, f) = UrlsOf(s, f)
    BY <1>6 DEF UrlsOf
  <2>3. manager.searches[f] = s.searches[f] + IF f = e THEN 1 ELSE 0
    BY <1>2, <1>6
  <2> QED BY <1>6, <2>1, <2>2, <2>3 DEF Score, Under
<1>9. CASE \E url \in Urls \cup {NoUrl} : manager' = FinishProcessRetrieveQueue(s, e, url)
  <2>1. PICK url \in Urls \cup {NoUrl} : manager' = FinishProcessRetrieveQueue(s, e, url)
    BY <1>9
  <2>2. PICK t : t = FinishProcessRetrieveQueue(s, e, url)
    OBVIOUS
  <2>3. Looked(s, t, e)
    BY <1>6, <1>7, <2>2, FinishFacts DEF Good
  <2> QED BY <1>3, <1>6, <1>7, <1>8, <2>1, <2>2, <2>3, TriedKeeps
<1>10. CASE manager' = [s EXCEPT !.checks[e] = @ + 1]
  <2>1. PICK t : t = [s EXCEPT !.checks[e] = @ + 1]
    OBVIOUS
  <2>2. t = [s EXCEPT !.checks = [manager.checks EXCEPT ![e] = manager.checks[e] + 1]]
    BY <1>6, <2>1 DEF ManagerType
  <2>3. [manager.checks EXCEPT ![e] = manager.checks[e] + 1] \in [Emails -> Nat]
    BY <1>2
  <2>4. /\ t \in ManagerType /\ t.byEmail = s.byEmail /\ t.emailOf = s.emailOf
        /\ t.downloads = s.downloads /\ t.ended = s.ended /\ t.queue = s.queue
        /\ t.searches = s.searches /\ t.checks = [manager.checks EXCEPT ![e] = manager.checks[e] + 1]
    BY <1>6, <2>2, <2>3 DEF ManagerType
  <2>5. Good(t) /\ IdsOf(t) = IdsOf(s)
    BY <1>7, <2>4, GoodFacts
  <2>6. Busy(t)
    <3>1. t.checks[e] > 0
      BY <1>2, <2>4
    <3> QED BY <3>1 DEF Busy
  <2>7. ASSUME NEW f \in Emails
        PROVE  Score(t, f) = Score(manager, f)
    <3>1. /\ Cardinality(UrlsOf(s, f)) \in Nat /\ s.searches[f] \in Nat /\ manager.checks[f] \in Nat
          /\ s.ended[f] \in Nat
      BY <1>2, <1>6, ScoreTyped
    <3>2. UrlsOf(t, f) = UrlsOf(s, f)
      BY <2>4 DEF UrlsOf
    <3>3. t.checks[f] = manager.checks[f] + IF f = e THEN 1 ELSE 0
      BY <1>2, <2>4
    <3>4. s.checks[f] = manager.checks[f]
      BY <1>6
    <3>5. Score(t, f) = Score(s, f) + IF f = e THEN 1 ELSE 0
      BY <2>4, <3>1, <3>2, <3>3, <3>4 DEF Score, Under
    <3> QED BY <1>8, <3>5
  <2>8. ASSUME NEW f \in Emails
        PROVE  /\ Total(t, f) <= Total(manager, f)
               /\ ~past'.crossed => Total(t, f) = Total(manager, f)
    BY <1>1, <1>6, <2>4, <2>7, TotalScore
  <2>9. Load(t) <= Load(manager)
    BY <1>1, <1>6, <1>7, <2>4, <2>5 DEF Load
  <2> QED BY <1>3, <1>10, <2>1, <2>5, <2>6, <2>8, <2>9, OldPast, StepKeeps
<1> QED BY <1>3, <1>9, <1>10

LEMMA CheckStep ==
  ASSUME RetrievalsInv, NEW e \in Emails, FbCheckerJobFinished(e)
  PROVE  RetrievalsInv'
<1>1. manager \in ManagerType /\ Good(manager) /\ Load(manager) \in Nat
  BY RetrievalsFacts DEF RetrievalsInv
<1>2. /\ manager.checks[e] > 0 /\ manager.checks \in [Emails -> Nat]
      /\ manager.known \in [Emails -> Urls \cup {NoUrl}]
  BY <1>1, ManagerFields DEF FbCheckerJobFinished
<1>3. PICK url \in Urls \cup {NoUrl} :
        manager' = FinishProcessRetrieveQueue(
                     [manager EXCEPT !.checks[e] = @ - 1,
                                     !.known[e] = IF url = NoUrl THEN @ ELSE Displayed[url]], e, url)
  BY DEF FbCheckerJobFinished, FoundByChecker
<1> DEFINE s == [manager EXCEPT !.checks[e] = @ - 1, !.known[e] = IF url = NoUrl THEN @ ELSE Displayed[url]]
           known == [manager.known EXCEPT ![e] = IF url = NoUrl THEN manager.known[e] ELSE Displayed[url]]
<1>4. s = [manager EXCEPT !.checks = [manager.checks EXCEPT ![e] = manager.checks[e] - 1], !.known = known]
  BY <1>1 DEF ManagerType
<1>5. known \in [Emails -> Urls \cup {NoUrl}]
  BY <1>2, BoundsAssumption
<1>6. PICK t : t = FinishProcessRetrieveQueue(s, e, url)
  OBVIOUS
<1> HIDE DEF s, known
<1>7. [manager.checks EXCEPT ![e] = manager.checks[e] - 1] \in [Emails -> Nat]
  <2>1. manager.checks[e] - 1 \in Nat
    BY <1>2
  <2> QED BY <1>2, <2>1
<1>8. /\ s \in ManagerType /\ s.byEmail = manager.byEmail /\ s.emailOf = manager.emailOf
      /\ s.downloads = manager.downloads /\ s.searches = manager.searches /\ s.ended = manager.ended
      /\ s.queue = manager.queue
      /\ s.checks = [manager.checks EXCEPT ![e] = manager.checks[e] - 1]
  BY <1>1, <1>4, <1>5, <1>7 DEF ManagerType
<1>9. Good(s) /\ IdsOf(s) = IdsOf(manager)
  BY <1>1, <1>8, GoodFacts
<1>10. ASSUME NEW f \in Emails
       PROVE  Score(manager, f) = Score(s, f) + IF f = e THEN 1 ELSE 0
  <2>1. /\ Cardinality(UrlsOf(s, f)) \in Nat /\ s.searches[f] \in Nat /\ s.checks[f] \in Nat
        /\ s.ended[f] \in Nat
    BY <1>8, ScoreTyped
  <2>2. UrlsOf(manager, f) = UrlsOf(s, f)
    BY <1>8 DEF UrlsOf
  <2>3. manager.checks[f] = s.checks[f] + IF f = e THEN 1 ELSE 0
    BY <1>2, <1>8
  <2> QED BY <1>8, <2>1, <2>2, <2>3 DEF Score, Under
<1>11. Looked(s, t, e)
  BY <1>6, <1>8, <1>9, FinishFacts DEF Good
<1>12. manager' = t /\ UNCHANGED <<providers, past>>
  BY <1>3, <1>6 DEF FbCheckerJobFinished, s
<1> QED BY <1>8, <1>9, <1>10, <1>11, <1>12, TriedKeeps

LEMMA CancelStep ==
  ASSUME RetrievalsInv, CancelRetrieval
  PROVE  RetrievalsInv'
<1> DEFINE w == [f \in Emails |-> manager.ended[f] + WaitingIn(manager.queue, f)]
<1>1. manager \in ManagerType /\ Good(manager) /\ Load(manager) \in Nat /\ providers \subseteq Providers
  BY RetrievalsFacts DEF RetrievalsInv
<1>2. manager.ended \in [Emails -> Nat] /\ manager.queue \in Seq(Emails)
  BY <1>1, ManagerFields
<1>3. \A f \in Emails : WaitingIn(manager.queue, f) \in Nat
  BY <1>2, WaitingTyped
<1>4. w \in [Emails -> Nat]
  BY <1>2, <1>3
<1>5. PICK t : t = [manager EXCEPT !.queue = <<>>, !.ended = w]
  OBVIOUS
<1>6. manager' = t /\ UNCHANGED providers /\ UNCHANGED past
  BY <1>5 DEF CancelRetrieval
<1>7. \A f \in Emails : w[f] = manager.ended[f] + WaitingIn(manager.queue, f)
  OBVIOUS
<1> HIDE DEF w
<1>8. <<>> \in Seq(Emails) /\ Len(<<>>) = 0
  OBVIOUS
<1>9. /\ t \in ManagerType /\ t.byEmail = manager.byEmail /\ t.emailOf = manager.emailOf
      /\ t.downloads = manager.downloads /\ t.searches = manager.searches
      /\ t.checks = manager.checks /\ t.ended = w /\ t.queue = <<>>
  BY <1>1, <1>4, <1>5, <1>8 DEF ManagerType
<1>10. Good(t) /\ IdsOf(t) = IdsOf(manager)
  BY <1>1, <1>9, GoodFacts
<1>11. Load(t) <= Load(manager)
  <2>1. /\ Cardinality(IdsOf(manager)) \in Nat /\ Cardinality(providers) \in Nat
        /\ Len(manager.queue) * Cardinality(providers) \in Nat
    BY <1>1, LoadTyped
  <2>2. 0 * Cardinality(providers) = 0
    BY <2>1
  <2>3. Len(t.queue) * Cardinality(providers) = 0
    BY <1>8, <1>9, <2>2
  <2> QED BY <1>10, <2>1, <2>3 DEF Load
<1>12. ASSUME NEW f \in Emails
       PROVE  /\ Total(t, f) <= Total(manager, f)
              /\ ~past'.crossed => Total(t, f) = Total(manager, f)
  <2>1. UrlsOf(t, f) = UrlsOf(manager, f)
    BY <1>9 DEF UrlsOf
  <2>2. Under(t, f) = Under(manager, f) /\ Under(t, f) \in Nat /\ manager.ended[f] \in Nat
    BY <1>1, <1>9, <2>1, ScoreTyped DEF Under
  <2>3. WaitingIn(t.queue, f) = 0
    BY <1>8, <1>9, WaitingTyped
  <2>4. t.ended[f] = manager.ended[f] + WaitingIn(manager.queue, f)
    BY <1>7, <1>9
  <2>5. WaitingIn(manager.queue, f) \in Nat
    BY <1>3
  <2> QED BY <2>2, <2>3, <2>4, <2>5 DEF Total
<1>13. t.queue # <<>> => Busy(t)
  BY <1>9
<1> QED BY <1>6, <1>10, <1>11, <1>12, <1>13, OldPast, StepKeeps

LEMMA RetrieveStep ==
  ASSUME RetrievalsInv, NEW e \in Emails, RetrieveFreeBusy(e)
  PROVE  RetrievalsInv'
<1> DEFINE N == Cardinality(providers)
<1>1. /\ manager \in ManagerType /\ Good(manager) /\ past \in PastType /\ providers \subseteq Providers
      /\ Load(manager) \in Nat /\ N \in Nat /\ past.calls \in Nat /\ past.calls * N \in Nat
      /\ Load(manager) <= past.calls * N
      /\ \A f \in Emails : /\ Total(manager, f) \in Nat /\ past.asked[f] \in Nat
                           /\ Total(manager, f) <= past.asked[f]
                           /\ ~past.crossed => Total(manager, f) = past.asked[f]
  <2>1. Load(manager) <= past.calls * N
    BY RoomLoad DEF RetrievalsInv
  <2> QED BY <2>1, RetrievalsFacts DEF RetrievalsInv
<1>2. /\ past' \in PastType /\ past'.calls = past.calls + 1 /\ past'.crossed = past.crossed
      /\ \A f \in Emails : past'.asked[f] = past.asked[f] + IF f = e THEN 1 ELSE 0
  <2>1. past.asked \in [Emails -> Nat]
    BY <1>1 DEF PastType
  <2>2. past' = [past EXCEPT !.calls = past.calls + 1,
                             !.asked = [past.asked EXCEPT ![e] = past.asked[e] + 1]]
    BY <1>1 DEF RetrieveFreeBusy, PastType
  <2>3. [past.asked EXCEPT ![e] = past.asked[e] + 1] \in [Emails -> Nat] /\ past.calls + 1 \in Nat
    BY <1>1, <2>1
  <2>4. /\ past' \in PastType /\ past'.calls = past.calls + 1 /\ past'.crossed = past.crossed
        /\ past'.asked = [past.asked EXCEPT ![e] = past.asked[e] + 1]
    BY <1>1, <2>2, <2>3 DEF PastType
  <2> QED BY <2>1, <2>4
<1>3. (past.calls + 1) * N <= MaxInterfaces /\ UNCHANGED providers
  BY DEF RetrieveFreeBusy
<1>4. (past.calls + 1) * N = past.calls * N + N
  <2> HIDE DEF N
  <2> QED BY <1>1, Times
<1>5. PICK t : t = manager'
  OBVIOUS
<1>6. /\ Good(t) /\ Load(t) <= Load(manager) + N /\ (t.queue # <<>> => Busy(t))
      /\ \A f \in Emails : Total(t, f) = Total(manager, f) + IF f = e THEN 1 ELSE 0
  <2>1. CASE LoadFreeBusy(e)
    <3>1. t = Ended(manager, e)
      BY <1>5, <2>1 DEF RetrieveFreeBusy
    <3>2. /\ t \in ManagerType /\ SameAsks(manager, t)
          /\ t.searches = manager.searches /\ t.checks = manager.checks
          /\ t.downloads = manager.downloads /\ t.emailOf = manager.emailOf /\ t.dry = manager.dry
          /\ \A f \in Emails : Score(t, f) = Score(manager, f) + IF f = e THEN 1 ELSE 0
      BY <1>1, <3>1, EndedFacts
    <3>3. t.byEmail = manager.byEmail /\ t.queue = manager.queue
      BY <3>2 DEF SameAsks
    <3>4. Good(t) /\ IdsOf(t) = IdsOf(manager)
      BY <1>1, <3>2, <3>3, GoodFacts
    <3>5. Busy(manager) => Busy(t)
      BY <3>2 DEF Busy, SameAsks
    <3>6. t.queue # <<>> => Busy(t)
      BY <3>3, <3>5 DEF RetrievalsInv, Served
    <3>7. Load(t) <= Load(manager) + N
      <4>1. Load(t) = Load(manager)
        BY <3>3, <3>4 DEF Load
      <4> HIDE DEF N
      <4> QED BY <1>1, <4>1
    <3>8. ASSUME NEW f \in Emails
          PROVE  Total(t, f) = Total(manager, f) + IF f = e THEN 1 ELSE 0
      <4>1. /\ Total(t, f) = WaitingIn(manager.queue, f) + Score(t, f)
            /\ Total(manager, f) = WaitingIn(manager.queue, f) + Score(manager, f)
            /\ WaitingIn(manager.queue, f) \in Nat /\ Score(manager, f) \in Nat
        BY <1>1, <3>2, <3>3, TotalScore
      <4> QED BY <3>2, <4>1
    <3> QED BY <3>4, <3>6, <3>7, <3>8
  <2>2. CASE ~LoadFreeBusy(e)
    <3> DEFINE q == Append(manager.queue, e)
               n == IF manager.queue = <<>> THEN manager.posted + 1 ELSE manager.posted
    <3>1. t = [manager EXCEPT !.queue = q, !.posted = n]
      BY <1>5, <2>2 DEF RetrieveFreeBusy
    <3>2. manager.queue \in Seq(Emails) /\ manager.posted \in Nat
      BY <1>1, ManagerFields
    <3>3. q \in Seq(Emails) /\ Len(q) = Len(manager.queue) + 1 /\ Len(manager.queue) \in Nat
      BY <3>2, AppendedFacts
    <3>4. n \in Nat
      BY <3>2
    <3>5. \A f \in Emails : WaitingIn(q, f) = WaitingIn(manager.queue, f) + IF f = e THEN 1 ELSE 0
      BY <3>2, WaitingAppend
    <3>6. manager.queue = <<>> => n > 0
      BY <3>2
    <3>7. manager.queue # <<>> => n = manager.posted
      OBVIOUS
    <3> HIDE DEF q, n
    <3>8. /\ t \in ManagerType /\ t.byEmail = manager.byEmail /\ t.emailOf = manager.emailOf
          /\ t.downloads = manager.downloads /\ t.searches = manager.searches
          /\ t.checks = manager.checks /\ t.ended = manager.ended /\ t.queue = q /\ t.posted = n
          /\ t.dry = manager.dry /\ t.given = manager.given /\ t.boxes = manager.boxes
      BY <1>1, <3>1, <3>3, <3>4 DEF ManagerType
    <3>9. Good(t) /\ IdsOf(t) = IdsOf(manager)
      BY <1>1, <3>8, GoodFacts
    <3>10. Busy(t)
      <4>1. CASE manager.queue = <<>>
        BY <3>6, <3>8, <4>1 DEF Busy
      <4>2. CASE manager.queue # <<>>
        BY <3>7, <3>8, <4>2 DEF Busy, RetrievalsInv, Served
      <4> QED BY <4>1, <4>2
    <3>11. \A f \in Emails : Score(t, f) = Score(manager, f)
      BY <3>8, SameScore
    <3>12. ASSUME NEW f \in Emails
           PROVE  Total(t, f) = Total(manager, f) + IF f = e THEN 1 ELSE 0
      <4>1. /\ Total(t, f) = WaitingIn(q, f) + Score(t, f)
            /\ Total(manager, f) = WaitingIn(manager.queue, f) + Score(manager, f)
            /\ WaitingIn(manager.queue, f) \in Nat /\ Score(manager, f) \in Nat
        BY <1>1, <3>8, TotalScore
      <4> QED BY <3>5, <3>11, <4>1
    <3>13. Load(t) <= Load(manager) + N
      <4>1. Load(t) = Cardinality(IdsOf(manager)) + (Len(manager.queue) + 1) * N
        BY <3>3, <3>8, <3>9 DEF Load
      <4>2. /\ Cardinality(IdsOf(manager)) \in Nat /\ Len(manager.queue) * N \in Nat
            /\ Load(manager) = Cardinality(IdsOf(manager)) + Len(manager.queue) * N
        BY <1>1, LoadTyped DEF Load
      <4> HIDE DEF N
      <4>3. (Len(manager.queue) + 1) * N = Len(manager.queue) * N + N
        BY <1>1, <3>3, Times
      <4> DEFINE a == Cardinality(IdsOf(manager))
                 b == Len(manager.queue) * N
                 c == (Len(manager.queue) + 1) * N
      <4>4. a \in Nat /\ b \in Nat /\ c = b + N /\ N \in Nat /\ Load(t) = a + c /\ Load(manager) = a + b
        BY <1>1, <3>3, <4>1, <4>2, <4>3
      <4> HIDE DEF a, b, c
      <4> QED BY <4>4
    <3> QED BY <3>9, <3>10, <3>12, <3>13
  <2> QED BY <2>1, <2>2
<1>7. t \in ManagerType /\ Load(t) \in Nat
  BY <1>1, <1>6, LoadTyped DEF Good
<1>8. Load(t) <= (past.calls + 1) * N
  <2> HIDE DEF N
  <2> QED BY <1>1, <1>4, <1>6, <1>7
<1>9. Types'
  BY <1>1, <1>2, <1>3, <1>5, <1>7 DEF Types
<1>10. Room'
  <2>1. Load(manager)' = Load(t)
    BY <1>3, <1>5 DEF Load
  <2>2. (past.calls * Cardinality(providers))' = (past.calls + 1) * N
    BY <1>2, <1>3
  <2>3. Room' <=> /\ (past.calls * Cardinality(providers))' <= MaxInterfaces
                  /\ Load(manager)' <= (past.calls * Cardinality(providers))'
    BY DEF Room, Load
  <2> QED BY <1>3, <1>8, <2>1, <2>2, <2>3
<1>11. Good(manager)'
  BY <1>5, <1>6 DEF Good, ClosedIsEmpty, EmailsOfDownloads, DistinctIds, ManagerType
<1>12. Served'
  BY <1>5, <1>6 DEF Served, Busy
<1>13. ASSUME NEW f \in Emails
       PROVE  Total(t, f) <= past'.asked[f] /\ (~past'.crossed => Total(t, f) = past'.asked[f])
  BY <1>1, <1>2, <1>6
<1>14. Balance'
  BY <1>5, <1>13 DEF Balance, Total, Under, UrlsOf, WaitingIn
<1> QED BY <1>9, <1>10, <1>11, <1>12, <1>14 DEF RetrievalsInv

-----------------------------------------------------------------------------
(* A provider answers.                                                     *)

LEMMA HearersCounted ==
  ASSUME NEW s, Good(s)
  PROVE  IsFiniteSet(Requests(s))
<1> DEFINE f == [r \in Requests(s) |-> r.id]
<1>1. s \in ManagerType /\ DistinctIds(s)
  BY DEF Good
<1>2. ASSUME NEW r \in Requests(s)
      PROVE  \E e \in Emails : \E k \in DOMAIN s.byEmail[e].requests : s.byEmail[e].requests[k] = r
  BY DEF Requests, ToSet
<1>3. f \in [Requests(s) -> IdsOf(s)]
  BY DEF IdsOf
<1>4. ASSUME NEW r \in Requests(s), NEW q \in Requests(s), r.id = q.id
      PROVE  r = q
  <2>1. PICK e \in Emails : \E k \in DOMAIN s.byEmail[e].requests : s.byEmail[e].requests[k] = r
    BY <1>2
  <2>2. PICK k \in DOMAIN s.byEmail[e].requests : s.byEmail[e].requests[k] = r
    BY <2>1
  <2>3. PICK g \in Emails : \E m \in DOMAIN s.byEmail[g].requests : s.byEmail[g].requests[m] = q
    BY <1>2
  <2>4. PICK m \in DOMAIN s.byEmail[g].requests : s.byEmail[g].requests[m] = q
    BY <2>3
  <2>5. s.byEmail[e].requests[k].id = s.byEmail[g].requests[m].id
    BY <1>4, <2>2, <2>4
  <2>6. e = g /\ k = m
    BY <1>1, <2>5 DEF DistinctIds
  <2> QED BY <2>2, <2>4, <2>6
<1>5. DOMAIN f = Requests(s) /\ \A r \in Requests(s) : f[r] = r.id
  OBVIOUS
<1> HIDE DEF f
<1>6. f \in Injection(Requests(s), IdsOf(s))
  BY <1>3, <1>4, <1>5 DEF Injection, IsInjective
<1>7. IsFiniteSet(IdsOf(s))
  BY <1>1, IdsAreInterfaces
<1> QED BY <1>6, <1>7, FS_Injection

LEMMA OrderIsSeq ==
  ASSUME NEW S, IsFiniteSet(S), NEW order \in SetToSeqs(S)
  PROVE  /\ order \in Seq(S) /\ Len(order) = Cardinality(S) /\ Cardinality(S) \in Nat
         /\ \A k \in 1 .. Cardinality(S) : order[k] \in S
<1>1. Cardinality(S) \in Nat
  BY FS_CardinalityType
<1>2. order \in [1 .. Cardinality(S) -> S]
  BY DEF SetToSeqs
<1>3. order \in Seq(S) /\ Len(order) = Cardinality(S)
  BY <1>1, <1>2, FunctionIsSeq
<1> QED BY <1>1, <1>2, <1>3

\* The call is answered, before anybody hears of it.
Called(s, call) == [s EXCEPT !.calls[call] = @ - 1]

\* What became of the signals so far.
LEMMA SignalPast ==
  ASSUME RetrievalsInv, NEW call, NEW answer, Signal(call, answer)
  PROVE  /\ past' \in PastType /\ past'.calls = past.calls /\ past'.asked = past.asked
         /\ past'.crossed = (past.crossed \/ \E r \in Hearers(call.provider, call.signal) :
                                               MadeFor(r) # call.email)
         /\ past'.failed = (past.failed \/ answer = "failed")
<1> DEFINE cross == \E r \in Hearers(call.provider, call.signal) : MadeFor(r) # call.email
<1>1. past \in PastType
  BY RetrievalsFacts
<1>2. past' = [past EXCEPT !.crossed = @ \/ cross, !.failed = @ \/ answer = "failed"]
  BY DEF Signal
<1> HIDE DEF cross
<1>3. (past.crossed \/ cross) \in BOOLEAN /\ (past.failed \/ answer = "failed") \in BOOLEAN
  OBVIOUS
<1>4. PICK b \in BOOLEAN : b = (past.crossed \/ cross)
  BY <1>3
<1>5. PICK c \in BOOLEAN : c = (past.failed \/ answer = "failed")
  BY <1>3
<1>6. past' = [past EXCEPT !.crossed = b, !.failed = c]
  BY <1>2, <1>4, <1>5
<1>7. /\ past' \in PastType /\ past'.calls = past.calls /\ past'.asked = past.asked
      /\ past'.crossed = b /\ past'.failed = c
  BY <1>1, <1>6 DEF PastType
<1> QED BY <1>4, <1>5, <1>7 DEF cross

LEMMA SignalHeard ==
  ASSUME RetrievalsInv, NEW call \in Calls, NEW answer, Signal(call, answer)
  PROVE  Handled(manager, manager')
<1> DEFINE hearers == Hearers(call.provider, call.signal)
<1>1. manager \in ManagerType /\ Good(manager)
  BY RetrievalsFacts DEF RetrievalsInv
<1>2. manager.calls[call] \in Nat /\ manager.calls[call] > 0
  BY <1>1, ManagerFields DEF Signal
<1>3. manager.calls[call] - 1 \in Nat
  BY <1>2
<1>4. PICK s : s = Called(manager, call)
  OBVIOUS
<1>5. s = [manager EXCEPT !.calls[call] = manager.calls[call] - 1]
  BY <1>4 DEF Called
<1>6. Handled(manager, s)
  BY <1>1, <1>3, <1>5, CallsHandled
<1>7. PICK order \in SetToSeqs(hearers) : manager' = HeardBy(s, order, call, answer)
  BY <1>4 DEF Signal, Called
<1>8. IsFiniteSet(hearers)
  <2>1. hearers \in SUBSET Requests(manager)
    BY DEF Hearers
  <2>2. IsFiniteSet(Requests(manager))
    BY <1>1, HearersCounted
  <2> HIDE DEF hearers
  <2> QED BY <2>1, <2>2, FS_Subset
<1> HIDE DEF hearers
<1>9. order \in Seq(hearers)
  BY <1>7, <1>8, OrderIsSeq
<1>10. Good(s)
  BY <1>6 DEF Handled
<1>11. Handled(s, HeardBy(s, order, call, answer))
  BY <1>9, <1>10, HeardHandled
<1> QED BY <1>6, <1>7, <1>11, HandledTwice

LEMMA SignalStep ==
  ASSUME RetrievalsInv, NEW call \in Calls, NEW answer, Signal(call, answer)
  PROVE  RetrievalsInv'
<1>1. PICK t : t = manager'
  OBVIOUS
<1>2. Handled(manager, t)
  BY <1>1, SignalHeard
<1>3. /\ past' \in PastType /\ past'.calls = past.calls /\ past'.asked = past.asked
      /\ past.crossed => past'.crossed
  BY SignalPast
<1>4. UNCHANGED providers
  BY DEF Signal
<1>5. /\ manager \in ManagerType /\ providers \subseteq Providers
      /\ manager.queue # <<>> => Busy(manager)
  BY RetrievalsFacts DEF RetrievalsInv, Served
<1>6. /\ Good(t) /\ IdsOf(t) \subseteq IdsOf(manager) /\ t.queue = manager.queue
      /\ \A e \in Emails : Score(t, e) = Score(manager, e)
      /\ Busy(manager) => Busy(t)
  BY <1>2 DEF Handled
<1>7. t \in ManagerType
  BY <1>6 DEF Good
<1>8. Load(t) <= Load(manager)
  <2>1. IsFiniteSet(IdsOf(manager))
    BY <1>5, IdsAreInterfaces
  <2>2. IdsOf(t) \in SUBSET IdsOf(manager)
    BY <1>6
  <2>3. Cardinality(IdsOf(t)) <= Cardinality(IdsOf(manager))
    BY <2>1, <2>2, FS_Subset
  <2>4. /\ Cardinality(IdsOf(t)) \in Nat /\ Cardinality(IdsOf(manager)) \in Nat
        /\ Len(manager.queue) * Cardinality(providers) \in Nat
    BY <1>5, <1>7, LoadTyped
  <2> QED BY <1>6, <2>3, <2>4 DEF Load
<1>9. \A e \in Emails : Total(t, e) = Total(manager, e) /\ Total(t, e) \in Nat
  BY <1>5, <1>6, <1>7, TotalScore
<1>10. t.queue # <<>> => Busy(t)
  BY <1>5, <1>6
<1>11. \A e \in Emails : /\ Total(t, e) <= Total(manager, e)
                         /\ ~past'.crossed => Total(t, e) = Total(manager, e)
  BY <1>9
<1> QED BY <1>1, <1>3, <1>4, <1>6, <1>8, <1>10, <1>11, StepKeeps
-----------------------------------------------------------------------------
(* The theorems on the retrievals.                                         *)

LEMMA NextKeeps ==
  ASSUME RetrievalsInv, [Next]_vars
  PROVE  RetrievalsInv'
<1>1. CASE UNCHANGED vars
  <2>1. manager' = manager /\ UNCHANGED providers /\ UNCHANGED past
    BY <1>1 DEF vars
  <2>2. /\ Good(manager) /\ (manager.queue # <<>> => Busy(manager))
        /\ Load(manager) \in Nat /\ \A e \in Emails : Total(manager, e) \in Nat
    BY RetrievalsFacts DEF RetrievalsInv, Served
  <2>3. Load(manager) <= Load(manager) /\ \A e \in Emails : Total(manager, e) <= Total(manager, e)
    BY <2>2
  <2> QED BY <2>1, <2>2, <2>3, OldPast, StepKeeps
<1>2. ASSUME NEW e \in Emails, RetrieveFreeBusy(e)
      PROVE  RetrievalsInv'
  BY <1>2, RetrieveStep
<1>3. ASSUME NEW e \in Emails, ContactSearchJobFinished(e)
      PROVE  RetrievalsInv'
  BY <1>3, SearchStep
<1>4. ASSUME NEW e \in Emails, FbCheckerJobFinished(e)
      PROVE  RetrievalsInv'
  BY <1>4, CheckStep
<1>5. CASE CancelRetrieval
  BY <1>5, CancelStep
<1>6. CASE PostedCall
  BY <1>6, PostedStep
<1>7. ASSUME NEW url \in Urls, ProcessFreeBusyDownloadResult(url)
      PROVE  RetrievalsInv'
  BY <1>7, DownloadStep
<1>8. CASE BoxClosed
  BY <1>8, BoxStep
<1>9. ASSUME NEW p \in Providers, NEW e \in Emails, HandlesFreeBusy(p, e)
      PROVE  RetrievalsInv'
  <2>1. PICK answer \in {"handles", "declines"} : Signal(CallOf(p, "handlesFreeBusy", e), answer)
    BY <1>9 DEF HandlesFreeBusy, CallOf
  <2>2. CallOf(p, "handlesFreeBusy", e) \in Calls
    BY CallTyped, SignalsTyped
  <2> QED BY <2>1, <2>2, SignalStep
<1>10. ASSUME NEW p \in Providers, NEW e \in Emails, FreeBusyRetrieved(p, e)
       PROVE  RetrievalsInv'
  <2>1. PICK answer \in {"good", "unreadable", "failed"} :
          Signal(CallOf(p, "freeBusyRetrieved", e), answer)
    BY <1>10 DEF FreeBusyRetrieved, CallOf
  <2>2. CallOf(p, "freeBusyRetrieved", e) \in Calls
    BY CallTyped, SignalsTyped
  <2> QED BY <2>1, <2>2, SignalStep
<1> QED BY <1>1, <1>2, <1>3, <1>4, <1>5, <1>6, <1>7, <1>8, <1>9, <1>10 DEF Next

\* Whatever the emails, the providers installed and the answers: a retrieval is in one
\* place at a time, a download has its email, every interface is of one request of
\* somebody asked about, and there is always an interface free for the next request.
THEOREM RetrievalsInvariance == Spec => []RetrievalsInv
<1>1. RetrievalsInv /\ [Next]_vars => RetrievalsInv'
  BY NextKeeps
<1> QED BY InitRetrievals, <1>1, PTL DEF Spec

LEMMA InvTypeOK ==
  ASSUME RetrievalsInv
  PROVE  TypeOK
<1>1. /\ providers \subseteq Providers /\ manager \in ManagerType
  BY RetrievalsFacts
<1>2. ASSUME NEW e \in Emails
      PROVE  LET q == manager.byEmail[e]
             IN  /\ q.open \in BOOLEAN /\ q.requests \in Seq(Request)
                 /\ q.handlers \in Int /\ q.merged \subseteq Providers
  <2>1. manager.byEmail[e] \in AskType
    BY <1>1, AskFields
  <2> QED BY <2>1 DEF AskType
<1> QED BY <1>1, <1>2, ManagerFields DEF TypeOK

LEMMA InvAccounted ==
  ASSUME RetrievalsInv
  PROVE  Accounted
<1>1. TypeOK
  BY InvTypeOK
<1>2. DownloadsHaveAnEmail
  BY DEF RetrievalsInv, Good, EmailsOfDownloads, DownloadsHaveAnEmail
<1>3. manager \in ManagerType
  BY RetrievalsFacts
<1>4. ASSUME NEW e \in Emails
      PROVE  /\ manager.ended[e] <= past.asked[e]
             /\ ~past.crossed => past.asked[e] = Waiting(e) + UnderWay(e) + manager.ended[e]
  <2>1. /\ Total(manager, e) \in Nat /\ past.asked[e] \in Nat
        /\ Total(manager, e) <= past.asked[e]
        /\ ~past.crossed => Total(manager, e) = past.asked[e]
    BY RetrievalsFacts
  <2>2. Waiting(e) = WaitingIn(manager.queue, e) /\ UnderWay(e) = Under(manager, e)
    BY DEF Waiting, UnderWay, Under, UrlsOf
  <2>3. Under(manager, e) \in Nat /\ manager.ended[e] \in Nat /\ WaitingIn(manager.queue, e) \in Nat
    BY <1>3, ScoreTyped, TotalScore
  <2>4. Total(manager, e) = Waiting(e) + UnderWay(e) + manager.ended[e]
    BY <2>2 DEF Total
  <2> QED BY <2>1, <2>2, <2>3, <2>4
<1> QED BY <1>1, <1>2, <1>4 DEF Accounted, AnsweredWhenAsked

\* No retrieval is lost or doubled between mRetrieveQueue, the providers, the search for
\* a URL and the download, unless signals crossed; nobody is ever answered more often
\* than asked; and processFreeBusyDownloadResult() finds the email of every download.
THEOREM RetrievalsAreAccounted == Spec => []Accounted
<1>1. RetrievalsInv => Accounted
  BY InvAccounted
<1> QED BY RetrievalsInvariance, <1>1, PTL

\* mRetrieveQueue stands still, with nothing under way that would serve it, only after a
\* retrieval that ended without a download or that a provider left open.
THEOREM QueueIsServed == Spec => []QueueMoves
<1>1. RetrievalsInv => QueueMoves
  <2> SUFFICES ASSUME RetrievalsInv, AtRest, manager.queue # <<>>
               PROVE  manager.dry \/ manager.given # {} \/ \E e \in Emails : manager.byEmail[e].open
    BY DEF QueueMoves
  <2>1. Busy(manager)
    BY DEF RetrievalsInv, Served
  <2>2. manager \in ManagerType
    BY RetrievalsFacts
  <2>3. manager.posted = 0 /\ manager.boxes = 0
    BY DEF AtRest
  <2>4. \A e \in Emails : ~(manager.searches[e] > 0) /\ ~(manager.checks[e] > 0)
    BY DEF AtRest
  <2>5. \A url \in Urls : ~(manager.downloads[url] > 0)
    BY DEF AtRest
  <2> QED BY <2>1, <2>3, <2>4, <2>5 DEF Busy
<1> QED BY RetrievalsInvariance, <1>1, PTL

-----------------------------------------------------------------------------
(* What holds until signals cross.                                         *)

Hears(r, signal) == r.hears = {signal}

\* The provider has still to say whether it handles the email, or to send the list.
Has(ask, p, signal) ==
  \E k \in DOMAIN ask.requests : ask.requests[k].provider = p /\ Hears(ask.requests[k], signal)

\* Each provider is asked once, and awaited by one request.
AlikeOnlyItself(q) == \A k, m \in DOMAIN q : q[k].provider = q[m].provider => k = m
OneRequestEach(ask) ==
  /\ AlikeOnlyItself(ask.requests)
  /\ \A k \in DOMAIN ask.requests : /\ \E signal \in Signals : Hears(ask.requests[k], signal)
                                    /\ ask.requests[k].provider \notin ask.merged

CallsAreHeard(s, e) ==
  \A p \in Providers, signal \in Signals :
    s.calls[CallOf(p, signal, e)] = IF Has(s.byEmail[e], p, signal) THEN 1 ELSE 0

\* mHandlersCount counts the providers that know the email and have not sent its list yet, and
\* those whose list was merged; and the failures.
Listening(ask) == {p \in Providers : Has(ask, p, "freeBusyRetrieved")}
Handling(ask)  == Cardinality(Listening(ask)) + Cardinality(ask.merged)
HandlersCounted(ask, failed) ==
  /\ ask.handlers >= Handling(ask)
  /\ ~failed => ask.handlers = Handling(ask)

Awaited(s, e, failed) ==
  OneRequestEach(s.byEmail[e]) /\ CallsAreHeard(s, e) /\ HandlersCounted(s.byEmail[e], failed)

\* A retrieval stays open only with a request, or when some provider knew the email.
Standing(ask) == ask.open => ask.requests # <<>> \/ ask.handlers > 0

TurnOf(s, e, failed) == Awaited(s, e, failed) /\ Standing(s.byEmail[e])

ListsAreComplete(s, failed) ==
  "early list" \notin s.given /\ (~failed => "empty list" \notin s.given)

InTurn(s, failed) == (\A e \in Emails : TurnOf(s, e, failed)) /\ ListsAreComplete(s, failed)

FreeBusyInv == RetrievalsInv /\ (~past.crossed => InTurn(manager, past.failed))

\* What another email's retrieval leaves alone.
SameCalls(s, t, e) ==
  \A p \in Providers, signal \in Signals :
    t.calls[CallOf(p, signal, e)] = s.calls[CallOf(p, signal, e)]

LEMMA TurnKept ==
  ASSUME NEW s, NEW t, NEW e, NEW failed, NEW later, TurnOf(s, e, failed),
         t.byEmail[e] = s.byEmail[e], SameCalls(s, t, e), failed => later
  PROVE  TurnOf(t, e, later)
<1>1. CallsAreHeard(t, e)
  BY DEF TurnOf, Awaited, CallsAreHeard, SameCalls
<1>2. HandlersCounted(t.byEmail[e], later)
  BY DEF TurnOf, Awaited, HandlersCounted
<1> QED BY <1>1, <1>2 DEF TurnOf, Awaited

LEMMA InTurnKept ==
  ASSUME NEW s, NEW t, NEW failed, InTurn(s, failed),
         t.byEmail = s.byEmail, t.calls = s.calls, t.given = s.given
  PROVE  InTurn(t, failed)
<1>1. ASSUME NEW e \in Emails
      PROVE  TurnOf(t, e, failed)
  <2>1. SameCalls(s, t, e)
    BY DEF SameCalls
  <2>2. TurnOf(s, e, failed)
    BY DEF InTurn
  <2> QED BY <2>1, <2>2, TurnKept
<1> QED BY <1>1 DEF InTurn, ListsAreComplete

LEMMA InTurnLater ==
  ASSUME NEW s, NEW failed, NEW later, InTurn(s, failed), failed => later
  PROVE  InTurn(s, later)
<1>1. ASSUME NEW e \in Emails
      PROVE  TurnOf(s, e, later)
  <2>1. SameCalls(s, s, e) /\ TurnOf(s, e, failed)
    BY DEF SameCalls, InTurn
  <2> QED BY <2>1, TurnKept
<1> QED BY <1>1 DEF InTurn, ListsAreComplete

LEMMA MergedCounted ==
  ASSUME NEW ask \in AskType
  PROVE  /\ IsFiniteSet(ask.merged) /\ Cardinality(ask.merged) \in Nat
         /\ IsFiniteSet(Listening(ask)) /\ Cardinality(Listening(ask)) \in Nat
         /\ Handling(ask) \in Nat /\ ask.handlers \in Int
<1>1. IsFiniteSet(Providers)
  BY BoundsAssumption
<1>2. ask.merged \in SUBSET Providers /\ ask.handlers \in Int
  BY DEF AskType
<1>3. IsFiniteSet(ask.merged)
  BY <1>1, <1>2, FS_Subset
<1>4. Listening(ask) \in SUBSET Providers
  BY DEF Listening
<1>5. IsFiniteSet(Listening(ask))
  BY <1>1, <1>4, FS_Subset
<1>6. Cardinality(ask.merged) \in Nat
  BY <1>3, FS_CardinalityType
<1>7. Cardinality(Listening(ask)) \in Nat
  BY <1>5, FS_CardinalityType
<1> QED BY <1>2, <1>3, <1>5, <1>6, <1>7 DEF Handling

\* Nobody is asked, or everybody has answered and the email is closed.
LEMMA EmptyHas ==
  ASSUME NEW ask, ask.requests = <<>>
  PROVE  /\ \A p, signal : ~Has(ask, p, signal)
         /\ Listening(ask) = {} /\ OneRequestEach(ask)
<1>1. DOMAIN ask.requests = {}
  OBVIOUS
<1>2. \A p, signal : ~Has(ask, p, signal)
  BY <1>1 DEF Has
<1> QED BY <1>1, <1>2 DEF Listening, OneRequestEach, AlikeOnlyItself

LEMMA ClosedTurn ==
  ASSUME NEW s, NEW t, NEW e \in Emails, NEW failed, CallsAreHeard(s, e), s.byEmail[e].requests = <<>>,
         t.byEmail[e] = Closed, SameCalls(s, t, e)
  PROVE  TurnOf(t, e, failed)
<1>1. /\ Closed.requests = <<>> /\ Closed.merged = {} /\ Closed.handlers = 0 /\ Closed.open = FALSE
  BY DEF Closed
<1>2. CallsAreHeard(t, e)
  <2>1. \A p, signal : ~Has(s.byEmail[e], p, signal) /\ ~Has(t.byEmail[e], p, signal)
    BY <1>1, EmptyHas
  <2> QED BY <2>1 DEF CallsAreHeard, SameCalls
<1>3. Listening(Closed) = {} /\ OneRequestEach(Closed)
  BY <1>1, EmptyHas
<1>4. Handling(Closed) = 0
  <2>1. Cardinality({}) = 0
    BY FS_EmptySet
  <2> QED BY <1>1, <1>3, <2>1 DEF Handling
<1>5. HandlersCounted(Closed, failed) /\ Standing(Closed)
  BY <1>1, <1>4 DEF HandlersCounted, Standing
<1> QED BY <1>2, <1>3, <1>5 DEF TurnOf, Awaited

\* The requests of b are those of a, but for what request k hears.
AlikeBut(a, b, k) ==
  /\ DOMAIN b.requests = DOMAIN a.requests /\ k \in DOMAIN a.requests
  /\ \A m \in DOMAIN a.requests : /\ b.requests[m].provider = a.requests[m].provider
                                  /\ m # k => b.requests[m] = a.requests[m]

\* The interface of request k of e hears something else.
Reconnected(s, t, e, k) ==
  /\ t \in ManagerType /\ SameRest(s, t)
  /\ \A f \in Emails : f # e => t.byEmail[f] = s.byEmail[f]
  /\ AlikeBut(s.byEmail[e], t.byEmail[e], k)
  /\ t.byEmail[e].open = s.byEmail[e].open /\ t.byEmail[e].handlers = s.byEmail[e].handlers
  /\ t.byEmail[e].merged = s.byEmail[e].merged

\* That interface is the one to which `lost` and `won` apply.
RewiredAt(s, t, e, k, lost, won) ==
  /\ Reconnected(s, t, e, k)
  /\ t.byEmail[e].requests[k].id = s.byEmail[e].requests[k].id
  /\ t.byEmail[e].requests[k].hears = (s.byEmail[e].requests[k].hears \ lost) \cup won

LEMMA ReconnectedOne ==
  ASSUME NEW s, Good(s), NEW e \in Emails, NEW k \in DOMAIN s.byEmail[e].requests, NEW id,
         id = s.byEmail[e].requests[k].id,
         NEW t, NEW lost, NEW won, Rewired(s, t, id, lost, won)
  PROVE  RewiredAt(s, t, e, k, lost, won)
<1>1. s \in ManagerType /\ DistinctIds(s) /\ t \in ManagerType /\ SameRest(s, t)
  BY DEF Good, Rewired
<1>2. ASSUME NEW f \in Emails, f # e
      PROVE  t.byEmail[f] = s.byEmail[f]
  <2> DEFINE q == s.byEmail[f].requests
             u == t.byEmail[f].requests
  <2>1. /\ t.byEmail[f] = [s.byEmail[f] EXCEPT !.requests = u]
        /\ u \in Seq(Request) /\ Len(u) = Len(q) /\ DOMAIN u = DOMAIN q
        /\ \A m \in DOMAIN q :
             u[m] = IF q[m].id = id THEN [q[m] EXCEPT !.hears = (q[m].hears \ lost) \cup won]
                    ELSE q[m]
    BY DEF Rewired
  <2>2. \A m \in DOMAIN q : q[m].id # id
    BY <1>1, <1>2, OfOneRequest
  <2>3. s.byEmail[f] \in AskType /\ q \in Seq(Request)
    BY <1>1, AskFields
  <2> HIDE DEF q, u
  <2>4. \A m \in DOMAIN q : u[m] = q[m]
    BY <2>1, <2>2
  <2>5. u = q
    BY <2>1, <2>3, <2>4
  <2> QED BY <2>1, <2>3, <2>5 DEF q, AskType
<1>3. /\ t.byEmail[e].open = s.byEmail[e].open /\ t.byEmail[e].handlers = s.byEmail[e].handlers
      /\ t.byEmail[e].merged = s.byEmail[e].merged
      /\ DOMAIN t.byEmail[e].requests = DOMAIN s.byEmail[e].requests
      /\ \A m \in DOMAIN s.byEmail[e].requests :
           /\ t.byEmail[e].requests[m].provider = s.byEmail[e].requests[m].provider
           /\ t.byEmail[e].requests[m].id = s.byEmail[e].requests[m].id
  <2>1. \A f \in Emails :
          /\ t.byEmail[f].open = s.byEmail[f].open
          /\ t.byEmail[f].handlers = s.byEmail[f].handlers
          /\ t.byEmail[f].merged = s.byEmail[f].merged
          /\ DOMAIN t.byEmail[f].requests = DOMAIN s.byEmail[f].requests
          /\ \A m \in DOMAIN s.byEmail[f].requests :
               /\ t.byEmail[f].requests[m].id = s.byEmail[f].requests[m].id
               /\ t.byEmail[f].requests[m].provider = s.byEmail[f].requests[m].provider
    BY <1>1, RewiredFacts
  <2> QED BY <2>1
<1>4. ASSUME NEW m \in DOMAIN s.byEmail[e].requests, m # k
      PROVE  t.byEmail[e].requests[m] = s.byEmail[e].requests[m]
  <2>1. s.byEmail[e].requests[m].id # id
    BY <1>1, <1>4, OfOneRequest
  <2> QED BY <2>1 DEF Rewired
<1>5. t.byEmail[e].requests[k].hears = (s.byEmail[e].requests[k].hears \ lost) \cup won
  <2> DEFINE old == s.byEmail[e].requests[k]
  <2>1. t.byEmail[e].requests[k] = [old EXCEPT !.hears = (old.hears \ lost) \cup won]
    BY DEF Rewired
  <2>2. old \in Request
    BY <1>1, RequestFields
  <2> HIDE DEF old
  <2>3. t.byEmail[e].requests[k].hears = (old.hears \ lost) \cup won
    BY <2>1, <2>2 DEF Request
  <2> QED BY <2>3 DEF old
<1>6. AlikeBut(s.byEmail[e], t.byEmail[e], k)
  BY <1>3, <1>4 DEF AlikeBut
<1> QED BY <1>1, <1>2, <1>3, <1>5, <1>6 DEF Reconnected, RewiredAt

LEMMA ReconnectedTwice ==
  ASSUME NEW s, NEW t, NEW u, NEW e \in Emails, NEW k, Reconnected(s, t, e, k), Reconnected(t, u, e, k)
  PROVE  Reconnected(s, u, e, k)
BY DEF Reconnected, AlikeBut, SameRest

\* A request hears one signal.
OnlyHas(ask, p, signal) == \A other : Has(ask, p, other) <=> other = signal
OnlyAsks(ask, k, p)     == \A m \in DOMAIN ask.requests : ask.requests[m].provider = p => m = k

LEMMA HearsOne ==
  ASSUME NEW a, OneRequestEach(a), NEW k \in DOMAIN a.requests, NEW signal, NEW p,
         Hears(a.requests[k], signal), a.requests[k].provider = p
  PROVE  /\ OnlyHas(a, p, signal)
         /\ p \notin a.merged
         /\ OnlyAsks(a, k, p)
<1>1. \A m \in DOMAIN a.requests : a.requests[m].provider = p => m = k
  BY DEF OneRequestEach, AlikeOnlyItself
<1>2. ASSUME NEW other
      PROVE  Has(a, p, other) <=> other = signal
  BY <1>1 DEF Has, Hears
<1> QED BY <1>1, <1>2 DEF OneRequestEach, OnlyHas, OnlyAsks

OthersHave(a, b, p) == \A x, signal : x # p => (Has(b, x, signal) <=> Has(a, x, signal))

\* A provider that knows the email is awaited once more.
LEMMA HandlesTurn ==
  ASSUME NEW a \in AskType, OneRequestEach(a), NEW k \in DOMAIN a.requests, NEW p \in Providers,
         a.requests[k].provider = p, Hears(a.requests[k], "handlesFreeBusy"),
         NEW failed, HandlersCounted(a, failed),
         NEW b \in AskType, AlikeBut(a, b, k), Hears(b.requests[k], "freeBusyRetrieved"),
         b.merged = a.merged, b.handlers = a.handlers + 1
  PROVE  /\ OneRequestEach(b) /\ HandlersCounted(b, failed) /\ b.requests # <<>>
         /\ Has(b, p, "freeBusyRetrieved") /\ ~Has(b, p, "handlesFreeBusy")
         /\ OthersHave(a, b, p)
<1>1. "freeBusyRetrieved" # "handlesFreeBusy" /\ "freeBusyRetrieved" \in Signals
  BY SignalsTyped
<1>2. OnlyHas(a, p, "handlesFreeBusy") /\ p \notin a.merged
  BY HearsOne
<1>3. OneRequestEach(b)
  <2>1. AlikeOnlyItself(b.requests)
    BY DEF OneRequestEach, AlikeOnlyItself, AlikeBut
  <2>2. ASSUME NEW m \in DOMAIN b.requests
        PROVE  /\ \E signal \in Signals : Hears(b.requests[m], signal)
               /\ b.requests[m].provider \notin b.merged
    BY <1>1 DEF OneRequestEach, AlikeBut
  <2> QED BY <2>1, <2>2 DEF OneRequestEach
<1>4. b.requests[k].provider = p /\ k \in DOMAIN b.requests
  BY DEF AlikeBut
<1>5. OnlyHas(b, p, "freeBusyRetrieved")
  BY <1>3, <1>4, HearsOne
<1>6. ASSUME NEW x, NEW signal, x # p
      PROVE  Has(b, x, signal) <=> Has(a, x, signal)
  BY <1>4, <1>6 DEF Has, AlikeBut
<1>7. Listening(b) = Listening(a) \cup {p} /\ p \notin Listening(a)
  BY <1>1, <1>2, <1>5, <1>6 DEF Listening, OnlyHas
<1>8. /\ IsFiniteSet(Listening(a)) /\ Cardinality(Listening(a)) \in Nat /\ Handling(a) \in Nat
      /\ Cardinality(a.merged) \in Nat /\ a.handlers \in Int
  BY MergedCounted
<1>9. Cardinality(Listening(b)) = Cardinality(Listening(a)) + 1
  <2>1. Cardinality(Listening(a) \cup {p}) = Cardinality(Listening(a)) + 1
    BY <1>7, <1>8, FS_AddElement
  <2> QED BY <1>7, <2>1
<1>10. Handling(b) = Handling(a) + 1
  BY <1>8, <1>9 DEF Handling
<1>11. HandlersCounted(b, failed)
  BY <1>8, <1>10 DEF HandlersCounted
<1>12. b.requests # <<>>
  BY <1>4
<1> QED BY <1>1, <1>3, <1>5, <1>6, <1>11, <1>12 DEF OnlyHas, OthersHave

\* Request k of a, which p took for `signal`, is gone; what the others hear is the same.
RequestGone(a, b, k, p, signal) ==
  /\ OneRequestEach(b)
  /\ \A x, other : Has(b, x, other) <=> x # p /\ Has(a, x, other)

LEMMA RemovedTurn ==
  ASSUME NEW a \in AskType, OneRequestEach(a), NEW k \in DOMAIN a.requests, NEW p \in Providers,
         a.requests[k].provider = p, NEW signal, Hears(a.requests[k], signal),
         NEW d \in AskType, AlikeBut(a, d, k),
         NEW b, b.requests = RemoveAt(d.requests, k), b.merged \subseteq a.merged \cup {p}
  PROVE  RequestGone(a, b, k, p, signal)
<1> DEFINE q == d.requests
           from(m) == IF m < k THEN m ELSE m + 1
<1>1. q \in Seq(Request) /\ a.requests \in Seq(Request)
  BY DEF AskType
<1>2. DOMAIN q = DOMAIN a.requests /\ k \in DOMAIN q
  BY DEF AlikeBut
<1>3. /\ Len(RemoveAt(q, k)) = Len(q) - 1 /\ DOMAIN RemoveAt(q, k) = 1 .. Len(q) - 1
      /\ \A m \in 1 .. Len(q) - 1 : RemoveAt(q, k)[m] = q[from(m)]
  BY <1>1, <1>2, RemovedFacts
<1>4. Len(q) \in Nat /\ DOMAIN q = 1 .. Len(q) /\ k \in 1 .. Len(q) /\ k \in Nat
  BY <1>1, <1>2, SeqFacts
<1>5. /\ DOMAIN b.requests = 1 .. Len(q) - 1
      /\ \A m \in DOMAIN b.requests :
           from(m) \in DOMAIN a.requests /\ from(m) # k /\ b.requests[m] = q[from(m)]
  BY <1>2, <1>3, <1>4
<1>6. \A m \in DOMAIN b.requests : b.requests[m] = a.requests[from(m)]
  BY <1>5 DEF AlikeBut
<1>7. ASSUME NEW m \in DOMAIN b.requests, NEW n \in DOMAIN b.requests, from(m) = from(n)
      PROVE  m = n
  BY <1>4, <1>5, <1>7
<1>8. ASSUME NEW j \in DOMAIN a.requests, j # k
      PROVE  \E m \in DOMAIN b.requests : from(m) = j
  <2> DEFINE m == IF j < k THEN j ELSE j - 1
  <2>1. j \in 1 .. Len(q)
    BY <1>2, <1>4
  <2>2. m \in 1 .. Len(q) - 1 /\ from(m) = j
    BY <1>4, <1>8, <2>1
  <2> QED BY <1>5, <2>2
<1> HIDE DEF q, from
<1>9. /\ \A m \in DOMAIN b.requests : from(m) \in DOMAIN a.requests /\ from(m) # k
      /\ \A m, n \in DOMAIN a.requests : a.requests[m].provider = a.requests[n].provider => m = n
  BY <1>5 DEF OneRequestEach, AlikeOnlyItself
<1>10. \A m \in DOMAIN b.requests : b.requests[m].provider # p
  BY <1>6, <1>9
<1>11. AlikeOnlyItself(b.requests)
  BY <1>6, <1>7, <1>9 DEF AlikeOnlyItself
<1>12. ASSUME NEW m \in DOMAIN b.requests
       PROVE  /\ \E other \in Signals : Hears(b.requests[m], other)
              /\ b.requests[m].provider \notin b.merged
  <2>1. /\ \E other \in Signals : Hears(a.requests[from(m)], other)
        /\ a.requests[from(m)].provider \notin a.merged
    BY <1>9 DEF OneRequestEach
  <2> QED BY <1>6, <1>10, <2>1
<1>13. OneRequestEach(b)
  BY <1>11, <1>12 DEF OneRequestEach
<1>14. ASSUME NEW x, NEW other
       PROVE  Has(b, x, other) <=> x # p /\ Has(a, x, other)
  <2>1. ASSUME Has(b, x, other)
        PROVE  x # p /\ Has(a, x, other)
    BY <1>6, <1>9, <1>10, <2>1 DEF Has
  <2>2. ASSUME x # p, Has(a, x, other)
        PROVE  Has(b, x, other)
    <3>1. PICK j \in DOMAIN a.requests : a.requests[j].provider = x /\ Hears(a.requests[j], other)
      BY <2>2 DEF Has
    <3>2. j # k
      BY <2>2, <3>1
    <3>3. PICK m \in DOMAIN b.requests : from(m) = j
      BY <1>8, <3>2
    <3> QED BY <1>6, <3>1, <3>3 DEF Has
  <2> QED BY <2>1, <2>2
<1> QED BY <1>13, <1>14 DEF RequestGone

\* A provider that does not know the email is not counted.
LEMMA DeclinedCounted ==
  ASSUME NEW a \in AskType, NEW failed, HandlersCounted(a, failed), NEW p \in Providers, NEW k,
         OnlyHas(a, p, "handlesFreeBusy"),
         NEW b \in AskType, RequestGone(a, b, k, p, "handlesFreeBusy"),
         b.merged = a.merged, b.handlers = a.handlers
  PROVE  HandlersCounted(b, failed)
<1>1. "freeBusyRetrieved" # "handlesFreeBusy"
  OBVIOUS
<1>2. Listening(b) = Listening(a)
  BY <1>1 DEF Listening, OnlyHas, RequestGone
<1> QED BY <1>2 DEF HandlersCounted, Handling

\* The list of a provider is merged, or its handler taken back, or it failed.
LEMMA AnswerCounted ==
  ASSUME NEW a \in AskType, NEW failed, HandlersCounted(a, failed), NEW p \in Providers, NEW k,
         OnlyHas(a, p, "freeBusyRetrieved"), p \notin a.merged,
         NEW b \in AskType, RequestGone(a, b, k, p, "freeBusyRetrieved"), NEW list,
         list \in {"good", "unreadable", "failed"}, AnswerTaken(a, b, p, list)
  PROVE  HandlersCounted(b, failed \/ list = "failed")
<1>1. Listening(b) = Listening(a) \ {p} /\ p \in Listening(a)
  BY DEF Listening, OnlyHas, RequestGone
<1>2. /\ IsFiniteSet(Listening(a)) /\ Cardinality(Listening(a)) \in Nat /\ Handling(a) \in Nat
      /\ IsFiniteSet(a.merged) /\ Cardinality(a.merged) \in Nat /\ a.handlers \in Int
  BY MergedCounted
<1>3. /\ Cardinality(Listening(b)) \in Nat /\ Handling(b) \in Nat /\ b.handlers \in Int
  BY MergedCounted
<1>4. Cardinality(Listening(b)) = Cardinality(Listening(a)) - 1
  <2>1. Cardinality(Listening(a) \ {p}) = Cardinality(Listening(a)) - 1
    BY <1>1, <1>2, FS_RemoveElement
  <2> QED BY <1>1, <2>1
<1>5. CASE list = "good"
  <2>1. Cardinality(a.merged \cup {p}) = Cardinality(a.merged) + 1
    BY <1>2, FS_AddElement
  <2>2. b.merged = a.merged \cup {p} /\ b.handlers = a.handlers
    BY <1>5 DEF AnswerTaken
  <2>3. Handling(b) = Handling(a)
    BY <1>2, <1>4, <2>1, <2>2 DEF Handling
  <2> QED BY <2>2, <2>3 DEF HandlersCounted
<1>6. CASE list # "good"
  <2>1. b.merged = a.merged /\ b.handlers = IF list = "unreadable" THEN a.handlers - 1 ELSE a.handlers
    BY <1>6 DEF AnswerTaken
  <2>2. Handling(b) = Handling(a) - 1
    BY <1>2, <1>4, <2>1 DEF Handling
  <2>3. CASE list = "unreadable"
    BY <1>2, <2>1, <2>2, <2>3 DEF HandlersCounted
  <2>4. CASE list = "failed"
    BY <1>2, <2>1, <2>2, <2>4 DEF HandlersCounted
  <2> QED BY <1>6, <2>3, <2>4
<1> QED BY <1>5, <1>6

\* An answer about e has been taken; what follows is to come.
OthersInTurn(s, e, failed) == \A f \in Emails : f # e => TurnOf(s, f, failed)
Awaiting(s, e, failed) ==
  /\ OthersInTurn(s, e, failed)
  /\ Awaited(s, e, failed) /\ ListsAreComplete(s, failed)

\* Somebody is still awaited, or some provider knew the email.
LEMMA StandingTurn ==
  ASSUME NEW s, NEW e \in Emails, NEW failed, Awaiting(s, e, failed), Standing(s.byEmail[e])
  PROVE  InTurn(s, failed)
<1>1. ASSUME NEW f \in Emails
      PROVE  TurnOf(s, f, failed)
  <2>1. CASE f = e
    BY <2>1 DEF Awaiting, TurnOf
  <2>2. CASE f # e
    BY <2>2 DEF Awaiting, OthersInTurn
  <2> QED BY <2>1, <2>2
<1> QED BY <1>1 DEF Awaiting, InTurn

\* Nobody is: it is no longer asked about e.
LEMMA ClosedInTurn ==
  ASSUME NEW s, NEW e \in Emails, NEW failed, Awaiting(s, e, failed), s.byEmail[e].requests = <<>>,
         NEW t, t.byEmail[e] = Closed, \A f \in Emails : f # e => t.byEmail[f] = s.byEmail[f],
         t.calls = s.calls, ListsAreComplete(t, failed)
  PROVE  InTurn(t, failed)
<1>1. ASSUME NEW f \in Emails
      PROVE  TurnOf(t, f, failed)
  <2>1. SameCalls(s, t, f)
    BY DEF SameCalls
  <2>2. CASE f = e
    <3>1. CallsAreHeard(s, e)
      BY DEF Awaiting, Awaited
    <3> QED BY <2>1, <2>2, <3>1, ClosedTurn
  <2>3. CASE f # e
    <3>1. TurnOf(s, f, failed) /\ t.byEmail[f] = s.byEmail[f]
      BY <2>3 DEF Awaiting, OthersInTurn
    <3> QED BY <2>1, <3>1, TurnKept
  <2> QED BY <2>2, <2>3
<1> QED BY <1>1 DEF InTurn

LEMMA DeclinedTurn ==
  ASSUME NEW r \in ManagerType, EmailsOfDownloads(r), NEW e \in Emails, NEW failed,
         Awaiting(r, e, failed), NEW t,
         t = IF r.byEmail[e].requests = <<>> /\ r.byEmail[e].handlers = 0
             THEN FetchFreeBusyUrl(WithAsk(r, e, Closed), e) ELSE r
  PROVE  InTurn(t, failed)
<1>1. CASE r.byEmail[e].requests = <<>> /\ r.byEmail[e].handlers = 0
  <2> DEFINE q == WithAsk(r, e, Closed)
  <2>1. /\ q \in ManagerType /\ SameRest(r, q) /\ q.byEmail[e] = Closed
        /\ \A f \in Emails : f # e => q.byEmail[f] = r.byEmail[f]
        /\ EmailsOfDownloads(q)
    BY ClosedTyped, WithAskFacts
  <2>2. t = FetchFreeBusyUrl(q, e)
    BY <1>1
  <2> HIDE DEF q
  <2>3. Looked(q, t, e)
    BY <2>1, <2>2, FetchFacts
  <2>4. t.byEmail = q.byEmail /\ t.calls = r.calls /\ t.given = r.given
    BY <2>1, <2>3 DEF Looked, SameAsks, SameRest
  <2>5. ListsAreComplete(t, failed)
    BY <2>4 DEF Awaiting, ListsAreComplete
  <2> QED BY <1>1, <2>1, <2>4, <2>5, ClosedInTurn
<1>2. CASE ~(r.byEmail[e].requests = <<>> /\ r.byEmail[e].handlers = 0)
  <2>1. r.byEmail[e].handlers \in Int /\ r.byEmail[e] \in AskType
    BY AskFields
  <2>2. r.byEmail[e].handlers >= 0
    <3>1. Handling(r.byEmail[e]) \in Nat
      BY <2>1, MergedCounted
    <3>2. r.byEmail[e].handlers >= Handling(r.byEmail[e])
      BY DEF Awaiting, Awaited, HandlersCounted
    <3> QED BY <2>1, <3>1, <3>2
  <2>3. Standing(r.byEmail[e]) /\ t = r
    BY <1>2, <2>1, <2>2 DEF Standing
  <2> QED BY <2>3, StandingTurn
<1> QED BY <1>1, <1>2

LEMMA AnsweredTurn ==
  ASSUME NEW r \in ManagerType, EmailsOfDownloads(r), NEW e \in Emails, NEW failed,
         Awaiting(r, e, failed)
  PROVE  InTurn(Answered(r, e), failed)
<1>1. CASE r.byEmail[e].requests # <<>>
  <2>1. Standing(r.byEmail[e]) /\ Answered(r, e) = r
    BY <1>1 DEF Standing, Answered
  <2> QED BY <2>1, StandingTurn
<1>2. CASE r.byEmail[e].requests = <<>> /\ r.byEmail[e].handlers = 0
  <2> DEFINE q == FetchFreeBusyUrl(r, e)
             t == WithAsk(q, e, Closed)
  <2>1. Looked(r, q, e)
    BY FetchFacts
  <2>2. Answered(r, e) = t
    BY <1>2 DEF Answered, WithAsk
  <2> HIDE DEF q
  <2>3. q \in ManagerType /\ q.byEmail = r.byEmail /\ q.calls = r.calls /\ q.given = r.given
    BY <2>1 DEF Looked, SameAsks
  <2>4. /\ SameRest(q, t) /\ t.byEmail[e] = Closed
        /\ \A f \in Emails : f # e => t.byEmail[f] = q.byEmail[f]
    BY <2>3, ClosedTyped, WithAskFacts
  <2> HIDE DEF t
  <2>5. t.calls = r.calls /\ ListsAreComplete(t, failed)
    BY <2>3, <2>4 DEF Awaiting, ListsAreComplete, SameRest
  <2>6. InTurn(t, failed)
    BY <1>2, <2>3, <2>4, <2>5, ClosedInTurn
  <2> QED BY <2>2, <2>6
<1>3. CASE r.byEmail[e].requests = <<>> /\ r.byEmail[e].handlers # 0
  <2> DEFINE q == GiveOut(r, e)
             t == WithAsk(q, e, Closed)
  <2>1. /\ q \in ManagerType /\ q.byEmail = r.byEmail /\ q.calls = r.calls
        /\ q.given = r.given \cup {KindNow(r, e)}
    BY GiveOutFacts
  <2>2. Answered(r, e) = t
    BY <1>3 DEF Answered, WithAsk
  <2> HIDE DEF q
  <2>3. /\ SameRest(q, t) /\ t.byEmail[e] = Closed
        /\ \A f \in Emails : f # e => t.byEmail[f] = q.byEmail[f]
    BY <2>1, ClosedTyped, WithAskFacts
  <2> HIDE DEF t
  <2>4. /\ \A p, signal : ~Has(r.byEmail[e], p, signal)
        /\ Listening(r.byEmail[e]) = {}
    BY <1>3, EmptyHas
  <2>5. ~\E c \in Calls : c.email = e /\ r.calls[c] > 0
    <3>1. SUFFICES ASSUME NEW c \in Calls, c.email = e
                   PROVE  ~(r.calls[c] > 0)
      OBVIOUS
    <3>2. c = CallOf(c.provider, c.signal, e) /\ c.provider \in Providers /\ c.signal \in Signals
      BY <3>1 DEF CallOf, Calls
    <3>3. CallsAreHeard(r, e)
      BY DEF Awaiting, Awaited
    <3>4. r.calls[CallOf(c.provider, c.signal, e)] = 0
      BY <2>4, <3>2, <3>3 DEF CallsAreHeard
    <3>5. r.calls[c] = 0
      BY <3>2, <3>4
    <3> QED BY <3>5
  <2>6. r.byEmail[e].merged = {} => failed
    <3>1. SUFFICES ASSUME r.byEmail[e].merged = {}, ~failed
                   PROVE  FALSE
      OBVIOUS
    <3>2. Handling(r.byEmail[e]) = 0
      <4>1. Cardinality({}) = 0
        BY FS_EmptySet
      <4> QED BY <2>4, <3>1, <4>1 DEF Handling
    <3> QED BY <1>3, <3>1, <3>2 DEF Awaiting, Awaited, HandlersCounted
  <2>7. KindNow(r, e) # "early list" /\ (KindNow(r, e) = "empty list" => failed)
    BY <2>5, <2>6 DEF KindNow
  <2>8. t.calls = r.calls /\ t.given = r.given \cup {KindNow(r, e)}
    BY <2>1, <2>3 DEF SameRest
  <2>9. ListsAreComplete(t, failed)
    BY <2>7, <2>8 DEF Awaiting, ListsAreComplete
  <2>10. InTurn(t, failed)
    BY <1>3, <2>1, <2>3, <2>8, <2>9, ClosedInTurn
  <2> QED BY <2>2, <2>10
<1> QED BY <1>1, <1>2, <1>3

\* Of e, every call to a provider but p is heard by its request.
OthersAreHeard(s, e, p) ==
  \A x \in Providers, signal \in Signals :
    s.calls[CallOf(x, signal, e)] = IF x # p /\ Has(s.byEmail[e], x, signal) THEN 1 ELSE 0

\* The call that request k of e waits for has been answered, and nobody has heard it yet.
CallTaken(s, e, k, p, signal, failed) ==
  /\ OthersInTurn(s, e, failed)
  /\ OneRequestEach(s.byEmail[e]) /\ HandlersCounted(s.byEmail[e], failed)
  /\ OthersAreHeard(s, e, p) /\ ListsAreComplete(s, failed)
  /\ k \in DOMAIN s.byEmail[e].requests /\ s.byEmail[e].requests[k].provider = p
  /\ Hears(s.byEmail[e].requests[k], signal)

LEMMA TheRequest ==
  ASSUME NEW s, Good(s), NEW e \in Emails, NEW k, NEW p \in Providers, NEW signal, NEW failed,
         CallTaken(s, e, k, p, signal, failed)
  PROVE  /\ s.byEmail[e].open /\ RequestIndex(s, e, p) = k /\ k # 0
         /\ OnlyHas(s.byEmail[e], p, signal) /\ p \notin s.byEmail[e].merged
         /\ s.byEmail[e] \in AskType
<1>1. s \in ManagerType /\ ClosedIsEmpty(s)
  BY DEF Good
<1>2. s.byEmail[e] \in AskType /\ s.byEmail[e].requests \in Seq(Request)
  BY <1>1, AskFields
<1>3. /\ k \in DOMAIN s.byEmail[e].requests /\ s.byEmail[e].requests[k].provider = p
      /\ Hears(s.byEmail[e].requests[k], signal) /\ OneRequestEach(s.byEmail[e])
  BY DEF CallTaken
<1>4. s.byEmail[e].open
  <2>1. s.byEmail[e].requests # <<>>
    BY <1>3
  <2> QED BY <1>1, <2>1 DEF ClosedIsEmpty
<1>5. /\ OnlyHas(s.byEmail[e], p, signal) /\ p \notin s.byEmail[e].merged
      /\ OnlyAsks(s.byEmail[e], k, p)
  BY <1>3, HearsOne
<1>6. RequestIndex(s, e, p) = k
  <2>1. RequestIndex(s, e, p) # 0
    BY <1>1, <1>3, RequestIndexFacts
  <2>2. /\ RequestIndex(s, e, p) \in DOMAIN s.byEmail[e].requests
        /\ s.byEmail[e].requests[RequestIndex(s, e, p)].provider = p
    BY <1>1, <2>1, RequestIndexFacts
  <2> QED BY <1>5, <2>2 DEF OnlyAsks
<1>7. k # 0
  <2>1. k \in 1 .. Len(s.byEmail[e].requests)
    BY <1>2, <1>3, SeqFacts
  <2> QED BY <2>1
<1> QED BY <1>2, <1>4, <1>5, <1>6, <1>7

\* Another email's calls have another email.
LEMMA OthersCalls ==
  ASSUME NEW s, NEW t, NEW e \in Emails, NEW f \in Emails, f # e,
         \A c \in Calls : c.email # e => t.calls[c] = s.calls[c]
  PROVE  SameCalls(s, t, f)
BY CallTyped DEF SameCalls

OthersAlike(s, t, e) ==
  /\ \A f \in Emails : f # e => t.byEmail[f] = s.byEmail[f]
  /\ \A c \in Calls : c.email # e => t.calls[c] = s.calls[c]

LEMMA OthersTurns ==
  ASSUME NEW s, NEW t, NEW e \in Emails, NEW failed, NEW later, failed => later,
         OthersInTurn(s, e, failed), OthersAlike(s, t, e)
  PROVE  OthersInTurn(t, e, later)
<1>1. SUFFICES ASSUME NEW f \in Emails, f # e
               PROVE  TurnOf(t, f, later)
  BY DEF OthersInTurn
<1>2. SameCalls(s, t, f)
  BY <1>1, OthersCalls DEF OthersAlike
<1>3. TurnOf(s, f, failed) /\ t.byEmail[f] = s.byEmail[f]
  BY <1>1 DEF OthersInTurn, OthersAlike
<1> QED BY <1>2, <1>3, TurnKept

\* A provider knows the email: the same request waits for its list.
LEMMA KnownTurn ==
  ASSUME NEW s, Good(s), NEW e \in Emails, NEW k, NEW p \in Providers, NEW failed,
         CallTaken(s, e, k, p, "handlesFreeBusy", failed), NEW id, id = s.byEmail[e].requests[k].id,
         NEW deaf, Rewired(s, deaf, id, {"handlesFreeBusy"}, {}),
         NEW listener, Rewired(deaf, listener, id, {}, {"freeBusyRetrieved"}),
         NEW t, t = NextCall(Counted(listener, e), CallOf(p, "freeBusyRetrieved", e))
  PROVE  InTurn(t, failed)
<1> DEFINE c == CallOf(p, "freeBusyRetrieved", e)
<1>1. /\ s.byEmail[e].open /\ OnlyHas(s.byEmail[e], p, "handlesFreeBusy")
      /\ p \notin s.byEmail[e].merged /\ s.byEmail[e] \in AskType
  BY TheRequest
<1>3. k \in DOMAIN s.byEmail[e].requests
  BY DEF CallTaken
<1>4. RewiredAt(s, deaf, e, k, {"handlesFreeBusy"}, {})
  BY <1>3, ReconnectedOne
<1>5. k \in DOMAIN deaf.byEmail[e].requests /\ id = deaf.byEmail[e].requests[k].id /\ Good(deaf)
  <2>1. Good(deaf)
    BY RewiredHandled DEF Handled
  <2> QED BY <1>4, <2>1 DEF RewiredAt, Reconnected, AlikeBut
<1>6. RewiredAt(deaf, listener, e, k, {}, {"freeBusyRetrieved"})
  BY <1>5, ReconnectedOne
<1>7. Reconnected(s, deaf, e, k) /\ Reconnected(deaf, listener, e, k) /\ Good(listener)
  <2>1. Good(listener)
    BY <1>5, RewiredHandled DEF Handled
  <2> QED BY <1>4, <1>6, <2>1 DEF RewiredAt
<1>8. Hears(listener.byEmail[e].requests[k], "freeBusyRetrieved")
  <2>1. deaf.byEmail[e].requests[k].hears = {}
    BY <1>4 DEF RewiredAt, CallTaken, Hears
  <2> QED BY <1>6, <2>1 DEF RewiredAt, Hears
<1>9. Reconnected(s, listener, e, k)
  BY <1>7, ReconnectedTwice
<1>10. listener.byEmail[e].open
  BY <1>1, <1>9 DEF Reconnected
<1> DEFINE u == Counted(listener, e)
           b == u.byEmail[e]
<1>11. listener \in ManagerType /\ listener.byEmail[e] \in AskType /\ listener.byEmail[e].handlers \in Int
  BY <1>7, AskFields DEF Good
<1>12. /\ Good(u) /\ SameRest(listener, u)
       /\ u.byEmail[e] = [listener.byEmail[e] EXCEPT !.handlers = listener.byEmail[e].handlers + 1]
       /\ \A f \in Emails : f # e => u.byEmail[f] = listener.byEmail[f]
  <2>1. listener.byEmail[e].handlers + 1 \in Int
    BY <1>11
  <2>2. PICK h \in Int : h = listener.byEmail[e].handlers + 1
    BY <2>1
  <2>3. u = WithAsk(listener, e, [listener.byEmail[e] EXCEPT !.handlers = h])
    BY <2>2 DEF Counted
  <2> HIDE DEF u
  <2>4. /\ Handled(listener, u) /\ SameRest(listener, u)
        /\ u.byEmail[e] = [listener.byEmail[e] EXCEPT !.handlers = h]
        /\ \A f \in Emails : f # e => u.byEmail[f] = listener.byEmail[f]
    BY <1>7, <1>10, <2>3, CountedHandled
  <2> QED BY <2>2, <2>4 DEF Handled
<1> HIDE DEF u
<1>13. /\ b.requests = listener.byEmail[e].requests /\ b.merged = s.byEmail[e].merged
       /\ b.handlers = s.byEmail[e].handlers + 1 /\ b \in AskType
  <2>1. b \in AskType
    BY <1>12, AskFields DEF Good
  <2> QED BY <1>9, <1>11, <1>12, <2>1 DEF AskType, Reconnected
<1>14. AlikeBut(s.byEmail[e], b, k) /\ Hears(b.requests[k], "freeBusyRetrieved")
  BY <1>8, <1>9, <1>13 DEF Reconnected, AlikeBut
<1> HIDE DEF b
<1>15. /\ OneRequestEach(b) /\ HandlersCounted(b, failed) /\ b.requests # <<>>
       /\ Has(b, p, "freeBusyRetrieved") /\ ~Has(b, p, "handlesFreeBusy")
       /\ OthersHave(s.byEmail[e], b, p)
  <2>1. /\ OneRequestEach(s.byEmail[e]) /\ k \in DOMAIN s.byEmail[e].requests
        /\ s.byEmail[e].requests[k].provider = p
        /\ Hears(s.byEmail[e].requests[k], "handlesFreeBusy")
        /\ HandlersCounted(s.byEmail[e], failed)
    BY DEF CallTaken
  <2> QED BY <1>1, <1>13, <1>14, <2>1, HandlesTurn
<1>16. c \in Calls /\ c.email = e /\ u.calls = s.calls /\ u.calls \in [Calls -> Nat]
  <2>1. u \in ManagerType
    BY <1>12 DEF Good
  <2> QED BY <1>9, <1>12, <2>1, CallTyped, SignalsTyped, ManagerFields DEF SameRest, Reconnected
<1>17. /\ t.byEmail = u.byEmail /\ t.given = u.given
       /\ t.calls = [s.calls EXCEPT ![c] = s.calls[c] + 1]
  <2>1. s.calls[c] + 1 \in Nat
    BY <1>16
  <2>2. t = [u EXCEPT !.calls[c] = s.calls[c] + 1]
    BY <1>16 DEF NextCall, u
  <2>3. /\ [u EXCEPT !.calls[c] = s.calls[c] + 1].byEmail = u.byEmail
        /\ [u EXCEPT !.calls[c] = s.calls[c] + 1].given = u.given
        /\ [u EXCEPT !.calls[c] = s.calls[c] + 1].calls = [u.calls EXCEPT ![c] = s.calls[c] + 1]
    BY <1>12, <1>16, <2>1, CallsHandled
  <2> QED BY <1>16, <2>2, <2>3
<1>18. OthersInTurn(t, e, failed)
  <2>1. \A d \in Calls : d.email # e => t.calls[d] = s.calls[d]
    BY <1>16, <1>17
  <2>2. \A f \in Emails : f # e => t.byEmail[f] = s.byEmail[f]
    BY <1>9, <1>12, <1>17 DEF Reconnected
  <2>3. OthersAlike(s, t, e) /\ OthersInTurn(s, e, failed)
    BY <2>1, <2>2 DEF OthersAlike, CallTaken
  <2> QED BY <2>3, OthersTurns
<1>19. CallsAreHeard(t, e)
  <2>1. SUFFICES ASSUME NEW x \in Providers, NEW signal \in Signals
                 PROVE  t.calls[CallOf(x, signal, e)] = IF Has(b, x, signal) THEN 1 ELSE 0
    BY <1>17 DEF CallsAreHeard, b
  <2>2. CallOf(x, signal, e) \in Calls /\ (CallOf(x, signal, e) = c <=> x = p /\ signal = "freeBusyRetrieved")
    BY CallTyped DEF CallOf
  <2>3. s.calls[CallOf(x, signal, e)] = IF x # p /\ Has(s.byEmail[e], x, signal) THEN 1 ELSE 0
    BY DEF CallTaken, OthersAreHeard
  <2>4. s.calls \in [Calls -> Nat] /\ t.calls = [s.calls EXCEPT ![c] = s.calls[c] + 1]
    BY <1>16, <1>17
  <2> HIDE DEF c
  <2>5. CASE x # p
    <3>1. t.calls[CallOf(x, signal, e)] = s.calls[CallOf(x, signal, e)]
      BY <2>2, <2>4, <2>5
    <3> QED BY <1>15, <2>3, <2>5, <3>1 DEF OthersHave
  <2>6. CASE x = p /\ signal = "freeBusyRetrieved"
    <3>1. t.calls[CallOf(x, signal, e)] = s.calls[CallOf(x, signal, e)] + 1
      BY <2>2, <2>4, <2>6
    <3> QED BY <1>15, <2>3, <2>6, <3>1
  <2>7. CASE x = p /\ signal = "handlesFreeBusy"
    <3>1. t.calls[CallOf(x, signal, e)] = s.calls[CallOf(x, signal, e)]
      BY <2>2, <2>4, <2>7
    <3> QED BY <1>15, <2>3, <2>7, <3>1
  <2> QED BY <2>5, <2>6, <2>7 DEF Signals
<1>20. Awaited(t, e, failed) /\ Standing(t.byEmail[e])
  BY <1>15, <1>17, <1>19 DEF Awaited, Standing, b
<1>21. ListsAreComplete(t, failed)
  BY <1>9, <1>12, <1>17 DEF CallTaken, ListsAreComplete, SameRest, Reconnected
<1> QED BY <1>18, <1>20, <1>21, StandingTurn DEF Awaiting

\* A provider does not know it.
LEMMA UnknownTurn ==
  ASSUME NEW s, Good(s), NEW e \in Emails, NEW k, NEW p \in Providers, NEW failed,
         CallTaken(s, e, k, p, "handlesFreeBusy", failed), NEW id, id = s.byEmail[e].requests[k].id,
         NEW deaf, Rewired(s, deaf, id, {"handlesFreeBusy"}, {})
  PROVE  InTurn(Declined(deaf, e, k), failed)
<1>1. /\ OnlyHas(s.byEmail[e], p, "handlesFreeBusy") /\ s.byEmail[e] \in AskType
      /\ k \in DOMAIN s.byEmail[e].requests
  BY TheRequest DEF CallTaken
<1>2. RewiredAt(s, deaf, e, k, {"handlesFreeBusy"}, {})
  BY <1>1, ReconnectedOne
<1>3. Reconnected(s, deaf, e, k) /\ AlikeBut(s.byEmail[e], deaf.byEmail[e], k)
  BY <1>2 DEF RewiredAt, Reconnected
<1>4. Good(deaf) /\ deaf \in ManagerType /\ k \in DOMAIN deaf.byEmail[e].requests
  <2>1. Good(deaf)
    BY RewiredHandled DEF Handled
  <2> QED BY <1>3, <2>1 DEF AlikeBut, Good
<1> DEFINE b == WithoutRequest(deaf, e, k)
           r == WithAsk(deaf, e, b)
<1>5. /\ b \in AskType /\ b.handlers = deaf.byEmail[e].handlers
      /\ b.merged = deaf.byEmail[e].merged /\ b.requests = RemoveAt(deaf.byEmail[e].requests, k)
  BY <1>4, WithoutRequestFacts
<1>6. Declined(deaf, e, k) = IF b.requests = <<>> /\ b.handlers = 0
                             THEN FetchFreeBusyUrl(WithAsk(r, e, Closed), e) ELSE r
  BY <1>4, DeclinedShape
<1> HIDE DEF b
<1>7. /\ r \in ManagerType /\ SameRest(deaf, r) /\ r.byEmail[e] = b /\ EmailsOfDownloads(r)
      /\ \A f \in Emails : f # e => r.byEmail[f] = deaf.byEmail[f]
  BY <1>4, <1>5, WithAskFacts DEF Good
<1> HIDE DEF r
<1>8. /\ b.handlers = s.byEmail[e].handlers /\ b.merged = s.byEmail[e].merged
  BY <1>3, <1>5 DEF Reconnected
<1>9. RequestGone(s.byEmail[e], b, k, p, "handlesFreeBusy")
  <2>1. deaf.byEmail[e] \in AskType
    BY <1>4, AskFields
  <2>2. /\ OneRequestEach(s.byEmail[e]) /\ s.byEmail[e].requests[k].provider = p
        /\ Hears(s.byEmail[e].requests[k], "handlesFreeBusy")
    BY DEF CallTaken
  <2>3. b.merged \subseteq s.byEmail[e].merged \cup {p}
    BY <1>8
  <2> QED BY <1>1, <1>3, <1>5, <2>1, <2>2, <2>3, RemovedTurn
<1>10. HandlersCounted(b, failed)
  BY <1>1, <1>5, <1>8, <1>9, DeclinedCounted DEF CallTaken
<1>11. r.calls = s.calls /\ r.given = s.given
  BY <1>3, <1>7 DEF Reconnected, SameRest
<1>12. Awaiting(r, e, failed)
  <2>1. OthersInTurn(r, e, failed)
    <3>1. OthersAlike(s, r, e)
      BY <1>3, <1>7, <1>11 DEF OthersAlike, Reconnected
    <3> QED BY <3>1, OthersTurns DEF CallTaken
  <2>2. CallsAreHeard(r, e)
    BY <1>7, <1>9, <1>11 DEF CallTaken, OthersAreHeard, CallsAreHeard, RequestGone
  <2>3. Awaited(r, e, failed)
    BY <1>7, <1>9, <1>10, <2>2 DEF Awaited, RequestGone
  <2>4. ListsAreComplete(r, failed)
    BY <1>11 DEF CallTaken, ListsAreComplete
  <2> QED BY <2>1, <2>3, <2>4 DEF Awaiting
<1> QED BY <1>6, <1>7, <1>12, DeclinedTurn

LEMMA OnHandlesTurn ==
  ASSUME NEW s, Good(s), NEW e \in Emails, NEW k, NEW p \in Providers, NEW failed,
         CallTaken(s, e, k, p, "handlesFreeBusy", failed), NEW id, id = s.byEmail[e].requests[k].id,
         NEW handles \in BOOLEAN
  PROVE  InTurn(OnHandlesFreeBusy(s, id, p, e, handles), failed)
<1> DEFINE t == OnHandlesFreeBusy(s, id, p, e, handles)
<1>1. s.byEmail[e].open /\ RequestIndex(s, e, p) = k /\ RequestIndex(s, e, p) # 0
  BY TheRequest
<1>2. PICK deaf, listener :
        /\ Rewired(s, deaf, id, {"handlesFreeBusy"}, {})
        /\ Rewired(deaf, listener, id, {}, {"freeBusyRetrieved"})
        /\ t = IF handles THEN NextCall(Counted(listener, e), CallOf(p, "freeBusyRetrieved", e))
               ELSE Declined(deaf, e, RequestIndex(s, e, p))
  BY <1>1, OnHandlesShape
<1> HIDE DEF t
<1>3. CASE handles
  <2>1. t = NextCall(Counted(listener, e), CallOf(p, "freeBusyRetrieved", e))
    BY <1>2, <1>3
  <2>2. InTurn(t, failed)
    BY <1>2, <2>1, KnownTurn
  <2> QED BY <2>2 DEF t
<1>4. CASE ~handles
  <2>1. t = Declined(deaf, e, k)
    BY <1>1, <1>2, <1>4
  <2>2. InTurn(t, failed)
    BY <1>2, <2>1, UnknownTurn
  <2> QED BY <2>2 DEF t
<1> QED BY <1>3, <1>4

\* The list of a provider, or that it has none.
LEMMA OnRetrievedTurn ==
  ASSUME NEW s, Good(s), NEW e \in Emails, NEW k, NEW p \in Providers, NEW failed,
         CallTaken(s, e, k, p, "freeBusyRetrieved", failed),
         NEW id, id = s.byEmail[e].requests[k].id,
         NEW list, list \in {"good", "unreadable", "failed"}
  PROVE  InTurn(OnFreeBusyRetrieved(s, id, p, e, list), failed \/ list = "failed")
<1> DEFINE later == failed \/ list = "failed"
<1>1. /\ s.byEmail[e].open /\ RequestIndex(s, e, p) = k /\ RequestIndex(s, e, p) # 0
      /\ OnlyHas(s.byEmail[e], p, "freeBusyRetrieved") /\ p \notin s.byEmail[e].merged
      /\ s.byEmail[e] \in AskType /\ k \in DOMAIN s.byEmail[e].requests
  BY TheRequest DEF CallTaken
<1>2. PICK deaf :
        /\ Rewired(s, deaf, id, {"freeBusyRetrieved"}, {})
        /\ OnFreeBusyRetrieved(s, id, p, e, list) =
             Answered(WithAsk(deaf, e, WithoutAnswered(deaf, e, RequestIndex(s, e, p), p, list)), e)
  BY <1>1, OnRetrievedShape
<1>3. RewiredAt(s, deaf, e, k, {"freeBusyRetrieved"}, {})
  BY <1>1, <1>2, ReconnectedOne
<1>4. Reconnected(s, deaf, e, k) /\ AlikeBut(s.byEmail[e], deaf.byEmail[e], k)
  BY <1>3 DEF RewiredAt, Reconnected
<1>5. Good(deaf) /\ deaf \in ManagerType /\ k \in DOMAIN deaf.byEmail[e].requests
  <2>1. Good(deaf)
    BY <1>2, RewiredHandled DEF Handled
  <2> QED BY <1>4, <2>1 DEF AlikeBut, Good
<1> DEFINE b == WithoutAnswered(deaf, e, k, p, list)
           r == WithAsk(deaf, e, b)
<1>6. /\ b \in AskType /\ b.requests = RemoveAt(deaf.byEmail[e].requests, k)
      /\ AnswerTaken(deaf.byEmail[e], b, p, list)
  BY <1>5, WithoutAnsweredFacts
<1>7. OnFreeBusyRetrieved(s, id, p, e, list) = Answered(r, e)
  BY <1>1, <1>2
<1> HIDE DEF b
<1>8. /\ r \in ManagerType /\ SameRest(deaf, r) /\ r.byEmail[e] = b /\ EmailsOfDownloads(r)
      /\ \A f \in Emails : f # e => r.byEmail[f] = deaf.byEmail[f]
  BY <1>5, <1>6, WithAskFacts DEF Good
<1> HIDE DEF r
<1>9. AnswerTaken(s.byEmail[e], b, p, list)
  BY <1>4, <1>6 DEF Reconnected, AnswerTaken
<1>10. RequestGone(s.byEmail[e], b, k, p, "freeBusyRetrieved")
  <2>1. deaf.byEmail[e] \in AskType
    BY <1>5, AskFields
  <2>2. /\ OneRequestEach(s.byEmail[e]) /\ s.byEmail[e].requests[k].provider = p
        /\ Hears(s.byEmail[e].requests[k], "freeBusyRetrieved")
    BY DEF CallTaken
  <2>3. b.merged \subseteq s.byEmail[e].merged \cup {p}
    BY <1>9 DEF AnswerTaken
  <2> QED BY <1>1, <1>4, <1>6, <2>1, <2>2, <2>3, RemovedTurn
<1>11. HandlersCounted(b, later)
  BY <1>1, <1>6, <1>9, <1>10, AnswerCounted DEF CallTaken
<1>12. r.calls = s.calls /\ r.given = s.given
  BY <1>4, <1>8 DEF Reconnected, SameRest
<1>13. Awaiting(r, e, later)
  <2>1. OthersInTurn(r, e, later)
    <3>1. OthersAlike(s, r, e) /\ OthersInTurn(s, e, failed)
      BY <1>4, <1>8, <1>12 DEF OthersAlike, Reconnected, CallTaken
    <3>2. failed => later
      OBVIOUS
    <3> HIDE DEF later
    <3> QED BY <3>1, <3>2, OthersTurns
  <2> HIDE DEF later
  <2>2. CallsAreHeard(r, e)
    BY <1>8, <1>10, <1>12 DEF CallTaken, OthersAreHeard, CallsAreHeard, RequestGone
  <2>3. Awaited(r, e, later)
    BY <1>8, <1>10, <1>11, <2>2 DEF Awaited, RequestGone
  <2>4. ListsAreComplete(r, later)
    BY <1>12 DEF CallTaken, ListsAreComplete, later
  <2> QED BY <2>1, <2>3, <2>4 DEF Awaiting
<1>14. InTurn(Answered(r, e), later)
  <2> HIDE DEF later
  <2> QED BY <1>8, <1>13, AnsweredTurn
<1> QED BY <1>7, <1>14

\* The call of one request is answered: this request alone hears it.
LEMMA HeardAlone ==
  ASSUME NEW s, NEW r, NEW order \in SetToSeqs({r}), NEW call, NEW answer
  PROVE  HeardBy(s, order, call, answer) = Hear(s, r, call, answer)
<1>1. IsFiniteSet({r}) /\ Cardinality({r}) = 1
  BY FS_Singleton
<1>2. /\ order \in Seq({r}) /\ Len(order) = 1 /\ \A k \in 1 .. 1 : order[k] \in {r}
  BY <1>1, OrderIsSeq
<1>3. PICK q : /\ q[0] = s
               /\ \A k \in 1 .. Len(order) : q[k] = Hear(q[k - 1], order[k], call, answer)
               /\ HeardBy(s, order, call, answer) = q[Len(order)]
  BY <1>2, HearFold
<1>4. 1 \in 1 .. 1 /\ 1 - 1 = 0 /\ order[1] = r
  BY <1>2
<1>5. q[1] = Hear(q[1 - 1], order[1], call, answer)
  BY <1>2, <1>3, <1>4
<1> QED BY <1>2, <1>3, <1>4, <1>5

LEMMA CallTakenTurn ==
  ASSUME NEW s, Good(s), NEW e \in Emails, NEW k, NEW p \in Providers, NEW signal \in Signals,
         NEW failed, CallTaken(s, e, k, p, signal, failed), NEW answer,
         signal = "freeBusyRetrieved" => answer \in {"good", "unreadable", "failed"},
         NEW r, r = s.byEmail[e].requests[k], NEW later,
         later = (failed \/ answer = "failed")
  PROVE  InTurn(Hear(s, r, CallOf(p, signal, e), answer), later)
<1> DEFINE call == CallOf(p, signal, e)
           handles == answer = "handles"
<1>1. call.provider = p /\ call.signal = signal /\ call.email = e
  BY CallTyped
<1>2. \E q \in Requests(s) : q.id = r.id /\ call.signal \in q.hears
  <2>1. r \in Requests(s)
    BY DEF CallTaken, Requests, ToSet
  <2>2. signal \in r.hears
    BY DEF CallTaken, Hears
  <2> QED BY <1>1, <2>1, <2>2
<1> HIDE DEF call
<1>3. CASE signal = "handlesFreeBusy"
  <2>1. Hear(s, r, call, answer) = OnHandlesFreeBusy(s, r.id, p, e, handles)
    BY <1>1, <1>2, <1>3 DEF Hear
  <2>2. handles \in BOOLEAN
    OBVIOUS
  <2> HIDE DEF handles
  <2>3. CallTaken(s, e, k, p, "handlesFreeBusy", failed)
    BY <1>3
  <2>4. InTurn(OnHandlesFreeBusy(s, r.id, p, e, handles), failed)
    BY <2>2, <2>3, OnHandlesTurn
  <2>5. InTurn(Hear(s, r, call, answer), failed)
    BY <2>1, <2>4
  <2>6. failed => later
    OBVIOUS
  <2>7. InTurn(Hear(s, r, call, answer), later)
    BY <2>5, <2>6, InTurnLater
  <2> QED BY <2>7 DEF call
<1>4. CASE signal = "freeBusyRetrieved"
  <2>1. Hear(s, r, call, answer) = OnFreeBusyRetrieved(s, r.id, p, e, answer)
    BY <1>1, <1>2, <1>4 DEF Hear
  <2>2. CallTaken(s, e, k, p, "freeBusyRetrieved", failed)
    BY <1>4
  <2>3. InTurn(OnFreeBusyRetrieved(s, r.id, p, e, answer), failed \/ answer = "failed")
    BY <1>4, <2>2, OnRetrievedTurn
  <2> QED BY <2>1, <2>3 DEF call
<1> QED BY <1>3, <1>4 DEF Signals

\* Unless signals cross, only the request for the call hears the answer to it.
LEMMA OneHearer ==
  ASSUME Good(manager), NEW failed, InTurn(manager, failed), NEW p \in Providers,
         NEW signal \in Signals, NEW e \in Emails, manager.calls[CallOf(p, signal, e)] > 0,
         \A r \in Hearers(p, signal) : MadeFor(r) = e
  PROVE  /\ manager.calls[CallOf(p, signal, e)] = 1
         /\ \E k \in DOMAIN manager.byEmail[e].requests :
              LET r == manager.byEmail[e].requests[k]
              IN  r.provider = p /\ Hears(r, signal) /\ Hearers(p, signal) = {r}
<1> DEFINE q == manager.byEmail[e].requests
<1>1. CallsAreHeard(manager, e) /\ OneRequestEach(manager.byEmail[e])
  BY DEF InTurn, TurnOf, Awaited
<1>2. manager.calls[CallOf(p, signal, e)] = IF Has(manager.byEmail[e], p, signal) THEN 1 ELSE 0
  BY <1>1 DEF CallsAreHeard
<1>3. Has(manager.byEmail[e], p, signal) /\ manager.calls[CallOf(p, signal, e)] = 1
  BY <1>2
<1>4. PICK k \in DOMAIN q : q[k].provider = p /\ Hears(q[k], signal)
  BY <1>3 DEF Has
<1>5. q[k] \in Requests(manager) /\ signal \in q[k].hears
  BY <1>4 DEF Requests, ToSet, Hears
<1>6. ASSUME NEW r \in Hearers(p, signal)
      PROVE  r = q[k]
  <2>1. r \in Requests(manager) /\ r.provider = p /\ MadeFor(r) = e
    BY <1>6 DEF Hearers
  <2>2. \E f \in Emails : r \in ToSet(manager.byEmail[f].requests)
    BY <2>1 DEF Requests
  <2>3. r \in ToSet(q)
    BY <2>1, <2>2 DEF MadeFor
  <2>4. PICK m \in DOMAIN q : q[m] = r
    BY <2>3 DEF ToSet
  <2>5. m = k
    BY <1>1, <1>4, <2>1, <2>4 DEF OneRequestEach, AlikeOnlyItself
  <2> QED BY <2>4, <2>5
<1>7. Hearers(p, signal) = {q[k]}
  <2>1. q[k] \in Hearers(p, signal)
    BY <1>4, <1>5 DEF Hearers
  <2> QED BY <1>6, <2>1
<1> QED BY <1>3, <1>4, <1>7

LEMMA SignalTurn ==
  ASSUME FreeBusyInv, NEW p \in Providers, NEW signal \in Signals, NEW e \in Emails, NEW answer,
         signal = "freeBusyRetrieved" => answer \in {"good", "unreadable", "failed"},
         Signal(CallOf(p, signal, e), answer), ~past'.crossed
  PROVE  InTurn(manager', past'.failed)
<1> DEFINE c == CallOf(p, signal, e)
           u == Called(manager, c)
<1>1. RetrievalsInv /\ Good(manager) /\ manager \in ManagerType
  BY DEF FreeBusyInv, RetrievalsInv, Good
<1>2. c \in Calls /\ c.provider = p /\ c.signal = signal /\ c.email = e
  BY CallTyped
<1>3. /\ past'.crossed = (past.crossed \/ \E r \in Hearers(p, signal) : MadeFor(r) # e)
      /\ past'.failed = (past.failed \/ answer = "failed")
  BY <1>1, <1>2, SignalPast
<1>4. ~past.crossed /\ \A r \in Hearers(p, signal) : MadeFor(r) = e
  BY <1>3
<1>5. InTurn(manager, past.failed)
  BY <1>4 DEF FreeBusyInv
<1>6. /\ manager.calls[c] > 0
      /\ \E order \in SetToSeqs(Hearers(p, signal)) : manager' = HeardBy(u, order, c, answer)
  BY <1>2 DEF Signal, Called
<1>7. PICK k \in DOMAIN manager.byEmail[e].requests :
        LET r == manager.byEmail[e].requests[k]
        IN  r.provider = p /\ Hears(r, signal) /\ Hearers(p, signal) = {r}
  BY <1>1, <1>4, <1>5, <1>6, OneHearer
<1>8. manager.calls[c] = 1
  BY <1>1, <1>4, <1>5, <1>6, OneHearer
<1> HIDE DEF c
<1>9. /\ Good(u) /\ u.byEmail = manager.byEmail /\ u.given = manager.given
      /\ u.calls = [manager.calls EXCEPT ![c] = 0]
  <2>1. u = [manager EXCEPT !.calls[c] = 0]
    BY <1>8 DEF Called
  <2>2. 0 \in Nat
    OBVIOUS
  <2> HIDE DEF u
  <2>3. Handled(manager, [manager EXCEPT !.calls[c] = 0])
    BY <1>1, <1>2, <2>2, CallsHandled
  <2>4. /\ [manager EXCEPT !.calls[c] = 0].byEmail = manager.byEmail
        /\ [manager EXCEPT !.calls[c] = 0].given = manager.given
        /\ [manager EXCEPT !.calls[c] = 0].calls = [manager.calls EXCEPT ![c] = 0]
    BY <1>1, <1>2, <2>2, CallsHandled
  <2> QED BY <2>1, <2>3, <2>4 DEF Handled
<1> HIDE DEF u
<1> DEFINE r == manager.byEmail[e].requests[k]
<1>10. manager' = Hear(u, r, c, answer)
  <2>1. PICK order : order \in SetToSeqs(Hearers(p, signal)) /\ manager' = HeardBy(u, order, c, answer)
    BY <1>6
  <2>2. Hearers(p, signal) = {r}
    BY <1>7
  <2> HIDE DEF r
  <2>3. order \in SetToSeqs({r})
    BY <2>1, <2>2
  <2> QED BY <2>1, <2>3, HeardAlone
<1>11. manager.calls \in [Calls -> Nat]
  BY <1>1, ManagerFields
<1>12. OthersAreHeard(u, e, p)
  <2>1. SUFFICES ASSUME NEW x \in Providers, NEW other \in Signals
                 PROVE  u.calls[CallOf(x, other, e)]
                          = IF x # p /\ Has(manager.byEmail[e], x, other) THEN 1 ELSE 0
    BY <1>9 DEF OthersAreHeard
  <2>2. CallOf(x, other, e) \in Calls /\ (CallOf(x, other, e) = c <=> x = p /\ other = signal)
    BY CallTyped DEF CallOf, c
  <2>3. manager.calls[CallOf(x, other, e)] = IF Has(manager.byEmail[e], x, other) THEN 1 ELSE 0
    BY <1>5 DEF InTurn, TurnOf, Awaited, CallsAreHeard
  <2>4. OnlyHas(manager.byEmail[e], p, signal)
    BY <1>5, <1>7, HearsOne DEF InTurn, TurnOf, Awaited
  <2>5. CASE x = p /\ other = signal
    BY <1>2, <1>9, <1>11, <2>2, <2>5
  <2>6. CASE ~(x = p /\ other = signal)
    <3>1. u.calls[CallOf(x, other, e)] = manager.calls[CallOf(x, other, e)]
      BY <1>2, <1>9, <1>11, <2>2, <2>6
    <3> QED BY <2>3, <2>4, <2>6, <3>1 DEF OnlyHas
  <2> QED BY <2>5, <2>6
<1>13. OthersInTurn(u, e, past.failed)
  <2>1. OthersAlike(manager, u, e)
    BY <1>2, <1>9, <1>11 DEF OthersAlike
  <2>2. OthersInTurn(manager, e, past.failed)
    BY <1>5 DEF InTurn, OthersInTurn
  <2> QED BY <2>1, <2>2, OthersTurns
<1>14. CallTaken(u, e, k, p, signal, past.failed)
  <2>1. OneRequestEach(u.byEmail[e]) /\ HandlersCounted(u.byEmail[e], past.failed)
    BY <1>5, <1>9 DEF InTurn, TurnOf, Awaited
  <2>2. ListsAreComplete(u, past.failed)
    BY <1>5, <1>9 DEF InTurn, ListsAreComplete
  <2> QED BY <1>7, <1>9, <1>12, <1>13, <2>1, <2>2 DEF CallTaken
<1>15. r = u.byEmail[e].requests[k]
  BY <1>9
<1> HIDE DEF r
<1>16. InTurn(Hear(u, r, CallOf(p, signal, e), answer), past'.failed)
  BY <1>3, <1>9, <1>14, <1>15, CallTakenTurn
<1> QED BY <1>10, <1>16 DEF c

\* The first k providers have been asked about e, each by a request of its own, and
\* none has answered.
AskedOf(k, p) == \E m \in 1 .. k : SetToSeq(providers)[m] = p

FirstAsked(q, t, e, k) ==
  /\ OthersAlike(q, t, e) /\ t.given = q.given
  /\ t.byEmail[e].handlers = 0 /\ t.byEmail[e].merged = {}
  /\ DOMAIN t.byEmail[e].requests = 1 .. k
  /\ \A m \in 1 .. k : /\ t.byEmail[e].requests[m].provider = SetToSeq(providers)[m]
                       /\ Hears(t.byEmail[e].requests[m], "handlesFreeBusy")
  /\ \A p \in Providers, signal \in Signals :
       t.calls[CallOf(p, signal, e)] =
         IF signal = "handlesFreeBusy" /\ AskedOf(k, p) THEN 1 ELSE 0

LEMMA OneMoreAsked ==
  ASSUME providers \subseteq Providers, NEW q, NEW s, Good(s), NEW t \in ManagerType,
         NEW e \in Emails, NEW k \in Nat, k < Cardinality(providers), FirstAsked(q, s, e, k),
         NEW id, NEW p, p = SetToSeq(providers)[k + 1], Asked(s, t, e, p, id)
  PROVE  FirstAsked(q, t, e, k + 1)
<1> DEFINE new == [id |-> id, provider |-> p, hears |-> {"handlesFreeBusy"}]
           c == CallOf(p, "handlesFreeBusy", e)
           old == s.byEmail[e].requests
           now == t.byEmail[e].requests
<1>1. s \in ManagerType /\ old \in Seq(Request) /\ s.byEmail[e] \in AskType /\ s.calls \in [Calls -> Nat]
  BY AskFields, ManagerFields DEF Good
<1>2. /\ p \in Providers /\ Cardinality(providers) \in Nat
      /\ \A m \in 1 .. k : SetToSeq(providers)[m] # p
  <2>1. k + 1 \in 1 .. Cardinality(providers) /\ Cardinality(providers) \in Nat
        /\ \A m \in 1 .. k : m \in 1 .. Cardinality(providers) /\ m # k + 1
    BY ProvidersInOrder
  <2>2. p \in providers
    BY <2>1, ProvidersInOrder
  <2>3. \A m \in 1 .. k : SetToSeq(providers)[m] # p
    BY <2>1, ProvidersInOrder
  <2> QED BY <2>1, <2>2, <2>3
<1>3. c \in Calls /\ c.email = e /\ c.provider = p /\ c.signal = "handlesFreeBusy"
  BY <1>2, CallTyped, SignalsTyped
<1>4. /\ t.byEmail[e] = [s.byEmail[e] EXCEPT !.requests = Append(old, new)]
      /\ \A f \in Emails : f # e => t.byEmail[f] = s.byEmail[f]
      /\ t.calls = [s.calls EXCEPT ![c] = s.calls[c] + 1] /\ t.given = s.given
  BY DEF Asked
<1>5. new.provider = p /\ Hears(new, "handlesFreeBusy") /\ new \in Request
  BY <1>2, SignalsTyped DEF Hears, Asked, Request
<1> HIDE DEF new, old
<1>6. /\ now = Append(old, new) /\ t.byEmail[e].handlers = s.byEmail[e].handlers
      /\ t.byEmail[e].merged = s.byEmail[e].merged
  BY <1>1, <1>4 DEF AskType
<1>7. DOMAIN old = 1 .. k
  BY DEF FirstAsked, old
<1>8. Len(old) = k
  <2>1. Len(old) \in Nat /\ DOMAIN old = 1 .. Len(old)
    BY <1>1, SeqFacts
  <2> QED BY <1>7, <2>1
<1>9. /\ DOMAIN now = 1 .. k + 1
      /\ \A m \in 1 .. k : now[m] = old[m]
      /\ now[k + 1] = new
  BY <1>1, <1>5, <1>6, <1>7, <1>8, AppendedFacts
<1> HIDE DEF now
<1>10. ASSUME NEW m \in 1 .. k + 1
       PROVE  now[m].provider = SetToSeq(providers)[m] /\ Hears(now[m], "handlesFreeBusy")
  <2>1. CASE m = k + 1
    BY <1>5, <1>9, <2>1
  <2>2. CASE m # k + 1
    <3>1. m \in 1 .. k
      BY <2>2
    <3> QED BY <1>9, <3>1 DEF FirstAsked, old
  <2> QED BY <2>1, <2>2
<1>11. OthersAlike(q, t, e)
  <2>1. \A d \in Calls : d.email # e => t.calls[d] = s.calls[d]
    BY <1>1, <1>3, <1>4
  <2> QED BY <1>4, <2>1 DEF FirstAsked, OthersAlike
<1>12. ASSUME NEW x \in Providers, NEW signal \in Signals
       PROVE  t.calls[CallOf(x, signal, e)] =
                IF signal = "handlesFreeBusy" /\ AskedOf(k + 1, x) THEN 1 ELSE 0
  <2>1. CallOf(x, signal, e) \in Calls /\ (CallOf(x, signal, e) = c <=> x = p /\ signal = "handlesFreeBusy")
    BY CallTyped DEF CallOf
  <2>2. s.calls[CallOf(x, signal, e)] = IF signal = "handlesFreeBusy" /\ AskedOf(k, x) THEN 1 ELSE 0
    BY DEF FirstAsked
  <2>3. ~AskedOf(k, p)
    BY <1>2 DEF AskedOf
  <2>4. AskedOf(k + 1, x) <=> AskedOf(k, x) \/ x = p
    <3>1. \A m : m \in 1 .. k + 1 <=> m \in 1 .. k \/ m = k + 1
      OBVIOUS
    <3> QED BY <3>1 DEF AskedOf
  <2> HIDE DEF c
  <2>5. CASE x = p /\ signal = "handlesFreeBusy"
    <3>1. t.calls[CallOf(x, signal, e)] = s.calls[CallOf(x, signal, e)] + 1
      BY <1>1, <1>3, <1>4, <2>1, <2>5
    <3>2. s.calls[CallOf(x, signal, e)] = 0
      BY <2>2, <2>3, <2>5
    <3> QED BY <2>4, <2>5, <3>1, <3>2
  <2>6. CASE ~(x = p /\ signal = "handlesFreeBusy")
    <3>1. t.calls[CallOf(x, signal, e)] = s.calls[CallOf(x, signal, e)]
      BY <1>1, <1>3, <1>4, <2>1, <2>6
    <3> QED BY <2>2, <2>4, <2>6, <3>1
  <2> QED BY <2>5, <2>6
<1> QED BY <1>4, <1>6, <1>9, <1>10, <1>11, <1>12 DEF FirstAsked, now

\* All of them have.
LEMMA AllAsked ==
  ASSUME providers \subseteq Providers, providers # {}, NEW s, NEW t, t \in ManagerType,
         NEW e \in Emails, NEW failed, InTurn(s, failed),
         FirstAsked(s, t, e, Cardinality(providers))
  PROVE  InTurn(t, failed)
<1> DEFINE n == Cardinality(providers)
           ask == t.byEmail[e]
<1>1. /\ n \in Nat /\ \A m \in 1 .. n : SetToSeq(providers)[m] \in Providers
      /\ \A j, m \in 1 .. n : SetToSeq(providers)[j] = SetToSeq(providers)[m] => j = m
  BY ProvidersInOrder
<1>2. n # 0
  <2>1. IsFiniteSet(providers)
    BY ProvidersInOrder
  <2> QED BY <2>1, FS_EmptySet
<1>3. /\ DOMAIN ask.requests = 1 .. n /\ ask.handlers = 0 /\ ask.merged = {}
      /\ \A m \in 1 .. n : /\ ask.requests[m].provider = SetToSeq(providers)[m]
                           /\ Hears(ask.requests[m], "handlesFreeBusy")
      /\ OthersAlike(s, t, e) /\ t.given = s.given
  BY DEF FirstAsked
<1>4. \A p \in Providers, signal \in Signals :
        t.calls[CallOf(p, signal, e)] = IF signal = "handlesFreeBusy" /\ AskedOf(n, p) THEN 1 ELSE 0
  BY DEF FirstAsked
<1> HIDE DEF n, ask
<1>5. OneRequestEach(ask)
  <2>1. AlikeOnlyItself(ask.requests)
    BY <1>1, <1>3 DEF AlikeOnlyItself
  <2> QED BY <1>3, <2>1, SignalsTyped DEF OneRequestEach
<1>6. ASSUME NEW p, NEW signal
      PROVE  Has(ask, p, signal) <=> signal = "handlesFreeBusy" /\ AskedOf(n, p)
  BY <1>3 DEF Has, Hears, AskedOf
<1>7. CallsAreHeard(t, e)
  BY <1>4, <1>6 DEF CallsAreHeard, ask
<1>8. HandlersCounted(ask, failed)
  <2>1. Listening(ask) = {}
    BY <1>6 DEF Listening
  <2>2. Handling(ask) = 0
    <3>1. Cardinality({}) = 0
      BY FS_EmptySet
    <3> QED BY <1>3, <2>1, <3>1 DEF Handling
  <2> QED BY <1>3, <2>2 DEF HandlersCounted
<1>9. Standing(ask)
  <2>1. 1 \in DOMAIN ask.requests
    BY <1>1, <1>2, <1>3
  <2> QED BY <2>1 DEF Standing
<1>10. OthersInTurn(t, e, failed)
  <2>1. OthersInTurn(s, e, failed)
    BY DEF InTurn, OthersInTurn
  <2> QED BY <1>3, <2>1, OthersTurns
<1>11. ListsAreComplete(t, failed)
  BY <1>3 DEF InTurn, ListsAreComplete
<1>12. Awaiting(t, e, failed)
  BY <1>5, <1>7, <1>8, <1>10, <1>11 DEF Awaiting, Awaited, ask
<1> QED BY <1>9, <1>12, StandingTurn DEF ask

\* Somebody not asked about is asked of the providers.
LEMMA QueryTurn ==
  ASSUME NEW s, Good(s), NEW e \in Emails, providers \subseteq Providers, providers # {},
         Cardinality(IdsOf(s)) + Cardinality(providers) <= MaxInterfaces,
         ~s.byEmail[e].open, NEW failed, InTurn(s, failed)
  PROVE  InTurn(QueryFreeBusyProviders(s, e), failed)
<1> DEFINE q == Opened(s, e)
           n == Cardinality(providers)
<1>1. /\ Good(q) /\ q.byEmail[e].open /\ IdsOf(q) = IdsOf(s) /\ SameRest(s, q)
      /\ q.byEmail[e] = OpenAsk /\ \A f \in Emails : f # e => q.byEmail[f] = s.byEmail[f]
  BY OpenedFacts
<1>2. n \in Nat /\ SetToSeq(providers) \in Seq(Providers) /\ Len(SetToSeq(providers)) = n
  BY ProvidersInOrder
<1>3. PICK r : AskedInTurn(s, e, r)
  BY <1>2, AskFold
<1>4. r[0] = q /\ QueryFreeBusyProviders(s, e) = r[n]
  BY <1>2, <1>3 DEF AskedInTurn
<1> HIDE DEF q
<1>5. /\ \A k \in 0 .. n : AskedSoFar(q, r[k], e, k)
      /\ \A k \in 1 .. n : \E id : Asked(r[k - 1], r[k], e, SetToSeq(providers)[k], id)
  <2>1. \A k \in 1 .. n : r[k] = Ask(r[k - 1], e, SetToSeq(providers)[k])
    BY <1>2, <1>3 DEF AskedInTurn
  <2>2. Cardinality(IdsOf(q)) + n <= MaxInterfaces
    BY <1>1
  <2> QED BY <1>1, <1>4, <2>1, <2>2, QuerySteps
<1>6. FirstAsked(s, q, e, 0)
  <2>1. OthersAlike(s, q, e) /\ q.given = s.given /\ q.calls = s.calls
    BY <1>1 DEF OthersAlike, SameRest
  <2>2. /\ OpenAsk.requests = <<>> /\ OpenAsk.handlers = 0 /\ OpenAsk.merged = {}
        /\ DOMAIN OpenAsk.requests = {} /\ 1 .. 0 = {}
    BY OpenAskTyped
  <2>3. ASSUME NEW p \in Providers, NEW signal \in Signals
        PROVE  q.calls[CallOf(p, signal, e)] = 0 /\ ~AskedOf(0, p)
    <3>1. s.byEmail[e].requests = <<>>
      BY DEF Good, ClosedIsEmpty
    <3>2. ~Has(s.byEmail[e], p, signal)
      BY <3>1, EmptyHas
    <3>3. s.calls[CallOf(p, signal, e)] = 0
      BY <3>2 DEF InTurn, TurnOf, Awaited, CallsAreHeard
    <3>4. ~AskedOf(0, p)
      BY <2>2 DEF AskedOf
    <3> QED BY <2>1, <3>3, <3>4
  <2> QED BY <1>1, <2>1, <2>2, <2>3 DEF FirstAsked
<1> DEFINE T == {k \in 0 .. n : FirstAsked(s, r[k], e, k)}
<1> HIDE DEF n
<1>7. 0 \in T
  BY <1>2, <1>4, <1>6
<1>8. ASSUME NEW k \in Nat, k < n, k \in T
      PROVE  k + 1 \in T
  <2>1. k + 1 \in 1 .. n /\ k + 1 \in 0 .. n /\ k \in 0 .. n /\ (k + 1) - 1 = k
    BY <1>2, <1>8
  <2>2. PICK u, t, p : u = r[k] /\ t = r[k + 1] /\ p = SetToSeq(providers)[k + 1]
    OBVIOUS
  <2>3. Good(u) /\ Good(t) /\ t \in ManagerType
    BY <1>5, <2>1, <2>2 DEF AskedSoFar, Good
  <2>4. \E id : Asked(r[(k + 1) - 1], r[k + 1], e, SetToSeq(providers)[k + 1], id)
    BY <1>5, <2>1
  <2>5. PICK id : Asked(u, t, e, p, id)
    BY <2>1, <2>2, <2>4
  <2>6. FirstAsked(s, u, e, k)
    BY <1>8, <2>2
  <2>7. FirstAsked(s, t, e, k + 1)
    BY <1>8, <2>2, <2>3, <2>5, <2>6, OneMoreAsked DEF n
  <2> QED BY <2>1, <2>2, <2>7
<1>9. 0 .. n \subseteq T
  <2> HIDE DEF T
  <2> QED BY <1>2, <1>7, <1>8, UpTo
<1>10. n \in 0 .. n
  BY <1>2
<1>11. FirstAsked(s, r[n], e, n)
  BY <1>9, <1>10
<1>12. r[n] \in ManagerType
  BY <1>5, <1>10 DEF AskedSoFar, Good
<1>13. InTurn(r[n], failed)
  BY <1>11, <1>12, AllAsked DEF n
<1> QED BY <1>4, <1>13

\* The queue is served, and nobody is asked about twice.
LEMMA ProcessTurn ==
  ASSUME NEW s, Good(s), providers \subseteq Providers, Load(s) <= MaxInterfaces,
         ~AskedAgain(s), NEW failed, InTurn(s, failed)
  PROVE  InTurn(ProcessRetrieveQueue(s), failed)
<1>0. s \in ManagerType
  BY DEF Good
<1>1. CASE s.queue = <<>>
  <2>1. ProcessRetrieveQueue(s) = s
    BY <1>1 DEF ProcessRetrieveQueue
  <2> QED BY <2>1
<1>2. CASE s.queue # <<>>
  <2> DEFINE e == Head(s.queue)
             r == [s EXCEPT !.queue = Tail(@)]
             t == ProcessRetrieveQueue(s)
  <2>1. s.queue \in Seq(Emails)
    BY <1>0, ManagerFields
  <2>2. /\ e \in Emails /\ Tail(s.queue) \in Seq(Emails)
        /\ Len(Tail(s.queue)) = Len(s.queue) - 1 /\ Len(s.queue) \in Nat \ {0}
    BY <1>2, <2>1, WaitingTail
  <2>3. t = IF providers # {} THEN QueryFreeBusyProviders(r, e) ELSE FetchFreeBusyUrl(r, e)
    BY <1>2 DEF ProcessRetrieveQueue
  <2>4. /\ r \in ManagerType /\ r.byEmail = s.byEmail /\ r.calls = s.calls /\ r.given = s.given
        /\ r.emailOf = s.emailOf /\ r.downloads = s.downloads
    BY <1>0, <2>2 DEF ManagerType
  <2>5. providers = {} \/ ~s.byEmail[e].open
    BY <1>2 DEF AskedAgain
  <2> HIDE DEF r, e, t
  <2>6. Good(r) /\ IdsOf(r) = IdsOf(s) /\ EmailsOfDownloads(r) /\ InTurn(r, failed)
    <3>1. Good(r) /\ IdsOf(r) = IdsOf(s)
      BY <2>4, GoodFacts
    <3>2. InTurn(r, failed)
      BY <2>4, InTurnKept
    <3> QED BY <3>1, <3>2 DEF Good
  <2>7. CASE providers = {}
    <3>1. t = FetchFreeBusyUrl(r, e)
      BY <2>3, <2>7
    <3>2. Looked(r, t, e)
      BY <2>2, <2>4, <2>6, <3>1, FetchFacts
    <3>3. InTurn(t, failed)
      BY <2>6, <3>2, InTurnKept DEF Looked, SameAsks
    <3> QED BY <3>3 DEF t
  <2>8. CASE providers # {}
    <3>1. t = QueryFreeBusyProviders(r, e) /\ ~r.byEmail[e].open
      BY <2>3, <2>4, <2>5, <2>8
    <3>2. Cardinality(IdsOf(r)) + Cardinality(providers) <= MaxInterfaces
      <4> DEFINE N == Cardinality(providers)
                 I == Cardinality(IdsOf(s))
                 L == Len(s.queue) - 1
      <4>1. N \in Nat /\ I \in Nat /\ Len(s.queue) \in Nat
        BY <1>0, LoadTyped
      <4>2. L \in Nat /\ L + 1 = Len(s.queue)
        BY <2>2
      <4>3. Load(s) = I + Len(s.queue) * N
        BY DEF Load
      <4> HIDE DEF N, I, L
      <4>4. L * N \in Nat /\ Len(s.queue) * N = L * N + N
        BY <4>1, <4>2, Times
      <4>5. MaxInterfaces \in Nat
        BY BoundsAssumption
      <4>6. I + N <= MaxInterfaces
        BY <4>1, <4>2, <4>3, <4>4, <4>5
      <4> QED BY <2>6, <4>6 DEF I, N
    <3>3. InTurn(t, failed)
      BY <2>2, <2>6, <2>8, <3>1, <3>2, QueryTurn
    <3> QED BY <3>3 DEF t
  <2> QED BY <2>7, <2>8
<1> QED BY <1>1, <1>2

-----------------------------------------------------------------------------
(* The steps and the answers.                                              *)

SameTurns(s, t) == t.byEmail = s.byEmail /\ t.calls = s.calls /\ t.given = s.given

LEMMA FreeBusyFacts ==
  ASSUME FreeBusyInv
  PROVE  /\ RetrievalsInv /\ manager \in ManagerType /\ Good(manager) /\ past \in PastType
         /\ providers \subseteq Providers /\ (~past.crossed => InTurn(manager, past.failed))
BY RetrievalsFacts DEF FreeBusyInv, RetrievalsInv

\* A step that neither asks nor is answered by a provider.
LEMMA KeptTurn ==
  ASSUME FreeBusyInv, NEW t, manager' = t, SameTurns(manager, t),
         past'.crossed = past.crossed, past'.failed = past.failed, ~past'.crossed
  PROVE  InTurn(manager', past'.failed)
<1>1. InTurn(manager, past.failed)
  BY FreeBusyFacts
<1>2. InTurn(t, past.failed)
  BY <1>1, InTurnKept DEF SameTurns
<1> QED BY <1>2

LEMMA ServeTurn ==
  ASSUME FreeBusyInv, NEW s, s \in ManagerType, SameTurns(manager, s), Serve(s),
         (s.emailOf = manager.emailOf /\ s.downloads = manager.downloads) \/ Good(s),
         s.queue = manager.queue, ~past'.crossed
  PROVE  InTurn(manager', past'.failed)
<1>1. Good(manager) /\ RetrievalsInv /\ past \in PastType
  BY FreeBusyFacts
<1>2. Good(s) /\ IdsOf(s) = IdsOf(manager)
  <2>1. CASE s.emailOf = manager.emailOf /\ s.downloads = manager.downloads
    BY <1>1, <2>1, GoodFacts DEF SameTurns
  <2>2. CASE Good(s)
    BY <2>2 DEF SameTurns, IdsOf, Requests
  <2> QED BY <2>1, <2>2
<1>3. Load(s) <= MaxInterfaces /\ providers \subseteq Providers
  BY <1>1, <1>2, RetrievalsFacts DEF Load
<1>4. manager' = ProcessRetrieveQueue(s) /\ past' = [past EXCEPT !.crossed = past.crossed \/ AskedAgain(s)]
  BY DEF Serve
<1>5. ~past.crossed /\ ~AskedAgain(s) /\ past'.failed = past.failed
  <2>1. past'.crossed = (past.crossed \/ AskedAgain(s)) /\ past'.failed = past.failed
    <3> HIDE DEF AskedAgain
    <3> QED BY <1>1, <1>4 DEF PastType
  <2> QED BY <2>1
<1>6. InTurn(manager, past.failed)
  BY <1>5, FreeBusyFacts
<1>7. InTurn(s, past.failed)
  BY <1>6, InTurnKept DEF SameTurns
<1>8. PICK t : t = ProcessRetrieveQueue(s)
  OBVIOUS
<1>9. InTurn(t, past.failed)
  BY <1>2, <1>3, <1>5, <1>7, <1>8, ProcessTurn
<1> QED BY <1>4, <1>5, <1>8, <1>9

LEMMA PostedTurn ==
  ASSUME FreeBusyInv, PostedCall, ~past'.crossed
  PROVE  InTurn(manager', past'.failed)
<1> DEFINE s == [manager EXCEPT !.posted = @ - 1]
<1>1. manager \in ManagerType
  BY FreeBusyFacts
<1>2. manager.posted - 1 \in Nat
  BY <1>1, ManagerFields DEF PostedCall
<1>3. /\ s \in ManagerType /\ SameTurns(manager, s) /\ s.emailOf = manager.emailOf
      /\ s.downloads = manager.downloads /\ s.queue = manager.queue
  BY <1>1, <1>2 DEF ManagerType, SameTurns
<1>4. Serve(s)
  BY DEF PostedCall
<1> HIDE DEF s
<1> QED BY <1>3, <1>4, ServeTurn

LEMMA BoxTurn ==
  ASSUME FreeBusyInv, BoxClosed, ~past'.crossed
  PROVE  InTurn(manager', past'.failed)
<1> DEFINE s == [manager EXCEPT !.boxes = @ - 1]
<1>1. manager \in ManagerType
  BY FreeBusyFacts
<1>2. manager.boxes - 1 \in Nat
  BY <1>1, ManagerFields DEF BoxClosed
<1>3. /\ s \in ManagerType /\ SameTurns(manager, s) /\ s.emailOf = manager.emailOf
      /\ s.downloads = manager.downloads /\ s.queue = manager.queue
  BY <1>1, <1>2 DEF ManagerType, SameTurns
<1>4. Serve(s)
  BY DEF BoxClosed
<1> HIDE DEF s
<1> QED BY <1>3, <1>4, ServeTurn

LEMMA DownloadTurn ==
  ASSUME FreeBusyInv, NEW url \in Urls, ProcessFreeBusyDownloadResult(url), ~past'.crossed
  PROVE  InTurn(manager', past'.failed)
<1> DEFINE e == manager.emailOf[url]
           u == Ended([manager EXCEPT !.downloads[url] = @ - 1, !.emailOf[url] = NoEmail], e)
<1>1. Good(manager) /\ manager.downloads[url] > 0
  BY FreeBusyFacts DEF ProcessFreeBusyDownloadResult
<1>2. \/ \E saved \in BOOLEAN : Serve(SaveFreeBusy(u, e, saved))
      \/ manager' = [u EXCEPT !.boxes = @ + 1] /\ UNCHANGED <<providers, past>>
  BY DEF ProcessFreeBusyDownloadResult
<1>3. Good(u) /\ u.queue = manager.queue /\ e \in Emails /\ SameTurns(manager, u)
  BY <1>1, DownloadTaken DEF SameTurns
<1> HIDE DEF u
<1>4. u \in ManagerType
  BY <1>3 DEF Good
<1>5. CASE \E saved \in BOOLEAN : Serve(SaveFreeBusy(u, e, saved))
  <2>1. PICK saved \in BOOLEAN : Serve(SaveFreeBusy(u, e, saved))
    BY <1>5
  <2>2. PICK s : s = SaveFreeBusy(u, e, saved)
    OBVIOUS
  <2>3. /\ s \in ManagerType /\ s.byEmail = u.byEmail /\ s.emailOf = u.emailOf
        /\ s.downloads = u.downloads /\ s.queue = u.queue /\ s.calls = u.calls
        /\ s.given = u.given
    <3>1. CASE saved
      <4>1. u.files \cup {e} \subseteq Emails
        BY <1>3, <1>4, ManagerFields
      <4>2. s = [u EXCEPT !.files = u.files \cup {e}]
        BY <2>2, <3>1 DEF SaveFreeBusy
      <4> HIDE DEF e
      <4> QED BY <1>4, <4>1, <4>2 DEF ManagerType
    <3>2. CASE ~saved
      BY <1>4, <2>2, <3>2 DEF SaveFreeBusy
    <3> QED BY <3>1, <3>2
  <2>4. Good(s)
    BY <1>3, <2>3, GoodFacts
  <2>5. SameTurns(manager, s) /\ s.queue = manager.queue
    BY <1>3, <2>3 DEF SameTurns
  <2> QED BY <2>1, <2>2, <2>3, <2>4, <2>5, ServeTurn
<1>6. CASE manager' = [u EXCEPT !.boxes = @ + 1] /\ UNCHANGED <<providers, past>>
  <2>1. PICK t : t = [u EXCEPT !.boxes = @ + 1]
    OBVIOUS
  <2>2. SameTurns(u, t)
    BY <1>4, <2>1 DEF ManagerType, SameTurns
  <2>3. SameTurns(manager, t)
    BY <1>3, <2>2 DEF SameTurns
  <2> QED BY <1>6, <2>1, <2>3, KeptTurn
<1> QED BY <1>2, <1>5, <1>6

LEMMA LookedTurn ==
  ASSUME NEW s \in ManagerType, NEW e \in Emails, NEW url \in Urls \cup {NoUrl}, EmailsOfDownloads(s)
  PROVE  SameTurns(s, FinishProcessRetrieveQueue(s, e, url))
BY FinishFacts DEF Looked, SameAsks, SameTurns

LEMMA SearchTurn ==
  ASSUME FreeBusyInv, NEW e \in Emails, ContactSearchJobFinished(e), ~past'.crossed
  PROVE  InTurn(manager', past'.failed)
<1> DEFINE s == [manager EXCEPT !.searches[e] = @ - 1]
<1>1. manager \in ManagerType /\ EmailsOfDownloads(manager)
  BY FreeBusyFacts DEF Good
<1>2. manager.searches[e] > 0 /\ manager.searches \in [Emails -> Nat]
  BY <1>1, ManagerFields DEF ContactSearchJobFinished
<1>3. /\ \/ \E url \in Urls \cup {NoUrl} : manager' = FinishProcessRetrieveQueue(s, e, url)
         \/ manager' = [s EXCEPT !.checks[e] = @ + 1]
      /\ UNCHANGED <<providers, past>>
  BY DEF ContactSearchJobFinished
<1>4. s = [manager EXCEPT !.searches = [manager.searches EXCEPT ![e] = manager.searches[e] - 1]]
  BY <1>1 DEF ManagerType
<1> HIDE DEF s
<1>5. [manager.searches EXCEPT ![e] = manager.searches[e] - 1] \in [Emails -> Nat]
  <2>1. manager.searches[e] - 1 \in Nat
    BY <1>2
  <2> QED BY <1>2, <2>1
<1>6. /\ s \in ManagerType /\ SameTurns(manager, s)
      /\ s.emailOf = manager.emailOf /\ s.downloads = manager.downloads
  BY <1>1, <1>4, <1>5 DEF ManagerType, SameTurns
<1>7. EmailsOfDownloads(s)
  BY <1>1, <1>6 DEF EmailsOfDownloads
<1>8. PICK t : t = manager'
  OBVIOUS
<1>9. SameTurns(s, t)
  <2>1. CASE \E url \in Urls \cup {NoUrl} : manager' = FinishProcessRetrieveQueue(s, e, url)
    BY <1>6, <1>7, <1>8, <2>1, LookedTurn
  <2>2. CASE manager' = [s EXCEPT !.checks[e] = @ + 1]
    <3>1. t = [s EXCEPT !.checks = [s.checks EXCEPT ![e] = s.checks[e] + 1]]
      BY <1>6, <1>8, <2>2 DEF ManagerType
    <3> QED BY <1>6, <3>1 DEF ManagerType, SameTurns
  <2> QED BY <1>3, <2>1, <2>2
<1>10. SameTurns(manager, t)
  BY <1>6, <1>9 DEF SameTurns
<1> QED BY <1>3, <1>8, <1>10, KeptTurn

LEMMA CheckTurn ==
  ASSUME FreeBusyInv, NEW e \in Emails, FbCheckerJobFinished(e), ~past'.crossed
  PROVE  InTurn(manager', past'.failed)
<1>1. manager \in ManagerType /\ EmailsOfDownloads(manager)
  BY FreeBusyFacts DEF Good
<1>2. /\ manager.checks[e] > 0 /\ manager.checks \in [Emails -> Nat]
      /\ manager.known \in [Emails -> Urls \cup {NoUrl}]
  BY <1>1, ManagerFields DEF FbCheckerJobFinished
<1>3. PICK url \in Urls \cup {NoUrl} :
        manager' = FinishProcessRetrieveQueue(
                     [manager EXCEPT !.checks[e] = @ - 1,
                                     !.known[e] = IF url = NoUrl THEN @ ELSE Displayed[url]], e, url)
  BY DEF FbCheckerJobFinished, FoundByChecker
<1> DEFINE s == [manager EXCEPT !.checks[e] = @ - 1, !.known[e] = IF url = NoUrl THEN @ ELSE Displayed[url]]
           known == [manager.known EXCEPT ![e] = IF url = NoUrl THEN manager.known[e] ELSE Displayed[url]]
<1>4. s = [manager EXCEPT !.checks = [manager.checks EXCEPT ![e] = manager.checks[e] - 1], !.known = known]
  BY <1>1 DEF ManagerType
<1>5. known \in [Emails -> Urls \cup {NoUrl}]
  BY <1>2, BoundsAssumption
<1>6. PICK t : t = FinishProcessRetrieveQueue(s, e, url)
  OBVIOUS
<1>7. manager' = t /\ UNCHANGED past
  BY <1>3, <1>6 DEF FbCheckerJobFinished
<1> HIDE DEF s, known
<1>8. [manager.checks EXCEPT ![e] = manager.checks[e] - 1] \in [Emails -> Nat]
  <2>1. manager.checks[e] - 1 \in Nat
    BY <1>2
  <2> QED BY <1>2, <2>1
<1>9. /\ s \in ManagerType /\ SameTurns(manager, s)
      /\ s.emailOf = manager.emailOf /\ s.downloads = manager.downloads
  BY <1>1, <1>4, <1>5, <1>8 DEF ManagerType, SameTurns
<1>10. EmailsOfDownloads(s)
  BY <1>1, <1>9 DEF EmailsOfDownloads
<1>11. SameTurns(s, t)
  BY <1>6, <1>9, <1>10, LookedTurn
<1>12. SameTurns(manager, t)
  BY <1>9, <1>11 DEF SameTurns
<1> QED BY <1>7, <1>12, KeptTurn

LEMMA CancelTurn ==
  ASSUME FreeBusyInv, CancelRetrieval, ~past'.crossed
  PROVE  InTurn(manager', past'.failed)
<1>1. manager \in ManagerType /\ UNCHANGED past
  BY FreeBusyFacts DEF CancelRetrieval
<1>2. PICK t, w : manager' = t /\ t = [manager EXCEPT !.queue = <<>>, !.ended = w]
  BY DEF CancelRetrieval
<1>3. SameTurns(manager, t)
  BY <1>1, <1>2 DEF ManagerType, SameTurns
<1> QED BY <1>1, <1>2, <1>3, KeptTurn

LEMMA RetrieveTurn ==
  ASSUME FreeBusyInv, NEW e \in Emails, RetrieveFreeBusy(e), ~past'.crossed
  PROVE  InTurn(manager', past'.failed)
<1>1. manager \in ManagerType /\ past \in PastType
  BY FreeBusyFacts
<1>2. past'.crossed = past.crossed /\ past'.failed = past.failed
  BY <1>1 DEF RetrieveFreeBusy, PastType
<1>3. PICK t : t = manager'
  OBVIOUS
<1>4. SameTurns(manager, t)
  <2>1. CASE LoadFreeBusy(e)
    <3>1. t = Ended(manager, e)
      BY <1>3, <2>1 DEF RetrieveFreeBusy
    <3> QED BY <1>1, <3>1, EndedFacts DEF SameAsks, SameTurns
  <2>2. CASE ~LoadFreeBusy(e)
    <3>1. PICK queue, posted : t = [manager EXCEPT !.queue = queue, !.posted = posted]
      BY <1>3, <2>2 DEF RetrieveFreeBusy
    <3> QED BY <1>1, <3>1 DEF ManagerType, SameTurns
  <2> QED BY <2>1, <2>2
<1> QED BY <1>2, <1>3, <1>4, KeptTurn

LEMMA InitTurn ==
  ASSUME Init
  PROVE  InTurn(manager, past.failed)
<1>1. /\ manager.calls = [c \in Calls |-> 0] /\ manager.given = {}
      /\ \A e \in Emails : manager.byEmail[e] = Closed
  BY DEF Init
<1>2. ASSUME NEW e \in Emails
      PROVE  TurnOf(manager, e, past.failed)
  <2>1. Closed.requests = <<>>
    BY DEF Closed
  <2>2. SameCalls(manager, manager, e) /\ manager.byEmail[e] = Closed
    BY <1>1 DEF SameCalls
  <2>3. \A p, signal : ~Has(manager.byEmail[e], p, signal)
    BY <2>1, <2>2, EmptyHas
  <2>4. CallsAreHeard(manager, e)
    BY <1>1, <2>3, CallTyped DEF CallsAreHeard
  <2> QED BY <2>1, <2>2, <2>4, ClosedTurn
<1> QED BY <1>1, <1>2 DEF InTurn, ListsAreComplete

LEMMA NextTurn ==
  ASSUME FreeBusyInv, [Next]_vars, ~past'.crossed
  PROVE  InTurn(manager', past'.failed)
<1>1. CASE UNCHANGED vars
  <2>1. manager' = manager /\ past' = past
    BY <1>1 DEF vars
  <2> QED BY <2>1, FreeBusyFacts
<1>2. ASSUME NEW e \in Emails, RetrieveFreeBusy(e)
      PROVE  InTurn(manager', past'.failed)
  BY <1>2, RetrieveTurn
<1>3. ASSUME NEW e \in Emails, ContactSearchJobFinished(e)
      PROVE  InTurn(manager', past'.failed)
  BY <1>3, SearchTurn
<1>4. ASSUME NEW e \in Emails, FbCheckerJobFinished(e)
      PROVE  InTurn(manager', past'.failed)
  BY <1>4, CheckTurn
<1>5. CASE CancelRetrieval
  BY <1>5, CancelTurn
<1>6. CASE PostedCall
  BY <1>6, PostedTurn
<1>7. ASSUME NEW url \in Urls, ProcessFreeBusyDownloadResult(url)
      PROVE  InTurn(manager', past'.failed)
  BY <1>7, DownloadTurn
<1>8. CASE BoxClosed
  BY <1>8, BoxTurn
<1>9. ASSUME NEW p \in Providers, NEW e \in Emails, HandlesFreeBusy(p, e)
      PROVE  InTurn(manager', past'.failed)
  <2>1. PICK answer \in {"handles", "declines"} : Signal(CallOf(p, "handlesFreeBusy", e), answer)
    BY <1>9 DEF HandlesFreeBusy, CallOf
  <2> QED BY <2>1, SignalsTyped, SignalTurn
<1>10. ASSUME NEW p \in Providers, NEW e \in Emails, FreeBusyRetrieved(p, e)
       PROVE  InTurn(manager', past'.failed)
  <2>1. PICK answer \in {"good", "unreadable", "failed"} :
          Signal(CallOf(p, "freeBusyRetrieved", e), answer)
    BY <1>10 DEF FreeBusyRetrieved, CallOf
  <2> QED BY <2>1, SignalsTyped, SignalTurn
<1> QED BY <1>1, <1>2, <1>3, <1>4, <1>5, <1>6, <1>7, <1>8, <1>9, <1>10 DEF Next

\* Until the signals of two retrievals cross, every request waits for one signal whose
\* call is out, no provider is asked or merged twice for an email, and mHandlersCount
\* counts the providers awaited for a list and those merged, and the failures.
THEOREM FreeBusyInvariance == Spec => []FreeBusyInv
<1>1. Init => FreeBusyInv
  BY InitRetrievals, InitTurn DEF FreeBusyInv
<1>2. FreeBusyInv /\ [Next]_vars => FreeBusyInv'
  <2> SUFFICES ASSUME FreeBusyInv, [Next]_vars
               PROVE  FreeBusyInv'
    OBVIOUS
  <2>1. RetrievalsInv'
    BY FreeBusyFacts, NextKeeps
  <2>2. ~past'.crossed => InTurn(manager', past'.failed)
    BY NextTurn
  <2>3. ~past'.crossed => InTurn(manager, past.failed)'
    BY <2>2 DEF InTurn, TurnOf, Awaited, OneRequestEach, AlikeOnlyItself, CallsAreHeard, Has, Hears,
                HandlersCounted, Handling, Listening, Standing, ListsAreComplete, CallOf
  <2> QED BY <2>1, <2>3 DEF FreeBusyInv
<1> QED BY <1>1, <1>2, PTL DEF Spec

\* Of an email no request waits for when nothing is under way.
LEMMA RestOfTurn ==
  ASSUME FreeBusyInv, ~past.crossed, AtRest, NEW e \in Emails, manager.byEmail[e].open
  PROVE  manager.byEmail[e].requests = <<>> /\ manager.byEmail[e].handlers > 0
<1>1. TurnOf(manager, e, past.failed) /\ manager \in ManagerType
  BY FreeBusyFacts DEF InTurn
<1>2. manager.byEmail[e].requests = <<>>
  <2> SUFFICES ASSUME manager.byEmail[e].requests # <<>>
               PROVE  FALSE
    OBVIOUS
  <2>1. manager.byEmail[e].requests \in Seq(Request)
    BY <1>1, AskFields
  <2>2. 1 \in DOMAIN manager.byEmail[e].requests
    BY <2>1
  <2>3. PICK r : r = manager.byEmail[e].requests[1]
    OBVIOUS
  <2>4. r.provider \in Providers
    BY <1>1, <2>2, <2>3, RequestFields
  <2>5. PICK signal \in Signals : Hears(r, signal)
    BY <1>1, <2>2, <2>3 DEF TurnOf, Awaited, OneRequestEach
  <2>6. Has(manager.byEmail[e], r.provider, signal)
    BY <2>2, <2>3, <2>5 DEF Has
  <2>7. manager.calls[CallOf(r.provider, signal, e)] = 1
    BY <1>1, <2>4, <2>6 DEF TurnOf, Awaited, CallsAreHeard
  <2>8. manager.calls[CallOf(r.provider, signal, e)] = 0
    BY <2>4, CallTyped DEF AtRest
  <2> QED BY <2>7, <2>8
<1> QED BY <1>1, <1>2 DEF TurnOf, Standing

\* A list is given out when every provider asked has answered, and never an empty one
\* unless a provider failed; a retrieval that stays open has lost its last request to a
\* provider that declined after another had answered.  All unless signals crossed.
THEOREM EverybodyHasAnswered == Spec => []AllHaveAnswered
<1>1. FreeBusyInv => AllHaveAnswered
  <2> SUFFICES ASSUME FreeBusyInv
               PROVE  AllHaveAnswered
    OBVIOUS
  <2>1. ~past.crossed => ListsAreComplete(manager, past.failed)
    BY FreeBusyFacts DEF InTurn
  <2>2. GivenIsFromAProvider
    BY <2>1 DEF GivenIsFromAProvider, ListsAreComplete
  <2>3. ASSUME ~past.crossed, AtRest, NEW e \in Emails, manager.byEmail[e].open
        PROVE  manager.byEmail[e].requests = <<>> /\ manager.byEmail[e].handlers > 0
    BY <2>3, RestOfTurn
  <2> QED BY <2>1, <2>2, <2>3 DEF AllHaveAnswered, ListsAreComplete
<1> QED BY FreeBusyInvariance, <1>1, PTL
=============================================================================
