--------------------------- MODULE History_proofs ---------------------------
(***************************************************************************)
(* Proofs about the undo and redo stacks, for every user, every failure of *)
(* a change, and every bound.                                              *)
(*                                                                         *)
(* The entries lie on one line because only the entry in progress can end  *)
(* the operation.  The arguments are that no answer is left over for an    *)
(* entry that is not in progress, or its MultiEntry has counted all its    *)
(* children and ends no more (Settled), and that an operation takes the    *)
(* entry next to where undo() or redo() stands on the line and puts it     *)
(* back on the other side (InOrder).  What an entry waits for is told by   *)
(* its mChangeIds; that it is no more than it counts (CountsAwaited), or   *)
(* is one change (AsksOnce), makes the end of an entry the last answer it  *)
(* gets.                                                                   *)
(***************************************************************************)
EXTENDS History, FiniteSetTheorems, SequenceTheorems, TLAPS

-----------------------------------------------------------------------------
(* The types.                                                              *)

ItemTypes  == [id : Ids, payload : Payloads]
EntryTypes ==
  [kind : Kinds \cup {"none", "multi"}, items : Seq(ItemTypes), original : Payloads \cup {0},
   children : Seq(Entries), batch : Nat, parent : Entries \cup {0}, changeIds : SUBSET Nat,
   count : Nat, failed : BOOLEAN, before : SUBSET Payloads, after : SUBSET Payloads]
RequestTypes == [entry : Entries, kind : Kinds, ids : SUBSET Ids, payload : Payloads \cup {0}]
RunningTypes == [request : RequestTypes, id : Nat]
AnswerTypes  == [change : Nat, request : RequestTypes, item : Ids \cup {0}, success : BOOLEAN]
RecordTypes  == [entry : EntryTypes, atomicOperationId : Nat]

\* Only a deletion is of several items.
HasOneItem(entry) ==
  /\ entry.kind \in {"create", "modify"} => Len(entry.items) = 1
  /\ entry.kind = "modify" => entry.original # 0

\* An entry as a record*() of the application makes it.
Recorded(entry) ==
  /\ entry.kind \in Kinds
  /\ HasOneItem(entry)
  /\ entry.children = <<>> /\ entry.parent = 0 /\ entry.changeIds = {}

\* What a change that is asked for needs.
Sound(request) ==
  /\ request.kind # "delete" => request.payload # 0 /\ request.ids # {}

UserTypeOK ==
  /\ unrecorded \in Seq(RecordTypes)
  /\ \A k \in DOMAIN unrecorded : Recorded(unrecorded[k].entry)
  /\ patient \in BOOLEAN
  /\ batch \in [open : BOOLEAN, id : Nat, items : SUBSET Ids]

EntriesTypeOK ==
  /\ entries \in [Entries -> EntryTypes]
  /\ \A e \in Entries : entries[e].changeIds \subseteq 1 .. latestChange
  /\ \A e \in Entries : HasOneItem(entries[e])

StacksTypeOK ==
  /\ mUndoStack \in Seq(Entries) /\ mRedoStack \in Seq(Entries) /\ mQueuedEntries \in Seq(Entries)
  /\ mOperationTypeInProgress \in {"none", "undo", "redo"}
  /\ mEntryInProgress \in Entries \cup {0}
  /\ mUndoAllInProgress \in BOOLEAN /\ crashed \in BOOLEAN

ChangerTypeOK ==
  /\ latestChange \in 0 .. MaxChanges
  /\ running \in Seq(RunningTypes) /\ answers \in Seq(AnswerTypes)
  /\ \A k \in DOMAIN running : Sound(running[k].request)
  /\ \A j \in DOMAIN answers :
       answers[j].success /\ answers[j].request.kind = "create" => answers[j].item # 0

StoreTypeOK ==
  /\ store \in [Ids -> Payloads \cup {0}]
  /\ latestId \in 0 .. MaxIds /\ latestPayload \in 0 .. MaxPayloads

Types == UserTypeOK /\ EntriesTypeOK /\ StacksTypeOK /\ ChangerTypeOK /\ StoreTypeOK

-----------------------------------------------------------------------------
(* The entries and their changes.                                          *)

\* Entries are constructed in order; one is either in a MultiEntry or may be stacked.
Family ==
  /\ \E n \in 0 .. MaxEntries : Constructed = 1 .. n
  /\ \A e \in Entries :
       /\ entries[e].kind = "none" =>
            entries[e].children = <<>> /\ entries[e].parent = 0 /\ entries[e].changeIds = {}
       /\ entries[e].kind # "multi" => entries[e].children = <<>>
       /\ entries[e].kind = "multi" => entries[e].parent = 0 /\ entries[e].changeIds = {}
       /\ entries[e].parent # 0 => entries[entries[e].parent].kind = "multi"
       /\ \A k \in DOMAIN entries[e].children :
            LET l == entries[e].children[k]
            IN  entries[l].parent = e /\ entries[l].kind \in Kinds

Root(e) == IF entries[e].parent = 0 THEN e ELSE entries[e].parent

InProgress(e) == mOperationTypeInProgress # "none" /\ ~crashed /\ e = mEntryInProgress

IsRoot(e) == entries[e].kind # "none" /\ entries[e].parent = 0

Stacked ==
  /\ \A k \in DOMAIN mUndoStack : IsRoot(mUndoStack[k])
  /\ \A k \in DOMAIN mRedoStack : IsRoot(mRedoStack[k])
  /\ \A k \in DOMAIN mQueuedEntries : IsRoot(mQueuedEntries[k])
  /\ mEntryInProgress # 0 => IsRoot(mEntryInProgress)
  /\ mEntryInProgress = 0 => running = <<>> /\ answers = <<>>
  /\ mOperationTypeInProgress # "none" /\ ~crashed => mEntryInProgress # 0

\* The changes an entry waits for.
Awaited(l) ==
  {c \in entries[l].changeIds :
     \/ \E k \in DOMAIN running : running[k].id = c /\ running[k].request.entry = l
     \/ \E j \in DOMAIN answers : answers[j].change = c /\ answers[j].request.entry = l}

\* Every change has an id of its own and is answered after it ran; a deletion that failed is
\* answered twice.
ChangesInv ==
  /\ \A k, m \in DOMAIN running : running[k].id = running[m].id => k = m
  /\ \A k \in DOMAIN running : running[k].id \in 1 .. latestChange
  /\ \A j \in DOMAIN answers : answers[j].change \in 1 .. latestChange
  /\ \A j \in DOMAIN answers, k \in DOMAIN running : answers[j].change # running[k].id
  /\ \A i, j \in DOMAIN answers : answers[i].change = answers[j].change /\ i # j =>
       answers[i].request.kind = "delete"

\* A deletion that is undone counts the creations it waits for.
CountsAwaited ==
  \A l \in Entries : entries[l].kind \in Kinds =>
    IsFiniteSet(Awaited(l)) /\ Cardinality(Awaited(l)) <= entries[l].count

Restores(l, request) == entries[l].kind = "delete" /\ request.kind = "create"

\* An entry by itself, that does not count, asks for one change.
AsksOnce ==
  \A l \in Entries : entries[l].parent = 0 =>
    /\ \A k \in DOMAIN running :
         running[k].request.entry = l /\ running[k].id \in entries[l].changeIds /\ ~Restores(l, running[k].request)
         => entries[l].changeIds = {running[k].id}
    /\ \A j \in DOMAIN answers :
         answers[j].request.entry = l /\ answers[j].change \in entries[l].changeIds /\ ~Restores(l, answers[j].request)
         => entries[l].changeIds = {answers[j].change}

\* The atomic operations of the user that are not recorded to their end.
OpenBatches == {unrecorded[k].atomicOperationId : k \in DOMAIN unrecorded} \cup
               (IF batch.open THEN {batch.id} ELSE {})

\* Their entries were not undone yet.
BatchInv ==
  /\ batch.open => batch.id > 0
  /\ \A k \in DOMAIN unrecorded : unrecorded[k].atomicOperationId <= batch.id
  /\ \A m \in Entries : entries[m].kind = "multi" =>
       /\ entries[m].batch \in 1 .. batch.id
       /\ entries[m].batch \in OpenBatches =>
            \A l \in Entries : entries[l].parent = m => entries[l].changeIds = {}

HistoryInv == Types /\ Family /\ Stacked /\ ChangesInv /\ CountsAwaited /\ AsksOnce /\ BatchInv

-----------------------------------------------------------------------------
(* The line.                                                               *)

AnsweredOnce == \A i, j \in DOMAIN answers : answers[i].change = answers[j].change => i = j

\* Nothing that is still under way can end the operation of an entry not in progress.
Settled(r) ==
  \/ \A l \in Entries : Root(l) = r => Awaited(l) = {}
  \/ entries[r].kind = "multi" /\ entries[r].count >= Len(entries[r].children)

OthersAreSettled == ~crashed => \A r \in Entries : ~InProgress(r) => Settled(r)

Rising(s) == \A j, k \in DOMAIN s : j < k => s[j] < s[k]

InOrder ==
  /\ Rising(mUndoStack) /\ Rising(mQueuedEntries)
  /\ \A j, k \in DOMAIN mRedoStack : j < k => mRedoStack[j] > mRedoStack[k]
  /\ \A j \in DOMAIN mUndoStack, k \in DOMAIN mRedoStack : mUndoStack[j] < mRedoStack[k]
  /\ \A j \in DOMAIN mQueuedEntries :
       /\ \A k \in DOMAIN mUndoStack : mUndoStack[k] < mQueuedEntries[j]
       /\ \A k \in DOMAIN mRedoStack : mRedoStack[k] < mQueuedEntries[j]
  /\ mOperationTypeInProgress = "none" => mQueuedEntries = <<>>
  /\ mOperationTypeInProgress # "none" /\ ~crashed =>
       /\ \A k \in DOMAIN mUndoStack : mUndoStack[k] < mEntryInProgress
       /\ \A k \in DOMAIN mRedoStack : mEntryInProgress < mRedoStack[k]
       /\ \A k \in DOMAIN mQueuedEntries : mEntryInProgress < mQueuedEntries[k]

LineInv == OthersAreSettled /\ InOrder
-----------------------------------------------------------------------------
(* Sequences.                                                              *)

LEMMA SeqFacts ==
  ASSUME NEW S, NEW s \in Seq(S)
  PROVE  /\ Len(s) \in Nat /\ DOMAIN s = 1 .. Len(s) /\ s \in [1 .. Len(s) -> S]
         /\ \A k \in DOMAIN s : s[k] \in S
BY LenProperties, ElementOfSeq

LEMMA FunctionIsSeq ==
  ASSUME NEW S, NEW n \in Nat, NEW f \in [1 .. n -> S]
  PROVE  f \in Seq(S) /\ Len(f) = n /\ DOMAIN f = 1 .. n
BY SeqDef

\* Every set of naturals that is not empty has a least element.
LEMMA LeastNumber ==
  ASSUME NEW T, T \subseteq Nat, T # {}
  PROVE  \E n \in T : \A m \in T : n <= m
<1> DEFINE R == OpToRel(<, Nat)
<1>1. IsWellFoundedOn(R, Nat)
  BY NatLessThanWellFounded
<1>2. \A x, y \in Nat : x < y => <<x, y>> \in R
  BY DEF OpToRel
<1> HIDE DEF R
<1>3. PICK n \in T : \A m \in T : ~(<<m, n>> \in R)
  BY <1>1, WFMin
<1>4. \A m \in T : ~(m < n)
  BY <1>2, <1>3
<1> QED BY <1>4

\* A set of naturals with 0 and every successor up to a bound has all of them.
LEMMA UpTo ==
  ASSUME NEW b \in Nat, NEW T, 0 \in T, \A n \in Nat : n < b /\ n \in T => n + 1 \in T
  PROVE  0 .. b \subseteq T
<1> DEFINE B == (0 .. b) \ T
<1> SUFFICES ASSUME B # {} PROVE FALSE
  OBVIOUS
<1>0. B \subseteq Nat
  OBVIOUS
<1>1. PICK n \in B : \A m \in B : n <= m
  <2> HIDE DEF B
  <2> QED BY <1>0, LeastNumber
<1>2. n \in Nat /\ n # 0 /\ n <= b
  OBVIOUS
<1>3. n - 1 \in Nat /\ n - 1 < b /\ ~(n <= n - 1) /\ (n - 1) + 1 = n
  BY <1>2
<1>4. n - 1 \in 0 .. b /\ n - 1 \notin B
  BY <1>1, <1>2, <1>3
<1> QED BY <1>1, <1>3, <1>4

\* What FlattenSeq puts together is made of the elements of the sequences.
LEMMA FlattenIsSeq ==
  ASSUME NEW S, NEW seqs \in Seq(Seq(S))
  PROVE  /\ FlattenSeq(seqs) \in Seq(S)
         /\ Len(seqs) = 1 => FlattenSeq(seqs) = seqs[1]
<1>1. /\ Len(seqs) \in Nat /\ \A k \in 1 .. Len(seqs) : seqs[k] \in Seq(S)
  BY SeqFacts, ElementOfSeq
<1>2. CASE Len(seqs) = 0
  <2>1. seqs = <<>>
    BY <1>2, EmptySeq, SeqFacts
  <2> QED BY <1>2, <2>1, EmptySeq DEF FlattenSeq
<1>3. CASE Len(seqs) # 0
  <2> DEFINE n == Len(seqs)
             Is(f, m) == /\ f \in [1 .. m -> Seq(S)]
                         /\ \A i \in 1 .. m : f[i] = IF i = 1 THEN seqs[1] ELSE f[i - 1] \o seqs[i]
             Built == {m \in 0 .. n : m = 0 \/ \E f : Is(f, m)}
  <2>1. n \in Nat \ {0}
    BY <1>1, <1>3
  <2>2. ASSUME NEW m \in Nat, m < n, m \in Built
        PROVE  m + 1 \in Built
    <3>1. CASE m = 0
      <4>1. Is([i \in 1 .. 1 |-> seqs[1]], 1)
        BY <1>1, <2>1
      <4>2. m + 1 = 1 /\ 1 \in 0 .. n
        BY <2>1, <3>1
      <4> HIDE DEF Is
      <4> QED BY <4>1, <4>2
    <3>2. CASE m # 0
      <4>1. PICK f : Is(f, m)
        BY <2>2, <3>2
      <4> DEFINE g == [i \in 1 .. m + 1 |-> IF i <= m THEN f[i] ELSE f[m] \o seqs[m + 1]]
      <4>2. m \in 1 .. m /\ m + 1 \in 1 .. n /\ m + 1 \in 0 .. n
        BY <2>1, <2>2, <3>2
      <4>3. f[m] \in Seq(S) /\ seqs[m + 1] \in Seq(S)
        BY <1>1, <4>1, <4>2
      <4>4. f[m] \o seqs[m + 1] \in Seq(S)
        BY <4>3, ConcatProperties
      <4>5. g \in [1 .. m + 1 -> Seq(S)]
        BY <4>1, <4>4
      <4>6. ASSUME NEW i \in 1 .. m + 1
            PROVE  g[i] = IF i = 1 THEN seqs[1] ELSE g[i - 1] \o seqs[i]
        <5>1. CASE i <= m
          <6>1. i \in 1 .. m
            BY <4>6, <5>1
          <6>2. i # 1 => i - 1 \in 1 .. m /\ g[i - 1] = f[i - 1]
            BY <6>1
          <6>3. g[i] = f[i]
            BY <6>1
          <6> QED BY <4>1, <6>1, <6>2, <6>3
        <5>2. CASE ~(i <= m)
          <6>1. i = m + 1 /\ i - 1 = m /\ i # 1
            BY <5>2, <3>2
          <6>2. m + 1 \in 1 .. m + 1 /\ m \in 1 .. m + 1 /\ ~(m + 1 <= m) /\ m <= m
            BY <4>2
          <6>3. g[m + 1] = f[m] \o seqs[m + 1]
            BY <6>2
          <6>4. g[m] = f[m]
            BY <6>2
          <6> QED BY <6>1, <6>3, <6>4
        <5> QED BY <5>1, <5>2
      <4>7. Is(g, m + 1)
        BY <4>5, <4>6
      <4> HIDE DEF Is, g
      <4> QED BY <4>2, <4>7
    <3> QED BY <3>1, <3>2
  <2>3. 0 \in Built
    BY <2>1
  <2>4. n \in Built
    <3> HIDE DEF Built
    <3>1. 0 .. n \subseteq Built
      BY <2>1, <2>2, <2>3, UpTo
    <3> QED BY <2>1, <3>1
  <2>5. PICK f : Is(f, n)
    BY <2>1, <2>4
  <2> DEFINE Body(g) == [i \in 1 .. n |-> IF i = 1 THEN seqs[i] ELSE g[i - 1] \o seqs[i]]
             flat == CHOOSE g : g = Body(g)
  <2>6. f = Body(f)
    BY <2>5
  <2>7. flat = Body(flat)
    <3> HIDE DEF Body
    <3> QED BY <2>6
  <2>8. FlattenSeq(seqs) = flat[n]
    BY <1>3 DEF FlattenSeq
  <2>9. \A i \in 1 .. n : flat[i] = IF i = 1 THEN seqs[i] ELSE flat[i - 1] \o seqs[i]
    <3> HIDE DEF flat
    <3> QED BY <2>7
  <2> HIDE DEF flat, Body
  <2> DEFINE Good == {m \in 0 .. n : m = 0 \/ flat[m] \in Seq(S)}
  <2>10. ASSUME NEW m \in Nat, m < n, m \in Good
         PROVE  m + 1 \in Good
    <3>1. m + 1 \in 1 .. n /\ m + 1 \in 0 .. n
      BY <2>1, <2>10
    <3>2. seqs[m + 1] \in Seq(S)
      BY <1>1, <3>1
    <3>3. m # 0 => flat[m] \in Seq(S) /\ flat[m + 1] = flat[m] \o seqs[m + 1]
      <4>1. (m + 1) - 1 = m /\ (m # 0 => m + 1 # 1)
        OBVIOUS
      <4>2. m # 0 => flat[m + 1] = flat[m] \o seqs[m + 1]
        BY <2>9, <3>1, <4>1
      <4> QED BY <2>10, <4>2
    <3>4. m = 0 => flat[m + 1] = seqs[m + 1]
      BY <2>9, <3>1
    <3>5. flat[m + 1] \in Seq(S)
      BY <3>2, <3>3, <3>4, ConcatProperties
    <3> QED BY <3>1, <3>5
  <2>11. n \in Good
    <3>1. 0 \in Good
      BY <2>1
    <3> HIDE DEF Good
    <3>2. 0 .. n \subseteq Good
      BY <2>1, <2>10, <3>1, UpTo
    <3> QED BY <2>1, <3>2
  <2>12. flat[n] \in Seq(S)
    BY <2>1, <2>11
  <2>13. n = 1 => flat[n] = seqs[1]
    BY <2>9
  <2> QED BY <2>8, <2>12, <2>13
<1> QED BY <1>2, <1>3
-----------------------------------------------------------------------------
(* Entries, and what they ask for.                                         *)

LEMMA EntryFields ==
  ASSUME NEW x \in EntryTypes
  PROVE  /\ x.kind \in Kinds \cup {"none", "multi"} /\ x.items \in Seq(ItemTypes)
         /\ x.original \in Payloads \cup {0} /\ x.children \in Seq(Entries)
         /\ x.batch \in Nat /\ x.parent \in Entries \cup {0} /\ x.changeIds \in SUBSET Nat
         /\ x.count \in Nat /\ x.failed \in BOOLEAN
         /\ x.before \in SUBSET Payloads /\ x.after \in SUBSET Payloads
BY DEF EntryTypes

LEMMA NoEntryTyped ==
  /\ NoEntry \in EntryTypes
  /\ NoEntry.kind = "none" /\ NoEntry.children = <<>> /\ NoEntry.parent = 0 /\ NoEntry.changeIds = {}
  /\ NoEntry.count = 0
<1>1. <<>> \in Seq(ItemTypes) /\ <<>> \in Seq(Entries)
  BY EmptySeq
<1> QED BY <1>1 DEF NoEntry, Entry, EntryTypes

LEMMA EntriesTyped ==
  ASSUME EntriesTypeOK, NEW e \in Entries
  PROVE  entries[e] \in EntryTypes
BY DEF EntriesTypeOK

LEMMA BoundsAreNumbers ==
  /\ MaxEntries \in Nat /\ MaxIds \in Nat /\ MaxPayloads \in Nat /\ MaxChanges \in Nat
  /\ 0 \notin Entries /\ 0 \notin Ids /\ 0 \notin Payloads
  /\ Entries \subseteq Nat /\ Ids \subseteq Nat /\ Payloads \subseteq Nat
BY ConstantsAssumption DEF Entries, Ids, Payloads

RequestsOf(e) == {r \in RequestTypes : Sound(r) /\ r.entry = e}

LEMMA AsksTyped ==
  ASSUME NEW e \in Entries, NEW k \in Kinds, NEW S \in SUBSET Ids, NEW p \in Payloads \cup {0},
         k # "delete" => p # 0 /\ S # {}
  PROVE  Asks(e, k, S, p) \in RequestsOf(e) /\ Asks(e, k, S, p).kind = k
BY DEF Asks, RequestsOf, RequestTypes, Sound

\* An entry that is not a MultiEntry asks for one change, or for creations to undo its
\* deletion.
LEMMA RequestsTyped ==
  ASSUME EntriesTypeOK, NEW e \in Entries, entries[e].kind \in Kinds, NEW type \in {"undo", "redo"}
  PROVE  /\ Requests(e, type) \in Seq(RequestsOf(e))
         /\ \/ Len(Requests(e, type)) = 1
            \/ /\ entries[e].kind = "delete"
               /\ \A k \in DOMAIN Requests(e, type) : Requests(e, type)[k].kind = "create"
<1> DEFINE its == entries[e].items
<1>1. /\ its \in Seq(ItemTypes) /\ entries[e].original \in Payloads \cup {0}
      /\ entries[e].kind = "modify" => entries[e].original # 0
      /\ entries[e].kind \in {"create", "modify"} => Len(its) = 1
  BY EntriesTyped, EntryFields DEF EntriesTypeOK, HasOneItem
<1>2. /\ Len(its) \in Nat /\ DOMAIN its = 1 .. Len(its)
      /\ \A k \in DOMAIN its : its[k] \in ItemTypes
  BY <1>1, SeqFacts
<1>3. \A k \in DOMAIN its : its[k].id \in Ids /\ its[k].payload \in Payloads
  BY <1>2 DEF ItemTypes
<1>4. "create" \in Kinds /\ "delete" \in Kinds /\ "modify" \in Kinds
  BY DEF Kinds
<1> HIDE DEF its
<1>5. /\ AsksToDelete(e) \in Seq(RequestsOf(e))
      /\ Len(AsksToDelete(e)) = 1
  <2> DEFINE S == {item.id : item \in ToSet(its)}
  <2>1. S \in SUBSET Ids
    BY <1>3 DEF ToSet
  <2> HIDE DEF S
  <2>2. Asks(e, "delete", S, 0) \in RequestsOf(e)
    BY <1>4, <2>1, AsksTyped
  <2>3. AsksToDelete(e) = <<Asks(e, "delete", S, 0)>>
    BY DEF AsksToDelete, S, its
  <2> QED BY <2>2, <2>3
<1>6. /\ AsksToCreate(e) \in Seq(RequestsOf(e))
      /\ \A k \in DOMAIN AsksToCreate(e) : AsksToCreate(e)[k].kind = "create"
      /\ Len(AsksToCreate(e)) = Len(its)
  <2>1. AsksToCreate(e) = [k \in 1 .. Len(its) |-> Asks(e, "create", {its[k].id}, its[k].payload)]
    BY <1>2 DEF AsksToCreate, its
  <2>2. ASSUME NEW k \in 1 .. Len(its)
        PROVE  /\ Asks(e, "create", {its[k].id}, its[k].payload) \in RequestsOf(e)
               /\ Asks(e, "create", {its[k].id}, its[k].payload).kind = "create"
    <3>1. {its[k].id} \in SUBSET Ids /\ its[k].payload \in Payloads \cup {0} /\ its[k].payload # 0 /\ {its[k].id} # {}
      BY <1>2, <1>3, BoundsAreNumbers
    <3> DEFINE S == {its[k].id}
               p == its[k].payload
    <3>2. S \in SUBSET Ids /\ p \in Payloads \cup {0} /\ p # 0 /\ S # {}
      BY <3>1
    <3> HIDE DEF S, p
    <3>3. Asks(e, "create", S, p) \in RequestsOf(e) /\ Asks(e, "create", S, p).kind = "create"
      BY <1>4, <3>2, AsksTyped
    <3> QED BY <3>3 DEF S, p
  <2>3. AsksToCreate(e) \in [1 .. Len(its) -> RequestsOf(e)]
    BY <2>1, <2>2
  <2>4. AsksToCreate(e) \in Seq(RequestsOf(e))
    BY <1>2, <2>3, SeqDef
  <2>5. Len(AsksToCreate(e)) = Len(its)
    BY <1>2, <2>1
  <2>6. DOMAIN AsksToCreate(e) = 1 .. Len(its)
    BY <2>1
  <2> QED BY <2>1, <2>2, <2>4, <2>5, <2>6
<1>7. entries[e].kind = "modify" =>
        /\ AsksToModify(e, type) \in Seq(RequestsOf(e))
        /\ Len(AsksToModify(e, type)) = 1
  <2> SUFFICES ASSUME entries[e].kind = "modify"
               PROVE  /\ AsksToModify(e, type) \in Seq(RequestsOf(e))
                      /\ Len(AsksToModify(e, type)) = 1
    OBVIOUS
  <2>1. 1 \in DOMAIN its
    BY <1>1, <1>2
  <2> DEFINE p == IF type = "undo" THEN entries[e].original ELSE its[1].payload
             S == {its[1].id}
  <2>2. p \in Payloads \cup {0} /\ p # 0 /\ S \in SUBSET Ids /\ S # {}
    BY <1>1, <1>3, <2>1, BoundsAreNumbers
  <2>3. AsksToModify(e, type) = <<Asks(e, "modify", S, p)>>
    BY DEF AsksToModify, its
  <2> HIDE DEF p, S
  <2>4. Asks(e, "modify", S, p) \in RequestsOf(e)
    BY <1>4, <2>2, AsksTyped
  <2> QED BY <2>3, <2>4
<1>8. CASE entries[e].kind = "modify"
  BY <1>7, <1>8 DEF Requests
<1>9. CASE entries[e].kind = "create"
  BY <1>1, <1>5, <1>6, <1>9 DEF Requests
<1>10. CASE entries[e].kind = "delete"
  BY <1>5, <1>6, <1>10 DEF Requests
<1> QED BY <1>8, <1>9, <1>10 DEF Kinds

LeavesOf(e) == {l \in Entries : entries[l].kind \in Kinds /\ Root(l) = e}

LEMMA LeavesTyped ==
  ASSUME EntriesTypeOK, Family, NEW e \in Entries, IsRoot(e), NEW type \in {"undo", "redo"}
  PROVE  /\ Leaves(e, type) \in Seq(LeavesOf(e))
         /\ entries[e].kind # "multi" => Leaves(e, type) = <<e>>
<1>1. CASE entries[e].kind # "multi"
  <2>1. entries[e].kind \in Kinds /\ Root(e) = e
    BY <1>1, EntriesTyped, EntryFields DEF IsRoot, Root
  <2>2. e \in LeavesOf(e)
    BY <2>1 DEF LeavesOf
  <2>3. Leaves(e, type) = <<e>>
    BY <1>1 DEF Leaves
  <2> QED BY <2>2, <2>3
<1>2. CASE entries[e].kind = "multi"
  <2> DEFINE s == entries[e].children
  <2>1. s \in Seq(Entries)
    BY EntriesTyped, EntryFields
  <2>2. \A k \in DOMAIN s : s[k] \in LeavesOf(e)
    <3> SUFFICES ASSUME NEW k \in DOMAIN s PROVE s[k] \in LeavesOf(e)
      OBVIOUS
    <3>1. s[k] \in Entries
      BY <2>1, SeqFacts
    <3>2. entries[s[k]].parent = e /\ entries[s[k]].kind \in Kinds
      BY DEF Family
    <3>3. e # 0
      BY BoundsAreNumbers
    <3> QED BY <3>1, <3>2, <3>3 DEF LeavesOf, Root
  <2>3. Len(s) \in Nat /\ DOMAIN s = 1 .. Len(s) /\ s \in [1 .. Len(s) -> Entries]
    BY <2>1, SeqFacts
  <2>4. Leaves(e, type) = IF type = "undo" THEN Reverse(s) ELSE s
    BY <1>2 DEF Leaves
  <2> HIDE DEF s
  <2>5. s \in [1 .. Len(s) -> LeavesOf(e)]
    BY <2>2, <2>3
  <2>6. Reverse(s) \in [1 .. Len(s) -> LeavesOf(e)]
    <3>1. \A k \in 1 .. Len(s) : Len(s) - k + 1 \in 1 .. Len(s)
      BY <2>3
    <3>2. \A k \in 1 .. Len(s) : s[(Len(s) - k) + 1] \in LeavesOf(e)
      BY <2>2, <2>3, <3>1
    <3> QED BY <3>2 DEF Reverse
  <2>7. s \in Seq(LeavesOf(e)) /\ Reverse(s) \in Seq(LeavesOf(e))
    BY <2>3, <2>5, <2>6, SeqDef
  <2> QED BY <1>2, <2>4, <2>7
<1> QED BY <1>1, <1>2

\* What an undo or redo of an entry asks for.
AskedOf(e, type) == {r \in RequestTypes : Sound(r) /\ r.entry \in ToSet(Leaves(e, type))}

LEMMA AskedTyped ==
  ASSUME EntriesTypeOK, Family, NEW e \in Entries, IsRoot(e), NEW type \in {"undo", "redo"}
  PROVE  /\ AllRequests(e, type) \in Seq(AskedOf(e, type))
         /\ entries[e].kind # "multi" => AllRequests(e, type) = Requests(e, type)
<1> DEFINE leaves == Leaves(e, type)
           seqs   == [k \in DOMAIN leaves |-> Requests(leaves[k], type)]
<1>1. leaves \in Seq(LeavesOf(e))
  BY LeavesTyped
<1>2. Len(leaves) \in Nat /\ DOMAIN leaves = 1 .. Len(leaves) /\ \A k \in DOMAIN leaves : leaves[k] \in LeavesOf(e)
  BY <1>1, SeqFacts
<1>3. AllRequests(e, type) = FlattenSeq(seqs)
  BY DEF AllRequests
<1>4. entries[e].kind # "multi" => leaves = <<e>>
  BY LeavesTyped
<1> HIDE DEF leaves
<1>5. ASSUME NEW k \in DOMAIN leaves
      PROVE  Requests(leaves[k], type) \in Seq(AskedOf(e, type))
  <2>1. leaves[k] \in Entries /\ entries[leaves[k]].kind \in Kinds
    BY <1>2 DEF LeavesOf
  <2>2. Requests(leaves[k], type) \in Seq(RequestsOf(leaves[k]))
    BY <2>1, RequestsTyped
  <2>3. leaves[k] \in ToSet(leaves)
    BY DEF ToSet
  <2>4. RequestsOf(leaves[k]) \subseteq AskedOf(e, type)
    BY <2>3 DEF RequestsOf, AskedOf, leaves
  <2> QED BY <2>2, <2>4, SeqMonotonic
<1>6. seqs \in [1 .. Len(leaves) -> Seq(AskedOf(e, type))]
  BY <1>2, <1>5
<1>7. seqs \in Seq(Seq(AskedOf(e, type)))
  BY <1>2, <1>6, SeqDef
<1>8. FlattenSeq(seqs) \in Seq(AskedOf(e, type)) /\ (Len(seqs) = 1 => FlattenSeq(seqs) = seqs[1])
  <2> HIDE DEF seqs
  <2> QED BY <1>7, FlattenIsSeq
<1>9. entries[e].kind # "multi" => Len(seqs) = 1 /\ seqs[1] = Requests(e, type)
  <2> SUFFICES ASSUME entries[e].kind # "multi"
               PROVE  Len(seqs) = 1 /\ seqs[1] = Requests(e, type)
    OBVIOUS
  <2>1. leaves = <<e>>
    BY <1>4
  <2>2. DOMAIN leaves = 1 .. 1 /\ leaves[1] = e
    BY <2>1
  <2>3. seqs = [k \in 1 .. 1 |-> Requests(leaves[k], type)]
    BY <2>2
  <2> QED BY <2>2, <2>3
<1> QED BY <1>3, <1>8, <1>9

-----------------------------------------------------------------------------
(* The initial state.                                                      *)

LEMMA InitInv == Init => HistoryInv /\ LineInv
<1> SUFFICES ASSUME Init PROVE HistoryInv /\ LineInv
  OBVIOUS
<1>1. /\ \A e \in Entries : entries[e] = NoEntry
      /\ running = <<>> /\ answers = <<>> /\ unrecorded = <<>>
      /\ mUndoStack = <<>> /\ mRedoStack = <<>> /\ mQueuedEntries = <<>>
      /\ mOperationTypeInProgress = "none" /\ mEntryInProgress = 0 /\ latestChange = 0 /\ ~crashed /\ ~batch.open /\ batch.id = 0
      /\ DOMAIN <<>> = {}
  BY DEF Init
<1>2. Types
  <2>1. UserTypeOK
    BY <1>1, EmptySeq DEF Init, UserTypeOK
  <2>2. EntriesTypeOK
    <3>1. entries \in [Entries -> EntryTypes]
      BY NoEntryTyped DEF Init
    <3> QED BY <1>1, <3>1, NoEntryTyped DEF EntriesTypeOK, HasOneItem
  <2>3. StacksTypeOK
    BY EmptySeq DEF Init, StacksTypeOK
  <2>4. ChangerTypeOK
    <3>1. latestChange \in 0 .. MaxChanges
      BY BoundsAreNumbers DEF Init
    <3> QED BY <1>1, <3>1, EmptySeq DEF ChangerTypeOK
  <2>5. StoreTypeOK
    BY BoundsAreNumbers DEF Init, StoreTypeOK
  <2> QED BY <2>1, <2>2, <2>3, <2>4, <2>5 DEF Types
<1>3. Family
  <2>1. Constructed = 1 .. 0 /\ 0 \in 0 .. MaxEntries
    <3>1. Constructed = {}
      BY <1>1, NoEntryTyped DEF Constructed
    <3>2. 1 .. 0 = {}
      OBVIOUS
    <3> QED BY <3>1, <3>2, BoundsAreNumbers
  <2>2. \A e \in Entries : DOMAIN entries[e].children = {}
    BY <1>1, NoEntryTyped
  <2> QED BY <1>1, <2>1, <2>2, NoEntryTyped DEF Family
<1>4. Stacked
  BY <1>1 DEF Stacked
<1>5. ChangesInv
  BY <1>1 DEF ChangesInv
<1>6. \A l \in Entries : Awaited(l) = {}
  BY <1>1, NoEntryTyped DEF Awaited
<1>7. CountsAwaited
  BY <1>1, NoEntryTyped DEF CountsAwaited, Kinds
<1>8. AsksOnce
  BY <1>1 DEF AsksOnce
<1>9. BatchInv
  BY <1>1, NoEntryTyped DEF BatchInv
<1>10. LineInv
  BY <1>1, <1>6 DEF LineInv, OthersAreSettled, Settled, InOrder, Rising
<1> QED BY <1>2, <1>3, <1>4, <1>5, <1>7, <1>8, <1>9, <1>10 DEF HistoryInv

-----------------------------------------------------------------------------
(* The user.                                                               *)

LEMMA FamilyKeeps ==
  ASSUME Family, entries' = entries
  PROVE  Family'
BY DEF Family, Constructed

LEMMA UnmovedKeeps ==
  ASSUME HistoryInv, UNCHANGED <<stacks, op, entries, changer, answers, crashed>>
  PROVE  /\ EntriesTypeOK' /\ StacksTypeOK' /\ ChangerTypeOK'
         /\ Family' /\ Stacked' /\ ChangesInv' /\ CountsAwaited' /\ AsksOnce'
         /\ LineInv => LineInv'
<1>1. /\ mUndoStack' = mUndoStack /\ mRedoStack' = mRedoStack /\ mQueuedEntries' = mQueuedEntries
      /\ mOperationTypeInProgress' = mOperationTypeInProgress /\ mEntryInProgress' = mEntryInProgress
      /\ mUndoAllInProgress' = mUndoAllInProgress /\ entries' = entries /\ latestChange' = latestChange
      /\ running' = running /\ answers' = answers /\ crashed' = crashed
  BY DEF stacks, op, changer
<1>2. EntriesTypeOK' /\ StacksTypeOK' /\ ChangerTypeOK'
  BY <1>1 DEF HistoryInv, Types, EntriesTypeOK, StacksTypeOK, ChangerTypeOK
<1>3. Family'
  BY <1>1 DEF HistoryInv, Family, Constructed
<1>4. Stacked'
  BY <1>1 DEF HistoryInv, Stacked, IsRoot
<1>5. ChangesInv'
  BY <1>1 DEF HistoryInv, ChangesInv
<1>6. \A l \in Entries : Awaited(l)' = Awaited(l)
  BY <1>1 DEF Awaited
<1>7. CountsAwaited'
  BY <1>1, <1>6 DEF HistoryInv, CountsAwaited
<1>8. AsksOnce'
  BY <1>1 DEF HistoryInv, AsksOnce, Restores
<1>9. LineInv => LineInv'
  BY <1>1, <1>6 DEF LineInv, OthersAreSettled, InProgress, Settled, Root, InOrder, Rising
<1> QED BY <1>2, <1>3, <1>4, <1>5, <1>7, <1>8, <1>9

LEMMA ContentsTyped ==
  ASSUME NEW s \in [Ids -> Payloads \cup {0}]
  PROVE  Contents(s) \in SUBSET Payloads
BY DEF Contents

LEMMA UserDidStep ==
  ASSUME HistoryInv, NEW kind \in Kinds, NEW its \in Seq(ItemTypes), NEW original \in Payloads \cup {0},
         NEW newStore \in [Ids -> Payloads \cup {0}],
         kind \in {"create", "modify"} => Len(its) = 1,
         kind = "modify" => original # 0,
         latestId' \in 0 .. MaxIds, latestPayload' \in 0 .. MaxPayloads,
         UserDid(kind, its, original, newStore)
  PROVE  HistoryInv' /\ (LineInv => LineInv')
<1> DEFINE ids    == {item.id : item \in ToSet(its)}
           entry  == Entry(kind, its, original, Contents(store), Contents(newStore))
           b      == IF batch.open THEN batch.id ELSE 0
           record == [entry |-> entry, atomicOperationId |-> b]
<1>1. Types /\ BatchInv
  BY DEF HistoryInv
<1>2. /\ unrecorded' = Append(unrecorded, record)
      /\ batch' = [batch EXCEPT !.items = IF batch.open THEN @ \cup ids ELSE {}]
      /\ store' = newStore /\ patient' = patient
      /\ UNCHANGED <<stacks, op, entries, changer, answers, crashed>>
  BY DEF UserDid
<1>3. /\ batch \in [open : BOOLEAN, id : Nat, items : SUBSET Ids]
      /\ unrecorded \in Seq(RecordTypes) /\ store \in [Ids -> Payloads \cup {0}] /\ patient \in BOOLEAN
      /\ \A k \in DOMAIN unrecorded : Recorded(unrecorded[k].entry)
  BY <1>1 DEF Types, UserTypeOK, StoreTypeOK
<1>4. entry \in EntryTypes /\ Recorded(entry)
  <2>1. PICK old \in SUBSET Payloads, new \in SUBSET Payloads : old = Contents(store) /\ new = Contents(newStore)
    BY <1>3, ContentsTyped
  <2>4. entry = Entry(kind, its, original, old, new)
    BY <2>1
  <2> HIDE DEF entry
  <2>2. kind \in Kinds \cup {"none", "multi"}
    OBVIOUS
  <2>3. /\ entry \in EntryTypes
        /\ entry.kind = kind /\ entry.items = its /\ entry.original = original
        /\ entry.children = <<>> /\ entry.parent = 0 /\ entry.changeIds = {}
    <3>1. <<>> \in Seq(Entries)
      BY EmptySeq
    <3> QED BY <2>2, <2>4, <3>1 DEF Entry, EntryTypes
  <2> QED BY <2>3 DEF Recorded, HasOneItem
<1>5. ids \in SUBSET Ids
  <2>1. \A k \in DOMAIN its : its[k] \in ItemTypes
    BY SeqFacts
  <2>2. \A k \in DOMAIN its : its[k].id \in Ids
    BY <2>1 DEF ItemTypes
  <2> QED BY <2>2 DEF ToSet
<1> HIDE DEF entry, ids
<1>6. record \in RecordTypes /\ record.entry = entry /\ record.atomicOperationId = b
  BY <1>3, <1>4 DEF RecordTypes
<1> HIDE DEF record
<1>7. /\ unrecorded' \in Seq(RecordTypes)
      /\ Len(unrecorded') = Len(unrecorded) + 1 /\ unrecorded'[Len(unrecorded) + 1] = record
      /\ \A k \in 1 .. Len(unrecorded) : unrecorded'[k] = unrecorded[k]
  BY <1>2, <1>3, <1>6, AppendProperties
<1>8. /\ Len(unrecorded) \in Nat /\ DOMAIN unrecorded = 1 .. Len(unrecorded)
      /\ DOMAIN unrecorded' = 1 .. Len(unrecorded) + 1
  BY <1>3, <1>7, SeqFacts
<1>9. \A k \in DOMAIN unrecorded' : (k \in DOMAIN unrecorded /\ unrecorded'[k] = unrecorded[k]) \/ unrecorded'[k] = record
  BY <1>7, <1>8
<1>10. /\ batch' \in [open : BOOLEAN, id : Nat, items : SUBSET Ids]
       /\ batch'.open = batch.open /\ batch'.id = batch.id
  BY <1>2, <1>3, <1>5
<1>11. UserTypeOK'
  BY <1>2, <1>3, <1>4, <1>6, <1>7, <1>9, <1>10 DEF UserTypeOK
<1>12. Types'
  BY <1>2, <1>11, UnmovedKeeps DEF Types, StoreTypeOK
<1>13. entries' = entries
  BY <1>2
<1>14. BatchInv'
  <2>1. \A x \in OpenBatches' : x \in OpenBatches \/ x = 0
    BY <1>6, <1>9, <1>10 DEF OpenBatches
  <2>2. \A k \in DOMAIN unrecorded' : unrecorded'[k].atomicOperationId <= batch'.id
    BY <1>1, <1>3, <1>6, <1>9, <1>10 DEF BatchInv
  <2> QED BY <1>1, <1>3, <1>10, <1>13, <2>1, <2>2 DEF BatchInv
<1> QED BY <1>2, <1>12, <1>14, UnmovedKeeps DEF HistoryInv

LEMMA UserCreatesStep ==
  ASSUME HistoryInv, UserCreates
  PROVE  HistoryInv' /\ (LineInv => LineInv')
<1> DEFINE i   == latestId + 1
           p   == latestPayload + 1
           its == <<[id |-> i, payload |-> p]>>
           new == [store EXCEPT ![i] = p]
<1>1. /\ i \in Ids /\ p \in Payloads
      /\ latestId' = i /\ latestPayload' = p
      /\ UserDid("create", its, 0, new)
  BY DEF UserCreates
<1>2. store \in [Ids -> Payloads \cup {0}]
  BY DEF HistoryInv, Types, StoreTypeOK
<1>3. latestId' \in 0 .. MaxIds /\ latestPayload' \in 0 .. MaxPayloads
  BY <1>1, BoundsAreNumbers DEF Ids, Payloads
<1> HIDE DEF i, p
<1>4. its \in Seq(ItemTypes) /\ Len(its) = 1
  BY <1>1 DEF ItemTypes
<1>5. new \in [Ids -> Payloads \cup {0}]
  BY <1>1, <1>2
<1>6. "create" \in Kinds /\ "create" # "modify"
  BY DEF Kinds
<1> DEFINE none == 0
<1>7. none \in Payloads \cup {0} /\ UserDid("create", its, none, new)
  BY <1>1
<1> HIDE DEF its, new, none
<1> QED BY <1>3, <1>4, <1>5, <1>6, <1>7, UserDidStep

LEMMA UserModifiesStep ==
  ASSUME HistoryInv, UserModifies
  PROVE  HistoryInv' /\ (LineInv => LineInv')
<1> DEFINE p == latestPayload + 1
<1>1. /\ p \in Payloads /\ latestPayload' = p /\ latestId' = latestId
  BY DEF UserModifies
<1>2. PICK i \in Live :
        UserDid("modify", <<[id |-> i, payload |-> p]>>, store[i], [store EXCEPT ![i] = p])
  BY DEF UserModifies
<1> DEFINE its == <<[id |-> i, payload |-> p]>>
           new == [store EXCEPT ![i] = p]
           old == store[i]
<1>3. store \in [Ids -> Payloads \cup {0}] /\ latestId \in 0 .. MaxIds
  BY DEF HistoryInv, Types, StoreTypeOK
<1>4. i \in Ids /\ old \in Payloads \cup {0} /\ old # 0
  BY <1>3 DEF Live
<1>5. latestId' \in 0 .. MaxIds /\ latestPayload' \in 0 .. MaxPayloads
  BY <1>1, <1>3, BoundsAreNumbers DEF Payloads
<1> HIDE DEF p
<1>6. its \in Seq(ItemTypes) /\ Len(its) = 1
  BY <1>1, <1>4 DEF ItemTypes
<1>7. new \in [Ids -> Payloads \cup {0}]
  BY <1>1, <1>3
<1>8. "modify" \in Kinds
  BY DEF Kinds
<1>9. UserDid("modify", its, old, new)
  BY <1>2
<1> HIDE DEF its, new, old
<1> QED BY <1>4, <1>5, <1>6, <1>7, <1>8, <1>9, UserDidStep

\* A finite set in some order, each element once.
LEMMA OrderOfSet ==
  ASSUME NEW S, IsFiniteSet(S)
  PROVE  SetToSeq(S) \in Seq(S) /\ IsInjective(SetToSeq(S))
<1> DEFINE n == Cardinality(S)
<1>1. n \in Nat
  BY FS_CardinalityType
<1>2. PICK f : f \in Bijection(1 .. n, S)
  BY <1>1, FS_NatBijection, FS_CardinalityType DEF ExistsBijection
<1>3. f \in [1 .. n -> S] /\ IsInjective(f)
  BY <1>2 DEF Bijection, Injection, IsInjective
<1>4. SetToSeq(S) \in [1 .. n -> S] /\ IsInjective(SetToSeq(S))
  BY <1>3 DEF SetToSeq
<1> QED BY <1>1, <1>4, SeqDef

LEMMA UserDeletesStep ==
  ASSUME HistoryInv, UserDeletes
  PROVE  HistoryInv' /\ (LineInv => LineInv')
<1>1. PICK S \in SUBSET Live :
        UserDid("delete",
                [k \in DOMAIN SetToSeq(S) |-> [id |-> SetToSeq(S)[k], payload |-> store[SetToSeq(S)[k]]]],
                0, [i \in Ids |-> IF i \in S THEN 0 ELSE store[i]])
  BY DEF UserDeletes
<1> DEFINE list == SetToSeq(S)
           its  == [k \in DOMAIN list |-> [id |-> list[k], payload |-> store[list[k]]]]
           new  == [i \in Ids |-> IF i \in S THEN 0 ELSE store[i]]
           none == 0
<1>2. /\ store \in [Ids -> Payloads \cup {0}]
      /\ latestId \in 0 .. MaxIds /\ latestPayload \in 0 .. MaxPayloads
      /\ latestId' = latestId /\ latestPayload' = latestPayload
  BY DEF HistoryInv, Types, StoreTypeOK, UserDeletes
<1>3. list \in Seq(S)
  <2>1. IsFiniteSet(Ids)
    BY BoundsAreNumbers, FS_Interval DEF Ids
  <2>2. S \subseteq Ids
    BY DEF Live
  <2>3. IsFiniteSet(S)
    BY <2>1, <2>2, FS_Subset
  <2> QED BY <2>3, OrderOfSet
<1>4. UserDid("delete", its, none, new)
  BY <1>1
<1> HIDE DEF list
<1>5. Len(list) \in Nat /\ DOMAIN list = 1 .. Len(list) /\ \A k \in DOMAIN list : list[k] \in S
  BY <1>3, SeqFacts
<1>6. \A k \in DOMAIN list : list[k] \in Ids /\ store[list[k]] \in Payloads
  BY <1>2, <1>5 DEF Live
<1>7. its \in [1 .. Len(list) -> ItemTypes]
  BY <1>5, <1>6 DEF ItemTypes
<1>8. its \in Seq(ItemTypes)
  BY <1>5, <1>7, SeqDef
<1>9. new \in [Ids -> Payloads \cup {0}]
  BY <1>2
<1>10. "delete" \in Kinds /\ "delete" \notin {"create", "modify"} /\ "delete" # "modify" /\ none \in Payloads \cup {0}
  BY DEF Kinds
<1>11. latestId' \in 0 .. MaxIds /\ latestPayload' \in 0 .. MaxPayloads
  BY <1>2
<1> HIDE DEF its, new, none
<1> QED BY <1>4, <1>8, <1>9, <1>10, <1>11, UserDidStep

LEMMA UserStartsBatchStep ==
  ASSUME HistoryInv, UserStartsBatch
  PROVE  HistoryInv' /\ (LineInv => LineInv')
<1>1. /\ batch \in [open : BOOLEAN, id : Nat, items : SUBSET Ids]
      /\ Types /\ UserTypeOK /\ BatchInv /\ EntriesTypeOK
  BY DEF HistoryInv, Types, UserTypeOK
<1>2. /\ ~batch.open /\ batch' = [open |-> TRUE, id |-> batch.id + 1, items |-> {}]
      /\ UNCHANGED <<stacks, op, entries, changer, answers, crashed>>
      /\ UNCHANGED <<server, patient, unrecorded>>
  BY DEF UserStartsBatch
<1>3. /\ batch'.open /\ batch'.id = batch.id + 1 /\ batch.id \in Nat
      /\ batch' \in [open : BOOLEAN, id : Nat, items : SUBSET Ids]
  BY <1>1, <1>2
<1>4. /\ unrecorded' = unrecorded /\ patient' = patient /\ entries' = entries
      /\ store' = store /\ latestId' = latestId /\ latestPayload' = latestPayload
  BY <1>2 DEF server
<1>5. UserTypeOK' /\ StoreTypeOK'
  BY <1>1, <1>3, <1>4 DEF UserTypeOK, StoreTypeOK, Types
<1>6. Types'
  BY <1>2, <1>5, UnmovedKeeps DEF Types
<1>7. \A k \in DOMAIN unrecorded : unrecorded[k].atomicOperationId \in Nat
  <2>1. unrecorded \in Seq(RecordTypes)
    BY <1>1 DEF UserTypeOK
  <2>2. \A k \in DOMAIN unrecorded : unrecorded[k] \in RecordTypes
    BY <2>1, SeqFacts
  <2> QED BY <2>2 DEF RecordTypes
<1>8. BatchInv'
  <2>1. \A x \in OpenBatches' : x \in OpenBatches \/ x = batch.id + 1
    BY <1>3, <1>4 DEF OpenBatches
  <2>2. ASSUME NEW m \in Entries, entries[m].kind = "multi"
        PROVE  /\ entries[m].batch \in 1 .. batch.id + 1
               /\ entries[m].batch # batch.id + 1
    BY <1>1, <1>3, <2>2 DEF BatchInv
  <2> QED BY <1>1, <1>3, <1>4, <1>7, <2>1, <2>2 DEF BatchInv
<1> QED BY <1>2, <1>6, <1>8, UnmovedKeeps DEF HistoryInv

LEMMA UserEndsBatchStep ==
  ASSUME HistoryInv, UserEndsBatch
  PROVE  HistoryInv' /\ (LineInv => LineInv')
<1>1. /\ batch \in [open : BOOLEAN, id : Nat, items : SUBSET Ids]
      /\ Types /\ UserTypeOK /\ BatchInv
  BY DEF HistoryInv, Types, UserTypeOK
<1>2. /\ batch' = [batch EXCEPT !.open = FALSE, !.items = {}]
      /\ UNCHANGED <<stacks, op, entries, changer, answers, crashed>>
      /\ UNCHANGED <<server, patient, unrecorded>>
  BY DEF UserEndsBatch
<1>3. /\ ~batch'.open /\ batch'.id = batch.id
      /\ batch' \in [open : BOOLEAN, id : Nat, items : SUBSET Ids]
  BY <1>1, <1>2
<1>4. /\ unrecorded' = unrecorded /\ patient' = patient /\ entries' = entries
      /\ store' = store /\ latestId' = latestId /\ latestPayload' = latestPayload
  BY <1>2 DEF server
<1>5. UserTypeOK' /\ StoreTypeOK'
  BY <1>1, <1>3, <1>4 DEF UserTypeOK, StoreTypeOK, Types
<1>6. Types'
  BY <1>2, <1>5, UnmovedKeeps DEF Types
<1>7. BatchInv'
  <2>1. OpenBatches' \subseteq OpenBatches
    BY <1>3, <1>4 DEF OpenBatches
  <2> QED BY <1>1, <1>3, <1>4, <2>1 DEF BatchInv
<1> QED BY <1>2, <1>6, <1>7, UnmovedKeeps DEF HistoryInv

-----------------------------------------------------------------------------
(* The history's changer.                                                  *)

\* What keeps the counts right and the others settled: nobody waits for more.
LEMMA ShrinkKeeps ==
  ASSUME HistoryInv, entries' = entries, \A l \in Entries : Awaited(l)' \subseteq Awaited(l)
  PROVE  /\ CountsAwaited'
         /\ \A r \in Entries : Settled(r) => Settled(r)'
<1>1. ASSUME NEW l \in Entries, entries[l].kind \in Kinds
      PROVE  IsFiniteSet(Awaited(l)') /\ Cardinality(Awaited(l)') <= entries[l].count
  <2>1. IsFiniteSet(Awaited(l)) /\ Cardinality(Awaited(l)) <= entries[l].count
    BY <1>1 DEF HistoryInv, CountsAwaited
  <2>2. /\ IsFiniteSet(Awaited(l)') /\ Cardinality(Awaited(l)') <= Cardinality(Awaited(l))
    BY <2>1, FS_Subset
  <2>3. Cardinality(Awaited(l)) \in Nat /\ Cardinality(Awaited(l)') \in Nat /\ entries[l].count \in Nat
    <3>1. entries[l].count \in Nat
      BY EntriesTyped, EntryFields DEF HistoryInv, Types
    <3> QED BY <2>1, <2>2, <3>1, FS_CardinalityType
  <2> QED BY <2>1, <2>2, <2>3
<1>2. CountsAwaited'
  BY <1>1 DEF CountsAwaited
<1>3. \A r \in Entries : Settled(r) => Settled(r)'
  BY DEF Settled, Root
<1> QED BY <1>2, <1>3

LEMMA ChangesAnswered ==
  ASSUME HistoryInv, NEW rest \in Seq(AnswerTypes),
         answers' = answers \o rest, running # <<>>, running' = <<>>,
         UNCHANGED <<stacks, op, entries, latestChange, user>>, StoreTypeOK',
         crashed' \in BOOLEAN, crashed => crashed',
         \A k \in DOMAIN rest : \E n \in DOMAIN running :
            rest[k].change = running[n].id /\ rest[k].request = running[n].request,
         \A k \in DOMAIN rest : rest[k].success /\ rest[k].request.kind = "create" => rest[k].item # 0,
         \A i, j \in DOMAIN rest : rest[i].change = rest[j].change /\ i # j => rest[i].request.kind = "delete"
  PROVE  HistoryInv' /\ (LineInv => LineInv')
<1>1. /\ Types /\ Family /\ Stacked /\ ChangesInv /\ CountsAwaited /\ AsksOnce /\ BatchInv
      /\ answers \in Seq(AnswerTypes) /\ running \in Seq(RunningTypes)
  BY DEF HistoryInv, Types, ChangerTypeOK
<1>2. /\ mUndoStack' = mUndoStack /\ mRedoStack' = mRedoStack /\ mQueuedEntries' = mQueuedEntries
      /\ mOperationTypeInProgress' = mOperationTypeInProgress /\ mEntryInProgress' = mEntryInProgress
      /\ mUndoAllInProgress' = mUndoAllInProgress /\ entries' = entries /\ latestChange' = latestChange
      /\ patient' = patient /\ unrecorded' = unrecorded /\ batch' = batch
  BY DEF stacks, op, user
<1>3. /\ answers' \in Seq(AnswerTypes) /\ Len(answers') = Len(answers) + Len(rest)
      /\ \A i \in 1 .. Len(answers) + Len(rest) :
           answers'[i] = IF i <= Len(answers) THEN answers[i] ELSE rest[i - Len(answers)]
  BY <1>1, ConcatProperties
<1>4. /\ Len(answers) \in Nat /\ Len(rest) \in Nat
      /\ DOMAIN answers = 1 .. Len(answers) /\ DOMAIN rest = 1 .. Len(rest)
      /\ DOMAIN answers' = 1 .. Len(answers) + Len(rest)
  BY <1>1, <1>3, SeqFacts
<1>5. \A i \in DOMAIN answers' :
        \/ i \in DOMAIN answers /\ answers'[i] = answers[i]
        \/ i - Len(answers) \in DOMAIN rest /\ answers'[i] = rest[i - Len(answers)]
  BY <1>3, <1>4
<1>6. DOMAIN running' = {}
  OBVIOUS
<1>7. ASSUME NEW i \in DOMAIN answers'
      PROVE  \/ i \in DOMAIN answers /\ answers'[i] = answers[i]
             \/ \E n \in DOMAIN running : answers'[i].change = running[n].id /\ answers'[i].request = running[n].request
  BY <1>5
<1>8. Types'
  <2>1. ChangerTypeOK'
    BY <1>1, <1>2, <1>3, <1>5, <1>6 DEF Types, ChangerTypeOK, RunningTypes
  <2>2. UserTypeOK' /\ EntriesTypeOK' /\ StacksTypeOK'
    BY <1>1, <1>2 DEF Types, UserTypeOK, EntriesTypeOK, StacksTypeOK
  <2> QED BY <2>1, <2>2 DEF Types
<1>9. Family' /\ Stacked' /\ BatchInv'
  <2>1. Family'
    BY <1>1, <1>2, FamilyKeeps
  <2>2. Stacked'
    BY <1>1, <1>2 DEF Stacked, IsRoot
  <2>3. BatchInv'
    BY <1>1, <1>2 DEF BatchInv, OpenBatches
  <2> QED BY <2>1, <2>2, <2>3
<1>10. ChangesInv'
  <2>1. ASSUME NEW i \in DOMAIN answers'
        PROVE  answers'[i].change \in 1 .. latestChange
    BY <1>1, <1>7 DEF ChangesInv
  <2>2. ASSUME NEW i \in DOMAIN answers', NEW j \in DOMAIN answers', answers'[i].change = answers'[j].change, i # j
        PROVE  answers'[i].request.kind = "delete"
    <3>1. CASE i \in DOMAIN answers /\ answers'[i] = answers[i]
      <4>1. ASSUME NEW n \in DOMAIN running, answers'[j].change = running[n].id
            PROVE  FALSE
        BY <1>1, <2>2, <3>1, <4>1 DEF ChangesInv
      <4>2. j \in DOMAIN answers /\ answers'[j] = answers[j]
        BY <1>7, <4>1
      <4> QED BY <1>1, <2>2, <3>1, <4>2 DEF ChangesInv
    <3>2. CASE j \in DOMAIN answers /\ answers'[j] = answers[j]
      <4>1. ASSUME NEW n \in DOMAIN running, answers'[i].change = running[n].id
            PROVE  FALSE
        BY <1>1, <2>2, <3>2, <4>1 DEF ChangesInv
      <4>2. i \in DOMAIN answers /\ answers'[i] = answers[i]
        BY <1>7, <4>1
      <4> QED BY <1>1, <2>2, <3>2, <4>2 DEF ChangesInv
    <3>3. CASE /\ i - Len(answers) \in DOMAIN rest /\ answers'[i] = rest[i - Len(answers)]
               /\ j - Len(answers) \in DOMAIN rest /\ answers'[j] = rest[j - Len(answers)]
      <4>1. i - Len(answers) # j - Len(answers)
        BY <1>4, <2>2
      <4> QED BY <2>2, <3>3, <4>1
    <3> QED BY <1>5, <3>1, <3>2, <3>3
  <2> QED BY <1>2, <1>6, <2>1, <2>2 DEF ChangesInv
<1>11. \A l \in Entries : Awaited(l)' \subseteq Awaited(l)
  <2> SUFFICES ASSUME NEW l \in Entries, NEW c \in Awaited(l)' PROVE c \in Awaited(l)
    OBVIOUS
  <2>1. c \in entries[l].changeIds
    BY <1>2 DEF Awaited
  <2>2. PICK i \in DOMAIN answers' : answers'[i].change = c /\ answers'[i].request.entry = l
    BY <1>6 DEF Awaited
  <2> QED BY <1>7, <2>1, <2>2 DEF Awaited
<1>12. AsksOnce'
  <2> SUFFICES ASSUME NEW l \in Entries, entries[l].parent = 0, NEW i \in DOMAIN answers',
                      answers'[i].request.entry = l, answers'[i].change \in entries[l].changeIds,
                      ~Restores(l, answers'[i].request)
               PROVE  entries[l].changeIds = {answers'[i].change}
    BY <1>2, <1>6 DEF AsksOnce, Restores
  <2> QED BY <1>1, <1>7 DEF AsksOnce
<1>13. CountsAwaited' /\ \A r \in Entries : Settled(r) => Settled(r)'
  BY <1>2, <1>11, ShrinkKeeps
<1>14. LineInv => LineInv'
  BY <1>2, <1>13 DEF LineInv, OthersAreSettled, InProgress, InOrder, Rising
<1> QED BY <1>8, <1>9, <1>10, <1>12, <1>13, <1>14 DEF HistoryInv

LEMMA RunningFacts ==
  ASSUME HistoryInv, NEW k \in DOMAIN running
  PROVE  /\ Len(running) \in Nat /\ DOMAIN running = 1 .. Len(running)
         /\ running[k].request \in RequestTypes /\ running[k].id \in Nat /\ Sound(running[k].request)
<1>1. running \in Seq(RunningTypes) /\ \A m \in DOMAIN running : Sound(running[m].request)
  BY DEF HistoryInv, Types, ChangerTypeOK
<1>2. /\ Len(running) \in Nat /\ DOMAIN running = 1 .. Len(running) /\ running[k] \in RunningTypes
  BY <1>1, SeqFacts
<1> QED BY <1>1, <1>2 DEF RunningTypes

LEMMA AnswerTyped ==
  ASSUME HistoryInv, NEW k \in DOMAIN running, NEW item \in Ids \cup {0}, NEW success \in BOOLEAN
  PROVE  /\ Answer(running[k], item, success) \in AnswerTypes
         /\ Answer(running[k], item, success).change = running[k].id
         /\ Answer(running[k], item, success).request = running[k].request
         /\ Answer(running[k], item, success).item = item
         /\ Answer(running[k], item, success).success = success
BY RunningFacts DEF Answer, AnswerTypes

LEMMA ChangerSucceedsStep ==
  ASSUME HistoryInv, ChangerSucceeds
  PROVE  HistoryInv' /\ (LineInv => LineInv')
<1> DEFINE n == Len(running)
           made(k) == {m \in 1 .. k : running[m].request.kind = "create"}
           rest == [k \in 1 .. n |-> Answer(running[k], NewId(k), TRUE)]
<1>1. /\ running \in Seq(RunningTypes) /\ store \in [Ids -> Payloads \cup {0}]
      /\ latestId \in 0 .. MaxIds /\ latestPayload \in 0 .. MaxPayloads /\ ChangesInv
      /\ latestId \in Nat /\ latestPayload \in Nat
  BY DEF HistoryInv, Types, ChangerTypeOK, StoreTypeOK
<1>2. n \in Nat /\ DOMAIN running = 1 .. n
  BY <1>1, SeqFacts
<1>3. /\ NewId(n) <= MaxIds /\ latestId' = NewId(n) /\ running' = <<>>
      /\ answers' = answers \o rest
      /\ latestPayload' = latestPayload
      /\ UNCHANGED <<stacks, op, entries, latestChange, crashed, user>>
  BY <1>2 DEF ChangerSucceeds
<1>4. \A k \in 1 .. n : NewId(k) = latestId + Cardinality(made(k))
  BY DEF NewId
<1>5. ASSUME NEW k \in 1 .. n
      PROVE  /\ NewId(k) \in Nat /\ NewId(k) <= MaxIds
             /\ running[k].request.kind = "create" => NewId(k) # 0
  <2>1. IsFiniteSet(1 .. n)
    BY <1>2, FS_Interval
  <2>2. made(n) \subseteq 1 .. n /\ made(k) \subseteq made(n)
    BY <1>2
  <2> HIDE DEF made
  <2>3. IsFiniteSet(made(n))
    BY <2>1, <2>2, FS_Subset
  <2>4. IsFiniteSet(made(k)) /\ Cardinality(made(k)) <= Cardinality(made(n))
    BY <2>2, <2>3, FS_Subset
  <2>5. Cardinality(made(k)) \in Nat /\ Cardinality(made(n)) \in Nat
    BY <2>3, <2>4, FS_CardinalityType
  <2>6. n \in 1 .. n
    BY <1>2
  <2>7. NewId(n) = latestId + Cardinality(made(n)) /\ NewId(k) = latestId + Cardinality(made(k))
    BY <1>4, <2>6
  <2>8. running[k].request.kind = "create" => k \in made(k)
    BY DEF made
  <2>9. running[k].request.kind = "create" => Cardinality(made(k)) # 0
    BY <2>4, <2>8, FS_EmptySet
  <2>10. NewId(n) <= MaxIds
    BY <1>3
  <2> HIDE DEF n
  <2> QED BY <1>1, <2>4, <2>5, <2>7, <2>9, <2>10, BoundsAreNumbers
<1>6. \A k \in 1 .. n : NewId(k) \in Ids \cup {0}
  BY <1>5, BoundsAreNumbers DEF Ids
<1> HIDE DEF made
<1>7. ASSUME NEW k \in 1 .. n
      PROVE  /\ Answer(running[k], NewId(k), TRUE) \in AnswerTypes
             /\ rest[k].change = running[k].id /\ rest[k].request = running[k].request
             /\ rest[k].request.kind = "create" => rest[k].item # 0
  <2>1. PICK item \in Ids \cup {0} : item = NewId(k)
    BY <1>6
  <2>2. PICK yes \in BOOLEAN : yes = TRUE
    OBVIOUS
  <2>3. /\ Answer(running[k], item, yes) \in AnswerTypes
        /\ Answer(running[k], item, yes).change = running[k].id
        /\ Answer(running[k], item, yes).request = running[k].request
        /\ Answer(running[k], item, yes).item = item
    BY <1>2, AnswerTyped
  <2>4. rest[k] = Answer(running[k], item, yes)
    BY <2>1, <2>2
  <2> QED BY <1>5, <2>1, <2>2, <2>3, <2>4
<1>8. rest \in [1 .. n -> AnswerTypes]
  BY <1>7
<1>9. rest \in Seq(AnswerTypes) /\ DOMAIN rest = 1 .. n
  BY <1>2, <1>8, SeqDef
<1>10. StoreTypeOK'
  <2>1. \A k \in DOMAIN running : running[k].request.payload \in Payloads \cup {0}
    BY RunningFacts DEF RequestTypes
  <2>2. latestId' \in 0 .. MaxIds
    <3>1. CASE n = 0
      BY <1>2, <3>1, <1>1, EmptySeq DEF ChangerSucceeds
    <3>2. CASE n # 0
      <4>1. n \in 1 .. n
        BY <1>2, <3>2
      <4> QED BY <1>3, <1>5, <4>1, BoundsAreNumbers
    <3> QED BY <3>1, <3>2
  <2>3. store' \in [Ids -> Payloads \cup {0}]
    <3> DEFINE writer(i) == {k \in DOMAIN running :
                               \/ running[k].request.kind = "create" /\ NewId(k) = i
                               \/ running[k].request.kind = "modify" /\ running[k].request.ids = {i}}
               deleted == UNION {running[k].request.ids :
                                   k \in {m \in DOMAIN running : running[m].request.kind = "delete"}}
    <3>1. store' = [i \in Ids |->
                     IF i \in deleted THEN 0
                     ELSE IF writer(i) # {} THEN running[CHOOSE k \in writer(i) : TRUE].request.payload
                          ELSE store[i]]
      BY DEF ChangerSucceeds
    <3> HIDE DEF deleted
    <3>2. ASSUME NEW i \in Ids, writer(i) # {}
          PROVE  running[CHOOSE k \in writer(i) : TRUE].request.payload \in Payloads \cup {0}
      <4>1. (CHOOSE k \in writer(i) : TRUE) \in writer(i)
        <5> HIDE DEF writer
        <5> QED BY <3>2
      <4>2. writer(i) \subseteq DOMAIN running
        OBVIOUS
      <4> HIDE DEF writer
      <4> QED BY <2>1, <4>1, <4>2
    <3> HIDE DEF writer
    <3> QED BY <1>1, <3>1, <3>2
  <2> QED BY <1>1, <1>3, <2>2, <2>3 DEF StoreTypeOK
<1>11. \A k \in DOMAIN rest : \E m \in DOMAIN running :
          rest[k].change = running[m].id /\ rest[k].request = running[m].request
  BY <1>2, <1>7, <1>9
<1>12. \A k \in DOMAIN rest : rest[k].success /\ rest[k].request.kind = "create" => rest[k].item # 0
  BY <1>7, <1>9
<1>13. \A i, j \in DOMAIN rest : rest[i].change = rest[j].change /\ i # j => rest[i].request.kind = "delete"
  <2> SUFFICES ASSUME NEW i \in 1 .. n, NEW j \in 1 .. n, rest[i].change = rest[j].change
               PROVE  i = j
    BY <1>9
  <2>1. rest[i].change = running[i].id /\ rest[j].change = running[j].id
    BY <1>7
  <2> HIDE DEF rest
  <2> QED BY <1>1, <1>2, <2>1 DEF ChangesInv
<1> HIDE DEF rest
<1>14. running # <<>>
  BY DEF ChangerSucceeds
<1>15. crashed' \in BOOLEAN /\ (crashed => crashed')
  BY DEF ChangerSucceeds, HistoryInv, Types, StacksTypeOK
<1> QED BY <1>3, <1>9, <1>10, <1>11, <1>12, <1>13, <1>14, <1>15, ChangesAnswered

\* The answers to changes that failed, in the order of `s`.
LEMMA FailedAnswers ==
  ASSUME HistoryInv, NEW s \in Seq(DOMAIN running), NEW r, r = [k \in DOMAIN s |-> Failed(s[k])]
  PROVE  /\ r \in Seq(AnswerTypes) /\ DOMAIN r = DOMAIN s
         /\ \A k \in DOMAIN s : /\ s[k] \in DOMAIN running /\ r[k] \in AnswerTypes /\ ~r[k].success
                                /\ r[k].change = running[s[k]].id /\ r[k].request = running[s[k]].request
<1>1. Len(s) \in Nat /\ DOMAIN s = 1 .. Len(s) /\ \A k \in DOMAIN s : s[k] \in DOMAIN running
  BY SeqFacts
<1>2. ASSUME NEW k \in DOMAIN running
      PROVE  /\ Failed(k) \in AnswerTypes /\ ~Failed(k).success
             /\ Failed(k).change = running[k].id /\ Failed(k).request = running[k].request
  <2>1. PICK no \in BOOLEAN : no = FALSE
    OBVIOUS
  <2>2. PICK item \in Ids \cup {0} : item = 0
    OBVIOUS
  <2>3. /\ Answer(running[k], item, no) \in AnswerTypes
        /\ Answer(running[k], item, no).change = running[k].id
        /\ Answer(running[k], item, no).request = running[k].request
        /\ Answer(running[k], item, no).success = no
    BY AnswerTyped
  <2> QED BY <2>1, <2>2, <2>3 DEF Failed
<1>3. \A k \in DOMAIN s : r[k] = Failed(s[k])
  OBVIOUS
<1>4. r \in [1 .. Len(s) -> AnswerTypes]
  BY <1>1, <1>2
<1>5. r \in Seq(AnswerTypes) /\ DOMAIN r = 1 .. Len(s)
  BY <1>1, <1>4, FunctionIsSeq
<1> QED BY <1>1, <1>2, <1>3, <1>5

LEMMA ChangerFailsStep ==
  ASSUME HistoryInv, ChangerFails
  PROVE  HistoryInv' /\ (LineInv => LineInv')
<1> DEFINE n == Len(running)
           all == [k \in DOMAIN running |-> Failed(k)]
<1>1. /\ running \in Seq(RunningTypes) /\ answers \in Seq(AnswerTypes) /\ ChangesInv /\ StoreTypeOK
  BY DEF HistoryInv, Types, ChangerTypeOK
<1>2. n \in Nat /\ DOMAIN running = 1 .. n
  BY <1>1, SeqFacts
<1>3. PICK F \in SUBSET DOMAIN running :
        LET byHand == SetToSeq({k \in F : running[k].request.kind = "delete"})
            first  == answers \o [k \in DOMAIN byHand |-> Failed(byHand[k])]
        IN  answers' = first \o all \/ answers' = first
  BY DEF ChangerFails
<1> DEFINE T     == {k \in F : running[k].request.kind = "delete"}
           twice == SetToSeq(T)
           again == [k \in DOMAIN twice |-> Failed(twice[k])]
           rest  == again \o all
<1>4. answers' = (answers \o again) \o all \/ answers' = answers \o again
  BY <1>3
<1>5. /\ running' = <<>>
      /\ UNCHANGED <<stacks, op, entries, latestChange, crashed, server, user>>
  BY DEF ChangerFails
<1>6. twice \in Seq(T)
  <2>1. IsFiniteSet(1 .. n)
    BY <1>2, FS_Interval
  <2>2. T \subseteq 1 .. n
    BY <1>2
  <2> HIDE DEF T
  <2>3. IsFiniteSet(T)
    BY <2>1, <2>2, FS_Subset
  <2> QED BY <2>3, OrderOfSet
<1>7. T \subseteq DOMAIN running /\ \A k \in T : running[k].request.kind = "delete"
  OBVIOUS
<1> HIDE DEF T, twice
<1>8. twice \in Seq(DOMAIN running) /\ \A k \in DOMAIN twice : twice[k] \in T
  BY <1>6, <1>7, SeqFacts, FunctionIsSeq
<1> DEFINE From(x) == /\ x \in AnswerTypes /\ ~x.success
                      /\ \E k \in DOMAIN running : x.change = running[k].id /\ x.request = running[k].request
<1>10. /\ all \in Seq(AnswerTypes) /\ DOMAIN all = 1 .. n /\ Len(all) = n
       /\ \A k \in 1 .. n : From(all[k]) /\ all[k].change = running[k].id /\ all[k].request = running[k].request
  <2> DEFINE s == [k \in 1 .. n |-> k]
  <2>1. /\ s \in [1 .. n -> DOMAIN running] /\ DOMAIN s = 1 .. n /\ \A k \in 1 .. n : s[k] = k
        /\ all = [k \in DOMAIN s |-> Failed(s[k])]
    BY <1>2
  <2> HIDE DEF s, all, n
  <2>2. s \in Seq(DOMAIN running)
    BY <1>2, <2>1, FunctionIsSeq
  <2>5. /\ all \in Seq(AnswerTypes) /\ DOMAIN all = DOMAIN s
        /\ \A k \in DOMAIN s : /\ s[k] \in DOMAIN running /\ all[k] \in AnswerTypes /\ ~all[k].success
                                /\ all[k].change = running[s[k]].id /\ all[k].request = running[s[k]].request
    <3>1. PICK r : r = all
      OBVIOUS
    <3>2. r = [k \in DOMAIN s |-> Failed(s[k])]
      BY <2>1, <3>1
    <3> QED BY <2>2, <3>1, <3>2, FailedAnswers
  <2>3. /\ all \in Seq(AnswerTypes) /\ DOMAIN all = 1 .. n
        /\ \A k \in 1 .. n : /\ k \in DOMAIN running /\ all[k] \in AnswerTypes /\ ~all[k].success
                              /\ all[k].change = running[k].id /\ all[k].request = running[k].request
    BY <2>1, <2>5
  <2>4. Len(all) = n
    BY <1>2, <2>3, SeqFacts
  <2> QED BY <2>3, <2>4
<1>11. /\ again \in Seq(AnswerTypes)
       /\ \A k \in DOMAIN again : From(again[k]) /\ again[k].request.kind = "delete"
  <2> HIDE DEF again
  <2>1. /\ again \in Seq(AnswerTypes) /\ DOMAIN again = DOMAIN twice
        /\ \A k \in DOMAIN twice : /\ twice[k] \in DOMAIN running /\ again[k] \in AnswerTypes /\ ~again[k].success
                                  /\ again[k].change = running[twice[k]].id
                                  /\ again[k].request = running[twice[k]].request
    BY <1>8, FailedAnswers DEF again
  <2> QED BY <1>7, <1>8, <2>1
<1> HIDE DEF all, again
<1>12. answers' = answers \o rest \/ answers' = answers \o again
  <2>1. answers \in Seq(AnswerTypes) /\ again \in Seq(AnswerTypes) /\ all \in Seq(AnswerTypes)
    BY <1>1, <1>10, <1>11
  <2> HIDE DEF n, From
  <2>2. (answers \o again) \o all = answers \o (again \o all)
    BY <2>1, ConcatAssociative
  <2> QED BY <1>4, <2>2
<1>13. /\ rest \in Seq(AnswerTypes) /\ Len(rest) = Len(again) + n
       /\ \A i \in 1 .. Len(again) + n : rest[i] = IF i <= Len(again) THEN again[i] ELSE all[i - Len(again)]
  <2>1. again \in Seq(AnswerTypes) /\ all \in Seq(AnswerTypes) /\ Len(all) = n
    BY <1>10, <1>11
  <2> HIDE DEF n, From
  <2> QED BY <2>1, ConcatProperties
<1>14. Len(again) \in Nat /\ DOMAIN again = 1 .. Len(again) /\ DOMAIN rest = 1 .. Len(again) + n
  BY <1>11, <1>13, SeqFacts
<1> HIDE DEF rest
<1>15. \A i \in DOMAIN rest :
         \/ i \in DOMAIN again /\ rest[i] = again[i]
         \/ i - Len(again) \in 1 .. n /\ rest[i] = all[i - Len(again)]
  BY <1>2, <1>13, <1>14
<1>16. \A i \in DOMAIN rest : From(rest[i])
  <2> HIDE DEF From
  <2> QED BY <1>10, <1>11, <1>15
<1>17. ASSUME NEW i \in DOMAIN rest, NEW j \in DOMAIN rest, rest[i].change = rest[j].change, i # j
       PROVE  rest[i].request.kind = "delete"
  <2>1. rest[i].request = rest[j].request
    <3>1. PICK k \in DOMAIN running : rest[i].change = running[k].id /\ rest[i].request = running[k].request
      BY <1>16
    <3>2. PICK m \in DOMAIN running : rest[j].change = running[m].id /\ rest[j].request = running[m].request
      BY <1>16
    <3> QED BY <1>1, <1>17, <3>1, <3>2 DEF ChangesInv
  <2>2. CASE i \in DOMAIN again /\ rest[i] = again[i]
    BY <1>11, <2>2
  <2>3. CASE j \in DOMAIN again /\ rest[j] = again[j]
    BY <1>11, <2>1, <2>3
  <2>4. CASE /\ i - Len(again) \in 1 .. n /\ rest[i] = all[i - Len(again)]
             /\ j - Len(again) \in 1 .. n /\ rest[j] = all[j - Len(again)]
    <3>1. i - Len(again) # j - Len(again)
      BY <1>14, <1>17
    <3>2. running[i - Len(again)].id = running[j - Len(again)].id
      BY <1>10, <1>17, <2>4
    <3> QED BY <1>1, <1>2, <2>4, <3>1, <3>2 DEF ChangesInv
  <2> QED BY <1>15, <2>2, <2>3, <2>4
<1>18. StoreTypeOK'
  BY <1>1, <1>5 DEF StoreTypeOK, server
<1>19. running # <<>>
  BY DEF ChangerFails
<1>20. crashed' \in BOOLEAN /\ (crashed => crashed')
  BY <1>5 DEF HistoryInv, Types, StacksTypeOK
<1>21. CASE answers' = answers \o rest
  BY <1>5, <1>13, <1>16, <1>17, <1>18, <1>19, <1>20, <1>21, ChangesAnswered
<1>22. CASE answers' = answers \o again
  BY <1>5, <1>11, <1>18, <1>19, <1>20, <1>22, ChangesAnswered
<1> QED BY <1>12, <1>21, <1>22

LEMMA ChangerRefusesStep ==
  ASSUME HistoryInv, ~crashed, ChangerRefuses
  PROVE  HistoryInv' /\ (LineInv => LineInv')
<1>1. /\ running \in Seq(RunningTypes) /\ answers \in Seq(AnswerTypes) /\ ChangesInv /\ StoreTypeOK
      /\ crashed \in BOOLEAN
  BY DEF HistoryInv, Types, ChangerTypeOK, StacksTypeOK
<1>2. PICK again, told :
        /\ told = SetToSeq(DOMAIN running \ again)
        /\ answers' = answers \o [k \in DOMAIN told |-> Failed(told[k])]
        /\ crashed' \in {FALSE, again # {}}
  BY DEF ChangerRefuses
<1>3. /\ running # <<>> /\ running' = <<>>
      /\ UNCHANGED <<stacks, op, entries, latestChange, server, user>>
  BY DEF ChangerRefuses
<1> DEFINE S == DOMAIN running \ again
           rest == [k \in DOMAIN told |-> Failed(told[k])]
<1>4. told \in Seq(DOMAIN running) /\ IsInjective(told)
  <2>1. Len(running) \in Nat /\ DOMAIN running = 1 .. Len(running)
    BY <1>1, SeqFacts
  <2>2. IsFiniteSet(DOMAIN running)
    BY <2>1, FS_Interval
  <2>4. S \subseteq DOMAIN running /\ told = SetToSeq(S)
    BY <1>2
  <2> HIDE DEF S
  <2>5. IsFiniteSet(S)
    BY <2>2, <2>4, FS_Subset
  <2>3. told \in Seq(S) /\ IsInjective(told)
    BY <2>4, <2>5, OrderOfSet
  <2> QED BY <2>3, <2>4, SeqFacts, FunctionIsSeq
<1> HIDE DEF rest
<1>5. /\ rest \in Seq(AnswerTypes) /\ DOMAIN rest = DOMAIN told
      /\ \A k \in DOMAIN told : /\ told[k] \in DOMAIN running /\ ~rest[k].success
                               /\ rest[k].change = running[told[k]].id
                               /\ rest[k].request = running[told[k]].request
  BY <1>4, FailedAnswers DEF rest
<1>6. ASSUME NEW i \in DOMAIN rest, NEW j \in DOMAIN rest, rest[i].change = rest[j].change
      PROVE  i = j
  BY <1>1, <1>4, <1>5, <1>6 DEF ChangesInv, IsInjective
<1>7. StoreTypeOK'
  BY <1>1, <1>3 DEF StoreTypeOK, server
<1>8. answers' = answers \o rest
  BY <1>2 DEF rest
<1>9. crashed' \in BOOLEAN /\ (crashed => crashed')
  BY <1>1, <1>2
<1> QED BY <1>3, <1>5, <1>6, <1>7, <1>8, <1>9, ChangesAnswered

-----------------------------------------------------------------------------
(* undo(), redo(), undoAll(), clear().                                     *)

LEMMA FrontFacts ==
  ASSUME NEW S, NEW s \in Seq(S), s # <<>>
  PROVE  /\ Front(s) \in Seq(S) /\ DOMAIN Front(s) = 1 .. Len(s) - 1
         /\ Len(s) \in Nat /\ Len(s) >= 1 /\ DOMAIN s = 1 .. Len(s)
         /\ \A k \in DOMAIN Front(s) : Front(s)[k] = s[k] /\ k \in DOMAIN s /\ k < Len(s)
         /\ Last(s) \in S /\ Last(s) = s[Len(s)] /\ Len(s) \in DOMAIN s
<1>1. Len(s) \in Nat /\ Len(s) # 0 /\ DOMAIN s = 1 .. Len(s) /\ \A k \in 1 .. Len(s) : s[k] \in S
  BY EmptySeq, SeqFacts
<1>2. /\ Front(s) \in Seq(S) /\ Len(Front(s)) = Len(s) - 1
      /\ \A k \in 1 .. Len(s) - 1 : Front(s)[k] = s[k]
  <2> DEFINE m == Len(s) - 1
  <2>1. m \in Int /\ m >= 0 /\ 1 \in Int /\ \A i \in 1 .. m : s[i] \in S
    BY <1>1
  <2>2. Front(s) = SubSeq(s, 1, m)
    BY DEF Front
  <2> HIDE DEF m
  <2>3. /\ SubSeq(s, 1, m) \in Seq(S)
        /\ Len(SubSeq(s, 1, m)) = IF 1 <= m THEN m - 1 + 1 ELSE 0
        /\ \A i \in 1 .. m - 1 + 1 : SubSeq(s, 1, m)[i] = s[1 + i - 1]
    BY <2>1, SubSeqProperties
  <2>4. Len(SubSeq(s, 1, m)) = m
    BY <2>1, <2>3
  <2>5. \A i \in 1 .. m : SubSeq(s, 1, m)[i] = s[i]
    <3> SUFFICES ASSUME NEW i \in 1 .. m PROVE SubSeq(s, 1, m)[i] = s[i]
      OBVIOUS
    <3>1. i \in 1 .. m - 1 + 1 /\ 1 + i - 1 = i
      BY <2>1
    <3> QED BY <2>3, <3>1
  <2> QED BY <2>2, <2>3, <2>4, <2>5 DEF m
<1>3. DOMAIN Front(s) = 1 .. Len(s) - 1
  BY <1>2, SeqFacts
<1> QED BY <1>1, <1>2, <1>3 DEF Last

LEMMA ClearStep ==
  ASSUME HistoryInv, Clear
  PROVE  HistoryInv' /\ (LineInv => LineInv')
<1>1. /\ mUndoStack' = <<>> /\ mRedoStack' = <<>> /\ mQueuedEntries' = <<>>
      /\ mOperationTypeInProgress' = mOperationTypeInProgress /\ mEntryInProgress' = mEntryInProgress
      /\ mUndoAllInProgress' = mUndoAllInProgress /\ entries' = entries /\ latestChange' = latestChange
      /\ running' = running /\ answers' = answers /\ crashed' = crashed
      /\ store' = store /\ latestId' = latestId /\ latestPayload' = latestPayload
      /\ patient' = patient /\ unrecorded' = unrecorded /\ batch' = batch
      /\ mOperationTypeInProgress = "none"
      /\ DOMAIN <<>> = {}
  BY DEF Clear, Callable, op, changer, server, user
<1>2. Types'
  <2>1. UserTypeOK' /\ EntriesTypeOK' /\ ChangerTypeOK' /\ StoreTypeOK'
    BY <1>1 DEF HistoryInv, Types, UserTypeOK, EntriesTypeOK, ChangerTypeOK, StoreTypeOK
  <2>2. StacksTypeOK'
    BY <1>1, EmptySeq DEF HistoryInv, Types, StacksTypeOK
  <2> QED BY <2>1, <2>2 DEF Types
<1>3. Family' /\ ChangesInv' /\ BatchInv' /\ AsksOnce'
  BY <1>1 DEF HistoryInv, Family, Constructed, ChangesInv, BatchInv, OpenBatches, AsksOnce, Restores
<1>4. Stacked'
  BY <1>1 DEF HistoryInv, Stacked, IsRoot
<1>5. \A l \in Entries : Awaited(l)' = Awaited(l)
  BY <1>1 DEF Awaited
<1>6. CountsAwaited' /\ \A r \in Entries : Settled(r) => Settled(r)'
  BY <1>1, <1>5, ShrinkKeeps
<1>7. LineInv => LineInv'
  BY <1>1, <1>6 DEF LineInv, OthersAreSettled, InProgress, InOrder, Rising
<1> QED BY <1>2, <1>3, <1>4, <1>6, <1>7 DEF HistoryInv

LEMMA StackTyped ==
  ASSUME HistoryInv, NEW type \in {"undo", "redo"}, Stack(type) # <<>>
  PROVE  /\ Stack(type) \in Seq(Entries)
         /\ Last(Stack(type)) \in Entries /\ IsRoot(Last(Stack(type)))
<1>1. mUndoStack \in Seq(Entries) /\ mRedoStack \in Seq(Entries) /\ Stacked
  BY DEF HistoryInv, Types, StacksTypeOK
<1>2. Stack(type) \in Seq(Entries) /\ \A k \in DOMAIN Stack(type) : IsRoot(Stack(type)[k])
  BY <1>1 DEF Stack, Stacked
<1> QED BY <1>2, FrontFacts

\* doIt() begins the operation of the entry on top: what it does to the entries.
\* An entry that waits for the changes ids.
AsksFor(v, ids, n) == [v EXCEPT !.changeIds = ids, !.failed = FALSE, !.count = n]

LEMMA EntryAsked ==
  ASSUME NEW v \in EntryTypes, NEW ids \in SUBSET Nat, NEW n \in Nat
  PROVE  LET w == AsksFor(v, ids, n)
         IN  /\ w \in EntryTypes /\ w.changeIds = ids /\ w.count = n
             /\ w.kind = v.kind /\ w.items = v.items /\ w.original = v.original
             /\ w.children = v.children /\ w.batch = v.batch /\ w.parent = v.parent
BY DEF EntryTypes, AsksFor

\* A MultiEntry that has counted none of its children yet.
Recounts(v) == [v EXCEPT !.count = 0]

LEMMA EntryRecounts ==
  ASSUME NEW v \in EntryTypes
  PROVE  LET w == Recounts(v)
         IN  /\ w \in EntryTypes /\ w.changeIds = v.changeIds
             /\ w.kind = v.kind /\ w.items = v.items /\ w.original = v.original
             /\ w.children = v.children /\ w.batch = v.batch /\ w.parent = v.parent
BY DEF EntryTypes, Recounts

LEMMA StartedFacts ==
  ASSUME HistoryInv, NEW type \in {"undo", "redo"}, Stack(type) # <<>>, DoIt(type),
         NEW e \in Entries, e = Last(Stack(type)), NEW asked, asked = AllRequests(e, type)
  PROVE  /\ IsRoot(e) /\ asked \in Seq(AskedOf(e, type)) /\ Len(asked) \in Nat
         /\ latestChange' = latestChange + Len(asked) /\ latestChange' \in 0 .. MaxChanges
         /\ \A x \in Entries :
              /\ entries'[x] \in EntryTypes
              /\ entries'[x].kind = entries[x].kind /\ entries'[x].items = entries[x].items
              /\ entries'[x].original = entries[x].original /\ entries'[x].children = entries[x].children
              /\ entries'[x].batch = entries[x].batch /\ entries'[x].parent = entries[x].parent
              /\ x \in ToSet(Leaves(e, type)) =>
                   /\ x \in LeavesOf(e)
                   /\ entries'[x].changeIds = {latestChange + k : k \in {n \in DOMAIN asked : asked[n].entry = x}}
                   /\ entries'[x].changeIds \subseteq latestChange + 1 .. latestChange'
                   /\ IsFiniteSet(entries'[x].changeIds)
                   /\ entries'[x].count = Cardinality(entries'[x].changeIds)
              /\ x \notin ToSet(Leaves(e, type)) =>
                   /\ entries'[x].changeIds = entries[x].changeIds
                   /\ x # e => entries'[x].count = entries[x].count
         /\ entries' \in [Entries -> EntryTypes]
         /\ running' \in Seq(RunningTypes) /\ DOMAIN running' = DOMAIN asked
         /\ \A k \in DOMAIN asked :
              running'[k].request = asked[k] /\ running'[k].id = latestChange + k
<1> DEFINE leaves == ToSet(Leaves(e, type))
           idsOf(l) == {latestChange + k : k \in {n \in DOMAIN asked : asked[n].entry = l}}
<1>1. EntriesTypeOK /\ Family /\ latestChange \in 0 .. MaxChanges /\ latestChange \in Nat /\ IsRoot(e)
  BY StackTyped DEF HistoryInv, Types, ChangerTypeOK
<1>2. asked \in Seq(AskedOf(e, type))
  BY <1>1, AskedTyped
<1>3. /\ Len(asked) \in Nat /\ DOMAIN asked = 1 .. Len(asked)
      /\ \A k \in DOMAIN asked : asked[k] \in AskedOf(e, type)
  BY <1>2, SeqFacts
<1>4. /\ latestChange + Len(asked) <= MaxChanges
      /\ latestChange' = latestChange + Len(asked)
      /\ running' = [k \in DOMAIN asked |-> [request |-> asked[k], id |-> latestChange + k]]
      /\ entries' = Started(e, type, asked)
  BY DEF DoIt
<1>5. latestChange' \in 0 .. MaxChanges
  BY <1>1, <1>3, <1>4, BoundsAreNumbers
<1>6. leaves \subseteq LeavesOf(e)
  <2>1. Leaves(e, type) \in Seq(LeavesOf(e))
    BY <1>1, LeavesTyped
  <2> QED BY <2>1, SeqFacts DEF ToSet
<1>7. ASSUME NEW l \in Entries
      PROVE  /\ idsOf(l) \subseteq latestChange + 1 .. latestChange' /\ idsOf(l) \in SUBSET Nat
             /\ IsFiniteSet(idsOf(l)) /\ Cardinality(idsOf(l)) \in Nat
  <2>1. idsOf(l) \subseteq latestChange + 1 .. latestChange' /\ idsOf(l) \in SUBSET Nat
    BY <1>1, <1>3, <1>4
  <2>2. IsFiniteSet(latestChange + 1 .. latestChange')
    BY <1>1, <1>3, <1>4, FS_Interval
  <2> HIDE DEF idsOf
  <2>3. IsFiniteSet(idsOf(l))
    BY <2>1, <2>2, FS_Subset
  <2> QED BY <2>1, <2>3, FS_CardinalityType
<1>8. entries' = [x \in Entries |->
                    IF x \in leaves
                    THEN [entries[x] EXCEPT !.changeIds = idsOf(x), !.failed = FALSE,
                                            !.count = Cardinality(idsOf(x))]
                    ELSE IF x = e THEN [entries[x] EXCEPT !.count = 0] ELSE entries[x]]
  BY <1>4 DEF Started
<1> HIDE DEF leaves, idsOf
<1>9. ASSUME NEW x \in Entries
      PROVE  /\ entries'[x] \in EntryTypes
             /\ entries'[x].kind = entries[x].kind /\ entries'[x].items = entries[x].items
             /\ entries'[x].original = entries[x].original /\ entries'[x].children = entries[x].children
             /\ entries'[x].batch = entries[x].batch /\ entries'[x].parent = entries[x].parent
             /\ x \in leaves => entries'[x].changeIds = idsOf(x) /\ entries'[x].count = Cardinality(idsOf(x))
             /\ x \notin leaves =>
                  /\ entries'[x].changeIds = entries[x].changeIds
                  /\ x # e => entries'[x].count = entries[x].count
  <2>1. entries[x] \in EntryTypes
    BY <1>1, EntriesTyped
  <2>2. PICK ids \in SUBSET Nat : ids = idsOf(x)
    BY <1>7
  <2>3. PICK n \in Nat : n = Cardinality(idsOf(x))
    BY <1>7
  <2>4. entries'[x] = IF x \in leaves THEN [entries[x] EXCEPT !.changeIds = ids, !.failed = FALSE, !.count = n]
                      ELSE IF x = e THEN [entries[x] EXCEPT !.count = 0] ELSE entries[x]
    BY <1>8, <2>2, <2>3
  <2>5. CASE x \in leaves
    <3>1. entries'[x] = AsksFor(entries[x], ids, n)
      BY <2>4, <2>5 DEF AsksFor
    <3> QED BY <2>1, <2>2, <2>3, <2>5, <3>1, EntryAsked
  <2>6. CASE x \notin leaves /\ x = e
    <3>1. entries'[x] = Recounts(entries[x])
      BY <2>4, <2>6 DEF Recounts
    <3> QED BY <2>1, <2>6, <3>1, EntryRecounts
  <2>7. CASE x \notin leaves /\ x # e
    <3>1. entries'[x] = entries[x]
      BY <2>4, <2>7
    <3> QED BY <2>1, <2>7, <3>1
  <2> QED BY <2>5, <2>6, <2>7
<1>10. entries' \in [Entries -> EntryTypes]
  BY <1>8, <1>9
<1>11. /\ running' \in Seq(RunningTypes) /\ DOMAIN running' = DOMAIN asked
       /\ \A k \in DOMAIN asked : running'[k].request = asked[k] /\ running'[k].id = latestChange + k
  <2>1. \A k \in DOMAIN asked : asked[k] \in RequestTypes
    BY <1>3 DEF AskedOf
  <2>2. running' \in [1 .. Len(asked) -> RunningTypes]
    BY <1>1, <1>3, <1>4, <2>1 DEF RunningTypes
  <2>3. running' \in Seq(RunningTypes)
    BY <1>3, <2>2, SeqDef
  <2> QED BY <1>4, <2>3
<1>12. \A x \in leaves : x \in LeavesOf(e)
  BY <1>6
<1>13. \A x \in Entries :
         /\ entries'[x] \in EntryTypes
         /\ entries'[x].kind = entries[x].kind /\ entries'[x].items = entries[x].items
         /\ entries'[x].original = entries[x].original /\ entries'[x].children = entries[x].children
         /\ entries'[x].batch = entries[x].batch /\ entries'[x].parent = entries[x].parent
         /\ x \in leaves =>
              /\ x \in LeavesOf(e)
              /\ entries'[x].changeIds = idsOf(x)
              /\ entries'[x].changeIds \subseteq latestChange + 1 .. latestChange'
              /\ IsFiniteSet(entries'[x].changeIds)
              /\ entries'[x].count = Cardinality(entries'[x].changeIds)
         /\ x \notin leaves =>
              /\ entries'[x].changeIds = entries[x].changeIds
              /\ x # e => entries'[x].count = entries[x].count
  <2> TAKE x \in Entries
  <2>1. x \in leaves =>
          /\ x \in LeavesOf(e)
          /\ entries'[x].changeIds = idsOf(x)
          /\ entries'[x].changeIds \subseteq latestChange + 1 .. latestChange'
          /\ IsFiniteSet(entries'[x].changeIds)
          /\ entries'[x].count = Cardinality(entries'[x].changeIds)
    BY <1>7, <1>9, <1>12
  <2> QED BY <1>9, <2>1
<1>14. IsRoot(e) /\ asked \in Seq(AskedOf(e, type)) /\ Len(asked) \in Nat
  BY <1>1, <1>2, <1>3
<1>15. leaves = ToSet(Leaves(e, type))
       /\ \A x \in Entries : idsOf(x) = {latestChange + k : k \in {n \in DOMAIN asked : asked[n].entry = x}}
  BY DEF leaves, idsOf
<1>16. \A x \in Entries :
         /\ x \in ToSet(Leaves(e, type)) =>
              /\ x \in LeavesOf(e)
              /\ entries'[x].changeIds = {latestChange + k : k \in {n \in DOMAIN asked : asked[n].entry = x}}
              /\ entries'[x].changeIds \subseteq latestChange + 1 .. latestChange'
              /\ IsFiniteSet(entries'[x].changeIds)
              /\ entries'[x].count = Cardinality(entries'[x].changeIds)
         /\ x \notin ToSet(Leaves(e, type)) =>
              /\ entries'[x].changeIds = entries[x].changeIds
              /\ x # e => entries'[x].count = entries[x].count
  <2> TAKE x \in Entries
  <2>1. idsOf(x) = {latestChange + k : k \in {n \in DOMAIN asked : asked[n].entry = x}}
    BY <1>15
  <2>2. x \in leaves <=> x \in ToSet(Leaves(e, type))
    BY <1>15
  <2> QED BY <1>13, <2>1, <2>2
<1>17. \A x \in Entries :
         /\ entries'[x] \in EntryTypes
         /\ entries'[x].kind = entries[x].kind /\ entries'[x].items = entries[x].items
         /\ entries'[x].original = entries[x].original /\ entries'[x].children = entries[x].children
         /\ entries'[x].batch = entries[x].batch /\ entries'[x].parent = entries[x].parent
  BY <1>13
<1> QED BY <1>4, <1>5, <1>10, <1>11, <1>14, <1>16, <1>17

LEMMA DoItStep ==
  ASSUME HistoryInv, Callable, ~crashed, NEW type \in {"undo", "redo"}, Stack(type) # <<>>, DoIt(type),
         UNCHANGED <<answers, crashed, server, user>>, mUndoAllInProgress' \in BOOLEAN
  PROVE  HistoryInv' /\ (LineInv => LineInv')
<1>1. PICK e \in Entries : e = Last(Stack(type))
  BY StackTyped
<1>2. PICK asked : asked = AllRequests(e, type)
  OBVIOUS
<1>3. PICK leaves : leaves = ToSet(Leaves(e, type))
  OBVIOUS
<1>4. /\ Types /\ Family /\ Stacked /\ ChangesInv /\ CountsAwaited /\ AsksOnce /\ BatchInv
      /\ UserTypeOK /\ EntriesTypeOK /\ StacksTypeOK /\ ChangerTypeOK /\ StoreTypeOK
      /\ mOperationTypeInProgress = "none" /\ ~batch.open
      /\ \A k \in DOMAIN unrecorded : unrecorded[k].atomicOperationId = 0
  BY DEF HistoryInv, Types, Callable
<1>5. /\ answers' = answers /\ crashed' = crashed /\ store' = store /\ latestId' = latestId
      /\ latestPayload' = latestPayload /\ patient' = patient /\ unrecorded' = unrecorded /\ batch' = batch
  BY DEF server, user
<1>6. /\ mOperationTypeInProgress' = type /\ mEntryInProgress' = e
      /\ mQueuedEntries' = mQueuedEntries
      /\ \/ /\ type = "undo" /\ mUndoStack # <<>> /\ e = Last(mUndoStack)
            /\ mUndoStack' = Front(mUndoStack) /\ mRedoStack' = mRedoStack
         \/ /\ type = "redo" /\ mRedoStack # <<>> /\ e = Last(mRedoStack)
            /\ mRedoStack' = Front(mRedoStack) /\ mUndoStack' = mUndoStack
  BY <1>1 DEF DoIt, Stack
<1>7. /\ IsRoot(e) /\ asked \in Seq(AskedOf(e, type)) /\ Len(asked) \in Nat
      /\ latestChange' = latestChange + Len(asked) /\ latestChange' \in 0 .. MaxChanges
      /\ entries' \in [Entries -> EntryTypes]
      /\ running' \in Seq(RunningTypes) /\ DOMAIN running' = DOMAIN asked
      /\ \A k \in DOMAIN asked : running'[k].request = asked[k] /\ running'[k].id = latestChange + k
  BY <1>1, <1>2, StartedFacts
<1>8. \A x \in Entries :
        /\ entries'[x] \in EntryTypes
        /\ entries'[x].kind = entries[x].kind /\ entries'[x].items = entries[x].items
        /\ entries'[x].original = entries[x].original /\ entries'[x].children = entries[x].children
        /\ entries'[x].batch = entries[x].batch /\ entries'[x].parent = entries[x].parent
  BY <1>1, <1>2, StartedFacts
<1>9. \A x \in Entries :
        /\ x \in leaves =>
             /\ x \in LeavesOf(e)
             /\ entries'[x].changeIds = {latestChange + k : k \in {n \in DOMAIN asked : asked[n].entry = x}}
             /\ entries'[x].changeIds \subseteq latestChange + 1 .. latestChange'
             /\ IsFiniteSet(entries'[x].changeIds)
             /\ entries'[x].count = Cardinality(entries'[x].changeIds)
        /\ x \notin leaves =>
             /\ entries'[x].changeIds = entries[x].changeIds
             /\ x # e => entries'[x].count = entries[x].count
  BY <1>1, <1>2, <1>3, StartedFacts
<1>10. /\ DOMAIN asked = 1 .. Len(asked)
       /\ \A k \in DOMAIN asked : Sound(asked[k]) /\ asked[k].entry \in leaves
  <2>1. DOMAIN asked = 1 .. Len(asked) /\ \A k \in DOMAIN asked : asked[k] \in AskedOf(e, type)
    BY <1>7, SeqFacts
  <2> QED BY <1>3, <2>1 DEF AskedOf
<1>11. latestChange \in Nat /\ latestChange <= latestChange' /\ latestChange' \in Nat
  BY <1>4, <1>7 DEF ChangerTypeOK
<1>12. /\ \A x \in leaves : x \in Entries /\ entries[x].kind \in Kinds /\ Root(x) = e
       /\ entries[e].kind # "multi" => e \in leaves /\ asked = Requests(e, type)
  <2>1. Leaves(e, type) \in Seq(LeavesOf(e)) /\ (entries[e].kind # "multi" => Leaves(e, type) = <<e>>)
    BY <1>4, <1>7, LeavesTyped
  <2>2. entries[e].kind # "multi" => asked = Requests(e, type)
    BY <1>2, <1>4, <1>7, AskedTyped
  <2>3. \A x \in leaves : x \in LeavesOf(e)
    BY <1>3, <2>1, SeqFacts DEF ToSet
  <2>4. entries[e].kind # "multi" => e \in leaves
    BY <1>3, <2>1 DEF ToSet
  <2> QED BY <2>2, <2>3, <2>4 DEF LeavesOf
<1>13. /\ mUndoStack' \in Seq(Entries) /\ mRedoStack' \in Seq(Entries)
       /\ \A k \in DOMAIN mUndoStack' : k \in DOMAIN mUndoStack /\ mUndoStack'[k] = mUndoStack[k]
       /\ \A k \in DOMAIN mRedoStack' : k \in DOMAIN mRedoStack /\ mRedoStack'[k] = mRedoStack[k]
  BY <1>4, <1>6, FrontFacts DEF StacksTypeOK
<1>14. Types'
  <2>1. EntriesTypeOK'
    <3>1. ASSUME NEW x \in Entries
          PROVE  entries'[x].changeIds \subseteq 1 .. latestChange' /\ HasOneItem(entries'[x])
      <4>1. entries[x].changeIds \subseteq 1 .. latestChange /\ HasOneItem(entries[x])
        BY <1>4 DEF EntriesTypeOK
      <4>2. entries'[x].changeIds \subseteq 1 .. latestChange'
        BY <1>9, <1>11, <4>1
      <4> QED BY <1>8, <4>1, <4>2 DEF HasOneItem
    <3> QED BY <1>7, <3>1 DEF EntriesTypeOK
  <2>2. StacksTypeOK'
    BY <1>4, <1>5, <1>6, <1>13 DEF StacksTypeOK
  <2>3. ChangerTypeOK'
    BY <1>4, <1>5, <1>7, <1>10 DEF ChangerTypeOK
  <2>4. UserTypeOK' /\ StoreTypeOK'
    BY <1>4, <1>5 DEF UserTypeOK, StoreTypeOK
  <2> QED BY <2>1, <2>2, <2>3, <2>4 DEF Types
<1>15. Family'
  <2>1. Constructed' = Constructed
    BY <1>8 DEF Constructed
  <2>2. \A x \in Entries : entries[x].kind \in {"none", "multi"} => entries'[x].changeIds = entries[x].changeIds
    BY <1>9, <1>12 DEF Kinds
  <2>3. \A x \in Entries : entries[x].parent # 0 => entries[x].parent \in Entries
    BY <1>4, EntriesTyped, EntryFields
  <2>4. \A x \in Entries : \A k \in DOMAIN entries[x].children : entries[x].children[k] \in Entries
    BY <1>4, EntriesTyped, EntryFields, SeqFacts
  <2>5. \A x \in Entries :
          /\ entries'[x].parent # 0 => entries'[entries'[x].parent].kind = "multi"
          /\ \A k \in DOMAIN entries'[x].children :
               entries'[entries'[x].children[k]].parent = x /\ entries'[entries'[x].children[k]].kind \in Kinds
    BY <1>4, <1>8, <2>3, <2>4 DEF Family
  <2>6. \A x \in Entries :
       /\ entries'[x].kind = "none" =>
            entries'[x].children = <<>> /\ entries'[x].parent = 0 /\ entries'[x].changeIds = {}
       /\ entries'[x].kind # "multi" => entries'[x].children = <<>>
       /\ entries'[x].kind = "multi" => entries'[x].parent = 0 /\ entries'[x].changeIds = {}
    BY <1>4, <1>8, <2>2 DEF Family
  <2> QED BY <1>4, <2>1, <2>5, <2>6 DEF Family
<1>16. Stacked'
  <2>1. \A x \in Entries : IsRoot(x) => IsRoot(x)'
    BY <1>8 DEF IsRoot
  <2>2. /\ \A k \in DOMAIN mUndoStack : mUndoStack[k] \in Entries /\ IsRoot(mUndoStack[k])
        /\ \A k \in DOMAIN mRedoStack : mRedoStack[k] \in Entries /\ IsRoot(mRedoStack[k])
        /\ \A k \in DOMAIN mQueuedEntries : mQueuedEntries[k] \in Entries /\ IsRoot(mQueuedEntries[k])
    BY <1>4, SeqFacts DEF StacksTypeOK, Stacked
  <2>3. IsRoot(e)'
    BY <1>7, <2>1
  <2>4. IsRoot(mEntryInProgress)' /\ mEntryInProgress' # 0
    BY <1>6, <2>3, BoundsAreNumbers DEF IsRoot
  <2> QED BY <1>6, <1>13, <2>1, <2>2, <2>4 DEF Stacked
<1>17. ChangesInv'
  <2>1. \A j \in DOMAIN answers : answers[j].change \in 1 .. latestChange
    BY <1>4 DEF ChangesInv
  <2>2. \A k \in DOMAIN running' : running'[k].id = latestChange + k /\ k \in 1 .. Len(asked)
    BY <1>7, <1>10
  <2>3. /\ \A k, m \in DOMAIN running' : running'[k].id = running'[m].id => k = m
        /\ \A k \in DOMAIN running' : running'[k].id \in 1 .. latestChange'
        /\ \A j \in DOMAIN answers, k \in DOMAIN running' : answers[j].change # running'[k].id
        /\ \A j \in DOMAIN answers : answers[j].change \in 1 .. latestChange'
    BY <1>7, <1>11, <2>1, <2>2
  <2> QED BY <1>4, <1>5, <2>3 DEF ChangesInv
<1>18. /\ \A l \in leaves : Awaited(l)' \subseteq entries'[l].changeIds
       /\ \A l \in Entries : l \notin leaves => Awaited(l)' \subseteq Awaited(l)
  <2>1. \A k \in DOMAIN running' : running'[k].request.entry \in leaves
    BY <1>7, <1>10
  <2> QED BY <1>5, <1>9, <2>1 DEF Awaited
<1>19. \A l \in Entries : l \notin leaves /\ entries[l].kind \in Kinds => l # e /\ entries'[l].count = entries[l].count
  BY <1>9, <1>12 DEF Kinds
<1>20. CountsAwaited'
  <2> SUFFICES ASSUME NEW l \in Entries, entries'[l].kind \in Kinds
               PROVE  IsFiniteSet(Awaited(l)') /\ Cardinality(Awaited(l)') <= entries'[l].count
    BY DEF CountsAwaited
  <2>1. CASE l \in leaves
    BY <1>9, <1>18, <2>1, FS_Subset
  <2>2. CASE l \notin leaves
    <3>1. /\ IsFiniteSet(Awaited(l)) /\ Cardinality(Awaited(l)) <= entries[l].count
          /\ entries'[l].count = entries[l].count /\ Awaited(l)' \subseteq Awaited(l)
      BY <1>4, <1>8, <1>18, <1>19, <2>2 DEF CountsAwaited
    <3>2. IsFiniteSet(Awaited(l)') /\ Cardinality(Awaited(l)') <= Cardinality(Awaited(l))
      BY <3>1, FS_Subset
    <3>3. Cardinality(Awaited(l)) \in Nat /\ Cardinality(Awaited(l)') \in Nat /\ entries[l].count \in Nat
      <4>1. entries[l].count \in Nat
        BY <1>4, EntriesTyped, EntryFields
      <4> QED BY <3>1, <3>2, <4>1, FS_CardinalityType
    <3> QED BY <3>1, <3>2, <3>3
  <2> QED BY <2>1, <2>2
<1>21. AsksOnce'
  <2> SUFFICES ASSUME NEW l \in Entries, entries'[l].parent = 0
               PROVE  /\ \A k \in DOMAIN running' :
                           running'[k].request.entry = l /\ running'[k].id \in entries'[l].changeIds
                           /\ ~(entries'[l].kind = "delete" /\ running'[k].request.kind = "create")
                           => entries'[l].changeIds = {running'[k].id}
                      /\ \A j \in DOMAIN answers :
                           answers[j].request.entry = l /\ answers[j].change \in entries'[l].changeIds
                           /\ ~(entries'[l].kind = "delete" /\ answers[j].request.kind = "create")
                           => entries'[l].changeIds = {answers[j].change}
    BY <1>5 DEF AsksOnce, Restores
  <2>1. entries[l].parent = 0
    BY <1>8
  <2>2. ASSUME NEW k \in DOMAIN running', running'[k].request.entry = l,
               ~(entries'[l].kind = "delete" /\ running'[k].request.kind = "create")
        PROVE  entries'[l].changeIds = {running'[k].id}
    <3>1. k \in DOMAIN asked /\ asked[k].entry = l /\ running'[k].request = asked[k] /\ running'[k].id = latestChange + k
      BY <1>7, <2>2
    <3>2. l = e /\ l \in leaves /\ entries[e].kind \in Kinds
      BY <1>10, <1>12, <2>1, <3>1 DEF Root
    <3>3. asked = Requests(e, type)
      BY <1>12, <3>2 DEF Kinds
    <3>4. Len(asked) = 1 \/ (entries[e].kind = "delete" /\ \A n \in DOMAIN asked : asked[n].kind = "create")
      BY <1>4, <3>2, <3>3, RequestsTyped
    <3>5. Len(asked) = 1
      BY <1>8, <2>2, <3>1, <3>2, <3>4 DEF Restores
    <3>6. {n \in DOMAIN asked : asked[n].entry = l} = {k} /\ k = 1
      BY <1>10, <3>1, <3>5
    <3> QED BY <1>9, <3>1, <3>2, <3>6
  <2>3. ASSUME NEW j \in DOMAIN answers, answers[j].request.entry = l, answers[j].change \in entries'[l].changeIds,
               ~(entries'[l].kind = "delete" /\ answers[j].request.kind = "create")
        PROVE  entries'[l].changeIds = {answers[j].change}
    <3>1. answers[j].change \in 1 .. latestChange
      BY <1>4 DEF ChangesInv
    <3>2. l \notin leaves
      BY <1>9, <1>11, <2>3, <3>1
    <3>3. entries'[l].changeIds = entries[l].changeIds /\ ~Restores(l, answers[j].request)
      BY <1>8, <1>9, <2>3, <3>2 DEF Restores
    <3> QED BY <1>4, <2>1, <2>3, <3>3 DEF AsksOnce
  <2> QED BY <2>2, <2>3
<1>22. BatchInv'
  <2>1. \A x \in OpenBatches' : x = 0
    BY <1>4, <1>5 DEF OpenBatches
  <2>2. \A m \in Entries : entries'[m].kind = "multi" => entries'[m].batch \in 1 .. batch.id
    BY <1>4, <1>8 DEF BatchInv
  <2>3. \A m \in Entries : entries'[m].kind = "multi" => entries'[m].batch \notin OpenBatches'
    BY <2>1, <2>2
  <2> QED BY <1>4, <1>5, <2>2, <2>3 DEF BatchInv
<1>23. LineInv => OthersAreSettled'
  <2> SUFFICES ASSUME LineInv, NEW r \in Entries, r # e
               PROVE  Settled(r)'
    BY <1>5, <1>6 DEF OthersAreSettled, InProgress
  <2>1. Settled(r)
    BY <1>4 DEF LineInv, OthersAreSettled, InProgress
  <2>2. \A l \in Entries : Root(l)' = Root(l)
    BY <1>8 DEF Root
  <2>3. \A l \in Entries : Root(l) = r => Awaited(l)' \subseteq Awaited(l)
    BY <1>12, <1>18
  <2>4. entries[r].kind = "multi" => r \notin leaves
    BY <1>12 DEF Kinds
  <2>5. entries[r].kind = "multi" => entries'[r].count = entries[r].count
    BY <1>9, <2>4
  <2>6. entries'[r].kind = entries[r].kind /\ entries'[r].children = entries[r].children
    BY <1>8
  <2> QED BY <2>1, <2>2, <2>3, <2>5, <2>6 DEF Settled
<1>24. LineInv => InOrder'
  <2> SUFFICES ASSUME InOrder PROVE InOrder'
    BY DEF LineInv
  <2>1. /\ mUndoStack \in Seq(Entries) /\ mRedoStack \in Seq(Entries) /\ mQueuedEntries \in Seq(Entries)
        /\ Entries \subseteq Nat
    BY <1>4, BoundsAreNumbers DEF StacksTypeOK
  <2>2. /\ Rising(mUndoStack)' /\ Rising(mQueuedEntries)'
        /\ \A j, k \in DOMAIN mRedoStack' : j < k => mRedoStack'[j] > mRedoStack'[k]
        /\ \A j \in DOMAIN mUndoStack', k \in DOMAIN mRedoStack' : mUndoStack'[j] < mRedoStack'[k]
        /\ \A j \in DOMAIN mQueuedEntries :
             /\ \A k \in DOMAIN mUndoStack' : mUndoStack'[k] < mQueuedEntries[j]
             /\ \A k \in DOMAIN mRedoStack' : mRedoStack'[k] < mQueuedEntries[j]
    BY <1>6, <1>13 DEF InOrder, Rising
  <2>3. /\ \A k \in DOMAIN mUndoStack' : mUndoStack'[k] < e
        /\ \A k \in DOMAIN mRedoStack' : e < mRedoStack'[k]
        /\ \A k \in DOMAIN mQueuedEntries : e < mQueuedEntries[k]
    <3>1. CASE /\ type = "undo" /\ mUndoStack # <<>> /\ e = Last(mUndoStack)
               /\ mUndoStack' = Front(mUndoStack) /\ mRedoStack' = mRedoStack
      <4>1. /\ e = mUndoStack[Len(mUndoStack)] /\ Len(mUndoStack) \in DOMAIN mUndoStack
            /\ \A k \in DOMAIN mUndoStack' : k \in DOMAIN mUndoStack /\ k < Len(mUndoStack) /\ mUndoStack'[k] = mUndoStack[k]
        BY <2>1, <3>1, FrontFacts
      <4> QED BY <3>1, <4>1 DEF InOrder, Rising
    <3>2. CASE /\ type = "redo" /\ mRedoStack # <<>> /\ e = Last(mRedoStack)
               /\ mRedoStack' = Front(mRedoStack) /\ mUndoStack' = mUndoStack
      <4>1. /\ e = mRedoStack[Len(mRedoStack)] /\ Len(mRedoStack) \in DOMAIN mRedoStack
            /\ \A k \in DOMAIN mRedoStack' : k \in DOMAIN mRedoStack /\ k < Len(mRedoStack) /\ mRedoStack'[k] = mRedoStack[k]
        BY <2>1, <3>2, FrontFacts
      <4>2. \A k \in DOMAIN mRedoStack' : mRedoStack[k] \in Nat /\ e \in Nat /\ mRedoStack[k] > e
        BY <2>1, <4>1, SeqFacts DEF InOrder
      <4> QED BY <3>2, <4>1, <4>2 DEF InOrder
    <3> QED BY <1>6, <3>1, <3>2
  <2> QED BY <1>6, <2>2, <2>3 DEF InOrder
<1> QED BY <1>14, <1>15, <1>16, <1>17, <1>20, <1>21, <1>22, <1>23, <1>24 DEF HistoryInv, LineInv

LEMMA UndoOrRedoStep ==
  ASSUME HistoryInv, ~crashed, NEW type \in {"undo", "redo"}, UndoOrRedo(type)
  PROVE  HistoryInv' /\ (LineInv => LineInv')
<1>1. /\ Callable /\ Stack(type) # <<>> /\ DoIt(type)
      /\ UNCHANGED <<answers, crashed, server, user>> /\ mUndoAllInProgress' = mUndoAllInProgress
  BY DEF UndoOrRedo
<1>2. mUndoAllInProgress' \in BOOLEAN
  BY <1>1 DEF HistoryInv, Types, StacksTypeOK
<1> QED BY <1>1, <1>2, DoItStep

LEMMA UndoAllStep ==
  ASSUME HistoryInv, ~crashed, UndoAll
  PROVE  HistoryInv' /\ (LineInv => LineInv')
<1>1. Callable /\ mUndoAllInProgress' = TRUE /\ UNCHANGED <<answers, server, user>>
  BY DEF UndoAll
<1>2. CASE mUndoStack # <<>> /\ DoIt("undo") /\ UNCHANGED crashed
  <2>1. PICK type \in {"undo", "redo"} : type = "undo"
    OBVIOUS
  <2>2. Stack(type) # <<>> /\ DoIt(type)
    BY <1>2, <2>1 DEF Stack
  <2>3. mUndoAllInProgress' \in BOOLEAN /\ UNCHANGED <<answers, crashed, server, user>>
    BY <1>1, <1>2
  <2> QED BY <1>1, <2>2, <2>3, DoItStep
<1>3. CASE /\ mUndoStack = <<>> /\ crashed' = TRUE /\ mOperationTypeInProgress' = "undo"
           /\ UNCHANGED <<stacks, mEntryInProgress, entries, changer>>
  <2>1. /\ mUndoStack' = mUndoStack /\ mRedoStack' = mRedoStack /\ mQueuedEntries' = mQueuedEntries
        /\ mOperationTypeInProgress' = "undo" /\ mEntryInProgress' = mEntryInProgress
        /\ mUndoAllInProgress' = TRUE /\ entries' = entries /\ latestChange' = latestChange
        /\ running' = running /\ answers' = answers /\ crashed' = TRUE
        /\ store' = store /\ latestId' = latestId /\ latestPayload' = latestPayload
        /\ patient' = patient /\ unrecorded' = unrecorded /\ batch' = batch
    BY <1>1, <1>3 DEF stacks, changer, server, user
  <2>2. Types'
    BY <2>1 DEF HistoryInv, Types, UserTypeOK, EntriesTypeOK, ChangerTypeOK, StoreTypeOK, StacksTypeOK
  <2>3. ChangesInv' /\ BatchInv' /\ AsksOnce'
    BY <2>1 DEF HistoryInv, ChangesInv, BatchInv, OpenBatches, AsksOnce, Restores
  <2>4. Family'
    BY <2>1, FamilyKeeps DEF HistoryInv
  <2>5. Stacked'
    BY <2>1 DEF HistoryInv, Stacked, IsRoot
  <2>6. \A l \in Entries : Awaited(l)' = Awaited(l)
    BY <2>1 DEF Awaited
  <2>7. CountsAwaited'
    BY <2>1, <2>6, ShrinkKeeps
  <2>8. LineInv => LineInv'
    BY <2>1 DEF LineInv, OthersAreSettled, InOrder, Rising
  <2> QED BY <2>2, <2>3, <2>4, <2>5, <2>7, <2>8 DEF HistoryInv
<1> QED BY <1>2, <1>3 DEF UndoAll

-----------------------------------------------------------------------------
(* recordCreation(), recordModification(), recordDeletions().              *)

LEMMA TailFacts ==
  ASSUME NEW S, NEW s \in Seq(S), s # <<>>
  PROVE  /\ Head(s) \in S /\ Head(s) = s[1] /\ 1 \in DOMAIN s
         /\ Tail(s) \in Seq(S) /\ DOMAIN Tail(s) = 1 .. Len(s) - 1
         /\ Len(s) \in Nat /\ Len(s) >= 1 /\ DOMAIN s = 1 .. Len(s)
         /\ \A k \in DOMAIN Tail(s) : k + 1 \in DOMAIN s /\ Tail(s)[k] = s[k + 1]
<1>1. Len(s) \in Nat /\ Len(s) # 0 /\ DOMAIN s = 1 .. Len(s)
  BY EmptySeq, SeqFacts
<1>2. /\ Head(s) \in S /\ Tail(s) \in Seq(S) /\ Len(Tail(s)) = Len(s) - 1
      /\ \A i \in 1 .. Len(Tail(s)) : Tail(s)[i] = s[i + 1]
  BY HeadTailProperties
<1>3. DOMAIN Tail(s) = 1 .. Len(s) - 1
  BY <1>2, SeqFacts
<1>4. Head(s) = s[1]
  BY <1>1
<1> QED BY <1>1, <1>2, <1>3, <1>4

LEMMA AppendFacts ==
  ASSUME NEW S, NEW s \in Seq(S), NEW x \in S
  PROVE  /\ Append(s, x) \in Seq(S) /\ DOMAIN Append(s, x) = 1 .. Len(s) + 1
         /\ Len(s) \in Nat /\ DOMAIN s = 1 .. Len(s) /\ Len(Append(s, x)) = Len(s) + 1
         /\ Append(s, x)[Len(s) + 1] = x
         /\ \A k \in DOMAIN s : Append(s, x)[k] = s[k] /\ k \in DOMAIN Append(s, x)
         /\ \A k \in DOMAIN Append(s, x) : k \in DOMAIN s \/ k = Len(s) + 1
<1>1. Len(s) \in Nat /\ DOMAIN s = 1 .. Len(s)
  BY SeqFacts
<1>2. /\ Append(s, x) \in Seq(S) /\ Len(Append(s, x)) = Len(s) + 1
      /\ Append(s, x)[Len(s) + 1] = x /\ \A k \in 1 .. Len(s) : Append(s, x)[k] = s[k]
  BY AppendProperties
<1>3. DOMAIN Append(s, x) = 1 .. Len(s) + 1
  BY <1>2, SeqFacts
<1> QED BY <1>1, <1>2, <1>3

LEMMA NextEntryIsNew ==
  ASSUME Family
  PROVE  \E n \in 0 .. MaxEntries : Constructed = 1 .. n /\ NextEntry = n + 1
<1>1. PICK n \in 0 .. MaxEntries : Constructed = 1 .. n
  BY DEF Family
<1>2. n \in Nat
  BY BoundsAreNumbers
<1>3. Cardinality(1 .. n) = n
  BY <1>2, FS_Interval
<1> QED BY <1>1, <1>3 DEF NextEntry

\* The new entry `e` and what it joins: nothing, the MultiEntry on top, a new MultiEntry.
Joins(n, e, p, r) ==
  /\ Constructed = 1 .. n /\ e = n + 1
  /\ entries' \in [Entries -> EntryTypes]
  /\ HasOneItem(entries'[e]) /\ entries'[e].kind \in Kinds /\ entries'[e].children = <<>>
  /\ entries'[e].changeIds = {} /\ entries'[e].parent = p
  /\ \A x \in Entries : x # e /\ x # p => entries'[x] = entries[x]
  /\ \/ p = 0 /\ r = e
     \/ /\ p \in 1 .. n /\ r = 0 /\ entries[p].kind = "multi" /\ entries[p].batch \in OpenBatches
        /\ entries'[p] = [entries[p] EXCEPT !.children = Append(@, e)]
     \/ /\ p = e + 1 /\ r = p
        /\ entries'[p].kind = "multi" /\ entries'[p].children = <<e>> /\ entries'[p].parent = 0
        /\ entries'[p].changeIds = {} /\ entries'[p].batch \in 1 .. batch.id
  /\ StackNewEntry(r)

LEMMA RecordJoins ==
  ASSUME HistoryInv, Record
  PROVE  \E n \in 0 .. MaxEntries, e \in Entries, p \in Entries \cup {0}, r \in Entries \cup {0} : Joins(n, e, p, r)
<1>1. /\ unrecorded \in Seq(RecordTypes) /\ unrecorded # <<>> /\ Family /\ EntriesTypeOK /\ BatchInv
      /\ entries \in [Entries -> EntryTypes]
      /\ \A k \in DOMAIN unrecorded : Recorded(unrecorded[k].entry)
      /\ batch.id \in Nat
  BY DEF HistoryInv, Types, UserTypeOK, Record, EntriesTypeOK
<1>2. /\ Head(unrecorded) \in RecordTypes /\ Head(unrecorded) = unrecorded[1] /\ 1 \in DOMAIN unrecorded
  BY <1>1, TailFacts
<1>3. PICK entry : entry = Head(unrecorded).entry
  OBVIOUS
<1>4. PICK b : b = Head(unrecorded).atomicOperationId
  OBVIOUS
<1>5. entry \in EntryTypes /\ Recorded(entry) /\ b \in Nat /\ b <= batch.id /\ b \in OpenBatches
  BY <1>1, <1>2, <1>3, <1>4 DEF RecordTypes, BatchInv, OpenBatches
<1>6. PICK n \in 0 .. MaxEntries : Constructed = 1 .. n /\ NextEntry = n + 1
  BY <1>1, NextEntryIsNew
<1>7. n \in Nat
  BY BoundsAreNumbers
<1>8. /\ entry.kind \in Kinds /\ HasOneItem(entry) /\ entry.children = <<>>
      /\ entry.parent = 0 /\ entry.changeIds = {}
  BY <1>5 DEF Recorded
<1>9. \A p \in Entries \cup {0} :
        /\ [entry EXCEPT !.parent = p] \in EntryTypes
        /\ [entry EXCEPT !.parent = p].kind \in Kinds /\ HasOneItem([entry EXCEPT !.parent = p])
        /\ [entry EXCEPT !.parent = p].children = <<>> /\ [entry EXCEPT !.parent = p].changeIds = {}
        /\ [entry EXCEPT !.parent = p].parent = p
  BY <1>5, <1>8 DEF EntryTypes, HasOneItem
<1>10. \/ b = 0 /\ StackSingle(entry)
       \/ b > 0 /\ TopIsBatch(b) /\ StackOnTop(entry)
       \/ b > 0 /\ ~TopIsBatch(b) /\ StackNewMulti(entry, b)
  BY <1>3, <1>4 DEF Record
<1>11. CASE b = 0 /\ StackSingle(entry)
  <2>1. PICK e \in Entries : e = n + 1 /\ entries' = [entries EXCEPT ![e] = entry] /\ StackNewEntry(e)
    BY <1>6, <1>11 DEF StackSingle
  <2>2. Joins(n, e, 0, e)
    BY <1>1, <1>5, <1>6, <1>8, <2>1 DEF Joins
  <2>3. e \in Entries \cup {0} /\ 0 \in Entries \cup {0}
    OBVIOUS
  <2> QED BY <2>2, <2>3
<1>12. CASE b > 0 /\ TopIsBatch(b) /\ StackOnTop(entry)
  <2>1. PICK e \in Entries : e = n + 1 /\ e = NextEntry
    BY <1>6, <1>12 DEF StackOnTop
  <2>2. TopEntry \in Entries
    <3>1. mUndoStack \in Seq(Entries) /\ mQueuedEntries \in Seq(Entries)
      BY DEF HistoryInv, Types, StacksTypeOK
    <3> QED BY <1>12, <3>1, FrontFacts DEF TopIsBatch, TopEntry
  <2>3. PICK p \in Entries : p = TopEntry
    BY <2>2
  <2>4. /\ entries' = [entries EXCEPT ![e] = [entry EXCEPT !.parent = p], ![p].children = Append(@, e)]
        /\ StackNewEntry(0) /\ entries[p].kind = "multi" /\ entries[p].batch = b
    BY <1>12, <2>1, <2>3 DEF StackOnTop, TopIsBatch
  <2>5. p \in 1 .. n /\ e # p
    BY <1>6, <1>7, <2>1, <2>4 DEF Constructed
  <2>6. /\ entries'[e] = [entry EXCEPT !.parent = p]
        /\ entries'[p] = [entries[p] EXCEPT !.children = Append(@, e)]
        /\ \A x \in Entries : x # e /\ x # p => entries'[x] = entries[x]
    BY <1>1, <2>4, <2>5
  <2>7. entries'[p] \in EntryTypes
    <3>1. entries[p] \in EntryTypes /\ entries[p].children \in Seq(Entries)
      BY <1>1, EntryFields
    <3>2. PICK longer \in Seq(Entries) : longer = Append(entries[p].children, e)
      BY <3>1, AppendFacts
    <3>3. entries'[p] = [entries[p] EXCEPT !.children = longer]
      BY <2>6, <3>2
    <3> QED BY <3>1, <3>3 DEF EntryTypes
  <2>8. entries'[e] \in EntryTypes
    BY <1>9, <2>6
  <2>9. entries' \in [Entries -> EntryTypes]
    <3>1. entries' = [x \in Entries |-> entries'[x]]
      BY <1>1, <2>4
    <3>2. \A x \in Entries : entries'[x] \in EntryTypes
      BY <1>1, <2>6, <2>7, <2>8
    <3> QED BY <3>1, <3>2
  <2>10. /\ HasOneItem(entries'[e]) /\ entries'[e].kind \in Kinds /\ entries'[e].children = <<>>
         /\ entries'[e].changeIds = {} /\ entries'[e].parent = p
    BY <1>9, <2>6
  <2>11. Joins(n, e, p, 0)
    BY <1>5, <1>6, <2>1, <2>4, <2>5, <2>6, <2>9, <2>10 DEF Joins
  <2>12. p \in Entries \cup {0} /\ 0 \in Entries \cup {0}
    OBVIOUS
  <2> QED BY <2>11, <2>12
<1>13. CASE b > 0 /\ ~TopIsBatch(b) /\ StackNewMulti(entry, b)
  <2>1. PICK p \in Entries : p = NextEntry + 1
    BY <1>13 DEF StackNewMulti
  <2>2. PICK e \in Entries : e = n + 1 /\ e = NextEntry /\ p = e + 1 /\ e # p
    BY <1>6, <1>7, <2>1, BoundsAreNumbers DEF Entries
  <2>3. /\ entries' = [entries EXCEPT
             ![e] = [entry EXCEPT !.parent = p],
             ![p] = [NoEntry EXCEPT !.kind = "multi", !.batch = b, !.children = <<e>>]]
        /\ StackNewEntry(p)
    BY <1>13, <2>1, <2>2 DEF StackNewMulti
  <2>4. /\ entries'[e] = [entry EXCEPT !.parent = p]
        /\ entries'[p] = [NoEntry EXCEPT !.kind = "multi", !.batch = b, !.children = <<e>>]
        /\ \A x \in Entries : x # e /\ x # p => entries'[x] = entries[x]
    BY <1>1, <2>2, <2>3
  <2>5. /\ entries'[p] \in EntryTypes
        /\ entries'[p].kind = "multi" /\ entries'[p].children = <<e>> /\ entries'[p].parent = 0
        /\ entries'[p].changeIds = {} /\ entries'[p].batch = b
    <3>4. <<e>> \in Seq(Entries)
      OBVIOUS
    <3>1. PICK first \in Seq(Entries) : first = <<e>>
      BY <3>4
    <3>2. PICK none \in EntryTypes : none = NoEntry /\ none.parent = 0 /\ none.changeIds = {}
      BY NoEntryTyped
    <3>3. entries'[p] = [none EXCEPT !.kind = "multi", !.batch = b, !.children = first]
      BY <2>4, <3>1, <3>2
    <3>5. /\ entries'[p].kind = "multi" /\ entries'[p].children = first /\ entries'[p].parent = 0
          /\ entries'[p].changeIds = {} /\ entries'[p].batch = b
      BY <3>2, <3>3 DEF EntryTypes
    <3>6. b \in Nat
      BY <1>5
    <3>7. entries'[p] \in EntryTypes
      BY <3>2, <3>3, <3>6 DEF EntryTypes
    <3> QED BY <3>1, <3>5, <3>7
  <2>6. entries'[e] \in EntryTypes
    BY <1>9, <2>4
  <2>7. entries' \in [Entries -> EntryTypes]
    <3>1. entries' = [x \in Entries |-> entries'[x]]
      BY <1>1, <2>3
    <3>2. \A x \in Entries : entries'[x] \in EntryTypes
      BY <1>1, <2>4, <2>5, <2>6
    <3> QED BY <3>1, <3>2
  <2>8. /\ HasOneItem(entries'[e]) /\ entries'[e].kind \in Kinds /\ entries'[e].children = <<>>
        /\ entries'[e].changeIds = {} /\ entries'[e].parent = p
    BY <1>9, <2>4
  <2>9. b \in 1 .. batch.id
    BY <1>1, <1>5, <1>13
  <2>10. Joins(n, e, p, p)
    BY <1>6, <2>2, <2>3, <2>4, <2>5, <2>7, <2>8, <2>9 DEF Joins
  <2>11. p \in Entries \cup {0}
    OBVIOUS
  <2> QED BY <2>10, <2>11
<1> QED BY <1>10, <1>11, <1>12, <1>13

LEMMA PushFacts ==
  ASSUME NEW s \in Seq(Entries), NEW r \in Entries \cup {0}
  PROVE  /\ PushIfAny(s, r) \in Seq(Entries)
         /\ \A k \in DOMAIN PushIfAny(s, r) :
              /\ k \in Nat
              /\ \/ k \in DOMAIN s /\ PushIfAny(s, r)[k] = s[k]
                 \/ r # 0 /\ PushIfAny(s, r)[k] = r /\ \A j \in DOMAIN s : j < k
<1>1. DOMAIN s = 1 .. Len(s) /\ Len(s) \in Nat
  BY SeqFacts
<1>2. CASE r = 0
  BY <1>1, <1>2 DEF PushIfAny
<1>3. CASE r # 0
  <2>1. PushIfAny(s, r) = Append(s, r) /\ r \in Entries
    BY <1>3 DEF PushIfAny
  <2> QED BY <1>1, <1>3, <2>1, AppendFacts
<1> QED BY <1>2, <1>3

\* What joining does to the entries: those that were there keep all but the list of children.
Joined(n, e, p, r) ==
  /\ n \in Nat /\ e = n + 1
  /\ \A x \in Entries : x \in Nat /\ (entries[x].kind = "none" <=> x > n) /\ (entries[x].kind # "none" => x <= n)
  /\ p # 0 => p \in Entries /\ entries'[p].kind = "multi" /\ p # e /\ (p <= n => r = 0)
  /\ r # 0 => r \in Entries /\ r > n /\ entries'[r].kind # "none" /\ entries'[r].parent = 0
  /\ \A x \in Entries : x <= n =>
       /\ entries'[x].kind = entries[x].kind /\ entries'[x].items = entries[x].items
       /\ entries'[x].original = entries[x].original /\ entries'[x].parent = entries[x].parent
       /\ entries'[x].batch = entries[x].batch /\ entries'[x].count = entries[x].count
       /\ x # p => entries'[x].children = entries[x].children
       /\ x = p => /\ entries'[x].children = Append(entries[x].children, e)
                   /\ entries[x].kind = "multi" /\ entries[x].batch \in OpenBatches
  /\ \A x \in Entries : entries'[x].changeIds = entries[x].changeIds
  /\ \A x \in Entries : x > n =>
       /\ entries[x].changeIds = {}
       /\ x # e /\ x # p => entries'[x] = entries[x]
  /\ p > n => entries'[p].children = <<e>> /\ entries'[p].parent = 0 /\ p = n + 2
              /\ entries'[p].batch \in 1 .. batch.id

LEMMA JoinedFacts ==
  ASSUME HistoryInv, NEW n \in 0 .. MaxEntries, NEW e \in Entries, NEW p \in Entries \cup {0},
         NEW r \in Entries \cup {0}, Joins(n, e, p, r)
  PROVE  Joined(n, e, p, r)
<1>1. /\ Constructed = 1 .. n /\ e = n + 1
      /\ entries'[e].changeIds = {}
      /\ \A x \in Entries : x # e /\ x # p => entries'[x] = entries[x]
      /\ entries'[e].kind \in Kinds /\ entries'[e].parent = p
      /\ \/ p = 0 /\ r = e
         \/ /\ p \in 1 .. n /\ r = 0 /\ entries[p].kind = "multi" /\ entries[p].batch \in OpenBatches
            /\ entries'[p] = [entries[p] EXCEPT !.children = Append(@, e)]
         \/ /\ p = e + 1 /\ r = p
            /\ entries'[p].kind = "multi" /\ entries'[p].children = <<e>> /\ entries'[p].parent = 0
            /\ entries'[p].changeIds = {} /\ entries'[p].batch \in 1 .. batch.id
  BY DEF Joins
<1>2. n \in Nat /\ Entries \subseteq Nat
  BY BoundsAreNumbers
<1>3. \A x \in Entries : x \in Nat /\ (entries[x].kind = "none" <=> x > n) /\ (entries[x].kind # "none" => x <= n)
  BY <1>1, <1>2, BoundsAreNumbers DEF Constructed, Entries
<1>4. \A x \in Entries : x > n => entries[x].changeIds = {}
  BY <1>3 DEF HistoryInv, Family
<1>5. \A x \in Entries : entries[x] \in EntryTypes
  BY EntriesTyped DEF HistoryInv, Types
<1>6. p \in 1 .. n => /\ p \in Entries
                      /\ entries'[p].kind = entries[p].kind /\ entries'[p].items = entries[p].items
                      /\ entries'[p].original = entries[p].original /\ entries'[p].parent = entries[p].parent
                      /\ entries'[p].batch = entries[p].batch /\ entries'[p].count = entries[p].count
                      /\ entries'[p].changeIds = entries[p].changeIds
                      /\ entries'[p].children = Append(entries[p].children, e)
                      /\ entries[p].kind = "multi" /\ entries[p].batch \in OpenBatches /\ r = 0
  <2> SUFFICES ASSUME p \in 1 .. n
               PROVE  /\ p \in Entries
                      /\ entries'[p].kind = entries[p].kind /\ entries'[p].items = entries[p].items
                      /\ entries'[p].original = entries[p].original /\ entries'[p].parent = entries[p].parent
                      /\ entries'[p].batch = entries[p].batch /\ entries'[p].count = entries[p].count
                      /\ entries'[p].changeIds = entries[p].changeIds
                      /\ entries'[p].children = Append(entries[p].children, e)
                      /\ entries[p].kind = "multi" /\ entries[p].batch \in OpenBatches /\ r = 0
    OBVIOUS
  <2>1. /\ p \in Entries /\ r = 0 /\ entries[p].kind = "multi" /\ entries[p].batch \in OpenBatches
        /\ entries'[p] = [entries[p] EXCEPT !.children = Append(@, e)]
    BY <1>1, <1>2
  <2>2. entries[p] \in EntryTypes
    BY <1>5, <2>1
  <2> QED BY <2>1, <2>2 DEF EntryTypes
<1>7. \/ p = 0 /\ r = e
      \/ p \in 1 .. n /\ r = 0
      \/ p = n + 2 /\ r = p
  BY <1>1, <1>2
<1>8. p # 0 => p \in Entries /\ entries'[p].kind = "multi" /\ p # e /\ (p <= n => r = 0)
  BY <1>1, <1>2, <1>6, <1>7
<1>9. r # 0 => r \in Entries /\ r > n /\ entries'[r].kind # "none" /\ entries'[r].parent = 0
  BY <1>1, <1>2, <1>7 DEF Kinds
<1>10. \A x \in Entries : x <= n =>
              /\ entries'[x].kind = entries[x].kind /\ entries'[x].items = entries[x].items
              /\ entries'[x].original = entries[x].original /\ entries'[x].parent = entries[x].parent
              /\ entries'[x].batch = entries[x].batch /\ entries'[x].count = entries[x].count
              /\ x # p => entries'[x].children = entries[x].children
              /\ x = p => /\ entries'[x].children = Append(entries[x].children, e)
                          /\ entries[x].kind = "multi" /\ entries[x].batch \in OpenBatches
  <2> TAKE x \in Entries
  <2>1. CASE x = p
    <3>1. x <= n => p \in 1 .. n
      BY <1>2, <2>1, BoundsAreNumbers DEF Entries
    <3> QED BY <1>6, <2>1, <3>1
  <2>2. CASE x # p
    <3>1. x <= n => x # e
      BY <1>1, <1>2
    <3> QED BY <1>1, <2>2, <3>1
  <2> QED BY <2>1, <2>2
<1>11. \A x \in Entries : entries'[x].changeIds = entries[x].changeIds
  <2> TAKE x \in Entries
  <2>1. CASE x = e
    <3>1. e > n
      BY <1>1, <1>2
    <3>2. entries[e].changeIds = {}
      BY <1>4, <3>1
    <3> QED BY <1>1, <2>1, <3>2
  <2>2. CASE x = p
    <3>1. CASE p \in 1 .. n
      BY <1>6, <2>2, <3>1
    <3>2. CASE p = e + 1 /\ entries'[p].changeIds = {}
      <4>1. p > n
        BY <1>1, <1>2, <3>2
      <4>2. entries[x].changeIds = {}
        BY <1>4, <2>2, <4>1
      <4> QED BY <2>2, <3>2, <4>2
    <3> QED BY <1>1, <2>2, <3>1, <3>2, BoundsAreNumbers
  <2> QED BY <1>1, <2>1, <2>2
<1>12. p > n => entries'[p].children = <<e>> /\ entries'[p].parent = 0 /\ p = n + 2
                     /\ entries'[p].batch \in 1 .. batch.id
  BY <1>1, <1>2, <1>7
<1>13. \A x \in Entries : x > n /\ x # e /\ x # p => entries'[x] = entries[x]
  BY <1>1
<1> QED BY <1>1, <1>2, <1>3, <1>4, <1>8, <1>9, <1>10, <1>11, <1>12, <1>13 DEF Joined

LEMMA JoinedFamily ==
  ASSUME HistoryInv, NEW n \in 0 .. MaxEntries, NEW e \in Entries, NEW p \in Entries \cup {0},
         NEW r \in Entries \cup {0}, Joins(n, e, p, r)
  PROVE  Family'
<1>0. Joined(n, e, p, r)
  BY JoinedFacts
<1>1. /\ n \in Nat /\ e = n + 1
      /\ \A x \in Entries : x \in Nat /\ (entries[x].kind = "none" <=> x > n) /\ (entries[x].kind # "none" => x <= n)
      /\ p # 0 => p \in Entries /\ entries'[p].kind = "multi" /\ p # e
      /\ p > n => entries'[p].children = <<e>> /\ entries'[p].parent = 0 /\ p = n + 2
  BY <1>0 DEF Joined
<1>2. \A x \in Entries : x <= n =>
         /\ entries'[x].kind = entries[x].kind /\ entries'[x].items = entries[x].items
         /\ entries'[x].original = entries[x].original /\ entries'[x].parent = entries[x].parent
         /\ entries'[x].batch = entries[x].batch /\ entries'[x].count = entries[x].count
         /\ x # p => entries'[x].children = entries[x].children
         /\ x = p => /\ entries'[x].children = Append(entries[x].children, e)
                     /\ entries[x].kind = "multi" /\ entries[x].batch \in OpenBatches
  BY <1>0 DEF Joined
<1>3. \A x \in Entries : entries'[x].changeIds = entries[x].changeIds
  BY <1>0 DEF Joined
<1>4. \A x \in Entries : x > n =>
         /\ entries[x].changeIds = {}
         /\ x # e /\ x # p => entries'[x] = entries[x]
  BY <1>0 DEF Joined
<1>5. entries'[e].kind \in Kinds /\ entries'[e].children = <<>> /\ entries'[e].parent = p
  BY DEF Joins
<1>6. \A x \in Entries :
       /\ entries[x].kind = "none" =>
            entries[x].children = <<>> /\ entries[x].parent = 0 /\ entries[x].changeIds = {}
       /\ entries[x].kind # "multi" => entries[x].children = <<>>
       /\ entries[x].kind = "multi" => entries[x].parent = 0 /\ entries[x].changeIds = {}
       /\ entries[x].parent # 0 => entries[entries[x].parent].kind = "multi"
       /\ \A k \in DOMAIN entries[x].children :
            entries[entries[x].children[k]].parent = x /\ entries[entries[x].children[k]].kind \in Kinds
  BY DEF HistoryInv, Family
<1>7. \A x \in Entries : entries[x].parent \in Entries \cup {0} /\ entries[x].children \in Seq(Entries)
  BY EntriesTyped, EntryFields DEF HistoryInv, Types
<1>8. \E m \in 0 .. MaxEntries : Constructed' = 1 .. m
  <2>1. CASE p > n
    <3>1. \A x \in Entries : entries'[x].kind # "none" <=> x <= n + 2
      BY <1>1, <1>2, <1>4, <1>5, <2>1 DEF Kinds
    <3>2. n + 2 \in 0 .. MaxEntries /\ p \in Entries
      BY <1>1, <2>1, BoundsAreNumbers DEF Entries
    <3>3. Constructed' = 1 .. n + 2
      BY <1>1, <3>1, <3>2, BoundsAreNumbers DEF Constructed, Entries
    <3> QED BY <3>2, <3>3
  <2>2. CASE ~(p > n)
    <3>1. \A x \in Entries : entries'[x].kind # "none" <=> x <= n + 1
      BY <1>1, <1>2, <1>4, <1>5, <2>2 DEF Kinds
    <3>2. n + 1 \in 0 .. MaxEntries
      BY <1>1, BoundsAreNumbers DEF Entries
    <3>3. Constructed' = 1 .. n + 1
      BY <1>1, <3>1, <3>2, BoundsAreNumbers DEF Constructed, Entries
    <3> QED BY <3>2, <3>3
  <2> QED BY <2>1, <2>2
<1>9. ASSUME NEW x \in Entries
      PROVE  /\ entries'[x].kind = "none" =>
                  entries'[x].children = <<>> /\ entries'[x].parent = 0 /\ entries'[x].changeIds = {}
             /\ entries'[x].kind # "multi" => entries'[x].children = <<>>
             /\ entries'[x].kind = "multi" => entries'[x].parent = 0 /\ entries'[x].changeIds = {}
  <2>1. CASE x <= n
    BY <1>1, <1>2, <1>3, <1>6, <2>1
  <2>2. CASE x = e
    BY <1>1, <1>5, <2>2 DEF Kinds
  <2>3. CASE x > n /\ x = p
    BY <1>1, <1>3, <1>4, <2>3
  <2>4. CASE x > n /\ x # p /\ x # e
    <3>1. entries'[x] = entries[x] /\ entries[x].kind = "none"
      BY <1>1, <1>4, <2>4
    <3>2. entries[x].children = <<>> /\ entries[x].parent = 0 /\ entries[x].changeIds = {}
      BY <1>6, <3>1
    <3> QED BY <3>1, <3>2
  <2> QED BY <1>1, <2>1, <2>2, <2>3, <2>4
<1>10. ASSUME NEW x \in Entries, entries'[x].parent # 0
       PROVE  entries'[entries'[x].parent].kind = "multi"
  <2>1. CASE x <= n
    <3>1. entries'[x].parent = entries[x].parent /\ entries[x].parent \in Entries
      BY <1>2, <1>7, <1>10, <2>1
    <3>2. entries[entries[x].parent].kind = "multi"
      BY <1>6, <1>10, <3>1
    <3>3. entries[x].parent <= n
      BY <1>1, <3>1, <3>2
    <3> QED BY <1>2, <3>1, <3>2, <3>3
  <2>2. CASE x = e
    BY <1>1, <1>5, <1>10, <2>2
  <2>3. CASE x > n /\ x = p
    BY <1>1, <1>10, <2>3
  <2>4. CASE x > n /\ x # p /\ x # e
    BY <1>1, <1>4, <1>6, <1>10, <2>4
  <2> QED BY <1>1, <2>1, <2>2, <2>3, <2>4
<1>11. ASSUME NEW x \in Entries, NEW k \in DOMAIN entries'[x].children
       PROVE  /\ entries'[entries'[x].children[k]].parent = x
              /\ entries'[entries'[x].children[k]].kind \in Kinds
  <2>1. ASSUME NEW j \in DOMAIN entries[x].children
        PROVE  /\ entries'[entries[x].children[j]].parent = x
               /\ entries'[entries[x].children[j]].kind \in Kinds
    <3>1. entries[x].children[j] \in Entries
      BY <1>7, SeqFacts
    <3>2. entries[entries[x].children[j]].parent = x /\ entries[entries[x].children[j]].kind \in Kinds
      BY <1>6
    <3>3. entries[x].children[j] <= n
      BY <1>1, <3>1, <3>2 DEF Kinds
    <3> QED BY <1>2, <3>1, <3>2, <3>3
  <2>2. CASE x <= n /\ x # p
    BY <1>2, <2>1, <2>2
  <2>3. CASE x <= n /\ x = p
    <3>1. entries'[x].children = Append(entries[x].children, e)
      BY <1>2, <2>3
    <3>2. k \in DOMAIN entries[x].children \/ entries'[x].children[k] = e
      BY <1>7, <3>1, AppendFacts
    <3>3. k \in DOMAIN entries[x].children => entries'[x].children[k] = entries[x].children[k]
      BY <1>7, <3>1, AppendFacts
    <3> QED BY <1>5, <2>1, <2>3, <3>2, <3>3
  <2>4. CASE x = e
    BY <1>5, <2>4
  <2>5. CASE x > n /\ x = p
    <3>1. entries'[x].children = <<e>>
      BY <1>1, <2>5
    <3>2. entries'[x].children[k] = e
      BY <3>1
    <3> QED BY <1>5, <2>5, <3>2
  <2>6. CASE x > n /\ x # p /\ x # e
    <3>1. entries'[x] = entries[x]
      BY <1>4, <2>6
    <3>2. k \in DOMAIN entries[x].children
      BY <3>1
    <3> QED BY <2>1, <3>1, <3>2
  <2> QED BY <1>1, <2>2, <2>3, <2>4, <2>5, <2>6
<1> QED BY <1>8, <1>9, <1>10, <1>11 DEF Family

LEMMA RecordUserTypes ==
  ASSUME HistoryInv, Record
  PROVE  /\ UserTypeOK' /\ OpenBatches' \subseteq OpenBatches
         /\ \A k \in DOMAIN unrecorded' : unrecorded'[k].atomicOperationId <= batch.id
<1>1. /\ unrecorded \in Seq(RecordTypes) /\ unrecorded # <<>>
      /\ \A k \in DOMAIN unrecorded : Recorded(unrecorded[k].entry)
      /\ \A k \in DOMAIN unrecorded : unrecorded[k].atomicOperationId <= batch.id
      /\ patient \in BOOLEAN /\ batch \in [open : BOOLEAN, id : Nat, items : SUBSET Ids]
  BY DEF HistoryInv, Types, UserTypeOK, Record, BatchInv
<1>2. unrecorded' = Tail(unrecorded) /\ patient' = patient /\ batch' = batch
  BY DEF Record
<1>3. /\ unrecorded' \in Seq(RecordTypes)
      /\ \A k \in DOMAIN unrecorded' : k + 1 \in DOMAIN unrecorded /\ unrecorded'[k] = unrecorded[k + 1]
  BY <1>1, <1>2, TailFacts
<1>4. /\ \A k \in DOMAIN unrecorded' : Recorded(unrecorded'[k].entry)
      /\ \A k \in DOMAIN unrecorded' : unrecorded'[k].atomicOperationId <= batch.id
      /\ \A k \in DOMAIN unrecorded' : \E m \in DOMAIN unrecorded :
           unrecorded'[k].atomicOperationId = unrecorded[m].atomicOperationId
  BY <1>1, <1>3
<1>5. UserTypeOK'
  BY <1>1, <1>2, <1>3, <1>4 DEF UserTypeOK
<1>6. OpenBatches' \subseteq OpenBatches
  BY <1>2, <1>4 DEF OpenBatches
<1> QED BY <1>4, <1>5, <1>6

\* What is put on top of a rising stack and is larger keeps it rising.
LEMMA RisingPush ==
  ASSUME NEW s \in Seq(Entries), NEW r \in Entries \cup {0}, Rising(s),
         r # 0 => \A k \in DOMAIN s : s[k] < r
  PROVE  Rising(PushIfAny(s, r))
<1>1. CASE r = 0
  BY <1>1 DEF PushIfAny
<1>2. CASE r # 0
  <2>1. PushIfAny(s, r) = Append(s, r) /\ r \in Entries
    BY <1>2 DEF PushIfAny
  <2>2. /\ DOMAIN Append(s, r) = 1 .. Len(s) + 1 /\ DOMAIN s = 1 .. Len(s)
        /\ Len(s) \in Nat /\ Append(s, r)[Len(s) + 1] = r
        /\ \A k \in DOMAIN s : Append(s, r)[k] = s[k]
    BY <2>1, AppendFacts
  <2>3. ASSUME NEW j \in DOMAIN Append(s, r), NEW k \in DOMAIN Append(s, r), j < k
        PROVE  Append(s, r)[j] < Append(s, r)[k]
    <3>1. j \in DOMAIN s
      BY <2>2, <2>3
    <3>2. CASE k \in DOMAIN s
      BY <2>2, <2>3, <3>1, <3>2 DEF Rising
    <3>3. CASE k = Len(s) + 1
      BY <1>2, <2>2, <3>1, <3>3
    <3> QED BY <2>2, <3>2, <3>3
  <2> QED BY <2>1, <2>3 DEF Rising
<1> QED BY <1>1, <1>2

LEMMA RecordStep ==
  ASSUME HistoryInv, Record
  PROVE  HistoryInv' /\ (LineInv => LineInv')
<1>1. PICK n \in 0 .. MaxEntries, e \in Entries, p \in Entries \cup {0}, r \in Entries \cup {0} : Joins(n, e, p, r)
  BY RecordJoins
<1>2. Joined(n, e, p, r)
  BY <1>1, JoinedFacts
<1>3. /\ Types /\ Family /\ Stacked /\ ChangesInv /\ CountsAwaited /\ AsksOnce /\ BatchInv
      /\ EntriesTypeOK /\ StacksTypeOK /\ ChangerTypeOK /\ StoreTypeOK
  BY DEF HistoryInv, Types
<1>4. /\ mOperationTypeInProgress' = mOperationTypeInProgress /\ mEntryInProgress' = mEntryInProgress
      /\ mUndoAllInProgress' = mUndoAllInProgress /\ latestChange' = latestChange
      /\ running' = running /\ answers' = answers /\ crashed' = crashed
      /\ store' = store /\ latestId' = latestId /\ latestPayload' = latestPayload /\ batch' = batch
  BY DEF Record, op, changer, server
<1>5. /\ entries' \in [Entries -> EntryTypes] /\ HasOneItem(entries'[e]) /\ entries'[e].parent = p
      /\ entries'[e].kind \in Kinds /\ StackNewEntry(r)
  BY <1>1 DEF Joins
<1>6. /\ n \in Nat /\ e = n + 1
      /\ \A x \in Entries : x \in Nat /\ (entries[x].kind = "none" <=> x > n) /\ (entries[x].kind # "none" => x <= n)
      /\ p # 0 => p \in Entries /\ entries'[p].kind = "multi" /\ p # e /\ (p <= n => r = 0)
      /\ r # 0 => r \in Entries /\ r > n /\ entries'[r].kind # "none" /\ entries'[r].parent = 0
      /\ \A x \in Entries : entries'[x].changeIds = entries[x].changeIds
      /\ p > n => entries'[p].children = <<e>> /\ entries'[p].parent = 0 /\ p = n + 2
                  /\ entries'[p].batch \in 1 .. batch.id
  BY <1>2 DEF Joined
<1>7. \A x \in Entries : x <= n =>
       /\ entries'[x].kind = entries[x].kind /\ entries'[x].items = entries[x].items
       /\ entries'[x].original = entries[x].original /\ entries'[x].parent = entries[x].parent
       /\ entries'[x].batch = entries[x].batch /\ entries'[x].count = entries[x].count
       /\ x # p => entries'[x].children = entries[x].children
       /\ x = p => /\ entries'[x].children = Append(entries[x].children, e)
                   /\ entries[x].kind = "multi" /\ entries[x].batch \in OpenBatches
  BY <1>2 DEF Joined
<1>8. \A x \in Entries : x > n =>
       /\ entries[x].changeIds = {}
       /\ x # e /\ x # p => entries'[x] = entries[x]
  BY <1>2 DEF Joined
<1>9. Family'
  BY <1>1, JoinedFamily
<1>10. UserTypeOK' /\ OpenBatches' \subseteq OpenBatches
       /\ \A k \in DOMAIN unrecorded' : unrecorded'[k].atomicOperationId <= batch.id
  BY RecordUserTypes
<1>11. /\ PushIfAny(mUndoStack, r) \in Seq(Entries) /\ PushIfAny(mQueuedEntries, r) \in Seq(Entries)
       /\ \A k \in DOMAIN PushIfAny(mUndoStack, r) :
              /\ k \in Nat
              /\ \/ k \in DOMAIN mUndoStack /\ PushIfAny(mUndoStack, r)[k] = mUndoStack[k]
                 \/ r # 0 /\ PushIfAny(mUndoStack, r)[k] = r /\ \A j \in DOMAIN mUndoStack : j < k
       /\ \A k \in DOMAIN PushIfAny(mQueuedEntries, r) :
              /\ k \in Nat
              /\ \/ k \in DOMAIN mQueuedEntries /\ PushIfAny(mQueuedEntries, r)[k] = mQueuedEntries[k]
                 \/ r # 0 /\ PushIfAny(mQueuedEntries, r)[k] = r /\ \A j \in DOMAIN mQueuedEntries : j < k
  BY <1>3, PushFacts DEF StacksTypeOK
<1>12. /\ DOMAIN <<>> = {} /\ <<>> \in Seq(Entries)
       /\ \/ /\ mOperationTypeInProgress = "none"
             /\ mUndoStack' = PushIfAny(mUndoStack, r) /\ mRedoStack' = <<>> /\ mQueuedEntries' = mQueuedEntries
          \/ /\ mOperationTypeInProgress # "none"
             /\ mQueuedEntries' = PushIfAny(mQueuedEntries, r)
             /\ mUndoStack' = mUndoStack /\ mRedoStack' = mRedoStack
  BY <1>5 DEF StackNewEntry
<1>13. Types'
  <2>1. ASSUME NEW x \in Entries PROVE HasOneItem(entries'[x])
    <3>1. HasOneItem(entries[x])
      BY <1>3 DEF EntriesTypeOK
    <3>2. CASE x <= n
      BY <1>7, <3>1, <3>2 DEF HasOneItem
    <3>3. CASE x > n /\ x = p
      BY <1>6, <3>3 DEF HasOneItem
    <3>4. CASE x > n /\ x # p
      <4>1. CASE x = e
        BY <1>5, <4>1
      <4>2. CASE x # e
        BY <1>8, <3>1, <3>4, <4>2
      <4> QED BY <4>1, <4>2
    <3> QED BY <1>6, <3>2, <3>3, <3>4
  <2>2. EntriesTypeOK'
    BY <1>3, <1>4, <1>5, <1>6, <2>1 DEF EntriesTypeOK
  <2>3. StacksTypeOK'
    BY <1>3, <1>4, <1>11, <1>12 DEF StacksTypeOK
  <2>4. ChangerTypeOK' /\ StoreTypeOK'
    BY <1>3, <1>4 DEF ChangerTypeOK, StoreTypeOK
  <2> QED BY <1>10, <2>2, <2>3, <2>4 DEF Types
<1>14. /\ \A k \in DOMAIN mUndoStack : mUndoStack[k] \in Entries /\ IsRoot(mUndoStack[k])
       /\ \A k \in DOMAIN mRedoStack : mRedoStack[k] \in Entries /\ IsRoot(mRedoStack[k])
       /\ \A k \in DOMAIN mQueuedEntries : mQueuedEntries[k] \in Entries /\ IsRoot(mQueuedEntries[k])
       /\ mEntryInProgress # 0 => mEntryInProgress \in Entries /\ IsRoot(mEntryInProgress)
       /\ mEntryInProgress = 0 => running = <<>> /\ answers = <<>>
       /\ mOperationTypeInProgress # "none" /\ ~crashed => mEntryInProgress # 0
  BY <1>3, SeqFacts DEF StacksTypeOK, Stacked
<1>15. Stacked'
  <2>1. \A x \in Entries : IsRoot(x) => entries'[x].kind # "none" /\ entries'[x].parent = 0
    BY <1>6, <1>7 DEF IsRoot
  <2>2. r # 0 => entries'[r].kind # "none" /\ entries'[r].parent = 0
    BY <1>6
  <2>3. \A k \in DOMAIN mUndoStack' : entries'[mUndoStack'[k]].kind # "none" /\ entries'[mUndoStack'[k]].parent = 0
    BY <1>11, <1>12, <1>14, <2>1, <2>2
  <2>4. \A k \in DOMAIN mRedoStack' : entries'[mRedoStack'[k]].kind # "none" /\ entries'[mRedoStack'[k]].parent = 0
    BY <1>12, <1>14, <2>1
  <2>5. \A k \in DOMAIN mQueuedEntries' :
          entries'[mQueuedEntries'[k]].kind # "none" /\ entries'[mQueuedEntries'[k]].parent = 0
    BY <1>11, <1>12, <1>14, <2>1, <2>2
  <2> QED BY <1>4, <1>14, <2>1, <2>3, <2>4, <2>5 DEF Stacked, IsRoot
<1>16. \A l \in Entries : Awaited(l)' = Awaited(l)
  BY <1>4, <1>6 DEF Awaited
<1>17. \A l \in Entries : l > n => Awaited(l) = {}
  BY <1>8 DEF Awaited
<1>18. CountsAwaited'
  <2> SUFFICES ASSUME NEW l \in Entries, entries'[l].kind \in Kinds
               PROVE  IsFiniteSet(Awaited(l)) /\ Cardinality(Awaited(l)) <= entries'[l].count
    BY <1>16 DEF CountsAwaited
  <2>1. CASE l <= n
    BY <1>3, <1>7, <2>1 DEF CountsAwaited
  <2>2. CASE l > n
    <3>1. Awaited(l) = {} /\ entries'[l].count \in Nat
      BY <1>5, <1>17, <2>2, EntryFields
    <3> QED BY <3>1, FS_EmptySet
  <2> QED BY <1>6, <2>1, <2>2
<1>19. ChangesInv'
  BY <1>3, <1>4 DEF ChangesInv
<1>20. AsksOnce'
  <2> SUFFICES ASSUME NEW l \in Entries, entries'[l].parent = 0
               PROVE  /\ \A k \in DOMAIN running :
                           running[k].request.entry = l /\ running[k].id \in entries[l].changeIds
                           /\ ~(entries'[l].kind = "delete" /\ running[k].request.kind = "create")
                           => entries[l].changeIds = {running[k].id}
                      /\ \A j \in DOMAIN answers :
                           answers[j].request.entry = l /\ answers[j].change \in entries[l].changeIds
                           /\ ~(entries'[l].kind = "delete" /\ answers[j].request.kind = "create")
                           => entries[l].changeIds = {answers[j].change}
    BY <1>4, <1>6 DEF AsksOnce, Restores
  <2>1. CASE l <= n
    BY <1>3, <1>7, <2>1 DEF AsksOnce, Restores
  <2>2. CASE l > n
    BY <1>8, <2>2
  <2> QED BY <1>6, <2>1, <2>2
<1>21. BatchInv'
  <2>1. ASSUME NEW m \in Entries, entries'[m].kind = "multi"
        PROVE  /\ entries'[m].batch \in 1 .. batch.id
               /\ entries'[m].batch \in OpenBatches =>
                    \A l \in Entries : entries'[l].parent = m => entries[l].changeIds = {}
    <3>1. CASE m <= n
      <4>1. /\ entries[m].kind = "multi" /\ entries[m].batch \in 1 .. batch.id
            /\ entries'[m].batch = entries[m].batch
        BY <1>3, <1>7, <2>1, <3>1 DEF BatchInv
      <4>2. ASSUME entries[m].batch \in OpenBatches, NEW l \in Entries, entries'[l].parent = m
            PROVE  entries[l].changeIds = {}
        <5>1. CASE l <= n
          BY <1>3, <1>7, <4>1, <4>2, <5>1 DEF BatchInv
        <5>2. CASE l > n
          BY <1>8, <5>2
        <5> QED BY <1>6, <5>1, <5>2
      <4> QED BY <4>1, <4>2
    <3>2. CASE m > n
      <4>1. m = p
        <5>1. m # e
          BY <1>5, <2>1 DEF Kinds
        <5>2. m # p => entries'[m].kind = "none"
          BY <1>6, <1>8, <3>2, <5>1
        <5> QED BY <2>1, <5>2
      <4>2. ASSUME NEW l \in Entries, entries'[l].parent = m
            PROVE  entries[l].changeIds = {}
        <5>1. CASE l <= n
          <6>1. entries[l].parent = m
            BY <1>7, <4>2, <5>1
          <6>2. entries[m].kind = "multi"
            BY <1>3, <6>1, BoundsAreNumbers DEF Family
          <6> QED BY <1>6, <3>2, <6>2
        <5>2. CASE l > n
          BY <1>8, <5>2
        <5> QED BY <1>6, <5>1, <5>2
      <4> QED BY <1>6, <3>2, <4>1, <4>2
    <3> QED BY <1>6, <3>1, <3>2
  <2>2. batch.open => batch.id > 0
    BY <1>3 DEF BatchInv
  <2>3. ASSUME NEW m \in Entries, entries'[m].kind = "multi"
        PROVE  /\ entries'[m].batch \in 1 .. batch.id
               /\ entries'[m].batch \in OpenBatches' =>
                    \A l \in Entries : entries'[l].parent = m => entries'[l].changeIds = {}
    BY <1>6, <1>10, <2>1, <2>3
  <2> QED BY <1>4, <1>10, <2>2, <2>3 DEF BatchInv
<1>22. LineInv => OthersAreSettled'
  <2> SUFFICES ASSUME LineInv, ~crashed, NEW x \in Entries, ~InProgress(x)
               PROVE  Settled(x)'
    BY <1>4 DEF OthersAreSettled, InProgress
  <2>1. Settled(x)
    BY DEF LineInv, OthersAreSettled
  <2>2. CASE x > n
    <3>1. ASSUME NEW l \in Entries, Root(l)' = x
          PROVE  Awaited(l) = {}
      <4>1. CASE l <= n
        <5>1. CASE entries[l].parent = 0
          BY <1>6, <1>7, <2>2, <3>1, <4>1, <5>1 DEF Root
        <5>2. CASE entries[l].parent # 0
          <6>1. entries[l].parent = x
            BY <1>7, <3>1, <4>1, <5>2 DEF Root
          <6>2. entries[x].kind = "multi"
            BY <1>3, <5>2, <6>1 DEF Family
          <6> QED BY <1>6, <2>2, <6>2
        <5> QED BY <5>1, <5>2
      <4>2. CASE l > n
        BY <1>17, <4>2
      <4> QED BY <1>6, <4>1, <4>2
    <3> QED BY <1>16, <3>1 DEF Settled
  <2>3. CASE x <= n /\ (\A l \in Entries : Root(l) = x => Awaited(l) = {})
    <3>1. ASSUME NEW l \in Entries, Root(l)' = x
          PROVE  Awaited(l) = {}
      <4>1. CASE l <= n
        <5>1. Root(l) = x
          BY <1>7, <3>1, <4>1 DEF Root
        <5> QED BY <2>3, <5>1
      <4>2. CASE l > n
        BY <1>17, <4>2
      <4> QED BY <1>6, <4>1, <4>2
    <3> QED BY <1>16, <3>1 DEF Settled
  <2>4. CASE x <= n /\ x # p /\ entries[x].kind = "multi" /\ entries[x].count >= Len(entries[x].children)
    BY <1>7, <2>4 DEF Settled
  <2>5. CASE x <= n /\ x = p
    <3>1. entries[x].kind = "multi" /\ entries[x].batch \in OpenBatches
      BY <1>7, <2>5
    <3>2. ASSUME NEW l \in Entries, Root(l) = x
          PROVE  Awaited(l) = {}
      <4>1. CASE entries[l].parent = 0
        <5>1. entries[x].changeIds = {} /\ l = x
          BY <1>3, <3>1, <3>2, <4>1 DEF Family, Root
        <5> QED BY <5>1 DEF Awaited
      <4>2. CASE entries[l].parent # 0
        <5>1. entries[l].parent = x
          BY <3>2, <4>2 DEF Root
        <5>2. entries[l].changeIds = {}
          BY <1>3, <3>1, <5>1 DEF BatchInv
        <5> QED BY <5>2 DEF Awaited
      <4> QED BY <4>1, <4>2
    <3> QED BY <2>3, <2>5, <3>2
  <2> QED BY <1>6, <2>1, <2>2, <2>3, <2>4, <2>5 DEF Settled
<1>23. LineInv => InOrder'
  <2> SUFFICES ASSUME InOrder PROVE InOrder'
    BY DEF LineInv
  <2>1. \A x \in Entries : IsRoot(x) => x <= n /\ x \in Nat
    BY <1>6 DEF IsRoot
  <2>4. r # 0 => \A x \in Entries : IsRoot(x) => x \in Nat /\ x < r
    BY <1>6, <2>1
  <2>2. CASE /\ mOperationTypeInProgress = "none"
             /\ mUndoStack' = PushIfAny(mUndoStack, r) /\ mRedoStack' = <<>> /\ mQueuedEntries' = mQueuedEntries
    <3>1. mQueuedEntries' = <<>>
      BY <2>2 DEF InOrder
    <3>2. r # 0 => \A k \in DOMAIN mUndoStack : mUndoStack[k] < r
      BY <1>14, <2>4
    <3>3. Rising(mUndoStack) /\ mUndoStack \in Seq(Entries)
      BY <1>3 DEF InOrder, StacksTypeOK
    <3>4. Rising(PushIfAny(mUndoStack, r))
      BY <3>2, <3>3, RisingPush
    <3>5. Rising(mUndoStack)'
      BY <2>2, <3>4 DEF Rising
    <3> QED BY <1>4, <1>12, <2>2, <3>1, <3>5 DEF InOrder, Rising
  <2>3. CASE /\ mOperationTypeInProgress # "none"
             /\ mQueuedEntries' = PushIfAny(mQueuedEntries, r)
             /\ mUndoStack' = mUndoStack /\ mRedoStack' = mRedoStack
    <3>1. CASE r = 0
      <4>1. mQueuedEntries' = mQueuedEntries
        BY <2>3, <3>1 DEF PushIfAny
      <4> QED BY <1>4, <2>3, <4>1 DEF InOrder, Rising
    <3>2. CASE r # 0
      <4>1. /\ mQueuedEntries' = Append(mQueuedEntries, r) /\ mQueuedEntries \in Seq(Entries) /\ r \in Entries
            /\ r > n /\ r \in Nat
        BY <1>3, <1>6, <2>3, <3>2 DEF PushIfAny, StacksTypeOK
      <4>2. /\ DOMAIN mQueuedEntries' = 1 .. Len(mQueuedEntries) + 1 /\ DOMAIN mQueuedEntries = 1 .. Len(mQueuedEntries)
            /\ Len(mQueuedEntries) \in Nat /\ mQueuedEntries'[Len(mQueuedEntries) + 1] = r
            /\ \A k \in DOMAIN mQueuedEntries : mQueuedEntries'[k] = mQueuedEntries[k]
            /\ \A k \in DOMAIN mQueuedEntries' : k \in DOMAIN mQueuedEntries \/ k = Len(mQueuedEntries) + 1
        BY <4>1, AppendFacts
      <4>3. /\ \A k \in DOMAIN mUndoStack : mUndoStack[k] \in Nat /\ mUndoStack[k] < r
            /\ \A k \in DOMAIN mRedoStack : mRedoStack[k] \in Nat /\ mRedoStack[k] < r
            /\ \A k \in DOMAIN mQueuedEntries : mQueuedEntries[k] \in Nat /\ mQueuedEntries[k] < r
            /\ ~crashed => mEntryInProgress < r
        BY <1>14, <2>3, <2>4, <3>2
      <4>4. Rising(mQueuedEntries)'
        <5>1. Rising(PushIfAny(mQueuedEntries, r))
          <6>1. Rising(mQueuedEntries)
            BY DEF InOrder
          <6> QED BY <4>1, <4>3, <6>1, RisingPush
        <5> QED BY <2>3, <5>1 DEF Rising
      <4>5. \A j \in DOMAIN mQueuedEntries' :
             /\ \A k \in DOMAIN mUndoStack : mUndoStack[k] < mQueuedEntries'[j]
             /\ \A k \in DOMAIN mRedoStack : mRedoStack[k] < mQueuedEntries'[j]
             /\ ~crashed => mEntryInProgress < mQueuedEntries'[j]
        <5> TAKE j \in DOMAIN mQueuedEntries'
        <5>1. CASE j \in DOMAIN mQueuedEntries
          BY <2>3, <4>2, <5>1 DEF InOrder
        <5>2. CASE j = Len(mQueuedEntries) + 1
          BY <4>2, <4>3, <5>2
        <5> QED BY <4>2, <5>1, <5>2
      <4> QED BY <1>4, <2>3, <4>4, <4>5 DEF InOrder, Rising
    <3> QED BY <3>1, <3>2
  <2> QED BY <1>12, <2>2, <2>3
<1> QED BY <1>9, <1>13, <1>15, <1>18, <1>19, <1>20, <1>21, <1>22, <1>23 DEF HistoryInv, LineInv

-----------------------------------------------------------------------------
(* The answers reach the entries.                                          *)

SameFields(x, y) ==
  /\ x.kind = y.kind /\ x.original = y.original /\ x.children = y.children
  /\ x.batch = y.batch /\ x.parent = y.parent /\ x.changeIds = y.changeIds
  /\ Len(x.items) = Len(y.items)

\* An answer changes the ids of items, counts and results.
Kept(table) ==
  /\ table \in [Entries -> EntryTypes]
  /\ \A x \in Entries : SameFields(table[x], entries[x])

LEMMA UpdateIdsKeeps ==
  ASSUME NEW table, Kept(table), NEW oldId, NEW newId \in Ids
  PROVE  /\ Kept(UpdateIds(table, oldId, newId))
         /\ \A x \in Entries : UpdateIds(table, oldId, newId)[x].count = table[x].count
<1>1. \A x \in Entries : table[x] \in EntryTypes /\ SameFields(table[x], entries[x])
  BY DEF Kept
<1>2. ASSUME NEW x \in Entries
      PROVE  /\ UpdateIds(table, oldId, newId)[x] \in EntryTypes
             /\ SameFields(UpdateIds(table, oldId, newId)[x], entries[x])
             /\ UpdateIds(table, oldId, newId)[x].count = table[x].count
  <2>1. CASE x \in Updated
    <3>1. PICK its \in Seq(ItemTypes) : its = table[x].items
      BY <1>1, EntryFields
    <3>2. Len(its) \in Nat /\ DOMAIN its = 1 .. Len(its) /\ \A k \in DOMAIN its : its[k] \in ItemTypes
      BY SeqFacts
    <3>3. WithId(its, oldId, newId) \in [1 .. Len(its) -> ItemTypes]
      BY <3>2 DEF WithId, ItemTypes
    <3>4. WithId(its, oldId, newId) \in Seq(ItemTypes) /\ Len(WithId(its, oldId, newId)) = Len(its)
      BY <3>2, <3>3, FunctionIsSeq
    <3>5. PICK new \in Seq(ItemTypes) : new = WithId(its, oldId, newId) /\ Len(new) = Len(its)
      BY <3>4
    <3>6. UpdateIds(table, oldId, newId)[x] = [table[x] EXCEPT !.items = new]
      BY <2>1, <3>1, <3>5 DEF UpdateIds
    <3>7. table[x] \in EntryTypes
      BY <1>1
    <3>8. /\ [table[x] EXCEPT !.items = new] \in EntryTypes
          /\ [table[x] EXCEPT !.items = new].items = new
          /\ [table[x] EXCEPT !.items = new].kind = table[x].kind
          /\ [table[x] EXCEPT !.items = new].original = table[x].original
          /\ [table[x] EXCEPT !.items = new].children = table[x].children
          /\ [table[x] EXCEPT !.items = new].batch = table[x].batch
          /\ [table[x] EXCEPT !.items = new].parent = table[x].parent
          /\ [table[x] EXCEPT !.items = new].changeIds = table[x].changeIds
          /\ [table[x] EXCEPT !.items = new].count = table[x].count
      BY <3>7 DEF EntryTypes
    <3> QED BY <1>1, <3>1, <3>5, <3>6, <3>8 DEF SameFields
  <2>2. CASE x \notin Updated
    BY <1>1, <2>2 DEF UpdateIds
  <2> QED BY <2>1, <2>2
<1>3. UpdateIds(table, oldId, newId) \in [Entries -> EntryTypes]
  <2>1. UpdateIds(table, oldId, newId) = [x \in Entries |-> UpdateIds(table, oldId, newId)[x]]
    BY DEF UpdateIds
  <2> QED BY <1>2, <2>1
<1> QED BY <1>2, <1>3 DEF Kept

\* What reaches an entry: its change, or not.
Heard(a, e) ==
  /\ answers # <<>> /\ a = Head(answers) /\ a \in AnswerTypes /\ e = a.request.entry /\ e \in Entries
  /\ answers' = Tail(answers)
  /\ UNCHANGED <<changer, crashed, server, user>>

CountedIf(restored, table, e) ==
  /\ Kept(table)
  /\ \A x \in Entries : table[x].count = IF x = e /\ restored THEN entries[x].count - 1 ELSE entries[x].count

LEMMA DeliverShape ==
  ASSUME HistoryInv, Deliver
  PROVE  \E a \in AnswerTypes, e \in Entries :
           /\ Heard(a, e)
           /\ \/ a.change \notin entries[e].changeIds /\ entries' = entries /\ NotFinished
              \/ /\ a.change \in entries[e].changeIds
                 /\ \E restored \in BOOLEAN, table \in [Entries -> EntryTypes] :
                      /\ restored = Restores(e, a.request)
                      /\ CountedIf(restored, table, e)
                      /\ \/ restored /\ table[e].count > 0 /\ entries' = table /\ NotFinished
                         \/ /\ ~(restored /\ table[e].count > 0)
                            /\ \E success : Finished(table, e, success)
<1>1. /\ answers \in Seq(AnswerTypes) /\ answers # <<>> /\ entries \in [Entries -> EntryTypes]
      /\ \A x \in Entries : entries[x] \in EntryTypes
      /\ \A j \in DOMAIN answers :
           answers[j].success /\ answers[j].request.kind = "create" => answers[j].item # 0
  BY DEF HistoryInv, Types, EntriesTypeOK, ChangerTypeOK, Deliver
<1>2. PICK a \in AnswerTypes : a = Head(answers) /\ a = answers[1] /\ 1 \in DOMAIN answers
  BY <1>1, TailFacts
<1>3. PICK e \in Entries : e = a.request.entry
  BY DEF AnswerTypes, RequestTypes
<1>4. PICK restored \in BOOLEAN : restored = Restores(e, a.request)
  BY DEF Restores
<1>5. PICK oldId : oldId = IF entries[e].kind = "create" THEN entries[e].items[1].id
                           ELSE CHOOSE i \in a.request.ids : TRUE
  OBVIOUS
<1>6. PICK counted : counted = IF restored
                               THEN [entries EXCEPT ![e] = CreationCounted(entries[e], a.success)]
                               ELSE entries
  OBVIOUS
<1>7. PICK table : table = IF a.request.kind = "create" /\ a.success
                           THEN UpdateIds(counted, oldId, a.item) ELSE counted
  OBVIOUS
<1>8. Heard(a, e)
  BY <1>1, <1>2, <1>3 DEF Deliver, Heard
<1>9. \/ /\ a.change \notin entries[e].changeIds
         /\ UNCHANGED entries
         /\ NotFinished
      \/ /\ a.change \in entries[e].changeIds
         /\ restored /\ table[e].count > 0
         /\ entries' = table
         /\ NotFinished
      \/ /\ a.change \in entries[e].changeIds
         /\ ~(restored /\ table[e].count > 0)
         /\ Finished(table, e, IF restored THEN ~table[e].failed ELSE a.success)
  BY <1>2, <1>3, <1>4, <1>5, <1>6, <1>7 DEF Deliver, Restores
<1>10. ASSUME a.change \in entries[e].changeIds PROVE CountedIf(restored, table, e)
  <2>1. CountedIf(restored, counted, e)
    <3>1. CASE restored
      <4>1. entries[e].count \in Nat /\ entries[e].count > 0
        <5>1. a.change \in Awaited(e)
          BY <1>2, <1>3, <1>10 DEF Awaited
        <5>2. IsFiniteSet(Awaited(e)) /\ Cardinality(Awaited(e)) <= entries[e].count
          BY <1>4, <3>1 DEF HistoryInv, CountsAwaited, Restores, Kinds
        <5>3. Cardinality(Awaited(e)) \in Nat /\ Cardinality(Awaited(e)) # 0
          BY <5>1, <5>2, FS_CardinalityType, FS_EmptySet
        <5>4. entries[e].count \in Nat
          BY <1>1, EntryFields
        <5> QED BY <5>2, <5>3, <5>4
      <4>2. PICK n \in Nat : n = entries[e].count - 1
        BY <4>1
      <4>3. PICK f \in BOOLEAN : f = (entries[e].failed \/ ~a.success)
        OBVIOUS
      <4>4. CreationCounted(entries[e], a.success) = [entries[e] EXCEPT !.count = n, !.failed = f]
        BY <4>2, <4>3 DEF CreationCounted
      <4>5. entries[e] \in EntryTypes
        BY <1>1
      <4>6. PICK new : new = [entries[e] EXCEPT !.count = n, !.failed = f]
        OBVIOUS
      <4>7. new \in EntryTypes /\ new.count = n /\ SameFields(new, entries[e])
        BY <4>5, <4>6 DEF EntryTypes, SameFields
      <4>8. counted = [entries EXCEPT ![e] = new]
        BY <1>6, <3>1, <4>4, <4>6
      <4>9. \A x \in Entries : SameFields(entries[x], entries[x])
        BY DEF SameFields
      <4>10. counted \in [Entries -> EntryTypes] /\ counted[e] = new
             /\ \A x \in Entries : x # e => counted[x] = entries[x]
        BY <1>1, <4>7, <4>8
      <4> QED BY <3>1, <4>2, <4>7, <4>9, <4>10 DEF CountedIf, Kept
    <3>2. CASE ~restored
      BY <1>1, <1>6, <3>2 DEF CountedIf, Kept, SameFields
    <3> QED BY <3>1, <3>2
  <2>2. CASE a.request.kind = "create" /\ a.success
    <3>1. a.item \in Ids
      <4>1. a.item \in Ids \cup {0}
        BY DEF AnswerTypes
      <4> QED BY <1>1, <1>2, <2>2, <4>1
    <3>2. table = UpdateIds(counted, oldId, a.item)
      BY <1>7, <2>2
    <3>3. Kept(counted)
      BY <2>1 DEF CountedIf
    <3>4. Kept(table) /\ \A x \in Entries : table[x].count = counted[x].count
      BY <3>1, <3>2, <3>3, UpdateIdsKeeps
    <3> QED BY <2>1, <3>4 DEF CountedIf
  <2>3. CASE ~(a.request.kind = "create" /\ a.success)
    BY <1>7, <2>1, <2>3
  <2> QED BY <2>2, <2>3
<1>11. CountedIf(restored, table, e) => table \in [Entries -> EntryTypes]
  BY DEF CountedIf, Kept
<1> QED BY <1>4, <1>8, <1>9, <1>10, <1>11

OfRoots(s) == s \in Seq(Entries) /\ \A k \in DOMAIN s : IsRoot(s[k])

\* What every answer keeps, whatever it ends.
LEMMA DeliveredKeeps ==
  ASSUME HistoryInv, NEW a \in AnswerTypes, NEW e \in Entries, Heard(a, e), Kept(entries'),
         NEW counts \in BOOLEAN,
         counts => a.change \in entries[e].changeIds /\ Restores(e, a.request),
         \A l \in Entries : entries[l].kind \in Kinds =>
            entries'[l].count = IF l = e /\ counts THEN entries[l].count - 1 ELSE entries[l].count,
         OfRoots(mUndoStack'), OfRoots(mRedoStack'), OfRoots(mQueuedEntries'),
         mOperationTypeInProgress' \in {mOperationTypeInProgress, "none"},
         mEntryInProgress' = mEntryInProgress, mUndoAllInProgress' = mUndoAllInProgress
  PROVE  /\ HistoryInv'
         /\ \A l \in Entries : Awaited(l)' \subseteq Awaited(l)
         /\ counts => a.change \notin Awaited(e)'
<1>1. /\ Types /\ Family /\ Stacked /\ ChangesInv /\ CountsAwaited /\ AsksOnce /\ BatchInv
      /\ UserTypeOK /\ EntriesTypeOK /\ StacksTypeOK /\ ChangerTypeOK /\ StoreTypeOK
  BY DEF HistoryInv, Types
<1>2. /\ answers # <<>> /\ a = Head(answers) /\ e = a.request.entry /\ answers' = Tail(answers)
      /\ latestChange' = latestChange /\ running' = running /\ crashed' = crashed
      /\ store' = store /\ latestId' = latestId /\ latestPayload' = latestPayload
      /\ patient' = patient /\ unrecorded' = unrecorded /\ batch' = batch
  BY DEF Heard, changer, server, user
<1>3. /\ answers \in Seq(AnswerTypes) /\ answers' \in Seq(AnswerTypes)
      /\ a = answers[1] /\ 1 \in DOMAIN answers
      /\ DOMAIN answers = 1 .. Len(answers) /\ Len(answers) \in Nat /\ DOMAIN answers' = 1 .. Len(answers) - 1
      /\ \A j \in DOMAIN answers' : j + 1 \in DOMAIN answers /\ answers'[j] = answers[j + 1] /\ j + 1 # 1
  <2>1. answers \in Seq(AnswerTypes)
    BY <1>1 DEF ChangerTypeOK
  <2>2. /\ Head(answers) = answers[1] /\ 1 \in DOMAIN answers
        /\ Tail(answers) \in Seq(AnswerTypes) /\ DOMAIN Tail(answers) = 1 .. Len(answers) - 1
        /\ Len(answers) \in Nat /\ DOMAIN answers = 1 .. Len(answers)
        /\ \A j \in DOMAIN Tail(answers) : j + 1 \in DOMAIN answers /\ Tail(answers)[j] = answers[j + 1]
    BY <1>2, <2>1, TailFacts
  <2>3. \A j \in DOMAIN Tail(answers) : j + 1 # 1
    BY <2>2
  <2> QED BY <1>2, <2>1, <2>2, <2>3
<1>4. /\ entries' \in [Entries -> EntryTypes]
      /\ \A x \in Entries :
           /\ entries'[x].kind = entries[x].kind /\ entries'[x].original = entries[x].original
           /\ entries'[x].children = entries[x].children /\ entries'[x].batch = entries[x].batch
           /\ entries'[x].parent = entries[x].parent /\ entries'[x].changeIds = entries[x].changeIds
           /\ Len(entries'[x].items) = Len(entries[x].items)
  BY DEF Kept, SameFields
<1>5. Types'
  <2>1. EntriesTypeOK'
    <3>1. \A x \in Entries : entries'[x].changeIds \subseteq 1 .. latestChange /\ HasOneItem(entries'[x])
      BY <1>1, <1>4 DEF EntriesTypeOK, HasOneItem
    <3> QED BY <1>2, <1>4, <3>1 DEF EntriesTypeOK
  <2>2. StacksTypeOK'
    BY <1>1, <1>2 DEF StacksTypeOK, OfRoots
  <2>3. ChangerTypeOK'
    <3>1. \A j \in DOMAIN answers' :
            answers'[j].success /\ answers'[j].request.kind = "create" => answers'[j].item # 0
      BY <1>1, <1>3 DEF ChangerTypeOK
    <3> QED BY <1>1, <1>2, <1>3, <3>1 DEF ChangerTypeOK
  <2>4. UserTypeOK' /\ StoreTypeOK'
    BY <1>1, <1>2 DEF UserTypeOK, StoreTypeOK
  <2> QED BY <2>1, <2>2, <2>3, <2>4 DEF Types
<1>6. Family'
  <2>1. Constructed' = Constructed
    BY <1>4 DEF Constructed
  <2>2. \A x \in Entries : entries[x].parent \in Entries \cup {0}
    BY <1>1, EntriesTyped, EntryFields
  <2>3. \A x \in Entries : \A k \in DOMAIN entries[x].children : entries[x].children[k] \in Entries
    BY <1>1, EntriesTyped, EntryFields, SeqFacts
  <2>4. \A x \in Entries :
          /\ entries'[x].parent # 0 => entries'[entries'[x].parent].kind = "multi"
          /\ \A k \in DOMAIN entries'[x].children :
               entries'[entries'[x].children[k]].parent = x /\ entries'[entries'[x].children[k]].kind \in Kinds
    BY <1>1, <1>4, <2>2, <2>3 DEF Family
  <2>5. \A x \in Entries :
       /\ entries'[x].kind = "none" =>
            entries'[x].children = <<>> /\ entries'[x].parent = 0 /\ entries'[x].changeIds = {}
       /\ entries'[x].kind # "multi" => entries'[x].children = <<>>
       /\ entries'[x].kind = "multi" => entries'[x].parent = 0 /\ entries'[x].changeIds = {}
    BY <1>1, <1>4 DEF Family
  <2> QED BY <1>1, <2>1, <2>4, <2>5 DEF Family
<1>7. Stacked'
  <2>1. \A x \in Entries : IsRoot(x) => entries'[x].kind # "none" /\ entries'[x].parent = 0
    BY <1>4 DEF IsRoot
  <2>2. /\ \A k \in DOMAIN mUndoStack' : mUndoStack'[k] \in Entries /\ IsRoot(mUndoStack'[k])
        /\ \A k \in DOMAIN mRedoStack' : mRedoStack'[k] \in Entries /\ IsRoot(mRedoStack'[k])
        /\ \A k \in DOMAIN mQueuedEntries' : mQueuedEntries'[k] \in Entries /\ IsRoot(mQueuedEntries'[k])
    BY SeqFacts DEF OfRoots
  <2>3. mEntryInProgress # 0 /\ mEntryInProgress \in Entries /\ IsRoot(mEntryInProgress)
    BY <1>1, <1>2 DEF Stacked, StacksTypeOK
  <2>4. /\ \A k \in DOMAIN mUndoStack' : entries'[mUndoStack'[k]].kind # "none" /\ entries'[mUndoStack'[k]].parent = 0
        /\ \A k \in DOMAIN mRedoStack' : entries'[mRedoStack'[k]].kind # "none" /\ entries'[mRedoStack'[k]].parent = 0
        /\ \A k \in DOMAIN mQueuedEntries' :
             entries'[mQueuedEntries'[k]].kind # "none" /\ entries'[mQueuedEntries'[k]].parent = 0
    BY <2>1, <2>2
  <2>5. entries'[mEntryInProgress].kind # "none" /\ entries'[mEntryInProgress].parent = 0
    BY <2>1, <2>3
  <2> QED BY <2>3, <2>4, <2>5 DEF Stacked, IsRoot
<1>8. ChangesInv'
  <2>1. /\ \A j \in DOMAIN answers' : answers'[j].change \in 1 .. latestChange
        /\ \A j \in DOMAIN answers', k \in DOMAIN running : answers'[j].change # running[k].id
    BY <1>1, <1>3 DEF ChangesInv
  <2>2. \A i, j \in DOMAIN answers' : answers'[i].change = answers'[j].change /\ i # j =>
          answers'[i].request.kind = "delete"
    <3> SUFFICES ASSUME NEW i \in DOMAIN answers', NEW j \in DOMAIN answers',
                        answers'[i].change = answers'[j].change, i # j
                 PROVE  answers'[i].request.kind = "delete"
      OBVIOUS
    <3>1. i + 1 # j + 1 /\ i + 1 \in DOMAIN answers /\ j + 1 \in DOMAIN answers
      BY <1>3
    <3>2. answers[i + 1].change = answers[j + 1].change
      BY <1>3
    <3>3. answers[i + 1].request.kind = "delete"
      BY <1>1, <3>1, <3>2 DEF ChangesInv
    <3> QED BY <1>3, <3>3
  <2> QED BY <1>1, <1>2, <2>1, <2>2 DEF ChangesInv
<1>9. \A l \in Entries : Awaited(l)' \subseteq Awaited(l)
  BY <1>2, <1>3, <1>4 DEF Awaited
<1>10. ASSUME counts PROVE a.change \notin Awaited(e)'
  <2>1. a.request.kind = "create"
    BY <1>10 DEF Restores
  <2>2. \A j \in DOMAIN answers' : answers'[j].change # a.change
    <3> SUFFICES ASSUME NEW j \in DOMAIN answers', answers'[j].change = a.change
                 PROVE  FALSE
      OBVIOUS
    <3>1. j + 1 \in DOMAIN answers /\ j + 1 # 1 /\ answers[1].change = answers[j + 1].change
      BY <1>3
    <3>2. answers[1].request.kind = "delete"
      BY <1>1, <1>3, <3>1 DEF ChangesInv
    <3> QED BY <1>3, <2>1, <3>2
  <2>3. \A k \in DOMAIN running : running[k].id # a.change
    BY <1>1, <1>3 DEF ChangesInv
  <2> QED BY <1>2, <2>2, <2>3 DEF Awaited
<1>11. CountsAwaited'
  <2> SUFFICES ASSUME NEW l \in Entries, entries'[l].kind \in Kinds
               PROVE  IsFiniteSet(Awaited(l)') /\ Cardinality(Awaited(l)') <= entries'[l].count
    BY DEF CountsAwaited
  <2>1. PICK before : before = Awaited(l)
    OBVIOUS
  <2>2. PICK after : after = Awaited(l)'
    OBVIOUS
  <2>3. /\ IsFiniteSet(before) /\ Cardinality(before) <= entries[l].count /\ after \subseteq before
        /\ entries[l].kind \in Kinds /\ entries[l].count \in Nat
    <3>1. entries[l].kind \in Kinds /\ entries[l].count \in Nat
      BY <1>1, <1>4, EntriesTyped, EntryFields
    <3> QED BY <1>1, <1>9, <2>1, <2>2, <3>1 DEF CountsAwaited
  <2>4. /\ IsFiniteSet(after) /\ Cardinality(after) <= Cardinality(before)
        /\ Cardinality(after) \in Nat /\ Cardinality(before) \in Nat
    <3>1. IsFiniteSet(after) /\ Cardinality(after) <= Cardinality(before)
      BY <2>3, FS_Subset
    <3> QED BY <2>3, <3>1, FS_CardinalityType
  <2>5. CASE ~(l = e /\ counts)
    BY <2>2, <2>3, <2>4, <2>5
  <2>6. CASE l = e /\ counts
    <3>1. a.change \in before /\ a.change \notin after
      BY <1>2, <1>3, <1>10, <2>1, <2>2, <2>6 DEF Awaited
    <3>2. after \subseteq before \ {a.change}
      BY <2>3, <3>1
    <3>3. IsFiniteSet(before \ {a.change}) /\ Cardinality(before \ {a.change}) = Cardinality(before) - 1
      BY <2>3, <3>1, FS_RemoveElement
    <3>4. Cardinality(after) <= Cardinality(before \ {a.change})
      BY <3>2, <3>3, FS_Subset
    <3>5. entries'[l].count = entries[l].count - 1
      BY <2>3, <2>6
    <3> QED BY <2>2, <2>3, <2>4, <3>3, <3>4, <3>5
  <2> QED BY <2>5, <2>6
<1>12. AsksOnce'
  <2> SUFFICES ASSUME NEW l \in Entries, entries'[l].parent = 0
               PROVE  /\ \A k \in DOMAIN running :
                           running[k].request.entry = l /\ running[k].id \in entries'[l].changeIds
                           /\ ~(entries'[l].kind = "delete" /\ running[k].request.kind = "create")
                           => entries'[l].changeIds = {running[k].id}
                      /\ \A j \in DOMAIN answers' :
                           answers'[j].request.entry = l /\ answers'[j].change \in entries'[l].changeIds
                           /\ ~(entries'[l].kind = "delete" /\ answers'[j].request.kind = "create")
                           => entries'[l].changeIds = {answers'[j].change}
    BY <1>2 DEF AsksOnce, Restores
  <2>1. /\ entries[l].parent = 0 /\ entries'[l].kind = entries[l].kind
        /\ entries'[l].changeIds = entries[l].changeIds
    BY <1>4
  <2> QED BY <1>1, <1>3, <2>1 DEF AsksOnce, Restores
<1>13. BatchInv'
  <2>1. OpenBatches' = OpenBatches
    BY <1>2 DEF OpenBatches
  <2> QED BY <1>1, <1>2, <1>4, <2>1 DEF BatchInv
<1> QED BY <1>5, <1>6, <1>7, <1>8, <1>9, <1>10, <1>11, <1>12, <1>13 DEF HistoryInv

LEMMA ConcatFacts ==
  ASSUME NEW S, NEW s \in Seq(S), NEW t \in Seq(S)
  PROVE  /\ s \o t \in Seq(S) /\ DOMAIN (s \o t) = 1 .. Len(s) + Len(t)
         /\ Len(s) \in Nat /\ DOMAIN s = 1 .. Len(s) /\ Len(t) \in Nat /\ DOMAIN t = 1 .. Len(t)
         /\ \A k \in DOMAIN (s \o t) :
              \/ k \in DOMAIN s /\ (s \o t)[k] = s[k]
              \/ k \in Nat /\ k > Len(s) /\ k - Len(s) \in DOMAIN t /\ (s \o t)[k] = t[k - Len(s)]
<1>1. /\ s \o t \in Seq(S) /\ Len(s \o t) = Len(s) + Len(t)
      /\ \A i \in 1 .. Len(s) + Len(t) : (s \o t)[i] = IF i <= Len(s) THEN s[i] ELSE t[i - Len(s)]
  BY ConcatProperties
<1>2. Len(s) \in Nat /\ DOMAIN s = 1 .. Len(s) /\ Len(t) \in Nat /\ DOMAIN t = 1 .. Len(t)
  BY SeqFacts
<1>3. DOMAIN (s \o t) = 1 .. Len(s) + Len(t)
  BY <1>1, SeqFacts
<1>4. ASSUME NEW k \in 1 .. Len(s) + Len(t)
      PROVE  \/ k \in DOMAIN s /\ (s \o t)[k] = s[k]
             \/ k \in Nat /\ k > Len(s) /\ k - Len(s) \in DOMAIN t /\ (s \o t)[k] = t[k - Len(s)]
  <2>1. CASE k <= Len(s)
    BY <1>1, <1>2, <2>1
  <2>2. CASE ~(k <= Len(s))
    <3>1. k - Len(s) \in 1 .. Len(t) /\ k > Len(s) /\ k \in Nat
      BY <1>2, <2>2
    <3> QED BY <1>1, <1>2, <2>2, <3>1
  <2> QED BY <2>1, <2>2
<1> QED BY <1>1, <1>2, <1>3, <1>4

LEMMA RisingConcat ==
  ASSUME NEW s \in Seq(Entries), NEW t \in Seq(Entries), Rising(s), Rising(t),
         \A j \in DOMAIN s, k \in DOMAIN t : s[j] < t[k]
  PROVE  Rising(s \o t)
<1>1. /\ Len(s) \in Nat /\ DOMAIN s = 1 .. Len(s) /\ DOMAIN (s \o t) = 1 .. Len(s) + Len(t) /\ Len(t) \in Nat
      /\ DOMAIN t = 1 .. Len(t)
      /\ \A k \in DOMAIN (s \o t) :
              \/ k \in DOMAIN s /\ (s \o t)[k] = s[k]
              \/ k \in Nat /\ k > Len(s) /\ k - Len(s) \in DOMAIN t /\ (s \o t)[k] = t[k - Len(s)]
  BY ConcatFacts
<1>2. ASSUME NEW j \in DOMAIN (s \o t), NEW k \in DOMAIN (s \o t), j < k
      PROVE  (s \o t)[j] < (s \o t)[k]
  <2>1. CASE /\ j \in DOMAIN s /\ (s \o t)[j] = s[j]
             /\ k \in DOMAIN s /\ (s \o t)[k] = s[k]
    BY <1>2, <2>1 DEF Rising
  <2>2. CASE /\ j \in DOMAIN s /\ (s \o t)[j] = s[j]
             /\ k - Len(s) \in DOMAIN t /\ (s \o t)[k] = t[k - Len(s)]
    BY <2>2
  <2>3. CASE /\ j \in Nat /\ k \in Nat /\ j - Len(s) \in DOMAIN t /\ (s \o t)[j] = t[j - Len(s)]
             /\ k - Len(s) \in DOMAIN t /\ (s \o t)[k] = t[k - Len(s)]
    <3>1. j - Len(s) < k - Len(s)
      BY <1>1, <1>2, <2>3
    <3> QED BY <2>3, <3>1 DEF Rising
  <2>4. ~(j > Len(s) /\ k \in DOMAIN s)
    BY <1>1, <1>2
  <2> QED BY <1>1, <2>1, <2>2, <2>3, <2>4
<1> QED BY <1>2 DEF Rising

\* handleFinished() stacks the entry in progress and what was queued.
LEMMA FinishedStacks ==
  ASSUME HistoryInv, answers # <<>>, NEW success, HandleFinished(success)
  PROVE  /\ OfRoots(mUndoStack') /\ OfRoots(mRedoStack') /\ OfRoots(mQueuedEntries')
         /\ mOperationTypeInProgress' = "none"
         /\ mEntryInProgress' = mEntryInProgress /\ mUndoAllInProgress' = mUndoAllInProgress
<1>1. /\ mUndoStack \in Seq(Entries) /\ mRedoStack \in Seq(Entries) /\ mQueuedEntries \in Seq(Entries)
      /\ mEntryInProgress \in Entries /\ IsRoot(mEntryInProgress)
      /\ \A k \in DOMAIN mUndoStack : IsRoot(mUndoStack[k])
      /\ \A k \in DOMAIN mRedoStack : IsRoot(mRedoStack[k])
      /\ \A k \in DOMAIN mQueuedEntries : IsRoot(mQueuedEntries[k])
  BY DEF HistoryInv, Types, StacksTypeOK, Stacked
<1>2. OfRoots(mUndoStack) /\ OfRoots(mRedoStack) /\ OfRoots(mQueuedEntries)
  BY <1>1 DEF OfRoots
<1>3. ASSUME NEW s, OfRoots(s) PROVE OfRoots(Append(s, mEntryInProgress))
  <2>1. s \in Seq(Entries) /\ \A k \in DOMAIN s : IsRoot(s[k])
    BY <1>3 DEF OfRoots
  <2>2. /\ Append(s, mEntryInProgress) \in Seq(Entries)
        /\ Append(s, mEntryInProgress)[Len(s) + 1] = mEntryInProgress
        /\ \A k \in DOMAIN s : Append(s, mEntryInProgress)[k] = s[k]
        /\ \A k \in DOMAIN Append(s, mEntryInProgress) : k \in DOMAIN s \/ k = Len(s) + 1
    BY <1>1, <2>1, AppendFacts
  <2>3. \A k \in DOMAIN Append(s, mEntryInProgress) : IsRoot(Append(s, mEntryInProgress)[k])
    BY <1>1, <2>1, <2>2
  <2> QED BY <2>2, <2>3 DEF OfRoots
<1>4. ASSUME NEW s, NEW t, OfRoots(s), OfRoots(t) PROVE OfRoots(s \o t)
  <2>1. /\ s \in Seq(Entries) /\ \A k \in DOMAIN s : IsRoot(s[k])
        /\ t \in Seq(Entries) /\ \A k \in DOMAIN t : IsRoot(t[k])
    BY <1>4 DEF OfRoots
  <2>2. /\ s \o t \in Seq(Entries)
        /\ \A k \in DOMAIN (s \o t) :
              \/ k \in DOMAIN s /\ (s \o t)[k] = s[k]
              \/ k - Len(s) \in DOMAIN t /\ (s \o t)[k] = t[k - Len(s)]
    BY <2>1, ConcatFacts
  <2>3. \A k \in DOMAIN (s \o t) : IsRoot((s \o t)[k])
    BY <2>1, <2>2
  <2> QED BY <2>2, <2>3 DEF OfRoots
<1>5. OfRoots(<<>>)
  BY EmptySeq DEF OfRoots
<1>6. ASSUME NEW undo, NEW redo, OfRoots(undo), OfRoots(redo), QueuedMoved(undo, redo)
      PROVE  OfRoots(mUndoStack') /\ OfRoots(mRedoStack') /\ OfRoots(mQueuedEntries')
  BY <1>2, <1>4, <1>5, <1>6 DEF QueuedMoved
<1>7. \/ QueuedMoved(Append(mUndoStack, mEntryInProgress), mRedoStack)
      \/ QueuedMoved(mUndoStack, Append(mRedoStack, mEntryInProgress))
  BY DEF HandleFinished
<1>8. OfRoots(mUndoStack') /\ OfRoots(mRedoStack') /\ OfRoots(mQueuedEntries')
  BY <1>2, <1>3, <1>6, <1>7
<1> QED BY <1>8 DEF HandleFinished

\* The entry that was in progress lies between the stacks.
LEMMA FinishedOrder ==
  ASSUME HistoryInv, InOrder, mOperationTypeInProgress # "none", ~crashed, answers # <<>>,
         NEW success, HandleFinished(success)
  PROVE  InOrder'
<1>1. /\ mUndoStack \in Seq(Entries) /\ mRedoStack \in Seq(Entries) /\ mQueuedEntries \in Seq(Entries)
      /\ mEntryInProgress \in Entries /\ <<>> \in Seq(Entries)
  BY DEF HistoryInv, Types, StacksTypeOK, Stacked
<1>2. ASSUME NEW undo \in Seq(Entries), NEW redo \in Seq(Entries), Rising(undo),
             \A j, k \in DOMAIN redo : j < k => redo[j] > redo[k],
             \A j \in DOMAIN undo, k \in DOMAIN redo : undo[j] < redo[k],
             \A j \in DOMAIN undo, k \in DOMAIN mQueuedEntries : undo[j] < mQueuedEntries[k],
             QueuedMoved(undo, redo)
      PROVE  InOrder'
  <2>1. Rising(mQueuedEntries)
    BY DEF InOrder
  <2>2. Rising(undo \o mQueuedEntries)
    BY <1>1, <1>2, <2>1, RisingConcat
  <2>3. /\ mUndoStack' = undo \o mQueuedEntries /\ mQueuedEntries' = <<>> /\ DOMAIN <<>> = {}
        /\ mRedoStack' = IF mQueuedEntries = <<>> THEN redo ELSE <<>>
    BY <1>2 DEF QueuedMoved
  <2>4. mOperationTypeInProgress' = "none"
    BY DEF HandleFinished
  <2>5. CASE mQueuedEntries = <<>>
    <3>1. mUndoStack' = undo
      BY <1>1, <2>3, <2>5, ConcatEmptySeq
    <3>2. mRedoStack' = redo
      BY <2>3, <2>5
    <3> QED BY <1>2, <2>3, <2>4, <3>1, <3>2 DEF InOrder, Rising
  <2>6. CASE mQueuedEntries # <<>>
    <3>1. mRedoStack' = <<>>
      BY <2>3, <2>6
    <3> QED BY <2>2, <2>3, <2>4, <3>1 DEF InOrder, Rising
  <2> QED BY <2>5, <2>6
<1>3. CASE QueuedMoved(Append(mUndoStack, mEntryInProgress), mRedoStack)
  <2>1. PICK undo \in Seq(Entries) : undo = Append(mUndoStack, mEntryInProgress)
    BY <1>1, AppendFacts
  <2>2. Rising(undo)
    <3>1. PushIfAny(mUndoStack, mEntryInProgress) = undo /\ mEntryInProgress \in Entries \cup {0}
      BY <1>1, <2>1, BoundsAreNumbers DEF PushIfAny
    <3>2. Rising(mUndoStack) /\ \A k \in DOMAIN mUndoStack : mUndoStack[k] < mEntryInProgress
      BY DEF InOrder
    <3>3. Rising(PushIfAny(mUndoStack, mEntryInProgress))
      BY <1>1, <3>1, <3>2, RisingPush
    <3> QED BY <3>1, <3>3
  <2>3. \A k \in DOMAIN undo : undo[k] = mEntryInProgress \/ (k \in DOMAIN mUndoStack /\ undo[k] = mUndoStack[k])
    BY <1>1, <2>1, AppendFacts
  <2>4. /\ \A j \in DOMAIN undo, k \in DOMAIN mRedoStack : undo[j] < mRedoStack[k]
        /\ \A j \in DOMAIN undo, k \in DOMAIN mQueuedEntries : undo[j] < mQueuedEntries[k]
        /\ \A j, k \in DOMAIN mRedoStack : j < k => mRedoStack[j] > mRedoStack[k]
    BY <2>3 DEF InOrder
  <2>5. QueuedMoved(undo, mRedoStack)
    BY <1>3, <2>1
  <2> QED BY <1>1, <1>2, <2>2, <2>4, <2>5
<1>4. CASE QueuedMoved(mUndoStack, Append(mRedoStack, mEntryInProgress))
  <2>1. PICK redo \in Seq(Entries) : redo = Append(mRedoStack, mEntryInProgress)
    BY <1>1, AppendFacts
  <2>2. /\ Len(mRedoStack) \in Nat /\ DOMAIN mRedoStack = 1 .. Len(mRedoStack)
        /\ DOMAIN redo = 1 .. Len(mRedoStack) + 1 /\ redo[Len(mRedoStack) + 1] = mEntryInProgress
        /\ \A k \in DOMAIN mRedoStack : redo[k] = mRedoStack[k]
        /\ \A k \in DOMAIN redo : k \in DOMAIN mRedoStack \/ k = Len(mRedoStack) + 1
    BY <1>1, <2>1, AppendFacts
  <2>3. \A j, k \in DOMAIN redo : j < k => redo[j] > redo[k]
    <3> SUFFICES ASSUME NEW j \in DOMAIN redo, NEW k \in DOMAIN redo, j < k PROVE redo[j] > redo[k]
      OBVIOUS
    <3>1. j \in DOMAIN mRedoStack
      BY <2>2
    <3>2. CASE k \in DOMAIN mRedoStack
      BY <2>2, <3>1, <3>2 DEF InOrder
    <3>3. CASE k = Len(mRedoStack) + 1
      <4>1. mEntryInProgress < mRedoStack[j] /\ mEntryInProgress \in Nat /\ mRedoStack[j] \in Nat
        BY <1>1, <3>1, SeqFacts, BoundsAreNumbers DEF InOrder
      <4> QED BY <2>2, <3>1, <3>3, <4>1
    <3> QED BY <2>2, <3>2, <3>3
  <2>4. \A k \in DOMAIN redo : redo[k] = mEntryInProgress \/ (k \in DOMAIN mRedoStack /\ redo[k] = mRedoStack[k])
    BY <2>2
  <2>5. /\ \A j \in DOMAIN mUndoStack, k \in DOMAIN redo : mUndoStack[j] < redo[k]
        /\ \A j \in DOMAIN mUndoStack, k \in DOMAIN mQueuedEntries : mUndoStack[j] < mQueuedEntries[k]
        /\ Rising(mUndoStack)
    BY <2>4 DEF InOrder
  <2>6. QueuedMoved(mUndoStack, redo)
    BY <1>4, <2>1
  <2> QED BY <1>1, <1>2, <2>3, <2>5, <2>6
<1> QED BY <1>3, <1>4 DEF HandleFinished

\* What an entry or its MultiEntry does when the last answer it waits for is there.
LEMMA FinishedShape ==
  ASSUME HistoryInv, NEW a \in AnswerTypes, NEW e \in Entries, Heard(a, e), a.change \in entries[e].changeIds,
         NEW restored \in BOOLEAN, NEW table, CountedIf(restored, table, e),
         NEW success, Finished(table, e, success)
  PROVE  /\ Kept(entries')
         /\ \A l \in Entries : entries[l].kind # "multi" =>
              entries'[l].count = IF l = e /\ restored THEN entries[l].count - 1 ELSE entries[l].count
         /\ \A m \in Entries : entries[m].kind = "multi" =>
              entries'[m].count >= entries[m].count \/ entries'[m].count >= Len(entries[m].children)
         /\ \/ NotFinished /\ entries[e].parent # 0
            \/ /\ HandleFinished(success)
               /\ entries[e].parent # 0 =>
                    /\ entries[entries[e].parent].count < Len(entries[entries[e].parent].children)
                    /\ entries'[entries[e].parent].count = Len(entries[entries[e].parent].children)
<1>1. /\ Kept(table)
      /\ \A x \in Entries : table[x].count = IF x = e /\ restored THEN entries[x].count - 1 ELSE entries[x].count
  BY DEF CountedIf
<1>2. entries[e].kind # "multi"
  BY DEF HistoryInv, Family
<1>3. /\ table \in [Entries -> EntryTypes]
      /\ \A x \in Entries : table[x] \in EntryTypes /\ SameFields(table[x], entries[x])
      /\ \A x \in Entries : table[x].children = entries[x].children /\ table[x].parent = entries[x].parent
  BY <1>1 DEF Kept, SameFields
<1>4. \A x \in Entries : entries[x].count \in Nat /\ Len(entries[x].children) \in Nat /\ entries[x].parent \in Entries \cup {0}
  BY EntriesTyped, EntryFields, SeqFacts DEF HistoryInv, Types
<1>5. CASE /\ entries[e].parent = 0
           /\ entries' = table /\ HandleFinished(success)
  <2>1. \A m \in Entries : entries[m].kind = "multi" => entries'[m].count >= entries[m].count
    BY <1>1, <1>2, <1>4, <1>5
  <2> QED BY <1>1, <1>5, <2>1
<1>6. CASE entries[e].parent # 0 /\ OnEntryFinished(table, entries[e].parent, success)
  <2>1. PICK m \in Entries : m = entries[e].parent
    BY <1>4, <1>6
  <2>2. entries[m].kind = "multi" /\ m # e
    BY <1>2, <1>6, <2>1 DEF HistoryInv, Family
  <2>3. table[m].count = entries[m].count /\ table[m].children = entries[m].children
    BY <1>1, <1>3, <2>2
  <2>4. PICK all \in Nat : all = Len(entries[m].children)
    BY <1>4
  <2>5. PICK finished \in Nat : finished = entries[m].count + 1
    BY <1>4
  <2>6. \/ /\ finished = all \/ (finished < all /\ ~success)
           /\ entries' = [table EXCEPT ![m].count = all]
           /\ HandleFinished(success)
        \/ /\ ~(finished = all \/ (finished < all /\ ~success))
           /\ entries' = [table EXCEPT ![m].count = finished]
           /\ NotFinished
    BY <1>6, <2>1, <2>3, <2>4, <2>5 DEF OnEntryFinished
  <2>7. ASSUME NEW n \in Nat, entries' = [table EXCEPT ![m].count = n]
        PROVE  /\ Kept(entries') /\ entries'[m].count = n
               /\ \A x \in Entries : x # m => entries'[x] = table[x]
    <3>1. entries' = [table EXCEPT ![m] = [table[m] EXCEPT !.count = n]]
      BY <2>7
    <3>2. PICK new : new = [table[m] EXCEPT !.count = n]
      OBVIOUS
    <3>3. table[m] \in EntryTypes /\ SameFields(table[m], entries[m])
      BY <1>3
    <3>4. new \in EntryTypes /\ SameFields(new, table[m]) /\ new.count = n
      BY <3>2, <3>3 DEF EntryTypes, SameFields
    <3>5. SameFields(new, entries[m])
      BY <3>3, <3>4 DEF SameFields
    <3>6. entries' \in [Entries -> EntryTypes] /\ entries'[m] = new /\ \A x \in Entries : x # m => entries'[x] = table[x]
      BY <1>3, <3>1, <3>2, <3>4
    <3> QED BY <1>3, <3>4, <3>5, <3>6 DEF Kept
  <2>8. PICK n \in Nat : entries' = [table EXCEPT ![m].count = n] /\ (n = all \/ n = finished)
    BY <2>6
  <2>9. /\ Kept(entries') /\ entries'[m].count = n
        /\ \A x \in Entries : x # m => entries'[x] = table[x]
    BY <2>7, <2>8
  <2>10. \A l \in Entries : entries[l].kind # "multi" =>
              entries'[l].count = IF l = e /\ restored THEN entries[l].count - 1 ELSE entries[l].count
    BY <1>1, <2>2, <2>9
  <2>11. \A x \in Entries : entries[x].kind = "multi" =>
              entries'[x].count >= entries[x].count \/ entries'[x].count >= Len(entries[x].children)
    <3> TAKE x \in Entries
    <3>1. CASE x = m
      <4>1. entries[m].count \in Nat
        BY <1>4
      <4>2. n >= entries[m].count \/ n >= Len(entries[m].children)
        BY <2>4, <2>5, <2>8, <4>1
      <4> QED BY <2>9, <3>1, <4>2
    <3>2. CASE x # m
      BY <1>1, <1>2, <1>4, <2>9, <3>2
    <3> QED BY <3>1, <3>2
  <2>12. CASE /\ finished = all \/ (finished < all /\ ~success)
              /\ entries' = [table EXCEPT ![m].count = all]
              /\ HandleFinished(success)
    <3>1. entries'[m].count = all
      BY <2>7, <2>12
    <3>2. entries[m].count < all
      BY <1>4, <2>5, <2>12
    <3> QED BY <2>1, <2>4, <2>9, <2>10, <2>11, <2>12, <3>1, <3>2
  <2> QED BY <1>6, <2>6, <2>9, <2>10, <2>11, <2>12
<1> QED BY <1>3, <1>5, <1>6 DEF Finished

\* Whatever stays under way cannot end the operation of another entry.
LEMMA SettledKeeps ==
  ASSUME Kept(entries'), \A l \in Entries : Awaited(l)' \subseteq Awaited(l),
         \A m \in Entries : entries[m].kind = "multi" =>
              entries'[m].count >= entries[m].count \/ entries'[m].count >= Len(entries[m].children),
         EntriesTypeOK, NEW r \in Entries, Settled(r)
  PROVE  Settled(r)'
<1>1. \A x \in Entries : entries'[x].kind = entries[x].kind /\ entries'[x].children = entries[x].children
                         /\ entries'[x].parent = entries[x].parent
  BY DEF Kept, SameFields
<1>2. entries'[r] \in EntryTypes /\ entries[r] \in EntryTypes
  BY EntriesTyped DEF Kept
<1>3. entries'[r].count \in Nat /\ entries[r].count \in Nat /\ Len(entries[r].children) \in Nat
  BY <1>2, EntryFields, SeqFacts
<1>4. CASE \A l \in Entries : Root(l) = r => Awaited(l) = {}
  BY <1>1, <1>4 DEF Settled, Root
<1>5. CASE entries[r].kind = "multi" /\ entries[r].count >= Len(entries[r].children)
  <2>1. entries'[r].count >= Len(entries[r].children)
    BY <1>3, <1>5
  <2> QED BY <1>1, <1>5, <2>1 DEF Settled
<1> QED BY <1>4, <1>5 DEF Settled

LEMMA DeliverStep ==
  ASSUME HistoryInv, ~crashed, Deliver
  PROVE  HistoryInv' /\ (LineInv /\ AnsweredOnce => LineInv')
<1>1. PICK a \in AnswerTypes, e \in Entries :
           /\ Heard(a, e)
           /\ \/ a.change \notin entries[e].changeIds /\ entries' = entries /\ NotFinished
              \/ /\ a.change \in entries[e].changeIds
                 /\ \E restored \in BOOLEAN, table \in [Entries -> EntryTypes] :
                      /\ restored = Restores(e, a.request)
                      /\ CountedIf(restored, table, e)
                      /\ \/ restored /\ table[e].count > 0 /\ entries' = table /\ NotFinished
                         \/ /\ ~(restored /\ table[e].count > 0)
                            /\ \E success : Finished(table, e, success)
  BY DeliverShape
<1>2. /\ Types /\ Family /\ Stacked /\ ChangesInv /\ CountsAwaited /\ AsksOnce /\ EntriesTypeOK /\ StacksTypeOK
      /\ ChangerTypeOK
  BY DEF HistoryInv, Types
<1>3. /\ a = Head(answers) /\ answers # <<>> /\ answers' = Tail(answers) /\ e = a.request.entry
      /\ running' = running /\ crashed' = crashed
  BY <1>1 DEF Heard, changer
<1>4. /\ a = answers[1] /\ 1 \in DOMAIN answers
      /\ \A j \in DOMAIN answers' : j + 1 \in DOMAIN answers /\ answers'[j] = answers[j + 1] /\ j + 1 # 1
  <2>1. /\ Head(answers) = answers[1] /\ 1 \in DOMAIN answers /\ DOMAIN Tail(answers) = 1 .. Len(answers) - 1
        /\ Len(answers) \in Nat
        /\ \A j \in DOMAIN Tail(answers) : j + 1 \in DOMAIN answers /\ Tail(answers)[j] = answers[j + 1]
    BY <1>2, <1>3, TailFacts DEF ChangerTypeOK
  <2>2. \A j \in DOMAIN Tail(answers) : j + 1 # 1
    BY <2>1
  <2> QED BY <1>3, <2>1, <2>2
<1>5. OfRoots(mUndoStack) /\ OfRoots(mRedoStack) /\ OfRoots(mQueuedEntries)
  BY <1>2 DEF Stacked, StacksTypeOK, OfRoots
<1>6. ASSUME NotFinished
      PROVE  /\ mUndoStack' = mUndoStack /\ mRedoStack' = mRedoStack /\ mQueuedEntries' = mQueuedEntries
             /\ mOperationTypeInProgress' = mOperationTypeInProgress /\ mEntryInProgress' = mEntryInProgress
             /\ mUndoAllInProgress' = mUndoAllInProgress
  BY <1>6 DEF NotFinished, stacks, op
\* Every case of it keeps the line if it does not end the operation.
<1>7. ASSUME NotFinished, Kept(entries'), \A l \in Entries : Awaited(l)' \subseteq Awaited(l),
             \A m \in Entries : entries[m].kind = "multi" =>
               entries'[m].count >= entries[m].count \/ entries'[m].count >= Len(entries[m].children),
             LineInv
      PROVE  LineInv'
  <2>1. \A r \in Entries : Settled(r) => Settled(r)'
    BY <1>2, <1>7, SettledKeeps
  <2>2. OthersAreSettled'
    BY <1>3, <1>6, <1>7, <2>1 DEF LineInv, OthersAreSettled, InProgress
  <2>3. InOrder'
    BY <1>3, <1>6, <1>7 DEF LineInv, InOrder, Rising
  <2> QED BY <2>2, <2>3 DEF LineInv
<1>8. \A x \in Entries : entries[x].count \in Nat
  BY <1>2, EntriesTyped, EntryFields
<1>9. CASE a.change \notin entries[e].changeIds /\ entries' = entries /\ NotFinished
  <2>1. Kept(entries')
    BY <1>2, <1>9 DEF Kept, SameFields, EntriesTypeOK
  <2>2. PICK counts \in BOOLEAN : counts = FALSE
    OBVIOUS
  <2>3. /\ \A l \in Entries : entries[l].kind \in Kinds =>
             entries'[l].count = IF l = e /\ counts THEN entries[l].count - 1 ELSE entries[l].count
        /\ counts => a.change \in entries[e].changeIds /\ Restores(e, a.request)
    BY <1>9, <2>2
  <2>4. /\ OfRoots(mUndoStack') /\ OfRoots(mRedoStack') /\ OfRoots(mQueuedEntries')
        /\ mOperationTypeInProgress' \in {mOperationTypeInProgress, "none"}
        /\ mEntryInProgress' = mEntryInProgress /\ mUndoAllInProgress' = mUndoAllInProgress
    BY <1>5, <1>6, <1>9
  <2>5. HistoryInv' /\ \A l \in Entries : Awaited(l)' \subseteq Awaited(l)
    BY <1>1, <2>1, <2>3, <2>4, DeliveredKeeps
  <2>6. \A m \in Entries : entries[m].kind = "multi" =>
          entries'[m].count >= entries[m].count \/ entries'[m].count >= Len(entries[m].children)
    BY <1>8, <1>9
  <2> QED BY <1>7, <1>9, <2>1, <2>5, <2>6
<1>10. ASSUME a.change \in entries[e].changeIds, NEW restored \in BOOLEAN, NEW table \in [Entries -> EntryTypes],
              restored = Restores(e, a.request), CountedIf(restored, table, e),
              restored, table[e].count > 0, entries' = table, NotFinished
       PROVE  HistoryInv' /\ (LineInv => LineInv')
  <2>1. /\ Kept(entries')
        /\ \A x \in Entries : entries'[x].count = IF x = e /\ restored THEN entries[x].count - 1 ELSE entries[x].count
    BY <1>10 DEF CountedIf
  <2>2. /\ OfRoots(mUndoStack') /\ OfRoots(mRedoStack') /\ OfRoots(mQueuedEntries')
        /\ mOperationTypeInProgress' \in {mOperationTypeInProgress, "none"}
        /\ mEntryInProgress' = mEntryInProgress /\ mUndoAllInProgress' = mUndoAllInProgress
    BY <1>5, <1>6, <1>10
  <2>3. HistoryInv' /\ \A l \in Entries : Awaited(l)' \subseteq Awaited(l)
    BY <1>1, <1>10, <2>1, <2>2, DeliveredKeeps
  <2>4. \A m \in Entries : entries[m].kind = "multi" =>
          entries'[m].count >= entries[m].count \/ entries'[m].count >= Len(entries[m].children)
    <3>1. entries[e].kind # "multi"
      BY <1>10 DEF Restores
    <3>2. \A m \in Entries : entries[m].kind = "multi" => entries'[m].count = entries[m].count
      BY <2>1, <3>1
    <3> QED BY <1>8, <3>2
  <2> QED BY <1>7, <1>10, <2>1, <2>3, <2>4
<1>11. ASSUME a.change \in entries[e].changeIds, NEW restored \in BOOLEAN, NEW table \in [Entries -> EntryTypes],
              restored = Restores(e, a.request), CountedIf(restored, table, e),
              ~(restored /\ table[e].count > 0), NEW success, Finished(table, e, success)
       PROVE  HistoryInv' /\ (LineInv /\ AnsweredOnce => LineInv')
  <2>1. /\ Kept(entries')
        /\ \A l \in Entries : entries[l].kind # "multi" =>
              entries'[l].count = IF l = e /\ restored THEN entries[l].count - 1 ELSE entries[l].count
        /\ \A m \in Entries : entries[m].kind = "multi" =>
              entries'[m].count >= entries[m].count \/ entries'[m].count >= Len(entries[m].children)
        /\ \/ NotFinished /\ entries[e].parent # 0
           \/ /\ HandleFinished(success)
              /\ entries[e].parent # 0 =>
                    /\ entries[entries[e].parent].count < Len(entries[entries[e].parent].children)
                    /\ entries'[entries[e].parent].count = Len(entries[entries[e].parent].children)
    BY <1>1, <1>11, FinishedShape
  <2>2. /\ OfRoots(mUndoStack') /\ OfRoots(mRedoStack') /\ OfRoots(mQueuedEntries')
        /\ mOperationTypeInProgress' \in {mOperationTypeInProgress, "none"}
        /\ mEntryInProgress' = mEntryInProgress /\ mUndoAllInProgress' = mUndoAllInProgress
    <3>1. CASE NotFinished
      BY <1>5, <1>6, <3>1
    <3>2. CASE HandleFinished(success)
      BY <1>3, <3>2, FinishedStacks
    <3> QED BY <2>1, <3>1, <3>2
  <2>3. \A l \in Entries : entries[l].kind \in Kinds =>
          entries'[l].count = IF l = e /\ restored THEN entries[l].count - 1 ELSE entries[l].count
    BY <2>1 DEF Kinds
  <2>4. /\ HistoryInv' /\ \A l \in Entries : Awaited(l)' \subseteq Awaited(l)
    BY <1>1, <1>11, <2>1, <2>2, <2>3, DeliveredKeeps
  <2>5. CASE NotFinished
    BY <1>7, <2>1, <2>4, <2>5
  <2>6. CASE /\ HandleFinished(success)
             /\ entries[e].parent # 0 =>
                    /\ entries[entries[e].parent].count < Len(entries[entries[e].parent].children)
                    /\ entries'[entries[e].parent].count = Len(entries[entries[e].parent].children)
    <3> SUFFICES ASSUME LineInv, AnsweredOnce PROVE LineInv'
      BY <2>4
    <3>1. PICK r \in Entries : r = Root(e)
      <4>1. entries[e].parent \in Entries \cup {0}
        BY <1>2, EntriesTyped, EntryFields
      <4> QED BY <4>1 DEF Root
    <3>2. a.change \in Awaited(e)
      BY <1>3, <1>4, <1>11 DEF Awaited
    <3>3. entries[e].kind # "multi" /\ (entries[e].parent # 0 => entries[entries[e].parent].kind = "multi")
      BY <1>2, <1>11 DEF Family
    <3>4. ~Settled(r)
      <4>1. ~(\A l \in Entries : Root(l) = r => Awaited(l) = {})
        BY <3>1, <3>2
      <4>2. CASE entries[e].parent = 0
        <5>1. entries[r].kind # "multi"
          BY <3>1, <3>3, <4>2 DEF Root
        <5> QED BY <4>1, <5>1 DEF Settled
      <4>3. CASE entries[e].parent # 0
        <5>1. r = entries[e].parent
          BY <3>1, <4>3 DEF Root
        <5>2. entries[r].count < Len(entries[r].children) /\ entries[r].count \in Nat /\ Len(entries[r].children) \in Nat
          <6>1. Len(entries[r].children) \in Nat
            BY <1>2, EntriesTyped, EntryFields, SeqFacts
          <6> QED BY <1>8, <2>6, <4>3, <5>1, <6>1
        <5>3. ~(entries[r].count >= Len(entries[r].children))
          BY <5>2
        <5> QED BY <4>1, <5>3 DEF Settled
      <4> QED BY <4>2, <4>3
    <3>5. InProgress(r)
      BY <3>4 DEF LineInv, OthersAreSettled
    <3>6. mOperationTypeInProgress # "none" /\ r = mEntryInProgress
      BY <3>5 DEF InProgress
    <3>7. InOrder'
      BY <1>3, <2>6, <3>6, FinishedOrder DEF LineInv
    <3>8. Settled(r)'
      <4>1. \A x \in Entries : /\ entries'[x].kind = entries[x].kind /\ entries'[x].children = entries[x].children
                               /\ entries'[x].parent = entries[x].parent
        BY <2>1 DEF Kept, SameFields
      <4>2. CASE entries[e].parent # 0
        <5>1. r = entries[e].parent /\ Len(entries[r].children) \in Nat
          BY <1>2, <3>1, <4>2, EntriesTyped, EntryFields, SeqFacts DEF Root
        <5>2. entries'[r].count >= Len(entries'[r].children) /\ entries'[r].kind = "multi"
          BY <2>6, <3>3, <4>1, <4>2, <5>1
        <5> QED BY <5>2 DEF Settled
      <4>3. CASE entries[e].parent = 0
        <5>1. r = e
          BY <3>1, <4>3 DEF Root
        <5>2. \A l \in Entries : Root(l)' = e => l = e
          <6>1. \A l \in Entries : entries[l].parent # e
            BY <1>2, <3>3, BoundsAreNumbers DEF Family
          <6> QED BY <4>1, <6>1 DEF Root
        <5>3. Awaited(e)' = {}
          <6>1. CASE restored
            <7>1. entries'[e].kind \in Kinds /\ entries'[e].count = table[e].count
              BY <1>11, <2>1, <3>3, <4>1, <6>1 DEF Restores, Kinds, CountedIf
            <7>2. IsFiniteSet(Awaited(e)') /\ Cardinality(Awaited(e)') <= entries'[e].count
              BY <2>4, <7>1 DEF HistoryInv, CountsAwaited
            <7>3. Cardinality(Awaited(e)') \in Nat
              BY <7>2, FS_CardinalityType
            <7>4. table[e].count \in Nat
              BY <1>11, EntryFields
            <7>5. Cardinality(Awaited(e)') = 0
              BY <1>11, <6>1, <7>1, <7>2, <7>3, <7>4
            <7> QED BY <7>2, <7>5, FS_EmptySet
          <6>2. CASE ~restored
            <7>1. entries[e].changeIds = {a.change}
              BY <1>2, <1>3, <1>4, <1>11, <4>3, <6>2 DEF AsksOnce
            <7>2. \A j \in DOMAIN answers' : answers'[j].change # a.change
              BY <1>4 DEF AnsweredOnce
            <7>3. \A k \in DOMAIN running : running[k].id # a.change
              BY <1>2, <1>4 DEF ChangesInv
            <7>4. entries'[e].changeIds = {a.change}
              BY <2>1, <7>1 DEF Kept, SameFields
            <7> QED BY <1>3, <7>2, <7>3, <7>4 DEF Awaited
          <6> QED BY <6>1, <6>2
        <5> QED BY <5>1, <5>2, <5>3 DEF Settled
      <4> QED BY <4>2, <4>3
    <3>9. \A x \in Entries : Settled(x)'
      <4> TAKE x \in Entries
      <4>1. CASE x = r
        BY <3>8, <4>1
      <4>2. CASE x # r
        <5>1. Settled(x)
          BY <3>6, <4>2 DEF LineInv, OthersAreSettled, InProgress
        <5> QED BY <1>2, <2>1, <2>4, <5>1, SettledKeeps
      <4> QED BY <4>1, <4>2
    <3> QED BY <3>7, <3>9 DEF LineInv, OthersAreSettled
  <2> QED BY <2>1, <2>4, <2>5, <2>6
<1> QED BY <1>1, <1>9, <1>10, <1>11

-----------------------------------------------------------------------------
(* The theorems.                                                           *)

LEMMA StutterStep ==
  ASSUME HistoryInv, UNCHANGED vars
  PROVE  HistoryInv' /\ (LineInv => LineInv')
<1>1. UNCHANGED <<stacks, op, entries, changer, answers, crashed>> /\ UNCHANGED <<server, user>>
  BY DEF vars
<1>2. /\ patient' = patient /\ unrecorded' = unrecorded /\ batch' = batch
      /\ store' = store /\ latestId' = latestId /\ latestPayload' = latestPayload /\ entries' = entries
  BY <1>1 DEF server, user
<1>3. /\ EntriesTypeOK' /\ StacksTypeOK' /\ ChangerTypeOK'
      /\ Family' /\ Stacked' /\ ChangesInv' /\ CountsAwaited' /\ AsksOnce'
      /\ LineInv => LineInv'
  BY <1>1, UnmovedKeeps
<1>4. UserTypeOK' /\ StoreTypeOK'
  BY <1>2 DEF HistoryInv, Types, UserTypeOK, StoreTypeOK
<1>5. BatchInv'
  BY <1>2 DEF HistoryInv, BatchInv, OpenBatches
<1> QED BY <1>3, <1>4, <1>5 DEF HistoryInv, Types

LEMMA NextStep ==
  ASSUME HistoryInv, [Next]_vars
  PROVE  HistoryInv' /\ (LineInv /\ AnsweredOnce => LineInv')
<1>1. CASE User
  BY <1>1, UserCreatesStep, UserModifiesStep, UserDeletesStep, UserStartsBatchStep, UserEndsBatchStep DEF User
<1>2. CASE Record
  BY <1>2, RecordStep
<1>3. CASE ~crashed /\ Calls
  <2>1. CASE UndoOrRedo("undo")
    BY <1>3, <2>1, UndoOrRedoStep
  <2>2. CASE UndoOrRedo("redo")
    BY <1>3, <2>2, UndoOrRedoStep
  <2>3. CASE UndoAll
    BY <1>3, <2>3, UndoAllStep
  <2>4. CASE Clear
    BY <2>4, ClearStep
  <2> QED BY <1>3, <2>1, <2>2, <2>3, <2>4 DEF Calls
<1>4. CASE ~crashed /\ Changer
  BY <1>4, ChangerSucceedsStep, ChangerFailsStep, ChangerRefusesStep DEF Changer
<1>5. CASE ~crashed /\ Deliver
  BY <1>5, DeliverStep
<1>6. CASE UNCHANGED vars
  BY <1>6, StutterStep
<1> QED BY <1>1, <1>2, <1>3, <1>4, <1>5, <1>6 DEF Next

\* The redo stack lies on the line from its top down.
LEMMA RedoLine ==
  ASSUME NEW s \in Seq(Entries), \A j, k \in DOMAIN s : j < k => s[j] > s[k]
  PROVE  /\ Reverse(s) \in Seq(Entries) /\ Rising(Reverse(s))
         /\ \A k \in DOMAIN Reverse(s) : \E j \in DOMAIN s : Reverse(s)[k] = s[j]
<1>1. Len(s) \in Nat /\ DOMAIN s = 1 .. Len(s) /\ \A k \in DOMAIN s : s[k] \in Entries
  BY SeqFacts
<1>2. /\ DOMAIN Reverse(s) = 1 .. Len(s)
      /\ \A k \in 1 .. Len(s) : Reverse(s)[k] = s[(Len(s) - k) + 1]
      /\ Reverse(s) = [k \in 1 .. Len(s) |-> s[(Len(s) - k) + 1]]
  BY DEF Reverse
<1>3. \A k \in 1 .. Len(s) : (Len(s) - k) + 1 \in DOMAIN s
  BY <1>1
<1>4. Reverse(s) \in Seq(Entries)
  <2>1. Reverse(s) \in [1 .. Len(s) -> Entries]
    BY <1>1, <1>2, <1>3
  <2> QED BY <1>1, <2>1, FunctionIsSeq
<1>5. ASSUME NEW j \in DOMAIN Reverse(s), NEW k \in DOMAIN Reverse(s), j < k
      PROVE  Reverse(s)[j] < Reverse(s)[k]
  <2> DEFINE a == (Len(s) - k) + 1
             b == (Len(s) - j) + 1
  <2>1. a \in DOMAIN s /\ b \in DOMAIN s /\ a < b /\ Reverse(s)[k] = s[a] /\ Reverse(s)[j] = s[b]
    BY <1>1, <1>2, <1>3, <1>5
  <2>2. s[a] \in Nat /\ s[b] \in Nat
    BY <1>1, <2>1, BoundsAreNumbers
  <2> HIDE DEF a, b
  <2>3. s[a] > s[b]
    BY <2>1
  <2> QED BY <2>1, <2>2, <2>3
<1> QED BY <1>2, <1>3, <1>4, <1>5 DEF Rising

LEMMA InOrderIsOneLine ==
  ASSUME HistoryInv, InOrder
  PROVE  OneLine
<1> DEFINE redo   == Reverse(mRedoStack)
           middle == IF mOperationTypeInProgress = "none" \/ crashed THEN <<>> ELSE <<mEntryInProgress>>
           older  == mUndoStack \o middle
           InProg == ~(mOperationTypeInProgress = "none" \/ crashed)
<1>1. /\ mUndoStack \in Seq(Entries) /\ mRedoStack \in Seq(Entries) /\ mQueuedEntries \in Seq(Entries)
      /\ mEntryInProgress \in Entries \cup {0}
      /\ InProg => mEntryInProgress \in Entries
  BY DEF HistoryInv, Types, StacksTypeOK, Stacked
<1>2. /\ redo \in Seq(Entries) /\ Rising(redo)
      /\ \A k \in DOMAIN redo : \E j \in DOMAIN mRedoStack : redo[k] = mRedoStack[j]
  BY <1>1, RedoLine DEF InOrder
<1>3. /\ middle \in Seq(Entries) /\ Rising(middle)
      /\ \A k \in DOMAIN middle : InProg /\ middle[k] = mEntryInProgress
  <2>1. CASE InProg
    <3>1. <<mEntryInProgress>> \in Seq(Entries) /\ DOMAIN <<mEntryInProgress>> = {1}
          /\ <<mEntryInProgress>>[1] = mEntryInProgress
      BY <1>1, <2>1
    <3>2. middle = <<mEntryInProgress>>
      BY <2>1
    <3> HIDE DEF middle
    <3> QED BY <2>1, <3>1, <3>2 DEF Rising
  <2>2. CASE ~InProg
    <3>1. <<>> \in Seq(Entries) /\ DOMAIN <<>> = {} /\ middle = <<>>
      BY <2>2, EmptySeq
    <3> HIDE DEF middle
    <3> QED BY <3>1 DEF Rising
  <2> QED BY <2>1, <2>2
<1>4. Line = older \o redo
  BY DEF Line
<1>5. InProg =>
        /\ \A k \in DOMAIN mUndoStack : mUndoStack[k] < mEntryInProgress
        /\ \A k \in DOMAIN mRedoStack : mEntryInProgress < mRedoStack[k]
        /\ \A k \in DOMAIN mQueuedEntries : mEntryInProgress < mQueuedEntries[k]
  BY DEF InOrder
<1> HIDE DEF redo, middle, InProg
<1>6. /\ older \in Seq(Entries) /\ Rising(older)
  <2>1. \A j \in DOMAIN mUndoStack, k \in DOMAIN middle : mUndoStack[j] < middle[k]
    BY <1>3, <1>5
  <2>2. Rising(mUndoStack)
    BY DEF InOrder
  <2>3. older \in Seq(Entries)
    BY <1>1, <1>3, ConcatFacts
  <2> QED BY <1>1, <1>3, <2>1, <2>2, <2>3, RisingConcat
<1>7. \A k \in DOMAIN older : \/ \E j \in DOMAIN mUndoStack : older[k] = mUndoStack[j]
                              \/ InProg /\ older[k] = mEntryInProgress
  <2>1. \A k \in DOMAIN older : \/ k \in DOMAIN mUndoStack /\ older[k] = mUndoStack[k]
                                \/ k - Len(mUndoStack) \in DOMAIN middle /\ older[k] = middle[k - Len(mUndoStack)]
    BY <1>1, <1>3, ConcatFacts
  <2> HIDE DEF older
  <2> QED BY <1>3, <2>1
<1> HIDE DEF older
<1>8. Line \in Seq(Entries) /\ Rising(Line)
  <2>1. \A j \in DOMAIN older, k \in DOMAIN redo : older[j] < redo[k]
    <3> SUFFICES ASSUME NEW j \in DOMAIN older, NEW k \in DOMAIN redo PROVE older[j] < redo[k]
      OBVIOUS
    <3>1. PICK n \in DOMAIN mRedoStack : redo[k] = mRedoStack[n]
      BY <1>2
    <3>2. CASE \E m \in DOMAIN mUndoStack : older[j] = mUndoStack[m]
      BY <3>1, <3>2 DEF InOrder
    <3>3. CASE InProg /\ older[j] = mEntryInProgress
      BY <1>5, <3>1, <3>3
    <3> QED BY <1>7, <3>2, <3>3
  <2>2. older \o redo \in Seq(Entries)
    BY <1>2, <1>6, ConcatFacts
  <2> QED BY <1>2, <1>4, <1>6, <2>1, <2>2, RisingConcat
<1>9. QueueIsNewest
  <2> SUFFICES ASSUME NEW q \in DOMAIN mQueuedEntries, NEW k \in DOMAIN Line
               PROVE  Line[k] < mQueuedEntries[q]
    BY DEF QueueIsNewest
  <2>1. \/ k \in DOMAIN older /\ Line[k] = older[k]
        \/ k - Len(older) \in DOMAIN redo /\ Line[k] = redo[k - Len(older)]
    BY <1>2, <1>4, <1>6, ConcatFacts
  <2>2. CASE k \in DOMAIN older /\ Line[k] = older[k]
    <3>1. CASE \E j \in DOMAIN mUndoStack : older[k] = mUndoStack[j]
      BY <2>2, <3>1 DEF InOrder
    <3>2. CASE InProg /\ older[k] = mEntryInProgress
      BY <1>5, <2>2, <3>2
    <3> QED BY <1>7, <2>2, <3>1, <3>2
  <2>3. CASE k - Len(older) \in DOMAIN redo /\ Line[k] = redo[k - Len(older)]
    <3>1. PICK n \in DOMAIN mRedoStack : Line[k] = mRedoStack[n]
      BY <1>2, <2>3
    <3> QED BY <3>1 DEF InOrder
  <2> QED BY <2>1, <2>2, <2>3
<1> QED BY <1>8, <1>9 DEF OneLine, Rising

\* Whoever calls, and whatever fails or is answered twice: only the MultiEntry or the entry
\* without one is ever on a stack, in progress or queued (stackEntry(), history.cpp); a deletion
\* that is undone never waits for more creations than it counts (onCreateFinished(),
\* history_p.cpp); the entry in progress is there whenever an answer can arrive.
THEOREM HistoryInvariance == Spec => []HistoryInv
<1>1. Init => HistoryInv
  BY InitInv
<1>2. HistoryInv /\ [Next]_vars => HistoryInv'
  BY NextStep
<1> QED BY <1>1, <1>2, PTL DEF Spec

\* Every field has its type; an Entry only waits for changes that were asked for
\* (Entry::doIt(), history_p.cpp).
THEOREM HistoryTypes == Spec => []TypeOK
<1>1. HistoryInv => TypeOK
  <2> SUFFICES ASSUME HistoryInv PROVE TypeOK
    OBVIOUS
  <2>1. StacksTypeOK /\ EntriesTypeOK /\ ChangerTypeOK /\ StoreTypeOK
    BY DEF HistoryInv, Types
  <2>2. \A s \in {mUndoStack, mRedoStack, mQueuedEntries} : s \in Seq(Entries)
    BY <2>1 DEF StacksTypeOK
  <2>3. \A e \in Entries :
          /\ entries[e].kind \in Kinds \cup {"none", "multi"}
          /\ entries[e].items \in Seq([id : Ids, payload : Payloads])
          /\ entries[e].changeIds \subseteq 1 .. latestChange
          /\ entries[e].count \in Nat
          /\ entries[e].children \in Seq(Entries)
    BY <2>1, EntriesTyped, EntryFields DEF EntriesTypeOK, ItemTypes
  <2>4. /\ mOperationTypeInProgress \in {"none", "undo", "redo"}
        /\ mEntryInProgress \in Entries \cup {0} /\ mUndoAllInProgress \in BOOLEAN
    BY <2>1 DEF StacksTypeOK
  <2>5. /\ latestChange \in 0 .. MaxChanges /\ store \in [Ids -> Payloads \cup {0}]
        /\ latestId \in 0 .. MaxIds /\ latestPayload \in 0 .. MaxPayloads
    BY <2>1 DEF ChangerTypeOK, StoreTypeOK
  <2> QED BY <2>2, <2>3, <2>4, <2>5 DEF TypeOK
<1> QED BY <1>1, HistoryInvariance, PTL

\* As long as no deletion is answered twice, the entries keep their places: whatever a user
\* records, undoes and redoes, at any moment of an operation, the undo stack, the entry in
\* progress, the redo stack from its top down and the queued entries lie on one line, oldest
\* first, none twice (HistoryPrivate::stackEntry(), handleFinished(), history.cpp).
\* handleDeleteJobResult() answers a failed deletion and the Change answers it again when it is
\* destroyed (incidencechanger.cpp): the second answer is of an operation that is over.
THEOREM EntriesStayOnOneLine == Spec /\ []AnsweredOnce => []OneLine
<1>1. Init => HistoryInv /\ LineInv
  BY InitInv
<1>2. HistoryInv /\ LineInv /\ AnsweredOnce /\ [Next]_vars => HistoryInv' /\ LineInv'
  BY NextStep
<1>3. HistoryInv /\ LineInv => OneLine
  BY InOrderIsOneLine DEF LineInv
<1> QED BY <1>1, <1>2, <1>3, PTL DEF Spec
=============================================================================
