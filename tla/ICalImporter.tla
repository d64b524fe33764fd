---------------------------- MODULE ICalImporter ----------------------------
(***************************************************************************)
(* Akonadi::ICalImporter (src/src/icalimporter.cpp): a file is imported    *)
(* into a new resource, or its incidences are created in a collection, in  *)
(* one batch.  A remote file is to be downloaded first.                    *)
(*                                                                         *)
(* The operators work on a record: `working`, `pending` and `total` are    *)
(* the members, `dialog` the number of incidences of the file the          *)
(* collection is being chosen for, `downloads` and `agents` the jobs that  *)
(* run, `batch` the AtomicOperation of the changer (AtomicOperation.tla)   *)
(* with its running creations.  For the properties: `imports` counts the   *)
(* imports of local files that were accepted less those answered,          *)
(* `resources` the same of new resources, `last` are the creations of the  *)
(* newest import, `answers` what was told of it, and `overlap` whether one *)
(* began before another was answered.                                      *)
(***************************************************************************)
EXTENDS Integers, FiniteSets, SequencesExt

CONSTANTS MaxIncidences  \* bound on the incidences of a file

NoBatch  == [open |-> FALSE, jobs |-> {}, done |-> {}, failed |-> FALSE]
NoDialog == 0

IdleImporter ==
  [working |-> FALSE, pending |-> {}, total |-> 0, dialog |-> NoDialog, downloads |-> 0, agents |-> 0,
   batch |-> NoBatch, next |-> 1, posted |-> <<>>, stored |-> {}, imports |-> 0, resources |-> 0,
   last |-> {}, answers |-> {}, overlap |-> FALSE]

\* The import tells what became of it.
Finished(s, success) ==
  [s EXCEPT !.working = FALSE, !.imports = @ - 1,
            !.answers = @ \cup {[success |-> success, stored |-> Cardinality(s.last \cap s.stored),
                                 of |-> Cardinality(s.last), total |-> s.total]}]

\* Mutant: the other requests of an import that failed are still waited for.
FailureKeepsRequests(s, id, ok) ==
  LET t == [s EXCEPT !.pending = @ \ {id}]
  IN  CASE id \notin s.pending -> s
        [] id \in s.pending /\ ~ok -> Finished(t, FALSE)
        [] id \in s.pending /\ ok -> IF t.pending = {} THEN Finished(t, TRUE) ELSE t

\* onIncidenceCreated()
OnIncidenceCreated(s, id, ok) ==
  LET t == [s EXCEPT !.pending = @ \ {id}]
  IN  CASE id \notin s.pending -> s
        [] id \in s.pending /\ ~ok -> Finished([t EXCEPT !.pending = {}], FALSE)
        [] id \in s.pending /\ ok -> IF t.pending = {} THEN Finished(t, TRUE) ELSE t

\* importIntoNewResource() and resourceCreated(), whose D-Bus interface may be missing.
ImportIntoNewResource(s) ==
  IF s.working THEN s ELSE [s EXCEPT !.working = TRUE, !.agents = @ + 1, !.resources = @ + 1]
ResourceCreated(s) == [s EXCEPT !.working = FALSE, !.agents = @ - 1, !.resources = @ - 1]

\* What the changer does with n creations of one batch; in a collection that cannot be
\* used the first is refused and rolls the batch back, which ends it.
CreateIncidences(s, n, usable) ==
  LET ids == s.next .. s.next + n - 1
      refused == [k \in 1 .. n |-> [id |-> s.next + k - 1, ok |-> FALSE]]
      t == [s EXCEPT !.next = @ + n, !.last = ids]
  IN  IF s.batch.failed \/ ~usable THEN [t EXCEPT !.posted = @ \o refused]
      ELSE [t EXCEPT !.batch.open = TRUE, !.batch.jobs = @ \cup ids]

\* importIntoExistingResource() of a local file, once its collection is known.
Merge(s, n, usable) ==
  [CreateIncidences(s, n, usable) EXCEPT
     !.pending = @ \cup s.next .. s.next + n - 1,
     !.total = n, !.working = TRUE, !.imports = @ + 1, !.overlap = @ \/ s.imports > 0]

\* A file without incidences is refused; the members are left as they are but for the
\* requests.  One that cannot be read is refused before and changes nothing.
ImportLocal(s, n, given, usable) ==
  LET t == [s EXCEPT !.pending = {}, !.overlap = @ \/ s.imports > 0]
  IN  CASE s.working -> s
        [] ~s.working /\ n = 0 -> t
        [] ~s.working /\ n > 0 /\ ~given -> [t EXCEPT !.dialog = n]
        [] OTHER -> Merge(t, n, usable)

\* The dialog for the collection is closed.
CollectionSelected(s, accepted, usable) ==
  LET t == [s EXCEPT !.dialog = NoDialog]
  IN  IF accepted THEN Merge(t, s.dialog, usable) ELSE t

\* importIntoExistingResource() of a remote file.
ImportRemote(s) == IF s.working THEN s ELSE [s EXCEPT !.working = TRUE, !.downloads = @ + 1]

\* remoteDownloadFinished(), for every piece of data: the temporary file was not opened
\* and has no name, so that the import of it is refused.
RemoteDownloadFinished(s) == [s EXCEPT !.working = FALSE]

\* The last piece is empty; an error comes without any.
DownloadEnds(s, failed) ==
  [IF failed THEN s ELSE RemoteDownloadFinished(s) EXCEPT !.downloads = @ - 1]

\* A creation of the batch has its result: one that failed is never counted, the batch
\* never ends and none of its changes is answered.
CreationEnds(s, id, ok) ==
  LET b == s.batch
      done == b.done \cup {id}
  IN  CASE ~ok -> [s EXCEPT !.batch = [open |-> TRUE, jobs |-> {}, done |-> {}, failed |-> TRUE]]
        [] ok /\ b.jobs # {id} -> [s EXCEPT !.batch.jobs = @ \ {id}, !.batch.done = done]
        [] OTHER -> [s EXCEPT !.batch = NoBatch, !.stored = @ \cup done,
                              !.posted = @ \o SetToSeq({[id |-> x, ok |-> TRUE] : x \in done})]

\* The changer's createFinished()
CreateFinished(s) == OnIncidenceCreated([s EXCEPT !.posted = Tail(@)], Head(s.posted).id, Head(s.posted).ok)
=============================================================================
