----------------------- MODULE SearchCollectionHelper -----------------------
(***************************************************************************)
(* Akonadi::SearchCollectionHelper (src/src/searchcollectionhelper.cpp):   *)
(* keeps two virtual collections, of the open and of the declined          *)
(* invitations, while it is enabled, and removes them otherwise.           *)
(*                                                                         *)
(* The operators work on a record: `enabled` and `handle` (the two members *)
(* of type Collection), `session` the jobs in the order they are carried   *)
(* out, `folders` the collections on the server by name and `identities`   *)
(* the version of the user's addresses.                                    *)
(***************************************************************************)
EXTENDS Integers, Sequences

Names == {"OpenInvitations", "DeclinedInvitations"}
NoFolder == 0  \* a collection that is not valid, or not there; others are numbered

Asked(s, job) == [s EXCEPT !.session = Append(@, job)]
JobFor(kind, name, folder, query) == [kind |-> kind, name |-> name, folder |-> folder, query |-> query]

\* fetchSearchCollections()
FetchSearchCollections(s) == Asked(s, JobFor("fetch", "", NoFolder, 0))

\* The constructor lists the collections, as init() will.
ConstructedHelper(folders) ==
  FetchSearchCollections([enabled |-> FALSE, handle |-> [n \in Names |-> NoFolder], session |-> <<>>,
                          folders |-> folders, next |-> 10, identities |-> 1])

\* updateSearchCollection(): creates the collection if none is known.
UpdateSearchCollection(s, n) ==
  Asked(s, JobFor(IF s.handle[n] = NoFolder THEN "create" ELSE "modify", n, s.handle[n], s.identities))
UpdateInvitations(s) == UpdateSearchCollection(UpdateSearchCollection(s, "OpenInvitations"), "DeclinedInvitations")

\* removeSearchCollections()
Dismissed(s, n) ==
  IF s.handle[n] = NoFolder THEN s
  ELSE [Asked(s, JobFor("delete", n, s.handle[n], 0)) EXCEPT !.handle[n] = NoFolder]
RemoveSearchCollections(s) == Dismissed(Dismissed(s, "OpenInvitations"), "DeclinedInvitations")

\* setEnabled(): init() or deinit(), which also connect and disconnect the identities.
SetEnabled(s, enabled) ==
  LET t == [s EXCEPT !.enabled = enabled]
  IN  IF enabled = s.enabled THEN s
      ELSE IF enabled THEN FetchSearchCollections(t) ELSE RemoveSearchCollections(t)

\* IdentityManager::changed() is heard while enabled.
IdentitiesChanged(s) ==
  LET t == [s EXCEPT !.identities = @ + 1] IN IF s.enabled THEN UpdateInvitations(t) ELSE t

\* Mutant: what is left of an earlier session stays while disabled.
LeftoversStay(s, ok) ==
  LET t == [s EXCEPT !.handle = [n \in Names |-> IF ok /\ s.folders[n].id # NoFolder THEN s.folders[n].id ELSE @[n]]]
  IN  IF t.enabled THEN UpdateInvitations(t) ELSE t

\* onSearchCollectionsFetched(): what is not found stays as it was.
OnSearchCollectionsFetched(s, ok) ==
  LET t == [s EXCEPT !.handle = [n \in Names |-> IF ok /\ s.folders[n].id # NoFolder THEN s.folders[n].id ELSE @[n]]]
  IN  IF t.enabled THEN UpdateInvitations(t) ELSE RemoveSearchCollections(t)

\* The server: names are unique, and a collection created anew is another one.
Exists(s, job) == s.folders[job.name].id = job.folder
CanBeDone(s, job) == CASE job.kind = "fetch"  -> TRUE
                       [] job.kind = "create" -> s.folders[job.name].id = NoFolder
                       [] OTHER -> Exists(s, job)

Served(s, job) ==
  CASE job.kind = "create" -> [s EXCEPT !.folders[job.name] = [id |-> s.next, query |-> job.query], !.next = @ + 1]
    [] job.kind = "modify" -> [s EXCEPT !.folders[job.name].query = job.query]
    [] job.kind = "delete" -> [s EXCEPT !.folders[job.name] = [id |-> NoFolder, query |-> 0]]
    [] job.kind = "fetch"  -> s

\* createSearchJobFinished(): updates what it has just created.
CreateSearchJobFinished(s, n) == UpdateSearchCollection([s EXCEPT !.handle[n] = s.folders[n].id], n)

\* The job whose turn it is ends; deletions are not waited for and modifications only
\* logged (modifyResult()).
SearchJobEnds(s, ok) ==
  LET job == Head(s.session)
      t == [s EXCEPT !.session = Tail(@)]
      u == IF ok THEN Served(t, job) ELSE t
  IN  CASE job.kind = "fetch" -> OnSearchCollectionsFetched(u, ok)
        [] job.kind = "create" /\ ok -> CreateSearchJobFinished(u, job.name)
        [] OTHER -> u
=============================================================================
