-------------------------- MODULE FetchJobCalendar --------------------------
(***************************************************************************)
(* Akonadi::FetchJobCalendar (src/src/fetchjobcalendar.cpp) and its        *)
(* IncidenceFetchJob (incidencefetchjob_p.cpp): a calendar that fetches    *)
(* all incidences once.  The fetch lists the collections and starts a job  *)
(* for each wanted one; the end of the fetch is announced by a queued      *)
(* loadFinished().  Items of virtual collections are never fetched, so the *)
(* calendar has no collections to look up afterwards.                      *)
(***************************************************************************)
EXTENDS Integers

CONSTANT MaxCollections  \* bound on the wanted collections

ASSUME MaxCollectionsAssumption == MaxCollections \in Nat

VARIABLES
  isLoading,     \* false while no calendar exists
  fetch,         \* where the IncidenceFetchJob is
  jobCount       \* m_jobCount

fetching == <<isLoading, fetch, jobCount>>

FetchTypeOK ==
  /\ isLoading \in BOOLEAN
  /\ fetch \in {"none", "collections", "items", "over"}
  /\ jobCount \in 0 .. MaxCollections

FetchInit == isLoading = FALSE /\ fetch = "none" /\ jobCount = 0

\* The constructor starts the job.
Construct == isLoading' = TRUE /\ fetch' = "collections" /\ UNCHANGED jobCount

\* collectionFetchResult(): with collections of which none is wanted nothing is
\* started, and nothing announces the end.
CollectionsListed ==
  /\ fetch = "collections"
  /\ \E n \in 0 .. MaxCollections : jobCount' = n
  /\ fetch' = "items"
  /\ UNCHANGED isLoading

\* itemFetchResult() of a job that is not the last.
ItemsFetched == fetch = "items" /\ jobCount > 1 /\ jobCount' = jobCount - 1 /\ UNCHANGED <<fetch, isLoading>>

\* The fetch has a result: no collections at all, the items of the last collection, or
\* an error of any of the jobs, on which the others are dropped.
HasResult(success) ==
  IF success THEN fetch = "collections" \/ (fetch = "items" /\ jobCount = 1)
  ELSE fetch = "collections" \/ (fetch = "items" /\ jobCount > 0)

\* slotSearchJobFinished(), slotFetchJobFinished().
SearchJobFinished(success) ==
  /\ HasResult(success)
  /\ isLoading' = FALSE
  /\ fetch' = "over"
  /\ jobCount' = 0

\* The fetch that never ends.
Hangs == fetch = "items" /\ jobCount = 0
=============================================================================
