------------------------------- MODULE BulkFetch -------------------------------
(***************************************************************************)
(* The two bulk tools on yt-dlp (bulkmetadataextractor and                 *)
(* videodurationcalculator) beside requests that make single calls.        *)
(* Execute of a bulk tool starts a goroutine per URL, which waits for a    *)
(* local semaphore, whatever the context of the request says, and inside   *)
(* it calls the client with its own pool.  A goroutine is the call of      *)
(* YtDlpClient that it makes.                                              *)
(***************************************************************************)
EXTENDS YtDlpClient

CONSTANTS Bulk,             \* the requests to one of the bulk tools
          startedBy,        \* startedBy[c]: the bulk request of goroutine c, or None
          bulkConcurrency

ASSUME BulkFetchAssumption ==
  /\ Bulk \subseteq Requests
  /\ startedBy \in [Calls -> Bulk \cup {None}]
  /\ bulkConcurrency \in Nat \ {0}

VARIABLES bulk,    \* bulk[r]: Execute of bulk request r: idle, running, answered
          at,      \* at[c]: where goroutine c is
          result   \* result[c]: the entry at its index

fetchVars == <<bulk, at, result>>
allVars == <<vars, fetchVars>>

Goroutines(r) == {c \in Calls : startedBy[c] = r}
InBulk == UNION {Goroutines(r) : r \in Bulk}

\* In possession of the local semaphore of r.
Inside(r) == {c \in Goroutines(r) : at[c] \in {"inside", "fetching"}}

FetchInit ==
  /\ Init
  /\ bulk = [r \in Bulk |-> "idle"]
  /\ at = [c \in InBulk |-> "none"]
  /\ result = [c \in InBulk |-> "empty"]

--------------------------------------------------------------------------------

\* make of the entries, the semaphore and the goroutines.
Execute(r) ==
  /\ bulk[r] = "idle" /\ ctx[r] # "closed"
  /\ bulk' = [bulk EXCEPT ![r] = "running"]
  /\ at' = [c \in InBulk |-> IF startedBy[c] = r THEN "waiting" ELSE at[c]]
  /\ result' = [c \in InBulk |-> IF startedBy[c] = r THEN "empty" ELSE result[c]]
  /\ UNCHANGED vars

\* sem <- struct{}{}, with no look at the context.
TakeSlot(c) ==
  /\ at[c] = "waiting"
  /\ Cardinality(Inside(startedBy[c])) < bulkConcurrency
  /\ at' = [at EXCEPT ![c] = "inside"]
  /\ UNCHANGED <<vars, bulk, result>>

\* DumpMetadata.  Validate has let only URLs with a video through, so that the
\* extraction before it does not fail.
Fetch(c) ==
  /\ at[c] = "inside"
  /\ at' = [at EXCEPT ![c] = "fetching"]
  /\ Invoke(c, startedBy[c])
  /\ UNCHANGED <<bulk, result>>

\* Mutant of Fetched: the slot is given back, and the WaitGroup told, at the end
\* and not by defers, so that a goroutine with an error does neither.
FetchedLeaks(c) ==
  /\ at[c] = "fetching" /\ Return(c)
  /\ \/ pc[c] = "ok" /\ at' = [at EXCEPT ![c] = "left"]
                     /\ result' = [result EXCEPT ![c] = "ok"]
     \/ at' = at /\ result' = [result EXCEPT ![c] = "error"]
  /\ UNCHANGED bulk

\* The entry is an error if the client returned one or the metadata is no JSON.
\* The deferred receive gives the slot back, and the WaitGroup is told.
Fetched(c) ==
  /\ at[c] = "fetching" /\ Return(c)
  /\ at' = [at EXCEPT ![c] = "left"]
  /\ \/ pc[c] = "ok" /\ result' = [result EXCEPT ![c] = "ok"]
     \/ result' = [result EXCEPT ![c] = "error"]
  /\ UNCHANGED bulk

\* wg.Wait, and the result; an answer is sent though every entry be an error.
Answer(r) ==
  /\ bulk[r] = "running" /\ \A c \in Goroutines(r) : at[c] = "left"
  /\ bulk' = [bulk EXCEPT ![r] = "answered"]
  /\ UNCHANGED <<vars, at, result>>

\* handleToolCall returns and cancels the context; the next request may come.
Leave(r) ==
  /\ bulk[r] = "answered" /\ Close(r)
  /\ bulk' = [bulk EXCEPT ![r] = "idle"]
  /\ at' = [c \in InBulk |-> IF startedBy[c] = r THEN "none" ELSE at[c]]
  /\ UNCHANGED result

\* The steps of the client itself, under a goroutine or under a single call.
InClient(c) ==
  /\ \/ Acquire(c) \/ Refuse(c) \/ Start(c) \/ StartFails(c) \/ Exit(c)
     \/ Kill(c) \/ Drained(c) \/ Release(c)
  /\ UNCHANGED fetchVars

\* The other tools on yt-dlp make one call at a time.
SingleCall(c) ==
  /\ c \notin InBulk
  /\ Return(c) \/ \E r \in Requests \ Bulk : Invoke(c, r)
  /\ UNCHANGED fetchVars

Contexts ==
  /\ (\E r \in Requests : Open(r) \/ Expire(r)) \/ (\E r \in Requests \ Bulk : Close(r))
  /\ UNCHANGED fetchVars

FetchNext ==
  \/ \E r \in Bulk : Execute(r) \/ Answer(r) \/ Leave(r)
  \/ \E c \in InBulk : TakeSlot(c) \/ Fetch(c) \/ Fetched(c)
  \/ \E c \in Calls : InClient(c) \/ SingleCall(c)
  \/ Contexts

FetchSpec == FetchInit /\ [][FetchNext]_allVars

(***************************************************************************)
(* The fairness of the client, and goroutines that can run do.  Each       *)
(* sibling takes the local semaphore once, so that a goroutine that waits  *)
(* for it needs no more than weak fairness.                                *)
(***************************************************************************)
FetchFairness ==
  /\ \A r \in Bulk : WF_allVars(Execute(r)) /\ WF_allVars(Answer(r))
  /\ \A c \in InBulk : WF_allVars(TakeSlot(c)) /\ WF_allVars(Fetch(c))
                       /\ WF_allVars(Fetched(c))

FetchFairSpec == FetchSpec /\ Fairness /\ FetchFairness

--------------------------------------------------------------------------------

\* A bulk request is answered, with an entry for each of its URLs, although its
\* goroutines wait for the local semaphore with no timeout and inside it for the
\* pool, which other requests may have filled with a yt-dlp that hangs.
EveryBulkAnswered ==
  \A r \in Bulk :
    bulk[r] = "running" ~>
      bulk[r] = "answered" /\ \A c \in Goroutines(r) : result[c] # "empty"

\* The goroutines are to the client what it takes its callers to be: its calls
\* share the context of their request, which outlives them.
ImplementsClient == Spec
================================================================================
