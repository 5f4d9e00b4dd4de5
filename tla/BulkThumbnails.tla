---------------------------- MODULE BulkThumbnails -----------------------------
(***************************************************************************)
(* One request of the bulk thumbnail downloader beside the download store  *)
(* and its worker.  Execute starts a goroutine per URL, lets BulkCap of    *)
(* them run at a time, waits for them all, bundles what they downloaded    *)
(* into a zip archive and returns one link per URL and one for the         *)
(* archive.  The file of a goroutine is named after the video alone, so    *)
(* two URLs of one video share a file; the store hears of it twice.        *)
(***************************************************************************)
EXTENDS DownloadStore, FiniteSets

CONSTANTS URLs,      \* the positions in the request, after the cut to 25
          fileOf,    \* fileOf[u]: the file <video id>.jpg of the URL u
          Zip,       \* the path of the archive
          BulkCap,   \* bulkConcurrency
          TTL,       \* 30 minutes
          MaxRun     \* ticks that the request takes at most

ASSUME BulkAssumption ==
  /\ IsFiniteSet(URLs)
  /\ fileOf \in [URLs -> Paths \ {Zip}]
  /\ Zip \in Paths
  /\ BulkCap \in Nat \ {0}
  /\ TTL \in TTLs
  /\ MaxRun \in Nat /\ MaxRun < TTL  \* the 45 s of its context and the TTL of half an hour
  /\ MaxRun + TTL < MaxTime

VARIABLES bulk,    \* Execute itself: new, running, bundling, done, error
          at,      \* at[u]: where the goroutine of u is
          result   \* result[u]: pending, error or ok

jobVars == <<bulk, at, result>>
bvars == <<vars, jobVars>>

Working == {"fetch", "create", "copy", "register"}

BInit ==
  /\ Init
  /\ bulk = "new"
  /\ at = [u \in URLs |-> "waiting"]
  /\ result = [u \in URLs |-> "pending"]

Inside == {u \in URLs : at[u] \in Working}   \* in possession of the local sem

StoreAlone == UNCHANGED <<now, storeVars, cleaner, handlerVars>>
Same(others) == UNCHANGED <<bulk, others>>

--------------------------------------------------------------------------------
(* Execute, up to the goroutines: one temp directory for all the files. *)

Begin ==
  /\ bulk = "new"
  /\ bulk' = "running"
  /\ dirs' = Paths /\ staged' = Paths
  /\ UNCHANGED <<files, at, result>> /\ StoreAlone

\* os.MkdirAll or os.MkdirTemp fails: no goroutine is started.
BeginFails ==
  /\ bulk = "new"
  /\ bulk' = "error"
  /\ UNCHANGED <<diskVars, at, result>> /\ StoreAlone

--------------------------------------------------------------------------------
(* The goroutine of URL u *)

Step(u, from, to) ==
  /\ at[u] = from
  /\ at' = [at EXCEPT ![u] = to]

\* sem <- struct{}{}
TakeSlot(u) ==
  /\ bulk = "running"
  /\ Cardinality(Inside) < BulkCap
  /\ Step(u, "waiting", "fetch")
  /\ Same(<<result, diskVars>>) /\ StoreAlone

Fetched(u) ==
  /\ Step(u, "fetch", "create")
  /\ Same(<<result, diskVars>>) /\ StoreAlone

\* os.Create, which truncates a file that is there already.
Create(u) ==
  /\ Step(u, "create", "copy")
  /\ files' = files \cup {fileOf[u]}
  /\ Same(<<result, dirs, staged>>) /\ StoreAlone

\* The URL has no video id, the CDN does not answer 200, or os.Create fails:
\* the entry has an error.
Fails(u) ==
  /\ \E from \in {"fetch", "create"} : Step(u, from, "finished")
  /\ result' = [result EXCEPT ![u] = "error"]
  /\ Same(diskVars) /\ StoreAlone

\* io.Copy is over, at the end of the picture or in the middle of it, as when the
\* context ends: nobody looks at its error.
Copied(u) ==
  /\ Step(u, "copy", "register")
  /\ Same(<<result, diskVars>>) /\ StoreAlone

RegisterOne(u) ==
  /\ Step(u, "register", "finished")
  /\ \E t \in Tokens : Register(t, fileOf[u], TTL)
  /\ result' = [result EXCEPT ![u] = "ok"]
  /\ UNCHANGED bulk

Goroutine(u) ==
  \/ TakeSlot(u) \/ Fetched(u) \/ Create(u) \/ Fails(u)
  \/ Copied(u) \/ RegisterOne(u)

--------------------------------------------------------------------------------
(* Execute, after wg.Wait *)

Succeeded == {u \in URLs : result[u] = "ok"}

\* Mutant of AllFinished: wg.Done is not deferred, and missed on the error paths.
AllSucceeded == Succeeded = URLs

AllFinished == \A u \in URLs : at[u] = "finished"

\* BundleAsZip writes the archive under the temp directory.  A file that cannot be
\* opened, or copied to its end, is skipped, or cut off in the archive, and the
\* archive is made all the same; what is in it is not modelled.
Bundle ==
  /\ bulk = "running" /\ AllFinished
  /\ Succeeded # {}
  /\ bulk' = "bundling"
  /\ files' = files \cup {Zip}
  /\ UNCHANGED <<dirs, staged, at, result>> /\ StoreAlone

\* Mutant of NoArchive: it cleans up as the error paths of the other tools do.
NoArchiveRemoveAll ==
  /\ bulk = "running" /\ AllFinished
  /\ bulk' = "done"
  /\ dirs' = {} /\ files' = {} /\ staged' = {}
  /\ UNCHANGED <<at, result>> /\ StoreAlone

\* Nothing to archive, or the archive cannot be written: then it is removed and
\* the link left empty.
NoArchive ==
  /\ bulk = "running" /\ AllFinished
  /\ bulk' = "done"
  /\ UNCHANGED <<diskVars, at, result>> /\ StoreAlone

RegisterArchive ==
  /\ bulk = "bundling"
  /\ bulk' = "done"
  /\ \E t \in Tokens : Register(t, Zip, TTL)
  /\ UNCHANGED <<at, result>>

--------------------------------------------------------------------------------

\* The worker and the clock, which does not outrun the request.  Handlers read
\* what they read in DownloadStore and change nothing here.
Others ==
  /\ \/ Cleanup
     \/ Tick /\ bulk # "new" /\ (bulk \in {"running", "bundling"} => now < MaxRun)
  /\ UNCHANGED <<bulk, at, result>>

BNext ==
  \/ Begin \/ BeginFails
  \/ \E u \in URLs : Goroutine(u)
  \/ Bundle \/ NoArchive \/ RegisterArchive
  \/ Others

BSpec == BInit /\ [][BNext]_bvars

(* Goroutines run, and a fetch ends because its context and its client time *)
(* out.  The sends that wait for the local semaphore are served in order, and *)
(* Register gets the lock between two sweeps: strong fairness.               *)
BFairness ==
  /\ \A u \in URLs : SF_bvars(Goroutine(u))
  /\ SF_bvars(Bundle \/ NoArchive \/ RegisterArchive)
  /\ WF_bvars(Cleanup /\ Others)

BFairSpec == BSpec /\ BFairness

--------------------------------------------------------------------------------

\* Every URL gets a slot and the request ends, with an entry for each of them,
\* a link or an error.
BulkEnds ==
  bulk = "running" ~> bulk = "done" /\ \A u \in URLs : result[u] # "pending"

\* README.md line 228: a link is good for its TTL and the worker removes
\* expired files.  So whatever fails, in a goroutine or after all of them, each
\* link within its TTL has its file, the archive's too.  A thumbnail may be cut off
\* in it (the result of io.Copy is dropped, tool.go line 188), and the archive may
\* lack some that have links (store.go lines 145 to 163).
EveryLinkWorks == \A t \in Tokens : Live(t) => items[t].path \in files
================================================================================
