-------------------------- MODULE BulkThumbnailsProofs -------------------------
(***************************************************************************)
(* Theorems of BulkThumbnails for any number of URLs, which may be of the  *)
(* same videos, any number of slots, and any lifetime: what a link leads   *)
(* to, what the request answers, and that its local semaphore is one.      *)
(***************************************************************************)
EXTENDS BulkThumbnails, DownloadStoreProofs, FiniteSetTheorems

--------------------------------------------------------------------------------
(***************************************************************************)
(* The request                                                             *)
(***************************************************************************)

JobTypeInv ==
  /\ bulk \in {"new", "running", "bundling", "done", "error"}
  /\ at \in [URLs -> {"waiting", "finished"} \cup Working]
  /\ result \in [URLs -> {"pending", "error", "ok"}]

\* No goroutine runs before its request does, or after the wait for all of them;
\* and each has made its entry when it is over, and not before.
ProgressInv ==
  /\ bulk \in {"new", "error"} => \A u \in URLs : at[u] = "waiting"
  /\ bulk \in {"bundling", "done"} => AllFinished
  /\ \A u \in URLs : result[u] = "pending" <=> at[u] # "finished"

BulkInv == TypeOK /\ WorkerInv /\ IssuedInv /\ JobTypeInv /\ ProgressInv

\* Before the first call.
LEMMA BulkStarts == BInit => BulkInv
<1> SUFFICES ASSUME BInit PROVE BulkInv
  OBVIOUS
<1>1. TypeOK /\ WorkerInv /\ IssuedInv
  BY InvInit DEF BInit, IInv
<1> QED BY <1>1 DEF BulkInv, BInit, JobTypeInv, ProgressInv, AllFinished

\* The steps that are the store's own, and those that it does not see but for the
\* disk.
LEMMA StoreSees ==
  ASSUME [BNext]_bvars
  PROVE  \/ [Next]_vars
         \/ /\ UNCHANGED <<now, storeVars, cleaner, handlerVars>>
            /\ \/ dirs' = Paths /\ staged' = Paths /\ files' = files
               \/ /\ \E f \in Paths : files' = files \cup {f}
                  /\ UNCHANGED <<dirs, staged>>
<1> USE DEF StoreAlone, Same
<1>1. CASE Begin
  BY <1>1 DEF Begin
<1>2. CASE BeginFails \/ NoArchive \/ UNCHANGED bvars
  BY <1>2 DEF BeginFails, NoArchive, bvars, vars
<1>3. ASSUME NEW u \in URLs, TakeSlot(u) \/ Fetched(u) \/ Fails(u) \/ Copied(u)
      PROVE  UNCHANGED vars
  BY <1>3 DEF TakeSlot, Fetched, Fails, Copied, vars
<1>4. ASSUME NEW u \in URLs, Create(u)
      PROVE  /\ \E f \in Paths : files' = files \cup {f}
             /\ UNCHANGED <<dirs, staged, now, storeVars, cleaner, handlerVars>>
  BY <1>4, BulkAssumption DEF Create
<1>5. ASSUME NEW u \in URLs, RegisterOne(u) PROVE Next
  <2>1. fileOf[u] \in Paths /\ TTL \in TTLs
    BY BulkAssumption
  <2>2. PICK t \in Tokens : Register(t, fileOf[u], TTL)
    BY <1>5 DEF RegisterOne
  <2> QED BY <2>1, <2>2 DEF Next, Request, EndRequest
<1>6. CASE Bundle
  BY <1>6, BulkAssumption DEF Bundle
<1>7. CASE RegisterArchive
  <2>1. Zip \in Paths /\ TTL \in TTLs
    BY BulkAssumption
  <2>2. PICK t \in Tokens : Register(t, Zip, TTL)
    BY <1>7 DEF RegisterArchive
  <2> QED BY <2>1, <2>2 DEF Next, Request, EndRequest
<1>8. CASE Others
  BY <1>8 DEF Others, Next
<1> QED BY <1>1, <1>2, <1>3, <1>4, <1>5, <1>6, <1>7, <1>8 DEF BNext, Goroutine

\* Whatever the request does on the disk, the store keeps its own invariants.
LEMMA StoreKept ==
  TypeOK /\ WorkerInv /\ IssuedInv /\ [BNext]_bvars
    => TypeOK' /\ WorkerInv' /\ IssuedInv'
<1> SUFFICES ASSUME TypeOK, WorkerInv, IssuedInv, [BNext]_bvars
             PROVE  TypeOK' /\ WorkerInv' /\ IssuedInv'
  OBVIOUS
<1>1. CASE [Next]_vars
  BY <1>1, TypeStep, WorkerStep, IssuedStep
<1>2. CASE ~[Next]_vars
  <2>1. /\ UNCHANGED <<now, storeVars, cleaner, handlerVars>>
        /\ dirs' \subseteq Paths /\ staged' \subseteq Paths /\ files' \subseteq Paths
    BY <1>2, StoreSees DEF TypeOK
  <2>2. UNCHANGED <<now, items, issued, cleaner, pc, asked, held>>
    BY <2>1 DEF storeVars, handlerVars
  <2>3. TypeOK'
    BY <2>1, <2>2 DEF TypeOK
  <2> QED BY <2>2, <2>3, SameEntries DEF WorkerInv, IssuedInv, Expired
<1> QED BY <1>1, <1>2

\* The goroutines move on, one at a time, and none of them but for TakeSlot from
\* where it waits.
LEMMA ProgressKept == BulkInv /\ [BNext]_bvars => JobTypeInv' /\ ProgressInv'
<1> SUFFICES ASSUME BulkInv, [BNext]_bvars PROVE JobTypeInv' /\ ProgressInv'
  OBVIOUS
<1> USE DEF BulkInv, JobTypeInv, ProgressInv, Same, Step, AllFinished, Working
<1>1. CASE Begin
  BY <1>1 DEF Begin
<1>2. CASE BeginFails
  BY <1>2 DEF BeginFails
<1>3. ASSUME NEW u \in URLs, TakeSlot(u) PROVE JobTypeInv' /\ ProgressInv'
  BY <1>3 DEF TakeSlot
<1>4. ASSUME NEW u \in URLs, Fetched(u) \/ Create(u) \/ Copied(u)
      PROVE  JobTypeInv' /\ ProgressInv'
  BY <1>4 DEF Fetched, Create, Copied
<1>5. ASSUME NEW u \in URLs, Fails(u) PROVE JobTypeInv' /\ ProgressInv'
  BY <1>5 DEF Fails
<1>6. ASSUME NEW u \in URLs, RegisterOne(u) PROVE JobTypeInv' /\ ProgressInv'
  BY <1>6 DEF RegisterOne
<1>7. CASE Bundle
  BY <1>7 DEF Bundle
<1>8. CASE NoArchive
  BY <1>8 DEF NoArchive
<1>9. CASE RegisterArchive
  BY <1>9 DEF RegisterArchive
<1>10. CASE Others \/ UNCHANGED bvars
  BY <1>10 DEF Others, bvars, jobVars
<1> QED BY <1>1, <1>2, <1>3, <1>4, <1>5, <1>6, <1>7, <1>8, <1>9, <1>10
        DEF BNext, Goroutine

LEMMA BulkAlways == BSpec => []BulkInv
<1>1. BulkInv /\ [BNext]_bvars => BulkInv'
  BY StoreKept, ProgressKept DEF BulkInv
<1> QED BY <1>1, BulkStarts, PTL DEF BSpec

\* Once the goroutines have been waited for, every URL has an entry, a link or an
\* error (results of Execute, which are written by index).
ResultsComplete ==
  bulk \in {"bundling", "done"} => \A u \in URLs : result[u] \in {"error", "ok"}

\* However many of the goroutines fail, and wherever, none leaves its entry out.
THEOREM AnswersInFull == BSpec => []ResultsComplete
<1>1. BulkInv => ResultsComplete
  BY DEF BulkInv, ProgressInv, JobTypeInv, ResultsComplete, AllFinished
<1> QED BY <1>1, BulkAlways, PTL

--------------------------------------------------------------------------------
(***************************************************************************)
(* The links.  Two URLs of one video share a file: the sweep after the     *)
(* first of their expiries takes it.  Every other file has one entry.      *)
(***************************************************************************)

Shared(p) == \E u, v \in URLs : u # v /\ fileOf[u] = p /\ fileOf[v] = p

\* What a link needs.
Works(t) == items[t].path \in files

\* A file of one URL has no entry before its goroutine has registered it, one
\* afterwards, and is there from its creation until the worker removes it.
\* The archive is made when there is nobody left to remove it.
LinkInv ==
  /\ bulk # "done" => Zip \notin Registered
  /\ bulk = "bundling" => Zip \in files
  /\ \A u \in URLs : ~Shared(fileOf[u]) =>
       /\ at[u] # "finished" => fileOf[u] \notin Registered
       /\ at[u] \in {"copy", "register"} => fileOf[u] \in files
  /\ \A t, s \in Entries :
       ~Shared(items[t].path) /\ items[s].path = items[t].path => s = t
  /\ \A t \in Kept : ~Shared(items[t].path) => Works(t)

\* A step that adds to the disk and leaves the map alone keeps what is there.
LEMMA LinkDisk ==
  ASSUME LinkInv, UNCHANGED <<items, cleaner>>, files \subseteq files',
         bulk' = "done" => bulk = "done" \/ Zip \notin Registered,
         bulk' # "done" => bulk # "done",
         bulk' = "bundling" => bulk = "bundling" \/ Zip \in files',
         \A u \in URLs : ~Shared(fileOf[u]) =>
           /\ at'[u] # "finished" => at[u] # "finished"
           /\ at'[u] \in {"copy", "register"} =>
                at[u] \in {"copy", "register"} \/ fileOf[u] \in files'
  PROVE  LinkInv'
<1>1. UNCHANGED <<Entries, Registered, Kept>>
  BY SameEntries
<1>2. \A t \in Tokens : Works(t) => Works(t)'
  BY DEF Works
<1>3. Kept \subseteq Tokens
  BY DEF Kept, Entries
<1> QED BY <1>1, <1>2, <1>3 DEF LinkInv, Shared

\* The goroutine of u registers its file.
LEMMA LinkRegisterOne ==
  ASSUME BulkInv, LinkInv, NEW u \in URLs, RegisterOne(u)
  PROVE  LinkInv'
<1> USE DEF BulkInv, JobTypeInv
<1> DEFINE p == fileOf[u]
<1>1. PICK t \in Tokens : Register(t, p, TTL)
  BY DEF RegisterOne
<1>2. p \in Paths /\ p # Zip /\ TTL \in TTLs
  BY BulkAssumption
<1>3. /\ t \notin Entries
      /\ items'[t] = [path |-> p, expireAt |-> now + TTL]
      /\ \A v \in Tokens \ {t} : items'[v] = items[v]
      /\ Entries' = Entries \cup {t}
      /\ Registered' = Registered \cup {p}
      /\ Kept = Entries
      /\ Kept' = Entries'
  BY <1>1, <1>2, RegisterEffect
<1>4. items'[t].path = p /\ \A v \in Entries : v # t /\ v \in Tokens /\ items'[v] = items[v]
  BY <1>3 DEF Entries
<1>5. /\ at[u] = "register" /\ at'[u] = "finished" /\ at' = [at EXCEPT ![u] = "finished"]
      /\ bulk' = bulk
  BY DEF RegisterOne, Step, Same
<1>6. files' = files
  BY <1>1 DEF Register
<1>7. bulk # "done" /\ bulk # "bundling"
  BY <1>5 DEF ProgressInv, AllFinished
<1>8. ~Shared(p) => p \in files /\ p \notin Registered
  BY <1>5 DEF LinkInv
<1>9. \A v \in URLs : ~Shared(fileOf[v]) /\ v # u => fileOf[v] # p
  BY DEF Shared
<1>10. \A v \in Entries : items[v].path \in Registered
  BY DEF Registered
<1>11. \A v, s \in Entries' :
         ~Shared(items'[v].path) /\ items'[s].path = items'[v].path => s = v
  BY <1>3, <1>4, <1>8, <1>10 DEF LinkInv
<1>12. \A v \in Entries' : ~Shared(items'[v].path) => Works(v)'
  BY <1>2, <1>3, <1>4, <1>5, <1>6, <1>8 DEF LinkInv, Works
<1>13. \A v \in URLs : ~Shared(fileOf[v]) =>
         /\ at'[v] # "finished" => fileOf[v] \notin Registered'
         /\ at'[v] \in {"copy", "register"} => fileOf[v] \in files'
  BY <1>3, <1>5, <1>6, <1>9 DEF LinkInv
<1> QED BY <1>2, <1>3, <1>5, <1>7, <1>11, <1>12, <1>13 DEF LinkInv, Shared

LEMMA LinkRegisterArchive ==
  ASSUME BulkInv, LinkInv, RegisterArchive
  PROVE  LinkInv'
<1> USE DEF BulkInv, JobTypeInv
<1>1. PICK t \in Tokens : Register(t, Zip, TTL)
  BY DEF RegisterArchive
<1>2. Zip \in Paths /\ TTL \in TTLs
  BY BulkAssumption
<1>3. /\ t \notin Entries
      /\ items'[t] = [path |-> Zip, expireAt |-> now + TTL]
      /\ \A v \in Tokens \ {t} : items'[v] = items[v]
      /\ Entries' = Entries \cup {t}
      /\ Registered' = Registered \cup {Zip}
      /\ Kept = Entries
      /\ Kept' = Entries'
  BY <1>1, <1>2, RegisterEffect
<1>4. items'[t].path = Zip /\ \A v \in Entries : v # t /\ v \in Tokens /\ items'[v] = items[v]
  BY <1>3 DEF Entries
<1>5. bulk = "bundling" /\ bulk' = "done" /\ at' = at
  BY DEF RegisterArchive
<1>6. files' = files
  BY <1>1 DEF Register
<1>7. Zip \in files /\ Zip \notin Registered
  BY <1>5 DEF LinkInv
<1>8. \A u \in URLs : at[u] = "finished"
  BY <1>5 DEF ProgressInv, AllFinished
<1>9. \A v \in Entries : items[v].path \in Registered
  BY DEF Registered
<1>10. \A v, s \in Entries' :
         ~Shared(items'[v].path) /\ items'[s].path = items'[v].path => s = v
  BY <1>3, <1>4, <1>7, <1>9 DEF LinkInv
<1>11. \A v \in Entries' : ~Shared(items'[v].path) => Works(v)'
  BY <1>3, <1>4, <1>5, <1>6, <1>7 DEF LinkInv, Works
<1> QED BY <1>3, <1>5, <1>8, <1>10, <1>11 DEF LinkInv, Shared

\* The worker takes the file of an entry that no other entry needs, and that no
\* goroutine is at work on.
LEMMA LinkOthers ==
  ASSUME BulkInv, LinkInv, Others
  PROVE  LinkInv'
<1> USE DEF BulkInv, JobTypeInv, storeVars, diskVars, handlerVars
<1>1. UNCHANGED <<bulk, at>>
  BY DEF Others
<1>2. ASSUME UNCHANGED <<items, files>>, Entries' = Entries, Registered' = Registered,
             Kept' \subseteq Kept
      PROVE  LinkInv'
  <2>1. \A t \in Tokens : Works(t) => Works(t)'
    BY <1>2 DEF Works
  <2>2. Kept \subseteq Tokens
    BY DEF Kept, Entries
  <2> QED BY <1>1, <1>2, <2>1, <2>2 DEF LinkInv, Shared
<1>3. CASE Tick
  BY <1>2, <1>3, SameEntries DEF Tick
<1>4. CASE SweepBegin \/ SweepEnd
  <2>1. UNCHANGED <<items, files>> /\ cleaner.pc # "unlinked" /\ cleaner'.pc # "unlinked"
    BY <1>4 DEF SweepBegin, SweepEnd, Unlocked, Asleep
  <2>2. Entries' = Entries /\ Registered' = Registered
    BY <2>1 DEF Entries, Registered
  <2>3. Kept' = Kept
    BY <2>1, <2>2 DEF Kept
  <2> QED BY <1>2, <2>1, <2>2, <2>3
<1>5. ASSUME NEW t \in Tokens, Unlink(t) PROVE LinkInv'
  <2>1. /\ t \in Entries
        /\ Entries' = Entries /\ Registered' = Registered
        /\ Kept = Entries /\ Kept' = Entries \ {t}
    BY <1>5, UnlinkEffect
  <2>2. items' = items /\ files \ {items[t].path} \subseteq files'
    BY <1>5 DEF Unlink
  <2>3. items[t].path \in Registered
    BY <2>1 DEF Registered
  <2>4. \A u \in URLs : ~Shared(fileOf[u]) =>
          (at[u] \in {"copy", "register"} => fileOf[u] \in files')
    BY <2>2, <2>3 DEF LinkInv
  <2>5. bulk = "bundling" => Zip \in files'
    BY <2>2, <2>3 DEF LinkInv
  <2>6. \A s \in Kept' : ~Shared(items[s].path) => Works(s)'
    <3> SUFFICES ASSUME NEW s \in Entries, s # t, ~Shared(items[s].path)
                 PROVE  Works(s)'
      BY <2>1
    <3>1. items[s].path # items[t].path /\ Works(s)
      BY <2>1 DEF LinkInv
    <3> QED BY <2>2, <3>1 DEF Works
  <2> QED BY <1>1, <2>1, <2>2, <2>4, <2>5, <2>6 DEF LinkInv, Shared
<1>6. CASE Forget
  <2>1. /\ \A s \in Tokens \ {cleaner.victim} : items'[s] = items[s]
        /\ Entries' = Entries \ {cleaner.victim}
        /\ Kept = Entries' /\ Kept' = Entries'
    BY <1>6, ForgetEffect
  <2>2. files' = files
    BY <1>6 DEF Forget
  <2>3. \A s \in Entries' : s \in Entries /\ items'[s] = items[s]
    BY <2>1 DEF Entries
  <2>4. Registered' \subseteq Registered
    BY <2>3 DEF Registered
  <2>5. \A s \in Entries' : Works(s) => Works(s)'
    BY <2>2, <2>3 DEF Works
  <2> QED BY <1>1, <2>1, <2>2, <2>3, <2>4, <2>5 DEF LinkInv, Shared
<1> QED BY <1>3, <1>4, <1>5, <1>6 DEF Others, Cleanup

LEMMA LinkKept == BulkInv /\ LinkInv /\ [BNext]_bvars => LinkInv'
<1> SUFFICES ASSUME BulkInv, LinkInv, [BNext]_bvars PROVE LinkInv'
  OBVIOUS
<1> USE DEF BulkInv, JobTypeInv, StoreAlone, Same, Step, storeVars, diskVars, Working
<1>1. CASE Begin
  BY <1>1, LinkDisk DEF Begin
<1>2. CASE BeginFails
  BY <1>2, LinkDisk DEF BeginFails
<1>3. ASSUME NEW u \in URLs, TakeSlot(u) PROVE LinkInv'
  BY <1>3, LinkDisk DEF TakeSlot
<1>4. ASSUME NEW u \in URLs, Fetched(u) \/ Copied(u) PROVE LinkInv'
  BY <1>4, LinkDisk DEF Fetched, Copied
<1>5. ASSUME NEW u \in URLs, Create(u) PROVE LinkInv'
  BY <1>5, LinkDisk, BulkAssumption DEF Create
<1>6. ASSUME NEW u \in URLs, Fails(u) PROVE LinkInv'
  BY <1>6, LinkDisk DEF Fails
<1>7. CASE Bundle
  BY <1>7, LinkDisk DEF Bundle
<1>8. CASE NoArchive
  BY <1>8, LinkDisk DEF NoArchive, LinkInv
<1>9. CASE UNCHANGED bvars
  BY <1>9, LinkDisk DEF bvars, vars, jobVars
<1> QED BY <1>1, <1>2, <1>3, <1>4, <1>5, <1>6, <1>7, <1>8, <1>9, LinkRegisterOne,
           LinkRegisterArchive, LinkOthers DEF BNext, Goroutine

LEMMA LinkAlways == BSpec => [](BulkInv /\ LinkInv)
<1>1. BInit => LinkInv
  <2> SUFFICES ASSUME BInit PROVE LinkInv
    OBVIOUS
  <2>1. Entries = {} /\ Registered = {} /\ Kept = {}
    BY DEF BInit, Init, Entries, Registered, Kept
  <2> QED BY <2>1 DEF BInit, LinkInv
<1> QED BY <1>1, LinkKept, BulkAlways, PTL DEF BSpec

\* A live link that does not work is one of two URLs of a video.
OnlySharedBreak ==
  \A t \in Tokens : Live(t) => Works(t) \/ Shared(items[t].path)

LEMMA LiveKept == BulkInv => \A t \in Tokens : Live(t) => t \in Kept
<1> SUFFICES ASSUME BulkInv, NEW t \in Tokens, Live(t) PROVE t \in Kept
  OBVIOUS
<1>1. items[t] \in Item /\ items[t].expireAt \in Nat /\ t \in Entries
  BY DEF BulkInv, TypeOK, Entries, Live, Item
<1> QED BY <1>1 DEF BulkInv, WorkerInv, TypeOK, Kept, Live, Expired

\* Of any list of URLs, the links of videos that are in it once work, and so does
\* that of the archive: nothing but a sibling's expiry ever takes the file of a
\* link away within its 30 minutes (bulkthumbnaildownloader/tool.go).
THEOREM OnlySharedLinksBreak == BSpec => []OnlySharedBreak
<1>1. BulkInv /\ LinkInv => OnlySharedBreak
  BY LiveKept DEF LinkInv, OnlySharedBreak
<1> QED BY <1>1, LinkAlways, PTL

\* In a list of different videos every link works.
THEOREM BulkLinksWork ==
  ASSUME \A u, v \in URLs : fileOf[u] = fileOf[v] => u = v
  PROVE  BSpec => []EveryLinkWorks
<1>1. \A p : ~Shared(p)
  BY DEF Shared
<1>2. OnlySharedBreak => EveryLinkWorks
  BY <1>1 DEF OnlySharedBreak, Works, EveryLinkWorks
<1> QED BY <1>2, OnlySharedLinksBreak, PTL

--------------------------------------------------------------------------------
(***************************************************************************)
(* The first half hour.  The worker takes nothing before the first expiry, *)
(* and that is later than the end of the request.                          *)
(***************************************************************************)

EarlyInv ==
  /\ bulk = "new" => now = 0
  /\ bulk \in {"running", "bundling"} => now <= MaxRun
  /\ \A t \in Entries : TTL <= items[t].expireAt
  /\ now <= TTL =>
       /\ cleaner.pc # "unlinked"
       /\ \A u \in URLs : at[u] \in {"copy", "register"} => fileOf[u] \in files
       /\ \A t \in Entries : Works(t)

\* A step that adds to the disk and leaves the map and the clock alone.
LEMMA EarlyDisk ==
  ASSUME EarlyInv, UNCHANGED <<now, items, cleaner>>, files \subseteq files',
         bulk' \in {"running", "bundling"} => bulk \in {"new", "running", "bundling"},
         bulk' = "new" => bulk = "new",
         \A u \in URLs : at'[u] \in {"copy", "register"} =>
           at[u] \in {"copy", "register"} \/ fileOf[u] \in files'
  PROVE  EarlyInv'
<1>1. Entries' = Entries
  BY SameEntries
<1>2. \A t \in Tokens : Works(t) => Works(t)'
  BY DEF Works
<1>3. now = 0 => now <= MaxRun
  BY BulkAssumption
<1> QED BY <1>1, <1>2, <1>3 DEF EarlyInv, Entries

\* A new entry of a file that is there expires no sooner than TTL.
LEMMA EarlyRegister ==
  ASSUME TypeOK, IssuedInv, EarlyInv, NEW t \in Tokens, NEW p \in Paths,
         Register(t, p, TTL),
         bulk' # "new",
         bulk' \in {"running", "bundling"} => bulk \in {"running", "bundling"},
         \A u \in URLs : at'[u] \in {"copy", "register"} => at[u] \in {"copy", "register"},
         now <= TTL => p \in files
  PROVE  EarlyInv'
<1>1. TTL \in Nat /\ TTL \in TTLs /\ now \in Nat
  BY BulkAssumption, StoreAssumption DEF TypeOK
<1>2. /\ t \notin Entries
      /\ items'[t] = [path |-> p, expireAt |-> now + TTL]
      /\ \A v \in Tokens \ {t} : items'[v] = items[v]
      /\ Entries' = Entries \cup {t}
  BY <1>1, RegisterEffect
<1>3. UNCHANGED <<now, files, cleaner>>
  BY DEF Register
<1>4. items'[t].path = p /\ items'[t].expireAt = now + TTL
  BY <1>2
<1>5. \A v \in Entries : v \in Tokens /\ items'[v] = items[v]
  BY <1>2 DEF Entries
<1>6. \A v \in Entries' : TTL <= items'[v].expireAt
  BY <1>1, <1>2, <1>4, <1>5 DEF EarlyInv
<1>7. now <= TTL => \A v \in Entries' : Works(v)'
  BY <1>2, <1>3, <1>4, <1>5 DEF EarlyInv, Works
<1> QED BY <1>3, <1>6, <1>7 DEF EarlyInv

LEMMA EarlyOthers ==
  ASSUME BulkInv, EarlyInv, Others
  PROVE  EarlyInv'
<1> USE DEF storeVars, diskVars, handlerVars
<1>1. UNCHANGED <<bulk, at>>
  BY DEF Others
<1>2. TTL \in Nat /\ MaxRun < TTL
  BY BulkAssumption, StoreAssumption
<1>3. now \in Nat
  BY DEF BulkInv, TypeOK
<1>4. ASSUME UNCHANGED <<items, files>>, cleaner'.pc = "unlinked" => cleaner.pc = "unlinked",
             now <= now',
             bulk = "new" => now' = 0,
             bulk \in {"running", "bundling"} => now' <= MaxRun, now' \in Nat
      PROVE  EarlyInv'
  <2>1. Entries' = Entries /\ Entries \subseteq Tokens
    BY <1>4 DEF Entries
  <2>2. \A t \in Tokens : Works(t) => Works(t)'
    BY <1>1, <1>4 DEF Works
  <2>3. now' <= TTL => now <= TTL
    BY <1>2, <1>3, <1>4
  <2> QED BY <1>1, <1>4, <2>1, <2>2, <2>3 DEF EarlyInv
<1>5. CASE Tick /\ bulk # "new" /\ (bulk \in {"running", "bundling"} => now < MaxRun)
  <2>1. now' = now + 1 /\ UNCHANGED <<items, files, cleaner>>
    BY <1>5 DEF Tick
  <2>2. MaxRun \in Int
    BY BulkAssumption
  <2> QED BY <1>3, <1>4, <1>5, <2>1, <2>2
<1>6. CASE SweepBegin \/ SweepEnd
  BY <1>3, <1>4, <1>6 DEF SweepBegin, SweepEnd, Asleep, EarlyInv
<1>7. ASSUME NEW t \in Tokens, Unlink(t) PROVE EarlyInv'
  <2>1. UNCHANGED <<now, items>> /\ cleaner.pc = "sweeping" /\ t \in Due
    BY <1>7 DEF Unlink
  <2>2. cleaner.at <= now /\ cleaner.at \in Nat
    BY <2>1 DEF BulkInv, WorkerInv, TypeOK
  <2>3. items[t].expireAt < cleaner.at /\ TTL <= items[t].expireAt /\ items[t].expireAt \in Nat
    BY <2>1 DEF Due, Expired, EarlyInv, BulkInv, TypeOK, Entries, Item
  <2>4. ~(now <= TTL)
    BY <1>2, <1>3, <2>2, <2>3
  <2>5. Entries' = Entries
    BY <2>1 DEF Entries
  <2> QED BY <1>1, <2>1, <2>4, <2>5 DEF EarlyInv
<1>8. CASE Forget
  <2>1. cleaner.pc = "unlinked" /\ UNCHANGED now
    BY <1>8 DEF Forget
  <2>2. ~(now <= TTL)
    BY <2>1 DEF EarlyInv
  <2>3. /\ \A s \in Tokens \ {cleaner.victim} : items'[s] = items[s]
        /\ Entries' = Entries \ {cleaner.victim}
    BY <1>8, ForgetEffect DEF BulkInv
  <2>4. \A s \in Entries' : s \in Entries /\ items'[s] = items[s]
    BY <2>3 DEF Entries
  <2> QED BY <1>1, <2>1, <2>2, <2>4 DEF EarlyInv
<1> QED BY <1>5, <1>6, <1>7, <1>8 DEF Others, Cleanup

LEMMA EarlyKept == BulkInv /\ LinkInv /\ EarlyInv /\ [BNext]_bvars => EarlyInv'
<1> SUFFICES ASSUME BulkInv, LinkInv, EarlyInv, [BNext]_bvars PROVE EarlyInv'
  OBVIOUS
<1> USE DEF BulkInv, JobTypeInv, StoreAlone, Same, Step, storeVars, diskVars, Working
<1>1. CASE Begin
  BY <1>1, EarlyDisk DEF Begin
<1>2. CASE BeginFails
  BY <1>2, EarlyDisk DEF BeginFails
<1>3. ASSUME NEW u \in URLs, TakeSlot(u) \/ Fetched(u) \/ Copied(u)
      PROVE  EarlyInv'
  BY <1>3, EarlyDisk DEF TakeSlot, Fetched, Copied
<1>4. ASSUME NEW u \in URLs, Create(u) PROVE EarlyInv'
  BY <1>4, EarlyDisk, BulkAssumption DEF Create
<1>5. ASSUME NEW u \in URLs, Fails(u) PROVE EarlyInv'
  BY <1>5, EarlyDisk DEF Fails
<1>6. ASSUME NEW u \in URLs, RegisterOne(u) PROVE EarlyInv'
  <2>1. fileOf[u] \in Paths /\ fileOf[u] # Zip
    BY BulkAssumption
  <2>2. PICK t \in Tokens : Register(t, fileOf[u], TTL)
    BY <1>6 DEF RegisterOne
  <2>3. /\ at[u] = "register" /\ at' = [at EXCEPT ![u] = "finished"]
        /\ bulk' = bulk
    BY <1>6 DEF RegisterOne
  <2>4. bulk # "new" /\ (now <= TTL => fileOf[u] \in files)
    BY <2>3 DEF ProgressInv, EarlyInv
  <2> QED BY <2>1, <2>2, <2>3, <2>4, EarlyRegister
<1>7. CASE Bundle
  BY <1>7, EarlyDisk DEF Bundle
<1>8. CASE NoArchive
  BY <1>8, EarlyDisk DEF NoArchive
<1>9. CASE RegisterArchive
  <2>1. PICK t \in Tokens : Register(t, Zip, TTL)
    BY <1>9 DEF RegisterArchive
  <2>2. bulk = "bundling" /\ bulk' = "done" /\ UNCHANGED at
    BY <1>9 DEF RegisterArchive
  <2>3. Zip \in Paths /\ Zip \in files
    BY <2>2, BulkAssumption DEF LinkInv
  <2> QED BY <2>1, <2>2, <2>3, EarlyRegister
<1>10. CASE Others
  BY <1>10, EarlyOthers
<1>11. CASE UNCHANGED bvars
  BY <1>11, EarlyDisk DEF bvars, vars, jobVars
<1> QED BY <1>1, <1>2, <1>3, <1>4, <1>5, <1>6, <1>7, <1>8, <1>9, <1>10, <1>11
        DEF BNext, Goroutine

\* While the request runs, and until its first link can expire.
WorkAtFirst ==
  bulk \in {"running", "bundling"} \/ now <= TTL => EveryLinkWorks

\* However many URLs of a list are of one video, the links all work when they are
\* handed out, and for the half hour from the start of the request: what a
\* sibling's expiry takes away is the rest of a lifetime, at most as long as the
\* request ran (bulkthumbnaildownloader/tool.go).
THEOREM LinksWorkAtFirst == BSpec => []WorkAtFirst
<1>1. BInit => EarlyInv
  BY DEF BInit, Init, Entries, EarlyInv, Asleep
<1>2. BulkInv /\ EarlyInv => WorkAtFirst
  <2> SUFFICES ASSUME BulkInv, EarlyInv, bulk \in {"running", "bundling"} \/ now <= TTL
               PROVE  EveryLinkWorks
    BY DEF WorkAtFirst
  <2> USE BulkAssumption, StoreAssumption DEF BulkInv, TypeOK
  <2>1. bulk \in {"running", "bundling"} => now <= MaxRun
    BY DEF EarlyInv
  <2> QED BY DEF EarlyInv, EveryLinkWorks, Live, Works
<1> QED BY <1>1, <1>2, EarlyKept, LinkAlways, PTL DEF BSpec

--------------------------------------------------------------------------------
(***************************************************************************)
(* The local semaphore, and the links that are handed out                  *)
(***************************************************************************)

\* The channel of BulkCap places that the goroutines of one request share.
LocalPool == INSTANCE BoundedPool WITH
  Workers <- URLs, Limit <- BulkCap, inside <- Inside

\* No more downloads than BulkCap at a time; one link for each URL that has come
\* through, and one more at most, for the archive, at the end.
CountInv ==
  /\ Cardinality(Inside) <= BulkCap
  /\ IsFiniteSet(issued)
  /\ bulk # "done" => Cardinality(issued) = Cardinality(Succeeded)
  /\ Cardinality(issued) - Cardinality(Succeeded) \in {0, 1}

LEMMA SetsFinite ==
  /\ IsFiniteSet(Inside) /\ Cardinality(Inside) \in Nat
  /\ IsFiniteSet(Succeeded) /\ Cardinality(Succeeded) \in Nat
  BY BulkAssumption, FS_Subset, FS_CardinalityType DEF Inside, Succeeded

\* A slot is taken by one goroutine that has none, and given back by one that has.
LEMMA InsideMoves ==
  ASSUME BulkInv, [BNext]_bvars
  PROVE  \/ Inside' = Inside
         \/ \E u \in URLs : LocalPool!Enter(u) \/ LocalPool!Leave(u)
<1> USE DEF BulkInv, JobTypeInv, Inside, Same, Step, Working
<1>1. ASSUME NEW u \in URLs, TakeSlot(u) PROVE LocalPool!Enter(u)
  <2>1. u \notin Inside /\ Inside' = Inside \cup {u} /\ Cardinality(Inside) < BulkCap
    BY <1>1 DEF TakeSlot
  <2>2. LocalPool!Cardinality(Inside) = Cardinality(Inside)
    BY DEF LocalPool!Cardinality, Cardinality
  <2> QED BY <2>1, <2>2 DEF LocalPool!Enter
<1>2. ASSUME NEW u \in URLs, Fetched(u) \/ Create(u) \/ Copied(u)
      PROVE  Inside' = Inside
  BY <1>2 DEF Fetched, Create, Copied
<1>3. ASSUME NEW u \in URLs, Fails(u) \/ RegisterOne(u) PROVE LocalPool!Leave(u)
  BY <1>3 DEF Fails, RegisterOne, LocalPool!Leave
<1>4. CASE Begin \/ BeginFails \/ Bundle \/ NoArchive \/ RegisterArchive \/ Others
           \/ UNCHANGED bvars
  BY <1>4 DEF Begin, BeginFails, Bundle, NoArchive, RegisterArchive, Others, bvars, jobVars
<1> QED BY <1>1, <1>2, <1>3, <1>4 DEF BNext, Goroutine

\* The goroutine that registers its file is the only one whose entry turns to ok,
\* and the token is a new one.
LEMMA LinksMove ==
  ASSUME BulkInv, [BNext]_bvars
  PROVE  \/ Succeeded' = Succeeded /\ issued' = issued /\ (bulk' # "done" => bulk # "done")
         \/ /\ bulk # "done" /\ bulk' = bulk
            /\ \E u \in URLs \ Succeeded : Succeeded' = Succeeded \cup {u}
            /\ \E t \in Tokens \ issued : issued' = issued \cup {t}
         \/ /\ bulk # "done" /\ bulk' = "done" /\ Succeeded' = Succeeded
            /\ \E t \in Tokens \ issued : issued' = issued \cup {t}
<1> USE DEF BulkInv, JobTypeInv, ProgressInv, Succeeded, Same, Step, StoreAlone, storeVars
<1>1. ASSUME NEW u \in URLs, TakeSlot(u) \/ Fetched(u) \/ Create(u) \/ Copied(u)
      PROVE  result' = result /\ issued' = issued /\ bulk' = bulk
  BY <1>1 DEF TakeSlot, Fetched, Create, Copied
<1>2. ASSUME NEW u \in URLs, Fails(u)
      PROVE  Succeeded' = Succeeded /\ issued' = issued /\ bulk' = bulk
  <2>1. result[u] # "ok" /\ result' = [result EXCEPT ![u] = "error"]
    BY <1>2 DEF Fails
  <2> QED BY <1>2, <2>1 DEF Fails
<1>3. ASSUME NEW u \in URLs, RegisterOne(u)
      PROVE  /\ bulk # "done" /\ bulk' = bulk
             /\ u \notin Succeeded /\ Succeeded' = Succeeded \cup {u}
             /\ \E t \in Tokens \ issued : issued' = issued \cup {t}
  <2>1. bulk # "done" /\ bulk' = bulk
    BY <1>3 DEF RegisterOne, AllFinished
  <2>2. u \notin Succeeded /\ Succeeded' = Succeeded \cup {u}
    BY <1>3 DEF RegisterOne
  <2>3. \E t \in Tokens \ issued : issued' = issued \cup {t}
    BY <1>3 DEF RegisterOne, Register
  <2> QED BY <2>1, <2>2, <2>3
<1>4. CASE RegisterArchive
  <2>1. \E t \in Tokens \ issued : issued' = issued \cup {t}
    BY <1>4 DEF RegisterArchive, Register
  <2> QED BY <1>4, <2>1 DEF RegisterArchive
<1>5. CASE Begin \/ BeginFails \/ Bundle \/ NoArchive \/ UNCHANGED bvars
  BY <1>5 DEF Begin, BeginFails, Bundle, NoArchive, bvars, vars, jobVars
<1>6. CASE Others
  <2>1. issued' = issued
    BY <1>6 DEF Others, Cleanup, SweepBegin, Unlink, Forget, SweepEnd, Tick
  <2> QED BY <1>6, <2>1 DEF Others
<1> QED BY <1>1, <1>2, <1>3, <1>4, <1>5, <1>6 DEF BNext, Goroutine

LEMMA CountKept == BulkInv /\ CountInv /\ [BNext]_bvars => CountInv'
<1> SUFFICES ASSUME BulkInv, CountInv, [BNext]_bvars PROVE CountInv'
  OBVIOUS
<1>1. Cardinality(Inside') <= BulkCap
  <2>1. CASE Inside' = Inside
    BY <2>1 DEF CountInv
  <2>2. ASSUME NEW u \in URLs, LocalPool!Enter(u) PROVE Cardinality(Inside') <= BulkCap
    <3>1. LocalPool!Cardinality(Inside) = Cardinality(Inside)
      BY DEF LocalPool!Cardinality, Cardinality
    <3>2. u \notin Inside /\ Cardinality(Inside) < BulkCap /\ Inside' = Inside \cup {u}
      BY <2>2, <3>1 DEF LocalPool!Enter
    <3>3. Cardinality(Inside') = Cardinality(Inside) + 1
      BY <3>2, SetsFinite, FS_AddElement
    <3> QED BY <3>2, <3>3, SetsFinite, BulkAssumption
  <2>3. ASSUME NEW u \in URLs, LocalPool!Leave(u) PROVE Cardinality(Inside') <= BulkCap
    <3>1. Inside' \subseteq Inside
      BY <2>3 DEF LocalPool!Leave
    <3>2. Cardinality(Inside') \in Nat /\ Cardinality(Inside') <= Cardinality(Inside)
      BY <3>1, SetsFinite, FS_Subset, FS_CardinalityType
    <3> QED BY <3>2, SetsFinite, BulkAssumption DEF CountInv
  <2> QED BY <2>1, <2>2, <2>3, InsideMoves
<1>2. \A t \in Tokens \ issued :
        /\ IsFiniteSet(issued \cup {t})
        /\ Cardinality(issued \cup {t}) = Cardinality(issued) + 1
  BY FS_AddElement DEF CountInv
<1>3. \A u \in URLs \ Succeeded :
        Cardinality(Succeeded \cup {u}) = Cardinality(Succeeded) + 1
  BY SetsFinite, FS_AddElement
<1>4. Cardinality(issued) \in Nat
  BY FS_CardinalityType DEF CountInv
<1> QED BY <1>1, <1>2, <1>3, <1>4, SetsFinite, LinksMove DEF CountInv

LEMMA CountAlways == BSpec => []CountInv
<1>1. BInit => CountInv
  <2> SUFFICES ASSUME BInit PROVE CountInv
    OBVIOUS
  <2>1. Inside = {} /\ Succeeded = {} /\ issued = {}
    BY DEF BInit, Init, Inside, Working, Succeeded
  <2>2. IsFiniteSet({}) /\ Cardinality({}) = 0
    BY FS_EmptySet
  <2> QED BY <2>1, <2>2, BulkAssumption DEF CountInv
<1> QED BY <1>1, CountKept, BulkAlways, PTL DEF BSpec

\* The goroutines that are past the local channel are a semaphore of BulkCap
\* places, with the release deferred on every way out.
THEOREM LocalSemaphoreIsPool == BSpec => LocalPool!Spec
<1>1. BInit => LocalPool!Init
  BY DEF BInit, LocalPool!Init, Inside, Working
<1>2. BulkInv /\ [BNext]_bvars => [LocalPool!Next]_Inside
  BY InsideMoves DEF LocalPool!Next
<1> QED BY <1>1, <1>2, BulkAlways, PTL DEF BSpec, LocalPool!Spec

\* A link for every URL that is answered without an error, and none besides but
\* that of the archive: goroutines that register at the same time lose no token
\* and take none for nothing.
LinksCounted ==
  /\ bulk # "done" => Cardinality(issued) = Cardinality(Succeeded)
  /\ Cardinality(issued) - Cardinality(Succeeded) \in {0, 1}

\* That holds of any request, at every moment of it.
THEOREM OneLinkEach == BSpec => []LinksCounted
<1>1. CountInv => LinksCounted
  BY DEF CountInv, LinksCounted
<1> QED BY <1>1, CountAlways, PTL

================================================================================
