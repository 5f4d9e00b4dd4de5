-------------------------- MODULE FileProducersProofs --------------------------
(***************************************************************************)
(* Theorems of FileProducers for any number of requests, tokens, handlers  *)
(* and lifetimes, and any choice of the tools: the tools use the store as  *)
(* DownloadStore takes its requests to do, so that what its proofs say of  *)
(* the worker and the map holds here too, and the rest rests on what each  *)
(* request has on disk at each place of its Execute.                       *)
(***************************************************************************)
EXTENDS FileProducers, DownloadStoreProofs

Running == {"create", "fill", "register"}
Places == {"new", "fetch", "mkdir"} \cup Running \cup Finished

\* What request p has on disk and in the map, by the place it has come to.
Job(p) ==
  /\ at[p] # "new" => tool[p] \in Tools
  /\ at[p] \in {"new", "fetch", "mkdir"} => p \notin dirs \cup files
  /\ at[p] \in Running => p \in staged
  /\ at[p] = "create" => p \notin files
  /\ at[p] = "fill" => p \in files /\ tool[p] # "transcript"
  /\ at[p] = "register" => p \in files \/ tool[p] = "transcript"
  /\ at[p] \in {"register", "ok"} /\ p \in files => p \in full
  /\ at[p] = "error" /\ tool[p] # "json" => p \notin dirs \cup files
  /\ p \in Registered => at[p] = "ok"

JobInv ==
  /\ at \in [Paths -> Places]
  /\ tool \in [Paths -> Tools \cup {None}]
  /\ \A p \in Paths : Job(p)

\* A path has one entry.  An entry that the worker is not removing has its file.
LinkInv ==
  /\ \A t, u \in Entries : items[t].path = items[u].path => t = u
  /\ \A t \in Kept :
       tool[items[t].path] # "transcript" => items[t].path \in files

PInv == TypeOK /\ WorkerInv /\ IssuedInv /\ JobInv /\ LinkInv

LEMMA ProducersStart == PInit => PInv
<1> SUFFICES ASSUME PInit PROVE PInv
  OBVIOUS
<1>1. TypeOK /\ WorkerInv /\ IssuedInv
  BY InvInit DEF PInit, IInv
<1>2. Entries = {} /\ Registered = {} /\ Kept = {}
  BY DEF PInit, Init, Entries, Registered, Kept
<1>3. JobInv
  BY <1>2 DEF PInit, Init, JobInv, Job, Places, Running, Finished
<1> QED BY <1>1, <1>2, <1>3 DEF PInv, LinkInv

--------------------------------------------------------------------------------
(* The steps of the tools are steps of the store's requests. *)

LEMMA StepOfStore ==
  ASSUME JobInv, [PNext]_pvars
  PROVE  [Next]_vars
<1> USE DEF StoreAlone, DiskAlone, storeVars, diskVars, handlerVars
<1>1. CASE UNCHANGED pvars \/ \E p \in Paths, k \in Tools : Begin(p, k)
  BY <1>1 DEF pvars, vars, Begin
<1>2. ASSUME NEW p \in Paths, Fetch(p) \/ MkdirFails(p) \/ Fill(p)
      PROVE  UNCHANGED vars
  BY <1>2 DEF Fetch, MkdirFails, Fill, vars
<1>3. ASSUME NEW p \in Paths, MkdirTemp(p) PROVE Stage(p)
  BY <1>3 DEF MkdirTemp, Step, Stage, JobInv, Job
<1>4. ASSUME NEW p \in Paths, Create(p) PROVE WriteFile(p)
  BY <1>4 DEF Create, Step, WriteFile, JobInv, Job, Running
<1>5. ASSUME NEW p \in Paths, CreateFails(p) \/ SubtitlesFail(p) PROVE Discard(p)
  BY <1>5 DEF CreateFails, SubtitlesFail, RemoveAll, Step, Discard, JobInv, Job,
              Running
<1>6. ASSUME NEW p \in Paths, FillFails(p) PROVE Discard(p) \/ Abandon(p)
  <2>1. at[p] = "fill" /\ p \in staged \ Registered /\ tool[p] \in Tools
    BY <1>6 DEF FillFails, Step, JobInv, Job, Running
  <2>2. CASE tool[p] = "json"
    BY <1>6, <2>1, <2>2, ProducersAssumption DEF FillFails, LeaveBehind, Abandon
  <2>3. CASE tool[p] # "json"
    BY <1>6, <2>1, <2>3 DEF FillFails, RemoveAll, Discard
  <2> QED BY <2>2, <2>3
<1>7. ASSUME NEW p \in Paths, DownloadSubtitles(p)
      PROVE  WriteFile(p) \/ UNCHANGED vars
  BY <1>7 DEF DownloadSubtitles, Step, WriteFile, vars, JobInv, Job, Running
<1>8. ASSUME NEW p \in Paths, RegisterFile(p)
      PROVE  \E t \in Tokens, ttl \in TTLs : Register(t, p, ttl)
  <2>1. TTLOf[tool[p]] \in TTLs
    BY <1>8, ProducersAssumption DEF RegisterFile, Step, JobInv, Job
  <2> QED BY <1>8, <2>1 DEF RegisterFile
<1>9. ASSUME NEW p \in Paths, Execute(p) PROVE Request(p) \/ UNCHANGED vars
  BY <1>9, <1>2, <1>3, <1>4, <1>5, <1>6, <1>7, <1>8
     DEF Execute, Request, EndRequest
<1>10. CASE Others \/ CutByRestart
  BY <1>10 DEF Others, CutByRestart, Next
<1> QED BY <1>1, <1>9, <1>10 DEF PNext, Next

--------------------------------------------------------------------------------
(* Each conjunct is inductive relative to the others. *)

\* A request that a step passes over keeps its invariant.
LEMMA Elsewhere ==
  ASSUME NEW q \in Paths, Job(q), at'[q] = at[q], tool'[q] = tool[q],
         q \in dirs' => q \in dirs,
         q \in files' <=> q \in files,
         q \in staged => q \in staged',
         q \in full => q \in full',
         q \in Registered' => q \in Registered
  PROVE  Job(q)'
  BY DEF Job

LEMMA JobStep ==
  ASSUME TypeOK, WorkerInv, IssuedInv, JobInv, [PNext]_pvars
  PROVE  JobInv'
<1> USE DEF StoreAlone, DiskAlone, storeVars, diskVars, handlerVars
<1>a. at \in [Paths -> Places] /\ tool \in [Paths -> Tools \cup {None}]
  BY DEF JobInv
<1>b. \A q \in Paths : Job(q)
  BY DEF JobInv
<1>c. /\ {"new", "fetch", "mkdir", "create", "fill", "register", "ok", "error",
          "cut"} = Places
  BY DEF Places, Running, Finished
<1>1. CASE UNCHANGED pvars
  BY <1>1, <1>a, <1>b, SameEntries DEF pvars, vars, jobVars, JobInv, Job
<1>2. ASSUME NEW p \in Paths, NEW k \in Tools, Begin(p, k) PROVE JobInv'
  <2>1. /\ at'[p] = "fetch" /\ tool'[p] = k
        /\ at' \in [Paths -> Places] /\ tool' \in [Paths -> Tools \cup {None}]
        /\ \A q \in Paths \ {p} : at'[q] = at[q] /\ tool'[q] = tool[q]
    BY <1>2, <1>a, <1>c DEF Begin
  <2>2. UNCHANGED <<dirs, files, staged, full>> /\ Registered' = Registered
    BY <1>2, SameEntries DEF Begin
  <2>3. Job(p)'
    BY <1>2, <1>b, <2>1, <2>2 DEF Begin, Job, Running
  <2> QED BY <1>b, <2>1, <2>2, <2>3, Elsewhere DEF JobInv
<1>3. ASSUME NEW p \in Paths, Execute(p) PROVE JobInv'
  <2> DEFINE Moves(to) ==
        /\ at'[p] = to /\ tool' = tool /\ at' \in [Paths -> Places]
        /\ \A q \in Paths \ {p} : at'[q] = at[q]
  <2>1. ASSUME NEW to \in Places, NEW from, Step(p, from, to) PROVE Moves(to)
    BY <2>1, <1>a DEF Step
  <2> HIDE DEF Moves
  <2>2. SUFFICES /\ \E to \in Places : Moves(to)
                 /\ \A q \in Paths \ {p} :
                      /\ q \in dirs' => q \in dirs
                      /\ q \in files' <=> q \in files
                      /\ q \in staged => q \in staged'
                      /\ q \in full => q \in full'
                      /\ q \in Registered' => q \in Registered
                 /\ Job(p)'
    BY <1>a, <1>b, Elsewhere DEF Moves, JobInv
  <2>3. Job(p)
    BY <1>b
  <2>4. CASE Fetch(p)
    <3>1. Moves("mkdir") \/ Moves("error")
      BY <2>1, <2>4, <1>c DEF Fetch
    <3>2. at[p] = "fetch" /\ UNCHANGED <<dirs, files, staged, full>>
          /\ Registered' = Registered
      BY <2>4, SameEntries DEF Fetch, Step
    <3> QED BY <2>3, <3>1, <3>2, <1>c DEF Job, Moves, Running
  <2>5. CASE MkdirTemp(p)
    <3>1. Moves("create")
      BY <2>1, <2>5, <1>c DEF MkdirTemp
    <3>2. at[p] = "mkdir" /\ UNCHANGED <<files, full>> /\ Registered' = Registered
          /\ dirs' = dirs \cup {p} /\ staged' = staged \cup {p}
      BY <2>5, SameEntries DEF MkdirTemp, Step
    <3> QED BY <2>3, <3>1, <3>2, <1>c DEF Job, Moves, Running
  <2>6. CASE MkdirFails(p)
    <3>1. Moves("error")
      BY <2>1, <2>6, <1>c DEF MkdirFails
    <3>2. at[p] = "mkdir" /\ UNCHANGED <<dirs, files, staged, full>>
          /\ Registered' = Registered
      BY <2>6, SameEntries DEF MkdirFails, Step
    <3> QED BY <2>3, <3>1, <3>2, <1>c DEF Job, Moves, Running
  <2>7. CASE Create(p)
    <3>1. Moves("fill") /\ tool[p] # "transcript"
      BY <2>1, <2>7, <1>c DEF Create
    <3>2. at[p] = "create" /\ UNCHANGED <<dirs, staged, full>>
          /\ Registered' = Registered /\ files' = files \cup {p}
      BY <2>7, SameEntries DEF Create, Step
    <3> QED BY <2>3, <3>1, <3>2, <1>c DEF Job, Moves, Running
  <2>8. CASE \/ CreateFails(p) \/ SubtitlesFail(p)
             \/ FillFails(p) /\ tool[p] # "json"
    <3>1. Moves("error")
      BY <2>1, <2>8, <1>c DEF CreateFails, SubtitlesFail, FillFails
    <3>2. at[p] \in {"create", "fill"} /\ Registered' = Registered
          /\ dirs' = dirs \ {p} /\ files' = files \ {p}
          /\ full' = full \ {p} /\ staged' = staged \ {p}
      BY <2>8, SameEntries
         DEF CreateFails, SubtitlesFail, FillFails, RemoveAll, Step
    <3> QED BY <2>3, <3>1, <3>2, <1>c DEF Job, Moves, Running
  <2>9. CASE FillFails(p) /\ tool[p] = "json"
    <3>1. Moves("error")
      BY <2>1, <2>9, <1>c DEF FillFails
    <3>2. at[p] = "fill" /\ Registered' = Registered
          /\ staged' = staged \ {p} /\ UNCHANGED <<dirs, files, full>>
      BY <2>9, SameEntries DEF FillFails, LeaveBehind, Step
    <3> QED BY <2>3, <2>9, <3>1, <3>2, <1>c DEF Job, Moves, Running
  <2>10. CASE Fill(p)
    <3>1. Moves("register")
      BY <2>1, <2>10, <1>c DEF Fill
    <3>2. at[p] = "fill" /\ Registered' = Registered
          /\ full' = full \cup {p} /\ UNCHANGED <<dirs, files, staged>>
      BY <2>10, SameEntries DEF Fill, Step
    <3> QED BY <2>3, <3>1, <3>2, <1>c DEF Job, Moves, Running
  <2>11. CASE DownloadSubtitles(p)
    <3>1. Moves("register") /\ tool[p] = "transcript"
      BY <2>1, <2>11, <1>c DEF DownloadSubtitles
    <3>2. at[p] = "create" /\ Registered' = Registered /\ UNCHANGED <<dirs, staged>>
          /\ \/ files' = files \cup {p} /\ full' = full \cup {p}
             \/ UNCHANGED <<files, full>>
      BY <2>11, SameEntries DEF DownloadSubtitles, Step
    <3> QED BY <2>3, <3>1, <3>2, <1>c DEF Job, Moves, Running
  <2>12. CASE RegisterFile(p)
    <3>1. Moves("ok")
      BY <2>1, <2>12, <1>c DEF RegisterFile
    <3>2. PICK t \in Tokens : Register(t, p, TTLOf[tool[p]])
      BY <2>12 DEF RegisterFile
    <3>3. at[p] = "register" /\ tool[p] \in Tools
      BY <2>3, <2>12 DEF RegisterFile, Step, Job
    <3>4. TTLOf[tool[p]] \in TTLs
      BY <3>3, ProducersAssumption
    <3>5. Registered' = Registered \cup {p}
      BY <3>2, <3>4, RegisterEffect
    <3>6. UNCHANGED <<dirs, files, full>> /\ staged' = staged \ {p}
      BY <3>2, <2>12 DEF Register, RegisterFile
    <3> QED BY <2>3, <3>1, <3>3, <3>5, <3>6, <1>c DEF Job, Moves, Running
  <2> QED BY <1>3, <2>4, <2>5, <2>6, <2>7, <2>8, <2>9, <2>10, <2>11, <2>12
          DEF Execute
<1>4. CASE Others
  <2>1. UNCHANGED <<at, tool, dirs>> /\ full' = full \cap files'
    BY <1>4 DEF Others, Handler, Ask, Lookup, CheckExpiry, ReadFile, Reply,
       Cleanup, SweepBegin, Unlink, Forget, SweepEnd, Tick
  <2>2. staged' = staged
    BY <1>4 DEF Others, Handler, Ask, Lookup, CheckExpiry, ReadFile, Reply,
       Cleanup, SweepBegin, Unlink, Forget, SweepEnd, Tick
  <2>3. CASE \E t \in Tokens : Unlink(t)
    <3>1. PICK t \in Tokens : Unlink(t)
      BY <2>3
    <3>2. Registered' = Registered /\ items[t].path \in Registered
      BY <3>1, UnlinkEffect DEF Registered
    <3>3. files' = files \/ files' = files \ {items[t].path}
      BY <3>1 DEF Unlink
    <3>4. ASSUME NEW q \in Paths PROVE Job(q)'
      <4>1. Job(q)
        BY <1>b
      <4>2. q \in files /\ q \notin files' => q \in Registered
        BY <3>2, <3>3
      <4> QED BY <2>1, <2>2, <3>2, <3>3, <4>1, <4>2 DEF Job, Running
    <3> QED BY <1>a, <2>1, <3>4 DEF JobInv
  <2>4. CASE ~\E t \in Tokens : Unlink(t)
    <3>1. files' = files
      BY <1>4, <2>4 DEF Others, Handler, Ask, Lookup, CheckExpiry, ReadFile,
         Reply, Cleanup, SweepBegin, Forget, SweepEnd, Tick
    <3>2. Registered' \subseteq Registered
      <4>1. CASE Forget
        <5>1. /\ Entries' \subseteq Entries
              /\ \A u \in Entries' : items'[u] = items[u]
          BY <4>1, ForgetEffect DEF Entries
        <5> QED BY <5>1 DEF Registered
      <4>2. CASE ~Forget
        <5>1. items' = items
          BY <1>4, <2>4, <4>2 DEF Others, Handler, Ask, Lookup, CheckExpiry,
             ReadFile, Reply, Cleanup, SweepBegin, SweepEnd, Tick
        <5> QED BY <5>1 DEF Registered, Entries
      <4> QED BY <4>1, <4>2
    <3>3. ASSUME NEW q \in Paths PROVE Job(q)'
      <4>1. Job(q)
        BY <1>b
      <4> QED BY <2>1, <2>2, <3>1, <3>2, <4>1 DEF Job, Running
    <3> QED BY <1>a, <2>1, <3>3 DEF JobInv
  <2> QED BY <2>3, <2>4
<1>5. CASE CutByRestart
  <2>1. /\ Registered' = {} /\ UNCHANGED <<tool, full, dirs, files>>
        /\ at' = [p \in Paths |-> IF at[p] \in {"new"} \cup Finished THEN at[p]
                                  ELSE "cut"]
    BY <1>5 DEF CutByRestart, Restart, Registered, Entries
  <2>2. at' \in [Paths -> Places]
    BY <2>1, <1>a, <1>c
  <2>3. ASSUME NEW q \in Paths PROVE Job(q)'
    <3>1. Job(q) /\ (at'[q] = at[q] \/ at'[q] = "cut")
          /\ (at'[q] = at[q] => at[q] \in {"new"} \cup Finished)
          /\ (at'[q] = "cut" => at[q] # "new")
      BY <2>1, <1>b DEF Finished
    <3> QED BY <2>1, <3>1 DEF Job, Running, Finished
  <2> QED BY <1>a, <2>1, <2>2, <2>3 DEF JobInv
<1> QED BY <1>1, <1>2, <1>3, <1>4, <1>5 DEF PNext

\* What the tools and the handlers do leaves the links alone.
LEMMA LinksKept ==
  ASSUME LinkInv, UNCHANGED <<items, cleaner>>,
         \A q \in Registered : tool'[q] = tool[q] /\ (q \in files => q \in files')
  PROVE  LinkInv'
<1>1. UNCHANGED <<Entries, Kept>>
  BY SameEntries
<1>2. \A t \in Kept : items[t].path \in Registered
  BY DEF Kept, Registered
<1> QED BY <1>1, <1>2 DEF LinkInv

LEMMA LinkStep ==
  ASSUME PInv, [PNext]_pvars
  PROVE  LinkInv'
<1> USE DEF StoreAlone, DiskAlone, storeVars, diskVars, handlerVars
<1>a. TypeOK /\ WorkerInv /\ IssuedInv /\ LinkInv /\ \A q \in Paths : Job(q)
  BY DEF PInv, JobInv
<1>1. CASE UNCHANGED pvars
  BY <1>1, <1>a, LinksKept DEF pvars, vars, jobVars
<1>2. ASSUME NEW p \in Paths, NEW k \in Tools, Begin(p, k) PROVE LinkInv'
  <2>1. p \notin Registered
    BY <1>2, <1>a DEF Begin, Job
  <2>2. \A q \in Registered : tool'[q] = tool[q]
    <3>1. tool \in [Paths -> Tools \cup {None}]
      BY DEF PInv, JobInv
    <3>2. Registered \subseteq Paths
      BY <1>a DEF Registered, Entries, TypeOK, Item
    <3> QED BY <1>2, <2>1, <3>1, <3>2 DEF Begin
  <2> QED BY <1>2, <1>a, <2>1, <2>2, LinksKept DEF Begin
<1>3. ASSUME NEW p \in Paths, Execute(p), ~RegisterFile(p) PROVE LinkInv'
  <2>1. UNCHANGED <<tool, items, cleaner>>
    BY <1>3 DEF Execute, Step, Fetch, MkdirTemp, MkdirFails, Create, CreateFails,
       Fill, FillFails, DownloadSubtitles, SubtitlesFail
  <2>2. at[p] # "ok" /\ files \ {p} \subseteq files'
    BY <1>3 DEF Execute, Step, Fetch, MkdirTemp, MkdirFails, Create, CreateFails,
       Fill, FillFails, DownloadSubtitles, SubtitlesFail, RemoveAll, LeaveBehind
  <2>3. p \notin Registered
    BY <1>a, <2>2 DEF Job
  <2> QED BY <1>a, <2>1, <2>2, <2>3, LinksKept
<1>4. ASSUME NEW p \in Paths, RegisterFile(p) PROVE LinkInv'
  <2>1. PICK t \in Tokens : Register(t, p, TTLOf[tool[p]])
    BY <1>4 DEF RegisterFile
  <2>2. at[p] = "register" /\ tool[p] \in Tools /\ p \notin Registered
        /\ (p \in files \/ tool[p] = "transcript")
    BY <1>4, <1>a DEF RegisterFile, Step, Job
  <2>3. TTLOf[tool[p]] \in TTLs
    BY <2>2, ProducersAssumption
  <2>4. /\ t \notin Entries
        /\ Entries' = Entries \cup {t}
        /\ Kept = Entries /\ Kept' = Entries'
        /\ items'[t].path = p
        /\ \A u \in Entries : items'[u] = items[u]
    <3>1. [path |-> p, expireAt |-> now + TTLOf[tool[p]]].path = p
      OBVIOUS
    <3> QED BY <1>a, <2>1, <2>3, <3>1, RegisterEffect DEF Entries
  <2>5. UNCHANGED <<files, tool>>
    BY <1>4, <2>1 DEF Register, RegisterFile, Step
  <2>6. \A u \in Entries : items[u].path # p
    BY <2>2 DEF Registered
  <2> QED BY <1>a, <2>2, <2>4, <2>5, <2>6 DEF LinkInv
<1>5. CASE Others
  <2>1. tool' = tool
    BY <1>5 DEF Others
  <2>2. CASE UNCHANGED <<items, cleaner, files>>
    BY <1>a, <2>1, <2>2, LinksKept
  <2>3. ASSUME NEW t \in Tokens, Unlink(t) PROVE LinkInv'
    <3>1. files \ {items[t].path} \subseteq files' /\ items' = items
      BY <2>3 DEF Unlink
    <3>2. t \in Entries /\ Entries' = Entries /\ Kept = Entries
          /\ Kept' = Entries \ {t}
      BY <1>a, <2>3, UnlinkEffect
    <3>3. \A u \in Entries \ {t} : items[u].path # items[t].path
      BY <1>a, <3>2 DEF LinkInv
    <3> QED BY <1>a, <2>1, <3>1, <3>2, <3>3 DEF LinkInv
  <2>4. CASE Forget
    <3>1. files' = files
      BY <2>4 DEF Forget
    <3>2. /\ Entries' \subseteq Entries
          /\ Kept' = Kept /\ Kept' = Entries'
          /\ \A u \in Entries' : items'[u] = items[u]
      BY <1>a, <2>4, ForgetEffect DEF Entries
    <3> QED BY <1>a, <2>1, <3>1, <3>2 DEF LinkInv
  <2>5. CASE SweepBegin \/ SweepEnd
    <3>1. UNCHANGED <<items, files>>
      BY <2>5 DEF SweepBegin, SweepEnd
    <3>2. Entries' = Entries /\ Kept = Entries
      BY <2>5, <3>1 DEF SweepBegin, SweepEnd, Kept, Unlocked, Entries
    <3>3. Kept' = Entries
      BY <2>5, <3>2 DEF SweepBegin, SweepEnd, Kept, Asleep
    <3> QED BY <1>a, <2>1, <3>1, <3>2, <3>3 DEF LinkInv
  <2> QED BY <1>5, <2>2, <2>3, <2>4, <2>5
     DEF Others, Handler, Ask, Lookup, CheckExpiry, ReadFile, Reply, Cleanup, Tick
<1>6. CASE CutByRestart
  <2>1. Entries' = {} /\ Kept' = {}
    BY <1>6 DEF CutByRestart, Restart, Entries, Kept
  <2> QED BY <2>1 DEF LinkInv
<1> QED BY <1>1, <1>2, <1>3, <1>4, <1>5, <1>6 DEF PNext

LEMMA ProducersStep == ASSUME PInv, [PNext]_pvars PROVE PInv'
<1>1. TypeOK /\ WorkerInv /\ IssuedInv /\ JobInv
  BY DEF PInv
<1>2. [Next]_vars
  BY <1>1, StepOfStore
<1>3. TypeOK' /\ WorkerInv' /\ IssuedInv'
  BY <1>1, <1>2, TypeStep, WorkerStep, IssuedStep
<1>4. JobInv'
  BY <1>1, JobStep
<1> QED BY <1>3, <1>4, LinkStep DEF PInv

LEMMA ProducersAlways == PSpec => []PInv
  BY ProducersStart, ProducersStep, PTL DEF PSpec

--------------------------------------------------------------------------------
(* What the invariant says of the tools. *)

\* The thumbnail downloader, the transcript downloader and the exporter use the
\* store as it takes its requests to do: whatever DownloadStoreProofs shows of
\* the worker, the handlers and the map holds with the real tools beside them.
THEOREM ProducersUseStore == PSpec => ImplementsStore
<1>1. PInit => Init
  BY DEF PInit
<1>2. PInv /\ [PNext]_pvars => [Next]_vars
  BY StepOfStore DEF PInv
<1> QED BY <1>1, <1>2, ProducersAlways, PTL DEF PSpec, Spec, ImplementsStore

\* Without the transcript downloader, whose path yt-dlp may have written nothing to
\* (the fault that ExclusiveFiles leaves out), the tools beside the worker, the
\* handlers and the restarts keep the promise of the lease to whoever holds a link.
THEOREM ProducersKeepLease == ExclusiveFiles /\ PSpec => ImplementsLease
<1>1. Spec <=> ImplementsStore
  BY DEF ImplementsStore
<1> QED BY <1>1, ProducersUseStore, StoreImplementsLease, PTL

\* No link leads to a half-written file, wherever a copy or an encoder fails.
THEOREM NeverHalfWritten == PSpec => []NoPartialFile
<1>1. PInv => NoPartialFile
  <2> SUFFICES ASSUME PInv, NEW p \in Registered, p \in files PROVE p \in full
    BY DEF NoPartialFile
  <2>1. p \in Paths
    BY DEF PInv, TypeOK, Registered, Entries, Item
  <2> QED BY <2>1 DEF PInv, JobInv, Job
<1> QED BY <1>1, ProducersAlways, PTL

\* An error path leaves nothing on disk, but for the one of the JSON encoder.
THEOREM ErrorPathsClean == PSpec => []ErrorPathsCleanButJson
<1>1. PInv => ErrorPathsCleanButJson
  BY DEF PInv, JobInv, Job, ErrorPathsCleanButJson
<1> QED BY <1>1, ProducersAlways, PTL

\* A link that is not yet due has its file, beside the failures of other requests,
\* sweeps and restarts; but for the path that yt-dlp may have written nothing to.
THEOREM ProducerLinksWork == PSpec => []LinksWorkButTranscripts
<1>1. PInv => LinksWorkButTranscripts
  <2> SUFFICES ASSUME PInv, NEW t \in Tokens, Live(t),
                      tool[items[t].path] # "transcript"
               PROVE  items[t].path \in files
    BY DEF LinksWorkButTranscripts
  <2>1. items[t] \in Item /\ items[t].expireAt \in Nat /\ t \in Entries
    BY DEF PInv, TypeOK, Entries, Live, Item
  <2>2. t \in Kept
    BY <2>1 DEF PInv, TypeOK, WorkerInv, Live, Expired, Kept
  <2> QED BY <2>2 DEF PInv, LinkInv
<1> QED BY <1>1, ProducersAlways, PTL
================================================================================
