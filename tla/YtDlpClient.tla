------------------------------ MODULE YtDlpClient ------------------------------
(***************************************************************************)
(* The yt-dlp client (backend/internal/ytdlp/client.go): every tool that   *)
(* needs yt-dlp goes through Client.run, which takes a token from a        *)
(* channel, runs one subprocess under the context of the HTTP request, and *)
(* puts the token back.  The calls of one request share its context: the   *)
(* 45 s timeout of handleToolCall, the client hanging up, or the end of    *)
(* the handler cancels them all at once.                                   *)
(***************************************************************************)
EXTENDS Integers, FiniteSets

CONSTANTS Calls,          \* goroutines that may be inside Client.run
          Requests,       \* HTTP requests, one context each
          MaxConcurrent,  \* MAX_CONCURRENT_YTDLP as configured
          PipesOutlive,   \* may a grandchild keep a killed yt-dlp's pipes open
          None            \* no request

ASSUME ClientAssumption ==
  /\ IsFiniteSet(Calls)
  /\ MaxConcurrent \in Int
  /\ PipesOutlive \in BOOLEAN
  /\ None \notin Requests

VARIABLES slots,  \* tokens in the channel sem
          pc,     \* pc[c]: where the call c is in run
          owner,  \* owner[c]: the request whose context c runs under
          ctx     \* ctx[r]: the context of request r

vars == <<slots, pc, owner, ctx>>

\* New: a cap that is not positive means four.
Cap == IF MaxConcurrent <= 0 THEN 4 ELSE MaxConcurrent

Running  == {"running", "draining"}             \* a subprocess exists
Ending   == {"releaseOk", "releaseErr"}         \* the deferred release is next
Holding  == {"acquired"} \cup Running \cup Ending \* between acquire and release
Returned == {"ok", "failed", "refused"}

\* The types of the state; the channel never holds more tokens than it has room for.
TypeOK ==
  /\ slots \in 0 .. Cap
  /\ pc \in [Calls -> {"idle", "acquiring"} \cup Holding \cup Returned]
  /\ owner \in [Calls -> Requests \cup {None}]
  /\ ctx \in [Requests -> {"closed", "live", "done"}]
  /\ \A c \in Calls : pc[c] # "idle" => owner[c] \in Requests

Init ==
  /\ slots = Cap
  /\ pc = [c \in Calls |-> "idle"]
  /\ owner = [c \in Calls |-> None]
  /\ ctx = [r \in Requests |-> "closed"]

Move(c, from, to) ==
  /\ pc[c] \in from
  /\ pc' = [pc EXCEPT ![c] = to]

Cancelled(c) == ctx[owner[c]] = "done"

--------------------------------------------------------------------------------
(* The context of a request: made by handleToolCall, shared by its calls. *)

Open(r) ==
  /\ ctx[r] = "closed"
  /\ ctx' = [ctx EXCEPT ![r] = "live"]
  /\ UNCHANGED <<slots, pc, owner>>

\* The 45 s are over, or the client has hung up.
Expire(r) ==
  /\ ctx[r] = "live"
  /\ ctx' = [ctx EXCEPT ![r] = "done"]
  /\ UNCHANGED <<slots, pc, owner>>

\* Execute returns once its calls have: they run in it or under its WaitGroup.
Close(r) ==
  /\ ctx[r] # "closed"
  /\ \A c \in Calls : owner[c] # r
  /\ ctx' = [ctx EXCEPT ![r] = "closed"]
  /\ UNCHANGED <<slots, pc, owner>>

--------------------------------------------------------------------------------
(* Client.run *)

\* A tool calls DumpMetadata, DownloadSubtitles or FetchPlaylistInfo.
Invoke(c, r) ==
  /\ ctx[r] # "closed"
  /\ Move(c, {"idle"}, "acquiring")
  /\ owner' = [owner EXCEPT ![c] = r]
  /\ UNCHANGED <<slots, ctx>>

\* Mutant of Acquire: the channel is not asked.
AcquireUnchecked(c) ==
  /\ Move(c, {"acquiring"}, "acquired")
  /\ slots' = slots - 1
  /\ UNCHANGED <<owner, ctx>>

\* select: the receive.  It may win although the context is done as well.
Acquire(c) ==
  /\ slots > 0
  /\ Move(c, {"acquiring"}, "acquired")
  /\ slots' = slots - 1
  /\ UNCHANGED <<owner, ctx>>

\* Mutant of Refuse: acquire waits for a token whatever the context says.
RefuseNever(c) ==
  /\ Move(c, {"acquiring"}, "refused")
  /\ slots > Cap
  /\ UNCHANGED <<slots, owner, ctx>>

\* select: ctx.Done.  It may win although a token is there as well, and the
\* error then speaks of a limit that is not reached.
Refuse(c) ==
  /\ Move(c, {"acquiring"}, "refused")
  /\ Cancelled(c)
  /\ UNCHANGED <<slots, owner, ctx>>

\* exec starts nothing under a context that is done.
Start(c) ==
  /\ Move(c, {"acquired"}, "running")
  /\ ~Cancelled(c)
  /\ UNCHANGED <<slots, owner, ctx>>

\* Mutant of StartFails: the error return precedes the deferred release.
StartFailsLeaks(c) ==
  /\ Move(c, {"acquired"}, "failed")
  /\ UNCHANGED <<slots, owner, ctx>>

\* The context is done, or the binary cannot be started.
StartFails(c) ==
  /\ Move(c, {"acquired"}, "releaseErr")
  /\ UNCHANGED <<slots, owner, ctx>>

\* yt-dlp exits by itself, with status 0 or another.
Exit(c) ==
  /\ \E to \in Ending : Move(c, {"running"}, to)
  /\ UNCHANGED <<slots, owner, ctx>>

\* The context is done: exec kills yt-dlp, and Run waits for its pipes.
Kill(c) ==
  /\ Move(c, {"running"}, "draining")
  /\ Cancelled(c)
  /\ UNCHANGED <<slots, owner, ctx>>

Drained(c) ==
  /\ Move(c, {"draining"}, "releaseErr")
  /\ UNCHANGED <<slots, owner, ctx>>

\* The deferred send to the channel, which blocks while the channel is full.
Release(c) ==
  /\ slots < Cap
  /\ \/ Move(c, {"releaseOk"}, "ok")
     \/ Move(c, {"releaseErr"}, "failed")
  /\ slots' = slots + 1
  /\ UNCHANGED <<owner, ctx>>

\* The tool takes the result or the error.
Return(c) ==
  /\ Move(c, Returned, "idle")
  /\ owner' = [owner EXCEPT ![c] = None]
  /\ UNCHANGED <<slots, ctx>>

--------------------------------------------------------------------------------

Run(c) ==
  \/ Acquire(c) \/ Refuse(c) \/ Start(c) \/ StartFails(c) \/ Exit(c)
  \/ Kill(c) \/ Drained(c) \/ Release(c) \/ Return(c)

Next ==
  \/ \E r \in Requests : Open(r) \/ Expire(r) \/ Close(r)
  \/ \E c \in Calls, r \in Requests : Invoke(c, r)
  \/ \E c \in Calls : Run(c)

Spec == Init /\ [][Next]_vars

(***************************************************************************)
(* The timer of a context fires; a goroutine that can run does.  Nothing   *)
(* is assumed of yt-dlp itself, which may run until it is killed, and a    *)
(* killed one lets go of its pipes only where PipesOutlive is FALSE.       *)
(***************************************************************************)
Fairness ==
  /\ \A r \in Requests : WF_vars(Expire(r))
  /\ \A c \in Calls :
       /\ WF_vars(Refuse(c))
       /\ WF_vars(Start(c) \/ StartFails(c))
       /\ WF_vars(Kill(c))
       /\ ~PipesOutlive => WF_vars(Drained(c))
       /\ WF_vars(Release(c))
       /\ WF_vars(Return(c))

FairSpec == Spec /\ Fairness

--------------------------------------------------------------------------------

Holders == {c \in Calls : pc[c] \in Holding}

\* README.md line 226: never more than Cap yt-dlp processes at a time, killed
\* ones that are not gone yet included.
CapRespected == Cardinality({c \in Calls : pc[c] \in Running}) <= Cap

\* No path through run, of the error paths and the cancelled ones, loses a
\* token or puts one back twice.
SlotConservation == slots + Cardinality(Holders) = Cap

\* The deferred release never blocks: the channel has room for its token.
ReleaseNeverBlocks == \A c \in Calls : pc[c] \in Ending => slots < Cap

\* The channel of tokens is a counting semaphore over the calls.
Pool == INSTANCE BoundedPool WITH Workers <- Calls, Limit <- Cap, inside <- Holders
ImplementsPool == Pool!Spec

\* Every call returns, though yt-dlp may hang and the pool may be full.
EveryCallReturns == \A c \in Calls : pc[c] = "acquiring" ~> pc[c] = "idle"
================================================================================
