----------------------------- MODULE DownloadStore -----------------------------
(***************************************************************************)
(* The in-memory registry of temporary downloads                           *)
(* (backend/internal/downloads/store.go), the handler that serves them     *)
(* (handleDownload in backend/internal/httpserver/router.go), and the      *)
(* cleanup worker, over the temp files that running tool requests produce. *)
(*                                                                         *)
(* The three kinds of goroutine share the map `items` under one RWMutex    *)
(* and share the file system under no lock at all:                         *)
(*   - a tool request stages a file in a directory of its own and registers*)
(*     it, or removes the directory on an error path;                      *)
(*   - a download handler looks the token up under RLock, compares the     *)
(*     clock with the entry after RUnlock, and reads the file later still; *)
(*   - the worker takes the write lock, samples the clock once, and for    *)
(*     each entry expired at that instant removes the file, then the entry.*)
(*                                                                         *)
(* A path stands for one request's file and for the directory made for it. *)
(* Time is counted in ticks up to the bound MaxTime.                       *)
(***************************************************************************)
EXTENDS Naturals

CONSTANTS Tokens,    \* values of the 128 random bits of Register
          Paths,     \* one per temp directory, with the file inside it
          Handlers,  \* goroutines running handleDownload
          TTLs,      \* lifetimes that the tools pass to Register
          MaxTime,   \* the bound of the clock
          Faults,    \* what may go wrong around the store, see KnownFaults
          None       \* absence of an entry, of a token, of a victim

(***************************************************************************)
(* restart:     the process dies and systemd starts it again               *)
(* unlinkFails: os.Remove of an expired file fails (only logged)           *)
(* abandon:     an error path of a tool returns without os.RemoveAll       *)
(* share:       one request registers the same path more than once         *)
(* phantom:     a path is registered that no file was ever written to      *)
(***************************************************************************)
KnownFaults == {"restart", "unlinkFails", "abandon", "share", "phantom"}

Item == [path : Paths, expireAt : Nat]

ASSUME StoreAssumption ==
  /\ TTLs \subseteq Nat
  /\ MaxTime \in Nat
  /\ Faults \subseteq KnownFaults
  /\ None \notin Item
  /\ None \notin Tokens

VARIABLES now,      \* the wall clock
          items,    \* items[t]: the entry of t in the map, or None
          issued,   \* the tokens Register has returned since the first boot
          dirs,     \* per-request temp directories on disk
          files,    \* files on disk
          staged,   \* paths of tool requests that are still running
          cleaner,  \* the cleanup goroutine: its place, clock sample, victim
          pc,       \* pc[h]: where handler h is
          asked,    \* asked[h]: the token in the URL that h serves
          held      \* held[h]: the copy of the entry that Get took

storeVars   == <<items, issued>>
diskVars    == <<dirs, files, staged>>
handlerVars == <<pc, asked, held>>
vars == <<now, storeVars, diskVars, cleaner, handlerVars>>

Asleep == [pc |-> "asleep", at |-> 0, victim |-> None]

Answers == {"ok", "notFound", "failed"}

\* The types of the state; a handler at work has a token to look up.
TypeOK ==
  /\ now \in Nat
  /\ items \in [Tokens -> Item \cup {None}]
  /\ issued \subseteq Tokens
  /\ dirs \subseteq Paths
  /\ files \subseteq Paths
  /\ staged \subseteq Paths
  /\ cleaner \in [pc : {"asleep", "sweeping", "unlinked"}, at : Nat,
                  victim : Tokens \cup {None}]
  /\ pc \in [Handlers -> {"idle", "lookup", "check", "read"} \cup Answers]
  /\ asked \in [Handlers -> Tokens \cup {None}]
  /\ held \in [Handlers -> Item \cup {None}]
  /\ \A h \in Handlers : pc[h] # "idle" => asked[h] \in Tokens

Init ==
  /\ now = 0
  /\ items = [t \in Tokens |-> None]
  /\ issued = {}
  /\ dirs = {} /\ files = {} /\ staged = {}
  /\ cleaner = Asleep
  /\ pc = [h \in Handlers |-> "idle"]
  /\ asked = [h \in Handlers |-> None]
  /\ held = [h \in Handlers |-> None]

Entries       == {t \in Tokens : items[t] # None}
Registered    == {items[t].path : t \in Entries}
Expired(i, n) == n > i.expireAt                    \* n.After(i.ExpireAt)
Unlocked      == cleaner.pc = "asleep"             \* only Cleanup holds mu across steps

--------------------------------------------------------------------------------
(* A tool request that produces a file. *)

\* os.MkdirTemp: a directory no one else has.
Stage(p) ==
  /\ p \notin dirs
  /\ dirs' = dirs \cup {p}
  /\ staged' = staged \cup {p}
  /\ UNCHANGED <<now, files, storeVars, cleaner, handlerVars>>

WriteFile(p) ==
  /\ p \in staged
  /\ p \notin files
  /\ files' = files \cup {p}
  /\ UNCHANGED <<now, dirs, staged, storeVars, cleaner, handlerVars>>

\* An error before Register: os.RemoveAll(tempDir).
Discard(p) ==
  /\ p \in staged \ Registered
  /\ dirs' = dirs \ {p}
  /\ files' = files \ {p}
  /\ staged' = staged \ {p}
  /\ UNCHANGED <<now, storeVars, cleaner, handlerVars>>

\* An error before Register that returns without cleaning up.
Abandon(p) ==
  /\ "abandon" \in Faults
  /\ p \in staged \ Registered
  /\ staged' = staged \ {p}
  /\ UNCHANGED <<now, dirs, files, storeVars, cleaner, handlerVars>>

\* Mutant of Register: the tool defers os.RemoveAll as the transcript extractor does.
RegisterThenRemove(t, p, ttl) ==
  /\ Unlocked /\ t \notin issued /\ p \in staged /\ p \in files /\ now + ttl < MaxTime
  /\ items' = [items EXCEPT ![t] = [path |-> p, expireAt |-> now + ttl]]
  /\ issued' = issued \cup {t}
  /\ dirs' = dirs \ {p} /\ files' = files \ {p} /\ staged' = staged \ {p}
  /\ UNCHANGED <<now, cleaner, handlerVars>>

\* Register: the token is new because its 128 bits are random.
Register(t, p, ttl) ==
  /\ Unlocked
  /\ t \notin issued
  /\ p \in staged \/ ("share" \in Faults /\ p \in Registered)
  /\ p \in files \/ "phantom" \in Faults
  /\ now + ttl < MaxTime
  /\ items' = [items EXCEPT ![t] = [path |-> p, expireAt |-> now + ttl]]
  /\ issued' = issued \cup {t}
  /\ staged' = staged \ {p}
  /\ UNCHANGED <<now, dirs, files, cleaner, handlerVars>>

--------------------------------------------------------------------------------
(* GET /api/v1/downloads/{token} *)

Ask(h, t) ==
  /\ pc[h] = "idle"
  /\ pc' = [pc EXCEPT ![h] = "lookup"]
  /\ asked' = [asked EXCEPT ![h] = t]
  /\ UNCHANGED <<now, held, storeVars, diskVars, cleaner>>

\* The part of Get under RLock.
Lookup(h) ==
  /\ pc[h] = "lookup"
  /\ Unlocked
  /\ held' = [held EXCEPT ![h] = items[asked[h]]]
  /\ pc' = [pc EXCEPT ![h] = IF asked[h] \in Entries THEN "check" ELSE "notFound"]
  /\ UNCHANGED <<now, asked, storeVars, diskVars, cleaner>>

\* Mutant of CheckExpiry: the comparison is left out.
CheckExpiryNot(h) ==
  /\ pc[h] = "check"
  /\ pc' = [pc EXCEPT ![h] = "read"]
  /\ UNCHANGED <<now, asked, held, storeVars, diskVars, cleaner>>

\* The part of Get after RUnlock.
CheckExpiry(h) ==
  /\ pc[h] = "check"
  /\ pc' = [pc EXCEPT ![h] = IF Expired(held[h], now) THEN "notFound" ELSE "read"]
  /\ UNCHANGED <<now, asked, held, storeVars, diskVars, cleaner>>

\* os.ReadFile of the path in the copied entry.
ReadFile(h) ==
  /\ pc[h] = "read"
  /\ pc' = [pc EXCEPT ![h] = IF held[h].path \in files THEN "ok" ELSE "failed"]
  /\ UNCHANGED <<now, asked, held, storeVars, diskVars, cleaner>>

\* The response is written and the goroutine ends.
Reply(h) ==
  /\ pc[h] \in Answers
  /\ pc' = [pc EXCEPT ![h] = "idle"]
  /\ asked' = [asked EXCEPT ![h] = None]
  /\ held' = [held EXCEPT ![h] = None]
  /\ UNCHANGED <<now, storeVars, diskVars, cleaner>>

--------------------------------------------------------------------------------
(* Cleanup, called by the worker after every sleep. *)

\* Mutants of Due: entries go at the instant of their expiry; all entries go.
DueEarly == {t \in Entries : cleaner.at >= items[t].expireAt}
DueAlways == Entries

Due == {t \in Entries : Expired(items[t], cleaner.at)}

\* mu.Lock and the one reading of the clock.
SweepBegin ==
  /\ Unlocked
  /\ cleaner' = [pc |-> "sweeping", at |-> now, victim |-> None]
  /\ UNCHANGED <<now, storeVars, diskVars, handlerVars>>

\* Mutant of Unlink: the file is not removed.
UnlinkNothing(t) ==
  /\ cleaner.pc = "sweeping"
  /\ t \in Due
  /\ cleaner' = [cleaner EXCEPT !.pc = "unlinked", !.victim = t]
  /\ UNCHANGED <<now, storeVars, diskVars, handlerVars>>

\* os.Remove of the file of one due entry; the directory stays.
Unlink(t) ==
  /\ cleaner.pc = "sweeping"
  /\ t \in Due
  /\ cleaner' = [cleaner EXCEPT !.pc = "unlinked", !.victim = t]
  /\ \/ files' = files \ {items[t].path}
     \/ "unlinkFails" \in Faults /\ files' = files
  /\ UNCHANGED <<now, storeVars, dirs, staged, handlerVars>>

\* Mutant of Forget: the entry is not deleted.
ForgetNot ==
  /\ cleaner.pc = "unlinked"
  /\ cleaner' = [cleaner EXCEPT !.pc = "sweeping", !.victim = None]
  /\ UNCHANGED <<now, storeVars, diskVars, handlerVars>>

\* delete(s.items, token), whatever os.Remove returned.
Forget ==
  /\ cleaner.pc = "unlinked"
  /\ items' = [items EXCEPT ![cleaner.victim] = None]
  /\ cleaner' = [cleaner EXCEPT !.pc = "sweeping", !.victim = None]
  /\ UNCHANGED <<now, issued, diskVars, handlerVars>>

\* Mutant of SweepEnd: the early return forgets mu.Unlock.
SweepEndLocked ==
  /\ cleaner.pc = "sweeping"
  /\ Due = {}
  /\ UNCHANGED vars

\* The range is exhausted: mu.Unlock.
SweepEnd ==
  /\ cleaner.pc = "sweeping"
  /\ Due = {}
  /\ cleaner' = Asleep
  /\ UNCHANGED <<now, storeVars, diskVars, handlerVars>>

--------------------------------------------------------------------------------

Tick ==
  /\ now < MaxTime
  /\ now' = now + 1
  /\ UNCHANGED <<storeVars, diskVars, cleaner, handlerVars>>

\* The map and every goroutine are gone; the disk is as it was.
Restart ==
  /\ "restart" \in Faults
  /\ items' = [t \in Tokens |-> None]
  /\ staged' = {}
  /\ cleaner' = Asleep
  /\ pc' = [h \in Handlers |-> "idle"]
  /\ asked' = [h \in Handlers |-> None]
  /\ held' = [h \in Handlers |-> None]
  /\ UNCHANGED <<now, issued, dirs, files>>

EndRequest(p) ==
  \/ Discard(p)
  \/ \E t \in Tokens, ttl \in TTLs : Register(t, p, ttl)

Request(p) ==
  \/ Stage(p) \/ WriteFile(p) \/ Abandon(p) \/ EndRequest(p)

Handler(h) ==
  \/ \E t \in Tokens : Ask(h, t)
  \/ Lookup(h) \/ CheckExpiry(h) \/ ReadFile(h) \/ Reply(h)

Cleanup == SweepBegin \/ (\E t \in Tokens : Unlink(t)) \/ Forget \/ SweepEnd

Next ==
  \/ \E p \in Paths : Request(p)
  \/ \E h \in Handlers : Handler(h)
  \/ Cleanup
  \/ Tick
  \/ Restart

Spec == Init /\ [][Next]_vars

(***************************************************************************)
(* Goroutines that can run do run.  A reader waits for the write lock at   *)
(* most one sweep, because sync.RWMutex lets the readers that queued       *)
(* behind a writer in before the next writer: strong fairness on Lookup.   *)
(* A tool request ends: the 45 s context of handleToolCall bounds it.      *)
(***************************************************************************)
Fairness ==
  /\ WF_vars(Tick)
  /\ WF_vars(Cleanup)
  /\ \A h \in Handlers :
       /\ SF_vars(Lookup(h))
       /\ WF_vars(CheckExpiry(h) \/ ReadFile(h) \/ Reply(h))
  /\ \A p \in Paths : WF_vars(EndRequest(p))

FairSpec == Spec /\ Fairness

--------------------------------------------------------------------------------
(* Safety *)

Live(t) == t \in Entries /\ ~Expired(items[t], now)

\* Every registered path is a file that one token alone owns.
ExclusiveFiles == Faults \cap {"share", "phantom"} = {}

\* A token the store would still honour has its file on disk: a sweep that
\* runs beside requests never takes the file of an entry that is not due.
LiveTokenServable ==
  ExclusiveFiles => \A t \in Tokens : Live(t) => items[t].path \in files

\* handleDownload answers 500 only when the lease ran out between the check
\* in Get and the read of the file, never for a token still within its TTL.
FailureOnlyAfterExpiry ==
  ExclusiveFiles => \A h \in Handlers : pc[h] = "failed" => Expired(held[h], now)

\* With no restart, failed removal or leaking error path, every file on disk
\* has someone who will remove it: a running request or an entry of the map.
FilesTracked ==
  Faults \cap {"restart", "unlinkFails", "abandon"} = {}
    => files \subseteq staged \cup Registered

\* Outside a restart an entry leaves the map only after its TTL, although the
\* sweep decides with a clock reading that may be long past.
NoPrematureLoss ==
  [][Restart \/ \A t \in Tokens :
       t \in Entries /\ items'[t] # items[t] => Expired(items[t], now)]_vars

\* A handler turns to 404 only at a moment when its token is not live, even
\* though the lookup and the clock check are separate steps.
NotFoundOnlyWhenDead ==
  [][\A h \in Handlers :
       pc[h] # "notFound" /\ pc'[h] = "notFound" => ~Live(asked[h])]_vars

(* Refinement: the promise of DownloadLease. *)

LeaseStatus(t) ==
  IF Live(t) THEN "live" ELSE IF t \in issued THEN "over" ELSE "unissued"

Verdict(h) ==
  CASE pc[h] = "idle" -> "none"
    [] pc[h] \in {"lookup", "check"} -> "asked"
    [] pc[h] = "read" -> "granted"
    [] pc[h] = "ok" -> "served"
    [] pc[h] = "notFound" -> "refused"
    [] pc[h] = "failed" -> "failed"

Lease == INSTANCE DownloadLease WITH
  status <- [t \in Tokens |-> LeaseStatus(t)],
  wants <- asked,
  verdict <- [h \in Handlers |-> Verdict(h)]

\* Store, worker and handlers together keep the promise of a lease.
ImplementsLease == Lease!Spec

(* Liveness *)

\* Every GET is answered, however the worker's lock gets in the way.
EveryRequestAnswered ==
  \A h \in Handlers : pc[h] = "lookup" ~> pc[h] = "idle"

\* Every entry is collected in the end, and its file is gone with it.
EveryEntryCollected ==
  \A p \in Paths : p \in Registered ~> p \notin Registered \cup files
================================================================================
