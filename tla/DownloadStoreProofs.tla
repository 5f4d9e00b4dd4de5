-------------------------- MODULE DownloadStoreProofs --------------------------
(***************************************************************************)
(* Theorems of DownloadStore for every set of tokens, paths, handlers and  *)
(* lifetimes, every clock bound and every combination of faults.           *)
(***************************************************************************)
EXTENDS DownloadStore, TLAPS

--------------------------------------------------------------------------------
(* Type correctness *)

\* The process starts with all variables in their types.
LEMMA TypeInit == Init => TypeOK
  BY StoreAssumption DEF Init, TypeOK, Asleep

\* Every step of the store, the handlers, the worker and the requests keeps
\* the variables in their types.
LEMMA TypeStep == TypeOK /\ [Next]_vars => TypeOK'
<1> SUFFICES ASSUME TypeOK, [Next]_vars PROVE TypeOK'
  OBVIOUS
<1> USE DEF TypeOK, storeVars, diskVars, handlerVars
<1>1. ASSUME NEW p \in Paths, Stage(p) PROVE TypeOK'
  BY <1>1 DEF Stage
<1>2. ASSUME NEW p \in Paths, WriteFile(p) PROVE TypeOK'
  BY <1>2 DEF WriteFile
<1>3. ASSUME NEW p \in Paths, Discard(p) PROVE TypeOK'
  BY <1>3 DEF Discard
<1>4. ASSUME NEW p \in Paths, Abandon(p) PROVE TypeOK'
  BY <1>4 DEF Abandon
<1>5. ASSUME NEW p \in Paths, NEW t \in Tokens, NEW ttl \in TTLs, Register(t, p, ttl)
      PROVE TypeOK'
  <2>1. [path |-> p, expireAt |-> now + ttl] \in Item
    BY StoreAssumption DEF Item
  <2> QED
    BY <1>5, <2>1 DEF Register
<1>6. ASSUME NEW h \in Handlers, NEW t \in Tokens, Ask(h, t) PROVE TypeOK'
  BY <1>6 DEF Ask
<1>7. ASSUME NEW h \in Handlers, Lookup(h) PROVE TypeOK'
  <2>1. /\ pc' \in [Handlers -> {"idle", "lookup", "check", "read"} \cup Answers]
        /\ UNCHANGED <<now, asked, storeVars, diskVars, cleaner>>
    BY <1>7 DEF Lookup, Answers
  <2>2. held' \in [Handlers -> Item \cup {None}]
    BY <1>7 DEF Lookup
  <2> QED
    BY <1>7, <2>1, <2>2 DEF Lookup
<1>8. ASSUME NEW h \in Handlers, CheckExpiry(h) PROVE TypeOK'
  BY <1>8 DEF CheckExpiry, Answers
<1>9. ASSUME NEW h \in Handlers, ReadFile(h) PROVE TypeOK'
  BY <1>9 DEF ReadFile, Answers
<1>10. ASSUME NEW h \in Handlers, Reply(h) PROVE TypeOK'
  BY <1>10 DEF Reply
<1>11. CASE SweepBegin
  BY <1>11 DEF SweepBegin
<1>12. ASSUME NEW t \in Tokens, Unlink(t) PROVE TypeOK'
  BY <1>12 DEF Unlink
<1>13. CASE Forget
  BY <1>13 DEF Forget
<1>14. CASE SweepEnd
  BY <1>14 DEF SweepEnd, Asleep
<1>15. CASE Tick
  BY <1>15 DEF Tick
<1>16. CASE Restart
  BY <1>16 DEF Restart, Asleep
<1>17. CASE UNCHANGED vars
  BY <1>17 DEF vars
<1> QED
  BY <1>1, <1>2, <1>3, <1>4, <1>5, <1>6, <1>7, <1>8, <1>9, <1>10, <1>11, <1>12,
     <1>13, <1>14, <1>15, <1>16, <1>17
     DEF Next, Request, EndRequest, Handler, Cleanup

\* The variables of the store, the worker and the handlers keep their types,
\* whatever the interleaving and the faults.
THEOREM TypeCorrect == Spec => []TypeOK
  BY TypeInit, TypeStep, PTL DEF Spec

--------------------------------------------------------------------------------
(***************************************************************************)
(* The inductive invariant.  LiveTokenServable is not inductive: that a    *)
(* sweep spares the file of a live entry rests on the worker's sample of   *)
(* the clock being in the past, on no two entries naming one file, and on  *)
(* no running request owning the file of an entry.  That a handler fails   *)
(* only after the TTL rests on the entry it copied being still the one in  *)
(* the map, or else expired.                                               *)
(***************************************************************************)

\* The entries whose file the worker has not just removed.
Kept == {t \in Entries : ~(cleaner.pc = "unlinked" /\ cleaner.victim = t)}

\* The worker's clock sample is not ahead; the victim is an entry it is due on.
WorkerInv ==
  /\ cleaner.at <= now
  /\ cleaner.pc = "unlinked" =>
       /\ cleaner.victim \in Entries
       /\ Expired(items[cleaner.victim], cleaner.at)

\* Where every path is registered once, with its file: entries and running
\* requests own disjoint directories, and a kept entry has its file.
OwnershipInv ==
  ExclusiveFiles =>
    /\ staged \cup files \cup Registered \subseteq dirs
    /\ Registered \cap staged = {}
    /\ \A t, u \in Entries : items[t].path = items[u].path => t = u
    /\ \A t \in Kept : items[t].path \in files

\* Every file has an owner that is not already past removing it.
TrackedInv ==
  Faults \cap {"restart", "unlinkFails", "abandon"} = {}
    => files \subseteq staged \cup {items[t].path : t \in Kept}

\* A handler's copy of an entry is the entry itself, or it has expired and
\* its token, which is not issued again, has no entry any more.
CopyInv ==
  \A h \in Handlers :
    /\ pc[h] \in {"check", "read", "failed"} => held[h] \in Item
    /\ pc[h] \in {"check", "read"} =>
         \/ items[asked[h]] = held[h]
         \/ asked[h] \in issued \ Entries /\ Expired(held[h], now)

IssuedInv == Entries \subseteq issued

IInv ==
  /\ TypeOK
  /\ WorkerInv
  /\ OwnershipInv
  /\ TrackedInv
  /\ CopyInv
  /\ IssuedInv
  /\ FailureOnlyAfterExpiry

\* A process that has just started, over an empty temp directory, satisfies
\* the inductive invariant.
LEMMA InvInit == Init => IInv
<1> SUFFICES ASSUME Init PROVE IInv
  OBVIOUS
<1>1. TypeOK
  BY TypeInit
<1>2. Entries = {} /\ Registered = {} /\ Kept = {}
  BY DEF Init, Entries, Registered, Kept
<1> QED
  BY <1>1, <1>2 DEF Init, IInv, WorkerInv, OwnershipInv, TrackedInv, CopyInv,
     IssuedInv, FailureOnlyAfterExpiry, Asleep

\* Steps that touch neither the map nor the worker leave the entries alone.
LEMMA SameEntries ==
  ASSUME UNCHANGED <<items, cleaner>>
  PROVE  UNCHANGED <<Entries, Registered, Kept>>
  BY DEF Entries, Registered, Kept

\* Register adds one entry and nothing else; the worker has no victim then.
LEMMA RegisterEffect ==
  ASSUME TypeOK, IssuedInv, NEW p \in Paths, NEW t \in Tokens, NEW ttl \in TTLs,
         Register(t, p, ttl)
  PROVE  /\ t \notin Entries
         /\ items'[t] = [path |-> p, expireAt |-> now + ttl]
         /\ items'[t] \in Item
         /\ \A u \in Tokens \ {t} : items'[u] = items[u]
         /\ Entries' = Entries \cup {t}
         /\ Registered' = Registered \cup {p}
         /\ Kept = Entries
         /\ Kept' = Entries'
<1>1. [path |-> p, expireAt |-> now + ttl] \in Item
  BY StoreAssumption DEF Item, TypeOK
<1>2. /\ t \notin Entries
      /\ items'[t] = [path |-> p, expireAt |-> now + ttl]
      /\ \A u \in Tokens \ {t} : items'[u] = items[u]
  BY DEF Register, TypeOK, IssuedInv
<1>3. Entries' = Entries \cup {t}
  BY <1>1, <1>2, StoreAssumption DEF Entries
<1>4. Registered' = Registered \cup {p}
  BY <1>2, <1>3 DEF Registered, Entries
<1>5. Kept = Entries /\ Kept' = Entries'
  BY DEF Kept, Register, Unlocked
<1> QED
  BY <1>1, <1>2, <1>3, <1>4, <1>5

\* Forget drops the victim's entry, and no kept one.
LEMMA ForgetEffect ==
  ASSUME TypeOK, WorkerInv, Forget
  PROVE  /\ cleaner.victim \in Entries
         /\ items'[cleaner.victim] = None
         /\ \A u \in Tokens \ {cleaner.victim} : items'[u] = items[u]
         /\ Entries' = Entries \ {cleaner.victim}
         /\ Kept = Entries'
         /\ Kept' = Entries'
<1>1. cleaner.pc = "unlinked" /\ cleaner'.pc = "sweeping"
  BY DEF Forget, TypeOK
<1>2. /\ cleaner.victim \in Entries
      /\ items'[cleaner.victim] = None
      /\ \A u \in Tokens \ {cleaner.victim} : items'[u] = items[u]
  BY <1>1 DEF Forget, TypeOK, WorkerInv, Entries
<1>3. Entries' = Entries \ {cleaner.victim}
  BY <1>2 DEF Entries
<1> QED
  BY <1>1, <1>2, <1>3 DEF Kept

\* Unlink picks a due entry; what it keeps is what it kept before, but for that.
LEMMA UnlinkEffect ==
  ASSUME TypeOK, NEW t \in Tokens, Unlink(t)
  PROVE  /\ t \in Entries /\ items[t] \in Item
         /\ Expired(items[t], cleaner.at)
         /\ cleaner'.pc = "unlinked" /\ cleaner'.victim = t /\ cleaner'.at = cleaner.at
         /\ Entries' = Entries /\ Registered' = Registered
         /\ Kept = Entries
         /\ Kept' = Entries \ {t}
<1>1. t \in Entries /\ Expired(items[t], cleaner.at) /\ items[t] \in Item
  BY DEF Unlink, Due, Entries, TypeOK
<1>2. /\ cleaner.pc = "sweeping"
      /\ cleaner'.pc = "unlinked" /\ cleaner'.victim = t /\ cleaner'.at = cleaner.at
  BY DEF Unlink, TypeOK
<1>3. items' = items
  BY DEF Unlink, storeVars
<1> QED
  BY <1>1, <1>2, <1>3 DEF Entries, Registered, Kept

--------------------------------------------------------------------------------
(* Each conjunct is inductive relative to the others. *)

\* Only the worker itself moves its clock sample and its victim, and the lock
\* keeps the victim in the map.
LEMMA WorkerStep == TypeOK /\ WorkerInv /\ IssuedInv /\ [Next]_vars => WorkerInv'
<1> SUFFICES ASSUME TypeOK, WorkerInv, IssuedInv, [Next]_vars PROVE WorkerInv'
  OBVIOUS
<1> USE DEF storeVars, diskVars, handlerVars
<1>1. ASSUME UNCHANGED <<now, items, cleaner>> PROVE WorkerInv'
  BY <1>1, SameEntries DEF WorkerInv, Expired
<1>2. ASSUME NEW p \in Paths, NEW t \in Tokens, NEW ttl \in TTLs, Register(t, p, ttl)
      PROVE WorkerInv'
  BY <1>2 DEF Register, Unlocked, WorkerInv
<1>3. CASE SweepBegin
  BY <1>3 DEF SweepBegin, WorkerInv, TypeOK
<1>4. ASSUME NEW t \in Tokens, Unlink(t) PROVE WorkerInv'
  <2>1. now' = now /\ items' = items
    BY <1>4 DEF Unlink
  <2> QED
    BY <1>4, <2>1, UnlinkEffect DEF WorkerInv, Expired
<1>5. CASE Forget
  <2>1. cleaner'.pc = "sweeping" /\ cleaner'.at = cleaner.at /\ now' = now
    BY <1>5 DEF Forget, TypeOK
  <2> QED
    BY <2>1 DEF WorkerInv
<1>6. CASE SweepEnd \/ Restart
  BY <1>6 DEF SweepEnd, Restart, Asleep, WorkerInv, TypeOK
<1>7. CASE Tick
  <2>1. cleaner.at \in Nat /\ now \in Nat /\ now' = now + 1
    BY <1>7 DEF Tick, TypeOK
  <2>2. UNCHANGED <<items, cleaner>>
    BY <1>7 DEF Tick
  <2> QED
    BY <2>1, <2>2, SameEntries DEF WorkerInv, Expired
<1> QED
  BY <1>1, <1>2, <1>3, <1>4, <1>5, <1>6, <1>7
     DEF Next, vars, Request, EndRequest, Handler, Cleanup, Stage, WriteFile, Discard,
         Abandon, Ask, Lookup, CheckExpiry, ReadFile, Reply

\* No step makes two owners of one directory, or takes the file of an entry
\* that the worker has not chosen.
LEMMA OwnershipStep ==
  TypeOK /\ WorkerInv /\ OwnershipInv /\ IssuedInv /\ [Next]_vars => OwnershipInv'
<1> SUFFICES ASSUME TypeOK, WorkerInv, OwnershipInv, IssuedInv, [Next]_vars, ExclusiveFiles
             PROVE OwnershipInv'
  BY DEF OwnershipInv, ExclusiveFiles
<1> USE DEF OwnershipInv, storeVars, diskVars, handlerVars
<1>0. "share" \notin Faults /\ "phantom" \notin Faults
  BY DEF ExclusiveFiles
<1>1. ASSUME UNCHANGED <<items, cleaner, diskVars>> PROVE OwnershipInv'
  BY <1>1, SameEntries
<1>2. ASSUME NEW p \in Paths, Stage(p) PROVE OwnershipInv'
  BY <1>2, SameEntries DEF Stage
<1>3. ASSUME NEW p \in Paths, WriteFile(p) PROVE OwnershipInv'
  BY <1>3, SameEntries DEF WriteFile
<1>4. ASSUME NEW p \in Paths, Discard(p) PROVE OwnershipInv'
  <2>1. UNCHANGED <<items, cleaner>> /\ p \notin Registered
    BY <1>4 DEF Discard
  <2>2. \A t \in Kept : items[t].path \in Registered
    BY DEF Kept, Registered
  <2> QED
    BY <1>4, <2>1, <2>2, SameEntries DEF Discard
<1>5. ASSUME NEW p \in Paths, Abandon(p) PROVE OwnershipInv'
  BY <1>5, SameEntries DEF Abandon
<1>6. ASSUME NEW p \in Paths, NEW t \in Tokens, NEW ttl \in TTLs, Register(t, p, ttl)
      PROVE OwnershipInv'
  <2>1. /\ p \in staged /\ p \in files
        /\ staged' = staged \ {p} /\ UNCHANGED <<dirs, files>>
    BY <1>6, <1>0 DEF Register
  <2>2. /\ t \notin Entries
        /\ Entries' = Entries \cup {t}
        /\ Registered' = Registered \cup {p}
        /\ Kept = Entries /\ Kept' = Entries'
        /\ items'[t].path = p
        /\ \A u \in Entries : items'[u] = items[u]
    <3>1. [path |-> p, expireAt |-> now + ttl].path = p
      OBVIOUS
    <3> QED
      BY <1>6, <3>1, RegisterEffect DEF Entries
  <2>3. p \notin Registered
    BY <2>1
  <2>4. \A u \in Entries : items[u].path # p
    BY <2>3 DEF Registered
  <2> QED
    BY <2>1, <2>2, <2>4
<1>7. ASSUME NEW t \in Tokens, Unlink(t) PROVE OwnershipInv'
  <2>1. /\ files \ {items[t].path} \subseteq files' /\ files' \subseteq files
        /\ UNCHANGED <<items, dirs, staged>>
    BY <1>7 DEF Unlink
  <2>2. /\ t \in Entries
        /\ Entries' = Entries /\ Registered' = Registered
        /\ Kept = Entries /\ Kept' = Entries \ {t}
    BY <1>7, UnlinkEffect
  <2>3. \A u \in Entries \ {t} : items[u].path # items[t].path
    BY <2>2
  <2> QED
    BY <2>1, <2>2, <2>3
<1>8. CASE Forget
  <2>1. UNCHANGED <<dirs, files, staged>>
    BY <1>8 DEF Forget
  <2>2. /\ Entries' \subseteq Entries
        /\ Kept' = Kept /\ Kept' = Entries'
        /\ \A u \in Entries' : items'[u] = items[u]
    BY <1>8, ForgetEffect DEF Entries
  <2>3. Registered' \subseteq Registered
    BY <2>2 DEF Registered
  <2> QED
    BY <2>1, <2>2, <2>3
<1>9. CASE SweepBegin \/ SweepEnd
  <2>1. UNCHANGED <<items, dirs, files, staged>>
    BY <1>9 DEF SweepBegin, SweepEnd
  <2>2. Entries' = Entries /\ Registered' = Registered
    BY <2>1 DEF Entries, Registered
  <2>3. Kept = Entries
    BY <1>9 DEF SweepBegin, SweepEnd, Kept, Unlocked
  <2>4. Kept' = Entries
    BY <1>9, <2>2 DEF SweepBegin, SweepEnd, Kept, Asleep
  <2> QED
    BY <2>1, <2>2, <2>3, <2>4
<1>10. CASE Restart
  <2>1. Entries' = {} /\ Registered' = {} /\ Kept' = {}
    BY <1>10 DEF Restart, Entries, Registered, Kept
  <2> QED
    BY <1>10, <2>1 DEF Restart
<1> QED
  BY <1>1, <1>2, <1>3, <1>4, <1>5, <1>6, <1>7, <1>8, <1>9, <1>10
     DEF Next, vars, Request, EndRequest, Handler, Cleanup, Ask, Lookup, CheckExpiry,
         ReadFile, Reply, Tick

\* No step of a process without faults leaves a file without an owner.
LEMMA TrackedStep ==
  TypeOK /\ WorkerInv /\ TrackedInv /\ IssuedInv /\ [Next]_vars => TrackedInv'
<1> DEFINE KeptFiles == {items[t].path : t \in Kept}
<1> SUFFICES ASSUME TypeOK, WorkerInv, IssuedInv, [Next]_vars,
                    Faults \cap {"restart", "unlinkFails", "abandon"} = {},
                    files \subseteq staged \cup KeptFiles
             PROVE  files' \subseteq staged' \cup KeptFiles'
  BY DEF TrackedInv
<1> USE DEF storeVars, diskVars, handlerVars
<1>1. ASSUME UNCHANGED <<items, cleaner, files, staged>>
      PROVE  files' \subseteq staged' \cup KeptFiles'
  BY <1>1, SameEntries
<1>2. ASSUME NEW p \in Paths, Stage(p) \/ WriteFile(p) \/ Discard(p)
      PROVE  files' \subseteq staged' \cup KeptFiles'
  <2>1. UNCHANGED <<items, cleaner>>
    BY <1>2 DEF Stage, WriteFile, Discard
  <2>2. KeptFiles' = KeptFiles
    BY <2>1, SameEntries
  <2> QED
    BY <1>2, <2>2 DEF Stage, WriteFile, Discard
<1>3. ASSUME NEW p \in Paths, NEW t \in Tokens, NEW ttl \in TTLs, Register(t, p, ttl)
      PROVE  files' \subseteq staged' \cup KeptFiles'
  <2>1. staged' = staged \ {p} /\ files' = files
    BY <1>3 DEF Register
  <2>2. /\ t \in Kept' /\ items'[t].path = p
        /\ \A u \in Kept : u \in Kept' /\ items'[u] = items[u]
    <3>1. [path |-> p, expireAt |-> now + ttl].path = p
      OBVIOUS
    <3> QED
      BY <1>3, <3>1, RegisterEffect DEF Entries
  <2>3. KeptFiles \cup {p} \subseteq KeptFiles'
    BY <2>2
  <2> QED
    BY <2>1, <2>3
<1>4. ASSUME NEW t \in Tokens, Unlink(t)
      PROVE  files' \subseteq staged' \cup KeptFiles'
  <2>1. files' = files \ {items[t].path} /\ UNCHANGED <<items, staged>>
    BY <1>4 DEF Unlink
  <2>2. Kept = Entries /\ Kept' = Entries \ {t}
    BY <1>4, UnlinkEffect
  <2>3. KeptFiles \ {items[t].path} \subseteq KeptFiles'
    BY <2>1, <2>2
  <2> QED
    BY <2>1, <2>3
<1>5. CASE Forget
  <2>1. UNCHANGED <<files, staged>>
    BY <1>5 DEF Forget
  <2>2. Kept' = Kept /\ \A u \in Kept : items'[u] = items[u]
    BY <1>5, ForgetEffect DEF Entries
  <2>3. KeptFiles' = KeptFiles
    BY <2>2
  <2> QED
    BY <2>1, <2>3
<1>6. CASE SweepBegin \/ SweepEnd
  <2>1. UNCHANGED <<items, files, staged>>
    BY <1>6 DEF SweepBegin, SweepEnd
  <2>2. Kept = Entries
    BY <1>6 DEF SweepBegin, SweepEnd, Kept, Unlocked
  <2>3. Kept' = Entries
    BY <1>6, <2>1 DEF SweepBegin, SweepEnd, Kept, Entries, Asleep
  <2> QED
    BY <2>1, <2>2, <2>3
<1>7. ~Restart /\ \A p \in Paths : ~Abandon(p)
  BY DEF Restart, Abandon
<1> QED
  BY <1>1, <1>2, <1>3, <1>4, <1>5, <1>6, <1>7
     DEF Next, vars, Request, EndRequest, Handler, Cleanup, Ask, Lookup, CheckExpiry,
         ReadFile, Reply, Tick

\* What a handler copied out of the map stays true of the map, or has expired.
LEMMA CopyStep ==
  TypeOK /\ WorkerInv /\ IssuedInv /\ CopyInv /\ [Next]_vars => CopyInv'
<1> SUFFICES ASSUME TypeOK, WorkerInv, IssuedInv, CopyInv, [Next]_vars PROVE CopyInv'
  OBVIOUS
<1> USE DEF storeVars, diskVars, handlerVars
<1>1. ASSUME UNCHANGED <<now, storeVars, handlerVars>> PROVE CopyInv'
  BY <1>1 DEF CopyInv, Expired, Entries
<1>2. ASSUME NEW p \in Paths, NEW t \in Tokens, NEW ttl \in TTLs, Register(t, p, ttl)
      PROVE CopyInv'
  <2>1. UNCHANGED <<now, handlerVars>> /\ t \notin issued /\ issued' = issued \cup {t}
    BY <1>2 DEF Register
  <2>2. /\ t \notin Entries /\ \A u \in Tokens \ {t} : items'[u] = items[u]
        /\ Entries' = Entries \cup {t}
    BY <1>2, RegisterEffect
  <2>3. \A h \in Handlers : held[h] \in Item /\ asked[h] = t => items[t] # held[h]
    BY <2>2, StoreAssumption DEF Entries
  <2> QED
    BY <2>1, <2>2, <2>3 DEF CopyInv, Expired, TypeOK
<1>3. ASSUME NEW h \in Handlers, NEW t \in Tokens, Ask(h, t) PROVE CopyInv'
  BY <1>3 DEF Ask, CopyInv, Expired, TypeOK, Entries
<1>4. ASSUME NEW h \in Handlers, Lookup(h) PROVE CopyInv'
  <2>1. asked[h] \in Entries => items[asked[h]] \in Item
    BY DEF Entries, TypeOK
  <2> QED
    BY <1>4, <2>1 DEF Lookup, CopyInv, Expired, TypeOK, Entries
<1>5. ASSUME NEW h \in Handlers, CheckExpiry(h) \/ ReadFile(h) PROVE CopyInv'
  BY <1>5 DEF CheckExpiry, ReadFile, CopyInv, Expired, TypeOK, Entries
<1>6. ASSUME NEW h \in Handlers, Reply(h) PROVE CopyInv'
  BY <1>6 DEF Reply, CopyInv, Expired, TypeOK, Entries
<1>7. CASE Forget
  <2>1. UNCHANGED <<now, issued, handlerVars>> /\ cleaner.pc = "unlinked"
    BY <1>7 DEF Forget
  <2>2. Expired(items[cleaner.victim], now)
    <3>1. cleaner.victim \in Entries /\ items[cleaner.victim] \in Item
      BY <2>1 DEF WorkerInv, Entries, TypeOK
    <3>2. items[cleaner.victim].expireAt \in Nat
      BY <3>1 DEF Item
    <3> QED
      BY <2>1, <3>2 DEF WorkerInv, Expired, TypeOK
  <2>3. /\ \A u \in Tokens \ {cleaner.victim} : items'[u] = items[u]
        /\ cleaner.victim \in Entries
        /\ Entries' = Entries \ {cleaner.victim}
    BY <1>7, ForgetEffect
  <2>4. cleaner.victim \in issued
    BY <2>3 DEF IssuedInv
  <2>5. SUFFICES ASSUME NEW h \in Handlers, pc[h] \in {"check", "read"}
                 PROVE  \/ items'[asked[h]] = held[h]
                        \/ asked[h] \in issued \ Entries' /\ Expired(held[h], now)
    BY <2>1 DEF CopyInv, Expired
  <2>6. CASE asked[h] = cleaner.victim
    BY <2>2, <2>3, <2>4, <2>5, <2>6 DEF CopyInv
  <2>7. CASE asked[h] # cleaner.victim
    BY <2>3, <2>5, <2>7 DEF CopyInv, TypeOK
  <2> QED
    BY <2>6, <2>7
<1>8. CASE Tick
  <2>1. UNCHANGED <<storeVars, Entries, handlerVars>> /\ now' = now + 1 /\ now \in Nat
    BY <1>8 DEF Tick, TypeOK, Entries
  <2>2. \A i \in Item : i.expireAt \in Nat
    BY DEF Item
  <2>3. \A i \in Item : Expired(i, now) => Expired(i, now')
    BY <2>1, <2>2 DEF Expired
  <2> QED
    BY <2>1, <2>3 DEF CopyInv
<1>9. CASE Restart
  BY <1>9 DEF Restart, CopyInv
<1> QED
  BY <1>1, <1>2, <1>3, <1>4, <1>5, <1>6, <1>7, <1>8, <1>9
     DEF Next, vars, Request, EndRequest, Handler, Cleanup, Stage, WriteFile, Discard,
         Abandon, SweepBegin, Unlink, SweepEnd

\* Entries are only made for tokens that Register returns.
LEMMA IssuedStep == TypeOK /\ WorkerInv /\ IssuedInv /\ [Next]_vars => IssuedInv'
<1> SUFFICES ASSUME TypeOK, WorkerInv, IssuedInv, [Next]_vars PROVE IssuedInv'
  OBVIOUS
<1> USE DEF storeVars, diskVars, handlerVars
<1>1. ASSUME UNCHANGED storeVars PROVE IssuedInv'
  BY <1>1 DEF IssuedInv, Entries
<1>2. ASSUME NEW p \in Paths, NEW t \in Tokens, NEW ttl \in TTLs, Register(t, p, ttl)
      PROVE IssuedInv'
  BY <1>2, RegisterEffect DEF Register, IssuedInv
<1>3. CASE Forget
  BY <1>3, ForgetEffect DEF Forget, IssuedInv
<1>4. CASE Restart
  BY <1>4 DEF Restart, IssuedInv, Entries
<1> QED
  BY <1>1, <1>2, <1>3, <1>4
     DEF Next, vars, Request, EndRequest, Handler, Cleanup, Stage, WriteFile, Discard,
         Abandon, Ask, Lookup, CheckExpiry, ReadFile, Reply, SweepBegin, Unlink,
         SweepEnd, Tick

\* A handler that finds its file gone holds a copy that has expired.
LEMMA MissingFileExpired ==
  ASSUME TypeOK, WorkerInv, OwnershipInv, CopyInv, ExclusiveFiles,
         NEW h \in Handlers, pc[h] = "read", held[h].path \notin files
  PROVE  Expired(held[h], now)
<1>1. held[h] \in Item /\ held[h].expireAt \in Nat
  BY DEF CopyInv, Item
<1>2. asked[h] \in Tokens
  BY DEF TypeOK
<1>3. CASE items[asked[h]] = held[h]
  <2>1. asked[h] \in Entries
    BY <1>1, <1>2, <1>3, StoreAssumption DEF Entries
  <2>2. asked[h] \notin Kept
    BY <1>3, <2>1 DEF OwnershipInv
  <2>3. Expired(held[h], cleaner.at)
    BY <1>3, <2>1, <2>2 DEF Kept, WorkerInv
  <2> QED
    BY <1>1, <2>3 DEF WorkerInv, Expired, TypeOK
<1> QED
  BY <1>3 DEF CopyInv

\* A read that fails, fails after the expiry of the entry it was made for.
LEMMA FailureStep ==
  TypeOK /\ WorkerInv /\ OwnershipInv /\ CopyInv /\ FailureOnlyAfterExpiry /\ [Next]_vars
    => FailureOnlyAfterExpiry'
<1> SUFFICES ASSUME TypeOK, WorkerInv, OwnershipInv, CopyInv, FailureOnlyAfterExpiry,
                    [Next]_vars, ExclusiveFiles,
                    NEW h \in Handlers, pc'[h] = "failed"
             PROVE  Expired(held'[h], now')
  BY DEF FailureOnlyAfterExpiry, ExclusiveFiles
<1>1. CASE pc[h] = "failed"
  <2>1. Expired(held[h], now) /\ held[h].expireAt \in Nat
    BY <1>1 DEF FailureOnlyAfterExpiry, CopyInv, Item
  <2>2. held'[h] = held[h]
    BY <1>1 DEF Next, vars, Request, EndRequest, Handler, Cleanup, Stage, WriteFile,
       Discard, Abandon, Register, Ask, Lookup, CheckExpiry, ReadFile, Reply, SweepBegin,
       Unlink, Forget, SweepEnd, Tick, Restart, handlerVars, TypeOK, Answers
  <2>3. now' = now \/ now' = now + 1
    BY DEF Next, vars, Request, EndRequest, Handler, Cleanup, Stage, WriteFile,
       Discard, Abandon, Register, Ask, Lookup, CheckExpiry, ReadFile, Reply, SweepBegin,
       Unlink, Forget, SweepEnd, Tick, Restart
  <2> QED
    BY <2>1, <2>2, <2>3 DEF Expired, TypeOK
<1>2. CASE pc[h] # "failed"
  <2>1. ReadFile(h)
    BY <1>2 DEF Next, vars, Request, EndRequest, Handler, Cleanup, Stage, WriteFile,
       Discard, Abandon, Register, Ask, Lookup, CheckExpiry, ReadFile, Reply, SweepBegin,
       Unlink, Forget, SweepEnd, Tick, Restart, handlerVars, TypeOK
  <2>2. held[h].path \notin files /\ pc[h] = "read"
    BY <2>1 DEF ReadFile, TypeOK
  <2>3. now' = now /\ held' = held
    BY <2>1 DEF ReadFile
  <2> QED
    BY <2>2, <2>3, MissingFileExpired
<1> QED
  BY <1>1, <1>2

\* The inductive invariant is kept by every step.
LEMMA InvStep == IInv /\ [Next]_vars => IInv'
  BY TypeStep, WorkerStep, OwnershipStep, TrackedStep, CopyStep, IssuedStep, FailureStep
     DEF IInv

\* The inductive invariant holds in every reachable state.
LEMMA InvAlways == Spec => []IInv
  BY InvInit, InvStep, PTL DEF Spec

--------------------------------------------------------------------------------
(* What the invariant says of the store. *)

\* For every number of requests, handlers and tokens: while each path is
\* registered once and with its file, a token within its TTL has its file.
THEOREM LiveTokensServable == Spec => []LiveTokenServable
<1>1. IInv => LiveTokenServable
  <2> SUFFICES ASSUME IInv, ExclusiveFiles, NEW t \in Tokens, Live(t)
               PROVE  items[t].path \in files
    BY DEF LiveTokenServable
  <2>1. items[t] \in Item /\ items[t].expireAt \in Nat /\ t \in Entries
    BY DEF IInv, TypeOK, Entries, Live, Item
  <2>2. t \in Kept
    BY <2>1 DEF IInv, WorkerInv, TypeOK, Kept, Live, Expired
  <2> QED
    BY <2>2 DEF IInv, OwnershipInv
<1> QED
  BY <1>1, InvAlways, PTL

\* The handler's 500 means that the lease ran out under the request.
THEOREM FailuresExpired == Spec => []FailureOnlyAfterExpiry
<1>1. IInv => FailureOnlyAfterExpiry
  BY DEF IInv
<1> QED
  BY <1>1, InvAlways, PTL

\* Without restarts, failed removals and leaking error paths no file is
\* left without someone who will remove it.
THEOREM NoFileUntracked == Spec => []FilesTracked
<1>1. IInv => FilesTracked
  BY DEF IInv, TrackedInv, FilesTracked, Kept, Registered
<1> QED
  BY <1>1, InvAlways, PTL

\* Only the passing of its TTL, or a restart, takes an entry out of the map.
THEOREM EntriesKeptUntilExpiry == Spec => NoPrematureLoss
<1> DEFINE Lost == \A t \in Tokens :
      t \in Entries /\ items'[t] # items[t] => Expired(items[t], now)
<1>1. IInv /\ [Next]_vars => [Restart \/ Lost]_vars
  <2> SUFFICES ASSUME IInv, Next, ~Restart, NEW t \in Tokens, t \in Entries,
                      items'[t] # items[t]
               PROVE  Expired(items[t], now)
    BY DEF Lost
  <2>1. CASE Forget
    <3>1. t = cleaner.victim /\ cleaner.pc = "unlinked"
      BY <2>1, ForgetEffect DEF Forget, IInv
    <3>2. Expired(items[t], cleaner.at) /\ items[t].expireAt \in Nat
      BY <3>1 DEF IInv, WorkerInv, TypeOK, Entries, Item
    <3> QED
      BY <3>2 DEF IInv, WorkerInv, TypeOK, Expired
  <2>2. ASSUME NEW p \in Paths, NEW u \in Tokens, NEW ttl \in TTLs, Register(u, p, ttl)
        PROVE FALSE
    BY <2>2, RegisterEffect DEF IInv
  <2> QED
    BY <2>1, <2>2
       DEF Next, Request, EndRequest, Handler, Cleanup, Stage, WriteFile, Discard, Abandon,
           Ask, Lookup, CheckExpiry, ReadFile, Reply, SweepBegin, Unlink, SweepEnd, Tick,
           storeVars
<1> QED
  BY <1>1, InvAlways, PTL DEF Spec, NoPrematureLoss

\* A lookup and a later clock check, taken apart by any other steps, still
\* refuse a token only at a moment when it is not live.
LEMMA RefusalStep ==
  ASSUME IInv, [Next]_vars, NEW h \in Handlers, pc[h] # "notFound", pc'[h] = "notFound"
  PROVE  ~Live(asked[h])
<1>1. Lookup(h) \/ CheckExpiry(h)
  BY DEF IInv, Next, vars, Request, EndRequest, Handler, Cleanup, Stage, WriteFile,
     Discard, Abandon, Register, Ask, Lookup, CheckExpiry, ReadFile, Reply, SweepBegin,
     Unlink, Forget, SweepEnd, Tick, Restart, handlerVars, TypeOK
<1>2. CASE Lookup(h)
  BY <1>2 DEF Lookup, Live, IInv, TypeOK
<1>3. CASE CheckExpiry(h)
  <2>1. pc[h] = "check" /\ Expired(held[h], now)
    BY <1>3 DEF CheckExpiry, IInv, TypeOK
  <2> QED
    BY <2>1 DEF IInv, CopyInv, Live
<1> QED
  BY <1>1, <1>2, <1>3

\* A 404 is given only for a token that is not live at that moment.
THEOREM RefusalsJustified == Spec => NotFoundOnlyWhenDead
<1>1. IInv /\ [Next]_vars =>
        [\A h \in Handlers :
           pc[h] # "notFound" /\ pc'[h] = "notFound" => ~Live(asked[h])]_vars
  BY RefusalStep
<1> QED
  BY <1>1, InvAlways, PTL DEF Spec, NotFoundOnlyWhenDead

--------------------------------------------------------------------------------
(***************************************************************************)
(* Refinement: while each path is registered once and with its file, every *)
(* step of the store is a step of DownloadLease or changes nothing there.  *)
(***************************************************************************)

\* An empty store maps to leases that are all unissued.
LEMMA LeaseInit == Init => Lease!Init
<1> SUFFICES ASSUME Init PROVE Lease!Init
  OBVIOUS
<1>1. \A t \in Tokens : LeaseStatus(t) = "unissued"
  BY DEF Init, LeaseStatus, Live, Entries
<1>2. \A h \in Handlers : Verdict(h) = "none"
  BY DEF Init, Verdict
<1> QED
  BY <1>1, <1>2 DEF Init, Lease!Init

\* What the lease of t is depends on the entry of t, the clock and issued alone.
LEMMA SameStatus ==
  ASSUME UNCHANGED <<now, items, issued>>
  PROVE  \A t \in Tokens : LeaseStatus(t)' = LeaseStatus(t)
  BY DEF LeaseStatus, Live, Entries, Expired

\* A step of handler h that leaves the store alone is seen in the lease as the
\* move of one verdict.
LEMMA VerdictMove ==
  ASSUME TypeOK, UNCHANGED <<now, items, issued, asked>>,
         NEW h \in Handlers, NEW to, pc' = [pc EXCEPT ![h] = to]
  PROVE  /\ [t \in Tokens |-> LeaseStatus(t)]' = [t \in Tokens |-> LeaseStatus(t)]
         /\ [g \in Handlers |-> Verdict(g)]'
              = [[g \in Handlers |-> Verdict(g)] EXCEPT ![h] = Verdict(h)']
<1>1. \A g \in Handlers \ {h} : pc'[g] = pc[g]
  BY DEF TypeOK
<1>2. \A g \in Handlers \ {h} : Verdict(g)' = Verdict(g)
  BY <1>1 DEF Verdict
<1> QED
  BY <1>2, SameStatus

\* Every step of a download handler maps to a step of the lease, or a stutter.
LEMMA LeaseHandler ==
  ASSUME IInv, ExclusiveFiles, NEW h \in Handlers, Handler(h)
  PROVE  [Lease!Next]_(Lease!vars)
<1> USE DEF storeVars, diskVars, handlerVars
<1>0. TypeOK /\ pc[h] \in {"idle", "lookup", "check", "read"} \cup Answers
  BY DEF IInv, TypeOK
<1>1. ASSUME NEW t \in Tokens, Ask(h, t) PROVE Lease!Ask(h, t)
  <2>1. pc' = [pc EXCEPT ![h] = "lookup"] /\ UNCHANGED <<now, items, issued>>
    BY <1>1 DEF Ask
  <2>2. \A g \in Handlers \ {h} : Verdict(g)' = Verdict(g)
    BY <2>1 DEF Verdict, IInv, TypeOK
  <2>3. Verdict(h) = "none" /\ Verdict(h)' = "asked"
    BY <1>0, <1>1, <2>1 DEF Ask, Verdict, TypeOK
  <2> QED
    BY <1>1, <2>1, <2>2, <2>3, SameStatus DEF Ask, Lease!Ask
<1>2. CASE Lookup(h) /\ asked[h] \in Entries
  <2>1. pc' = [pc EXCEPT ![h] = "check"] /\ UNCHANGED <<now, items, issued, asked>>
    BY <1>2 DEF Lookup
  <2>2. Verdict(h) = "asked" /\ Verdict(h)' = "asked"
    BY <1>0, <1>2, <2>1 DEF Lookup, Verdict, TypeOK
  <2>3. UNCHANGED Lease!vars
    BY <1>0, <2>1, <2>2, VerdictMove DEF Lease!vars
  <2> QED
    BY <2>3
<1>3. CASE Lookup(h) /\ asked[h] \notin Entries
  <2>1. pc' = [pc EXCEPT ![h] = "notFound"] /\ UNCHANGED <<now, items, issued, asked>>
    BY <1>3 DEF Lookup
  <2>2. Verdict(h) = "asked" /\ Verdict(h)' = "refused" /\ asked[h] \in Tokens
    BY <1>0, <1>3, <2>1 DEF Lookup, Verdict, TypeOK
  <2>3. LeaseStatus(asked[h]) # "live"
    BY <1>3 DEF LeaseStatus, Live
  <2>4. Lease!Refuse(h)
    BY <1>0, <2>1, <2>2, <2>3, VerdictMove DEF Lease!Refuse, Lease!Move
  <2> QED
    BY <2>4 DEF Lease!Next
<1>4. CASE CheckExpiry(h)
  <2>1. /\ pc[h] = "check" /\ UNCHANGED <<now, items, issued, asked>>
        /\ asked[h] \in Tokens /\ held[h] \in Item
    BY <1>4 DEF CheckExpiry, IInv, TypeOK, CopyInv
  <2>2. items[asked[h]] = held[h] \/ asked[h] \notin Entries
    BY <2>1 DEF IInv, CopyInv
  <2>3. CASE Expired(held[h], now)
    <3>1. pc' = [pc EXCEPT ![h] = "notFound"]
      BY <1>4, <2>3 DEF CheckExpiry
    <3>2. Verdict(h) = "asked" /\ Verdict(h)' = "refused"
      BY <1>0, <2>1, <3>1 DEF Verdict, TypeOK
    <3>3. LeaseStatus(asked[h]) # "live"
      BY <2>2, <2>3 DEF LeaseStatus, Live
    <3>4. Lease!Refuse(h)
      BY <1>0, <2>1, <3>1, <3>2, <3>3, VerdictMove DEF Lease!Refuse, Lease!Move
    <3> QED
      BY <3>4 DEF Lease!Next
  <2>4. CASE ~Expired(held[h], now)
    <3>1. pc' = [pc EXCEPT ![h] = "read"]
      BY <1>4, <2>4 DEF CheckExpiry
    <3>2. Verdict(h) = "asked" /\ Verdict(h)' = "granted"
      BY <1>0, <2>1, <3>1 DEF Verdict, TypeOK
    <3>3. items[asked[h]] = held[h]
      BY <2>1, <2>4 DEF IInv, CopyInv
    <3>4. asked[h] \in Entries
      BY <2>1, <3>3, StoreAssumption DEF Entries
    <3>5. LeaseStatus(asked[h]) = "live"
      BY <2>4, <3>3, <3>4 DEF LeaseStatus, Live
    <3>6. Lease!Grant(h)
      BY <1>0, <2>1, <3>1, <3>2, <3>5, VerdictMove DEF Lease!Grant, Lease!Move
    <3> QED
      BY <3>6 DEF Lease!Next
  <2> QED
    BY <2>3, <2>4
<1>5. CASE ReadFile(h)
  <2>1. /\ pc[h] = "read" /\ UNCHANGED <<now, items, issued, asked>>
        /\ asked[h] \in Tokens /\ held[h] \in Item
    BY <1>5 DEF ReadFile, IInv, TypeOK, CopyInv
  <2>2. CASE held[h].path \in files
    <3>1. pc' = [pc EXCEPT ![h] = "ok"]
      BY <1>5, <2>2 DEF ReadFile
    <3>2. Verdict(h) = "granted" /\ Verdict(h)' = "served"
      BY <1>0, <2>1, <3>1 DEF Verdict, TypeOK
    <3>3. Lease!Serve(h)
      BY <1>0, <2>1, <3>1, <3>2, VerdictMove DEF Lease!Serve, Lease!Move
    <3> QED
      BY <3>3 DEF Lease!Next
  <2>3. CASE held[h].path \notin files
    <3>1. pc' = [pc EXCEPT ![h] = "failed"]
      BY <1>5, <2>3 DEF ReadFile
    <3>2. Verdict(h) = "granted" /\ Verdict(h)' = "failed"
      BY <1>0, <2>1, <3>1 DEF Verdict, TypeOK
    <3>3. Expired(held[h], now)
      BY <2>1, <2>3, MissingFileExpired DEF IInv
    <3>4. asked[h] \in issued /\ ~Live(asked[h])
      BY <2>1, <3>3, StoreAssumption DEF IInv, CopyInv, IssuedInv, Live, Entries
    <3>5. LeaseStatus(asked[h]) = "over"
      BY <3>4 DEF LeaseStatus
    <3>6. Lease!Fail(h)
      BY <1>0, <2>1, <3>1, <3>2, <3>5, VerdictMove DEF Lease!Fail, Lease!Move
    <3> QED
      BY <3>6 DEF Lease!Next
  <2> QED
    BY <2>2, <2>3
<1>6. CASE Reply(h)
  <2>1. pc' = [pc EXCEPT ![h] = "idle"] /\ UNCHANGED <<now, items, issued>>
    BY <1>6 DEF Reply
  <2>2. \A g \in Handlers \ {h} : Verdict(g)' = Verdict(g)
    BY <2>1 DEF Verdict, IInv, TypeOK
  <2>3. Verdict(h) \in {"served", "refused", "failed"} /\ Verdict(h)' = "none"
    BY <1>0, <1>6, <2>1 DEF Reply, Verdict, TypeOK, Answers
  <2>4. Lease!Reply(h)
    BY <1>6, <2>1, <2>2, <2>3, SameStatus DEF Reply, Lease!Reply, Lease!Decided
  <2> QED
    BY <2>4 DEF Lease!Next
<1> QED
  BY <1>1, <1>2, <1>3, <1>4, <1>5, <1>6 DEF Handler, Lease!Next

\* Every step of the store maps to a step of the lease, or a stutter.
LEMMA LeaseStep ==
  ASSUME IInv, ExclusiveFiles, [Next]_vars
  PROVE  [Lease!Next]_(Lease!vars)
<1> USE DEF storeVars, diskVars, handlerVars
<1>1. ASSUME UNCHANGED <<now, items, issued, handlerVars>> PROVE UNCHANGED Lease!vars
  <2>1. \A h \in Handlers : Verdict(h)' = Verdict(h)
    BY <1>1 DEF Verdict
  <2> QED
    BY <1>1, <2>1, SameStatus DEF Lease!vars
<1>2. ASSUME NEW h \in Handlers, Handler(h) PROVE [Lease!Next]_(Lease!vars)
  BY <1>2, LeaseHandler
<1>3. ASSUME NEW p \in Paths, NEW t \in Tokens, NEW ttl \in TTLs, Register(t, p, ttl)
      PROVE  Lease!Issue(t)
  <2>1. /\ UNCHANGED <<now, handlerVars>>
        /\ t \notin issued /\ issued' = issued \cup {t}
    BY <1>3 DEF Register
  <2>2. /\ t \notin Entries /\ Entries' = Entries \cup {t}
        /\ items'[t] = [path |-> p, expireAt |-> now + ttl]
        /\ \A u \in Tokens \ {t} : items'[u] = items[u]
    BY <1>3, RegisterEffect DEF IInv
  <2>3. ~Expired(items'[t], now)
    <3>1. items'[t].expireAt = now + ttl
      BY <2>2
    <3>2. ~(now > now + ttl)
      BY StoreAssumption DEF IInv, TypeOK
    <3> QED
      BY <3>1, <3>2 DEF Expired
  <2>4. LeaseStatus(t) = "unissued" /\ LeaseStatus(t)' = "live"
    BY <2>1, <2>2, <2>3 DEF LeaseStatus, Live, Expired
  <2>5. \A u \in Tokens \ {t} : LeaseStatus(u)' = LeaseStatus(u)
    BY <2>1, <2>2 DEF LeaseStatus, Live, Expired
  <2>6. \A h \in Handlers : Verdict(h)' = Verdict(h)
    BY <2>1 DEF Verdict
  <2> QED
    BY <2>1, <2>4, <2>5, <2>6 DEF Lease!Issue
<1>4. CASE Forget
  <2>1. UNCHANGED <<now, issued, handlerVars>> /\ cleaner.pc = "unlinked"
    BY <1>4 DEF Forget
  <2>2. /\ cleaner.victim \in Entries
        /\ \A u \in Tokens \ {cleaner.victim} : items'[u] = items[u]
        /\ Entries' = Entries \ {cleaner.victim}
    BY <1>4, ForgetEffect DEF IInv
  <2>3. Expired(items[cleaner.victim], now)
    <3>1. items[cleaner.victim].expireAt \in Nat
      BY <2>2 DEF IInv, TypeOK, Entries, Item
    <3> QED
      BY <2>1, <3>1 DEF IInv, WorkerInv, TypeOK, Expired
  <2>4. \A t \in Tokens : LeaseStatus(t)' = LeaseStatus(t)
    BY <2>1, <2>2, <2>3 DEF LeaseStatus, Live, Expired
  <2>5. \A h \in Handlers : Verdict(h)' = Verdict(h)
    BY <2>1 DEF Verdict
  <2> QED
    BY <2>1, <2>4, <2>5 DEF Lease!vars
<1>5. CASE Tick
  <2> DEFINE S == {t \in Tokens : Live(t) /\ ~Live(t)'}
  <2>1. UNCHANGED <<items, issued, handlerVars, Entries>> /\ now' = now + 1 /\ now \in Nat
    BY <1>5 DEF Tick, Entries, IInv, TypeOK
  <2>2. \A t \in Tokens : Live(t)' => Live(t)
    <3>1. \A t \in Entries : items[t].expireAt \in Nat
      BY DEF IInv, TypeOK, Entries, Item
    <3> QED
      BY <2>1, <3>1 DEF Live, Expired
  <2>3. \A t \in Tokens : Live(t) => t \in issued
    BY DEF IInv, IssuedInv, Live
  <2>4. \A t \in Tokens :
          LeaseStatus(t)' = IF t \in S THEN "over" ELSE LeaseStatus(t)
    BY <2>1, <2>2, <2>3 DEF LeaseStatus
  <2>5. \A t \in S : LeaseStatus(t) = "live"
    BY DEF LeaseStatus
  <2>6. \A h \in Handlers : Verdict(h)' = Verdict(h)
    BY <2>1 DEF Verdict
  <2>7. Lease!Expire(S)
    BY <2>1, <2>4, <2>5, <2>6 DEF Lease!Expire
  <2> QED
    BY <2>7 DEF Lease!Next
<1>6. CASE Restart
  <2>1. \A t \in Tokens : ~Live(t)'
    BY <1>6 DEF Restart, Live, Entries
  <2>2. \A t \in Tokens : Live(t) => t \in issued
    BY DEF IInv, IssuedInv, Live
  <2>3. \A t \in Tokens :
          LeaseStatus(t)' = IF LeaseStatus(t) = "live" THEN "over" ELSE LeaseStatus(t)
    BY <1>6, <2>1, <2>2 DEF Restart, LeaseStatus
  <2>4. \A h \in Handlers : Verdict(h)' = "none"
    BY <1>6 DEF Restart, Verdict
  <2>5. Lease!Drop
    BY <1>6, <2>3, <2>4 DEF Restart, Lease!Drop
  <2> QED
    BY <2>5 DEF Lease!Next
<1> QED
  BY <1>1, <1>2, <1>3, <1>4, <1>5, <1>6
     DEF Next, vars, Request, EndRequest, Cleanup, Stage, WriteFile, Discard, Abandon,
         SweepBegin, Unlink, SweepEnd, Lease!Next

\* The store with its worker and its handlers implements the lease, whatever
\* restarts, failed removals and leaking error paths there are.
THEOREM StoreImplementsLease == ExclusiveFiles /\ Spec => ImplementsLease
<1> SUFFICES ASSUME ExclusiveFiles PROVE Spec => ImplementsLease
  OBVIOUS
<1>1. IInv /\ [Next]_vars => [Lease!Next]_(Lease!vars)
  BY LeaseStep
<1> QED
  BY <1>1, LeaseInit, InvAlways, PTL DEF Spec, ImplementsLease, Lease!Spec
================================================================================
