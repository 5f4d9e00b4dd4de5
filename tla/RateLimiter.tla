------------------------------ MODULE RateLimiter ------------------------------
(***************************************************************************)
(* The rate limiter (backend/internal/httpserver/middleware/ratelimit.go): *)
(* a map from client address to token bucket under a mutex, and a          *)
(* goroutine that evicts the buckets of addresses not seen for a while.    *)
(* A request looks its bucket up under the mutex, and asks the bucket for  *)
(* a token after the unlock, so that an eviction, or the lookup of another *)
(* request that then makes a new bucket, may come in between.              *)
(*                                                                         *)
(* The buckets are golang.org/x/time/rate limiters, modelled from how the  *)
(* middleware uses them, with whole tokens and whole ticks.                *)
(***************************************************************************)
EXTENDS Naturals

CONSTANTS IPs,         \* client addresses
          Handlers,    \* goroutines in the middleware
          Buckets,     \* rate.Limiter objects, reused once unreachable
          Rate,        \* RATE_LIMIT_RATE: tokens that a tick adds
          Burst,       \* RATE_LIMIT_BURST: tokens that a bucket holds
          EvictAfter,  \* idle ticks after which a bucket may be evicted
          MaxStall,    \* ticks that a request may lie between unlock and Allow
          MaxTime,     \* the bound of the clock
          None         \* no bucket, no address

(***************************************************************************)
(* An evicted bucket would have been full again: what a new one gives away *)
(* the old one would have given too.  With the five minutes of the code it *)
(* takes a rate of Burst/300 per second; the default is 5.0 for a burst of *)
(* 10.  No request is stalled for minutes between two statements.          *)
(***************************************************************************)
ASSUME LimiterAssumption ==
  /\ {Rate, Burst, EvictAfter, MaxStall, MaxTime} \subseteq Nat
  /\ None \notin Buckets
  /\ MaxStall <= EvictAfter
  /\ Burst <= Rate * (EvictAfter + 1 - MaxStall)

VARIABLES now,
          limiters,  \* limiters[ip]: its bucket in the map, or None
          lastSeen,  \* lastSeen[ip]: when it was last looked up
          bucket,    \* bucket[b]: its tokens, and when they were counted
          lim,       \* lim[h]: the bucket that h has in hand, or None
          ip,        \* ip[h]: the address that h serves
          since,     \* since[h]: when h looked the bucket up
          admitted,  \* history: admitted[i] requests of i so far
          atTick     \* history: atTick[i][k] of them before tick k began

tableVars   == <<limiters, lastSeen>>
handlerVars == <<lim, ip, since>>
history     == <<admitted, atTick>>
vars == <<now, tableVars, bucket, handlerVars, history>>

Ticks == 0 .. MaxTime

Init ==
  /\ now = 0
  /\ limiters = [i \in IPs |-> None]
  /\ lastSeen = [i \in IPs |-> 0]
  /\ bucket = [b \in Buckets |-> [tokens |-> Burst, last |-> 0]]
  /\ lim = [h \in Handlers |-> None]
  /\ ip = [h \in Handlers |-> None]
  /\ since = [h \in Handlers |-> 0]
  /\ admitted = [i \in IPs |-> 0]
  /\ atTick = [i \in IPs |-> [k \in Ticks |-> 0]]

Unreachable(b) ==
  /\ \A i \in IPs : limiters[i] # b
  /\ \A h \in Handlers : lim[h] # b

--------------------------------------------------------------------------------

\* Mutant of NewLimiter: rate and burst swapped.
NewLimiterSwapped == [tokens |-> Rate, last |-> now]

\* rate.NewLimiter(r, b): a bucket that is full.
NewLimiter == [tokens |-> Burst, last |-> now]

\* Mutant of Lookup: two requests that both miss both make a bucket.
LookupAlwaysNew(h, i) ==
  /\ lim[h] = None
  /\ \E b \in Buckets :
       /\ Unreachable(b)
       /\ lim' = [lim EXCEPT ![h] = b]
       /\ limiters' = [limiters EXCEPT ![i] = b]
       /\ bucket' = [bucket EXCEPT ![b] = NewLimiter]
  /\ lastSeen' = [lastSeen EXCEPT ![i] = now]
  /\ ip' = [ip EXCEPT ![h] = i]
  /\ since' = [since EXCEPT ![h] = now]
  /\ UNCHANGED <<now, history>>

\* Under the mutex: find the bucket of i, or make one, and stamp it.
Lookup(h, i) ==
  /\ lim[h] = None
  /\ IF limiters[i] # None
       THEN lim' = [lim EXCEPT ![h] = limiters[i]] /\ UNCHANGED <<limiters, bucket>>
       ELSE \E b \in Buckets :
              /\ Unreachable(b)
              /\ lim' = [lim EXCEPT ![h] = b]
              /\ limiters' = [limiters EXCEPT ![i] = b]
              /\ bucket' = [bucket EXCEPT ![b] = NewLimiter]
  /\ lastSeen' = [lastSeen EXCEPT ![i] = now]
  /\ ip' = [ip EXCEPT ![h] = i]
  /\ since' = [since EXCEPT ![h] = now]
  /\ UNCHANGED <<now, history>>

\* What the bucket of h holds now, never more than Burst.
Available(h) ==
  LET b == bucket[lim[h]]
      refilled == b.tokens + (now - b.last) * Rate
  IN  IF refilled > Burst THEN Burst ELSE refilled

Done(h) ==
  /\ lim' = [lim EXCEPT ![h] = None]
  /\ ip' = [ip EXCEPT ![h] = None]
  /\ since' = [since EXCEPT ![h] = 0]
  /\ UNCHANGED <<now, tableVars, atTick>>

\* Allow: a token is there and the request goes on to its handler.
Admit(h) ==
  /\ lim[h] # None
  /\ Available(h) >= 1
  /\ bucket' = [bucket EXCEPT ![lim[h]] = [tokens |-> Available(h) - 1, last |-> now]]
  /\ admitted' = [admitted EXCEPT ![ip[h]] = @ + 1]
  /\ Done(h)

\* Allow: no token, 429 RATE_LIMITED.  The bucket is as it was.
Refuse(h) ==
  /\ lim[h] # None
  /\ Available(h) < 1
  /\ UNCHANGED <<bucket, admitted>>
  /\ Done(h)

\* Mutant of Idle: evicted although it was seen less long ago.
IdleSoon(i) == limiters[i] # None /\ now > lastSeen[i]

Idle(i) == limiters[i] # None /\ now - lastSeen[i] > EvictAfter

\* The eviction goroutine, one pass under the mutex.
Evict ==
  /\ \E i \in IPs : Idle(i)
  /\ limiters' = [i \in IPs |-> IF Idle(i) THEN None ELSE limiters[i]]
  /\ UNCHANGED <<now, lastSeen, bucket, handlerVars, history>>

Tick ==
  /\ now < MaxTime
  /\ \A h \in Handlers : lim[h] # None => now - since[h] < MaxStall
  /\ now' = now + 1
  /\ atTick' = [i \in IPs |-> [atTick[i] EXCEPT ![now'] = admitted[i]]]
  /\ UNCHANGED <<tableVars, bucket, handlerVars, admitted>>

Next ==
  \/ \E h \in Handlers : (\E i \in IPs : Lookup(h, i)) \/ Admit(h) \/ Refuse(h)
  \/ Evict
  \/ Tick

Spec == Init /\ [][Next]_vars

--------------------------------------------------------------------------------

Spent(i, k) == admitted[i] - atTick[i][k]  \* admitted since tick k began

\* README.md lines 129 and 130: in any window of time an address gets at most
\* its burst and the rate times the window, evicted and re-made buckets and
\* requests of the address that race each other included.
WindowBound ==
  \A i \in IPs, k \in 0 .. now : Spent(i, k) <= Burst + Rate * (now - k)

\* The limiter is not stricter than it says: it refuses a request only if some
\* window would otherwise have had too many.
RefusalJustified ==
  [][\A h \in Handlers :
       lim[h] # None /\ lim'[h] = None /\ admitted' = admitted =>
         \E k \in 0 .. now : Spent(ip[h], k) + 1 > Burst + Rate * (now - k)]_vars

\* All requests of an address that are in the middleware share one bucket.
OneBucketPerAddress ==
  \A g, h \in Handlers :
    lim[g] # None /\ lim[h] # None => (ip[g] = ip[h] <=> lim[g] = lim[h])
================================================================================
