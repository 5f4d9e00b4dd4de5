--------------------------- MODULE RateLimiterProofs ---------------------------
(***************************************************************************)
(* Theorems of RateLimiter for any addresses, handlers, rate, burst and    *)
(* eviction that LimiterAssumption admits.  The argument is that of a      *)
(* token bucket: what an address was admitted in a window, and what its    *)
(* bucket holds now, never make up more than the window is worth; and in   *)
(* some window they make up just that.  An address without a bucket counts *)
(* as one whose bucket is full, so that eviction has to show that the      *)
(* bucket it drops is full again.                                          *)
(***************************************************************************)
EXTENDS RateLimiter, Integers, TLAPS

TypeInv ==
  /\ now \in Ticks
  /\ limiters \in [IPs -> Buckets \cup {None}]
  /\ lastSeen \in [IPs -> Nat]
  /\ bucket \in [Buckets -> [tokens : 0 .. Burst, last : Nat]]
  /\ lim \in [Handlers -> Buckets \cup {None}]
  /\ ip \in [Handlers -> IPs \cup {None}]
  /\ since \in [Handlers -> Nat]
  /\ admitted \in [IPs -> Nat]
  /\ atTick \in [IPs -> [Ticks -> Nat]]
  /\ \A i \in IPs : lastSeen[i] <= now
  /\ \A b \in Buckets : bucket[b].last <= now

\* A bucket belongs to one address.
OwnInv ==
  \A i, j \in IPs : limiters[i] # None /\ limiters[i] = limiters[j] => i = j

\* A request that has a bucket in hand has that of its address in the map: no
\* eviction can have come since the lookup, which is not so long ago.
HandInv ==
  \A h \in Handlers : lim[h] # None =>
    /\ ip[h] \in IPs /\ limiters[ip[h]] = lim[h]
    /\ since[h] <= lastSeen[ip[h]]
    /\ now <= since[h] + MaxStall

\* No bucket was counted long after its address was last seen.
LastInv ==
  \A i \in IPs : limiters[i] # None =>
    bucket[limiters[i]].last <= lastSeen[i] + MaxStall

\* What the bucket of an address holds; a full one, if it has none.
Refilled(b) == bucket[b].tokens + (now - bucket[b].last) * Rate

Level(b) == IF Refilled(b) > Burst THEN Burst ELSE Refilled(b)

Held(i) == IF limiters[i] = None THEN Burst ELSE Level(limiters[i])

Worth(k) == Burst + Rate * (now - k)  \* what a window from tick k may admit

Potential == \A i \in IPs, k \in 0 .. now : Spent(i, k) + Held(i) <= Worth(k)

Tight == \A i \in IPs : \E k \in 0 .. now : Spent(i, k) + Held(i) = Worth(k)

TableInv == TypeInv /\ OwnInv /\ HandInv /\ LastInv

LimiterInv == TableInv /\ Potential /\ Tight

--------------------------------------------------------------------------------
(***************************************************************************)
(* Arithmetic                                                              *)
(***************************************************************************)

LEMMA ConstantsAreNat ==
  /\ Rate \in Nat /\ Burst \in Nat /\ EvictAfter \in Nat /\ MaxStall \in Nat
  /\ MaxTime \in Nat
  BY LimiterAssumption

\* One more tick.
LEMMA OneMore ==
  ASSUME NEW x \in Int
  PROVE  (x + 1) * Rate = x * Rate + Rate /\ Rate * (x + 1) = Rate * x + Rate
  BY ConstantsAreNat

\* The time from the last count of a bucket to its eviction fills it.
LEMMA LongEnough ==
  ASSUME NEW x \in Nat, x >= EvictAfter + 1 - MaxStall
  PROVE  x * Rate >= Burst
<1>1. PICK d \in Nat : x = (EvictAfter + 1 - MaxStall) + d
  <2>1. x - (EvictAfter + 1 - MaxStall) \in Nat
    BY ConstantsAreNat
  <2> QED BY <2>1, ConstantsAreNat
<1>2. x * Rate = Rate * (EvictAfter + 1 - MaxStall) + Rate * d
  BY <1>1, ConstantsAreNat
<1>3. Rate * d >= 0 /\ Burst <= Rate * (EvictAfter + 1 - MaxStall)
  BY LimiterAssumption, ConstantsAreNat
<1>4. Rate * d \in Int /\ Rate * (EvictAfter + 1 - MaxStall) \in Int
      /\ x * Rate \in Int
  BY ConstantsAreNat
<1> QED BY <1>2, <1>3, <1>4, ConstantsAreNat

LEMMA LevelType ==
  ASSUME TypeInv, NEW b \in Buckets
  PROVE  /\ Level(b) \in 0 .. Burst
         /\ Refilled(b) \in Nat
<1>1. /\ bucket[b].tokens \in 0 .. Burst /\ bucket[b].last \in Nat
      /\ now \in Nat /\ bucket[b].last <= now
  BY DEF TypeInv, Ticks
<1>2. now - bucket[b].last \in Nat
  BY <1>1
<1>3. (now - bucket[b].last) * Rate \in Nat
  BY <1>2, ConstantsAreNat
<1>4. Refilled(b) \in Nat
  BY <1>1, <1>3, ConstantsAreNat DEF Refilled
<1> QED BY <1>4, ConstantsAreNat DEF Level

LEMMA HeldType == ASSUME TypeInv, NEW i \in IPs PROVE Held(i) \in 0 .. Burst
  BY LevelType, ConstantsAreNat DEF Held, TypeInv

--------------------------------------------------------------------------------
(***************************************************************************)
(* The table                                                               *)
(***************************************************************************)

LEMMA TableStarts == Init => TableInv
  BY ConstantsAreNat DEF Init, TableInv, TypeInv, OwnInv, HandInv, LastInv, Ticks

\* What the types say of one bucket, one handler and one address.
LEMMA TypesOf ==
  ASSUME TypeInv
  PROVE  /\ now \in Nat
         /\ \A i \in IPs : /\ lastSeen[i] \in Nat /\ lastSeen[i] <= now
                           /\ limiters[i] # None => limiters[i] \in Buckets
                           /\ admitted[i] \in Nat
                           /\ \A k \in Ticks : atTick[i][k] \in Nat
         /\ \A b \in Buckets : /\ bucket[b].last \in Nat /\ bucket[b].last <= now
                               /\ bucket[b].tokens \in 0 .. Burst
         /\ \A h \in Handlers : /\ lim[h] # None => lim[h] \in Buckets
                                /\ since[h] \in Nat
<1>1. now \in Nat
  BY ConstantsAreNat DEF TypeInv, Ticks
<1>2. \A i \in IPs : /\ lastSeen[i] \in Nat /\ lastSeen[i] <= now
                     /\ limiters[i] # None => limiters[i] \in Buckets
                     /\ admitted[i] \in Nat
                     /\ \A k \in Ticks : atTick[i][k] \in Nat
  BY DEF TypeInv
<1>3. \A b \in Buckets : /\ bucket[b].last \in Nat /\ bucket[b].last <= now
                         /\ bucket[b].tokens \in 0 .. Burst
  BY DEF TypeInv
<1>4. \A h \in Handlers : /\ lim[h] # None => lim[h] \in Buckets
                          /\ since[h] \in Nat
  BY DEF TypeInv
<1> QED BY <1>1, <1>2, <1>3, <1>4

LEMMA LookupStamps ==
  ASSUME TypeInv, NEW h \in Handlers, NEW i \in IPs, Lookup(h, i)
  PROVE  /\ UNCHANGED <<now, admitted, atTick>>
         /\ \A j \in IPs : lastSeen'[j] = IF j = i THEN now ELSE lastSeen[j]
         /\ \A j \in IPs : lastSeen'[j] \in Nat /\ lastSeen'[j] >= lastSeen[j]
                           /\ lastSeen'[j] <= now
         /\ \A g \in Handlers :
              /\ ip'[g] = IF g = h THEN i ELSE ip[g]
              /\ since'[g] = IF g = h THEN now ELSE since[g]
         /\ lastSeen' \in [IPs -> Nat] /\ since' \in [Handlers -> Nat]
         /\ ip' \in [Handlers -> IPs \cup {None}]
<1>1. /\ UNCHANGED <<now, admitted, atTick>>
      /\ lastSeen' = [lastSeen EXCEPT ![i] = now]
      /\ ip' = [ip EXCEPT ![h] = i] /\ since' = [since EXCEPT ![h] = now]
  BY DEF Lookup, history
<1>2. now \in Nat
  BY TypesOf
<1>3. \A j \in IPs : lastSeen'[j] = IF j = i THEN now ELSE lastSeen[j]
  BY <1>1 DEF TypeInv
<1>4. \A j \in IPs : lastSeen'[j] \in Nat /\ lastSeen'[j] >= lastSeen[j]
                     /\ lastSeen'[j] <= now
  BY <1>2, <1>3, TypesOf
<1> QED BY <1>1, <1>2, <1>3, <1>4 DEF TypeInv

LEMMA LookupTable ==
  ASSUME TableInv, NEW h \in Handlers, NEW i \in IPs, Lookup(h, i)
  PROVE  TableInv'
<1>0. TypeInv /\ OwnInv /\ HandInv /\ LastInv
  BY DEF TableInv
<1>1. CASE limiters[i] # None
  <2>1. /\ lim' = [lim EXCEPT ![h] = limiters[i]]
        /\ UNCHANGED <<limiters, bucket>>
    BY <1>1 DEF Lookup
  <2>2. limiters[i] \in Buckets
    BY <1>0, <1>1, TypesOf
  <2>3. \A g \in Handlers : lim'[g] = IF g = h THEN limiters[i] ELSE lim[g]
    BY <1>0, <2>1 DEF TypeInv
  <2>4. TypeInv'
    BY <1>0, <2>1, <2>2, LookupStamps DEF TypeInv
  <2>5. OwnInv'
    BY <1>0, <2>1 DEF OwnInv
  <2>6. LastInv'
    <3> SUFFICES ASSUME NEW j \in IPs, limiters[j] # None
                 PROVE  bucket[limiters[j]].last <= lastSeen'[j] + MaxStall
      BY <2>1 DEF LastInv
    <3>1. bucket[limiters[j]].last <= lastSeen[j] + MaxStall
      BY <1>0 DEF LastInv
    <3>2. bucket[limiters[j]].last \in Nat /\ lastSeen[j] \in Nat
      BY <1>0, TypesOf
    <3> QED BY <1>0, <3>1, <3>2, LookupStamps, ConstantsAreNat
  <2>7. HandInv'
    BY <1>0, <1>1, <2>1, <2>3, LookupStamps, TypesOf, ConstantsAreNat DEF HandInv
  <2> QED BY <2>4, <2>5, <2>6, <2>7 DEF TableInv
<1>2. CASE limiters[i] = None
  <2>1. PICK b \in Buckets :
          /\ Unreachable(b)
          /\ lim' = [lim EXCEPT ![h] = b]
          /\ limiters' = [limiters EXCEPT ![i] = b]
          /\ bucket' = [bucket EXCEPT ![b] = NewLimiter]
    BY <1>2 DEF Lookup
  <2>2. /\ \A g \in Handlers : lim'[g] = IF g = h THEN b ELSE lim[g]
        /\ \A j \in IPs : limiters'[j] = IF j = i THEN b ELSE limiters[j]
        /\ \A c \in Buckets : bucket'[c] = IF c = b THEN NewLimiter ELSE bucket[c]
    BY <1>0, <2>1 DEF TypeInv
  <2>3. NewLimiter \in [tokens : 0 .. Burst, last : Nat] /\ NewLimiter.last = now
    BY <1>0, TypesOf, ConstantsAreNat DEF NewLimiter
  <2>4. TypeInv'
    <3>1. \A c \in Buckets : bucket'[c].last <= now
      BY <1>0, <2>2, <2>3, TypesOf
    <3>2. bucket' \in [Buckets -> [tokens : 0 .. Burst, last : Nat]]
      BY <1>0, <2>1, <2>3 DEF TypeInv
    <3> QED BY <1>0, <2>1, <3>1, <3>2, LookupStamps DEF TypeInv
  <2>5. OwnInv'
    BY <1>0, <2>1, <2>2 DEF OwnInv, Unreachable
  <2>6. LastInv'
    <3> SUFFICES ASSUME NEW j \in IPs, limiters'[j] # None
                 PROVE  bucket'[limiters'[j]].last <= lastSeen'[j] + MaxStall
      BY DEF LastInv
    <3>1. CASE j = i
      BY <1>0, <2>2, <2>3, <3>1, LookupStamps, TypesOf, ConstantsAreNat
    <3>2. CASE j # i
      <4>1. limiters'[j] = limiters[j] /\ limiters[j] # b
        BY <2>1, <2>2, <3>2 DEF Unreachable
      <4>2. bucket'[limiters[j]] = bucket[limiters[j]]
        BY <1>0, <2>2, <4>1, TypesOf
      <4>3. bucket[limiters[j]].last <= lastSeen[j] + MaxStall
        BY <1>0, <4>1 DEF LastInv
      <4>4. bucket[limiters[j]].last \in Nat /\ lastSeen[j] \in Nat
        BY <1>0, <4>1, TypesOf
      <4> QED BY <1>0, <4>1, <4>2, <4>3, <4>4, LookupStamps, ConstantsAreNat
    <3> QED BY <3>1, <3>2
  <2>7. HandInv'
    <3> SUFFICES ASSUME NEW g \in Handlers, lim'[g] # None
                 PROVE  /\ ip'[g] \in IPs /\ limiters'[ip'[g]] = lim'[g]
                        /\ since'[g] <= lastSeen'[ip'[g]]
                        /\ now <= since'[g] + MaxStall
      BY LookupStamps, <1>0 DEF HandInv
    <3>1. CASE g = h
      BY <1>0, <2>2, <3>1, LookupStamps, TypesOf, ConstantsAreNat
    <3>2. CASE g # h
      <4>1. lim[g] # None /\ ip'[g] = ip[g] /\ since'[g] = since[g]
            /\ lim'[g] = lim[g]
        BY <1>0, <2>2, <3>2, LookupStamps
      <4>2. /\ ip[g] \in IPs /\ limiters[ip[g]] = lim[g]
            /\ since[g] <= lastSeen[ip[g]] /\ now <= since[g] + MaxStall
        BY <1>0, <4>1 DEF HandInv
      <4>3. ip[g] # i
        BY <1>2, <4>1, <4>2
      <4> QED BY <1>0, <2>2, <4>1, <4>2, <4>3, LookupStamps
    <3> QED BY <3>1, <3>2
  <2> QED BY <2>4, <2>5, <2>6, <2>7 DEF TableInv
<1> QED BY <1>1, <1>2

\* What Allow uses up of the bucket that it has in hand.
LEMMA AdmitLevel ==
  ASSUME TableInv, NEW h \in Handlers, Admit(h)
  PROVE  /\ lim[h] \in Buckets /\ ip[h] \in IPs /\ limiters[ip[h]] = lim[h]
         /\ Available(h) = Level(lim[h]) /\ Level(lim[h]) \in 1 .. Burst
         /\ bucket' = [bucket EXCEPT ![lim[h]] =
                         [tokens |-> Level(lim[h]) - 1, last |-> now]]
<1>1. lim[h] \in Buckets /\ ip[h] \in IPs /\ limiters[ip[h]] = lim[h]
  BY DEF Admit, TableInv, TypeInv, HandInv
<1>2. Available(h) = Level(lim[h])
  BY DEF Available, Level, Refilled
<1>3. Level(lim[h]) \in 0 .. Burst
  BY <1>1, LevelType DEF TableInv
<1> QED BY <1>1, <1>2, <1>3, ConstantsAreNat DEF Admit

LEMMA AdmitTable ==
  ASSUME TableInv, NEW h \in Handlers, Admit(h)
  PROVE  TableInv'
<1>0. TypeInv /\ OwnInv /\ HandInv /\ LastInv
  BY DEF TableInv
<1>1. /\ UNCHANGED <<now, limiters, lastSeen, atTick>>
      /\ lim' = [lim EXCEPT ![h] = None] /\ ip' = [ip EXCEPT ![h] = None]
      /\ since' = [since EXCEPT ![h] = 0]
      /\ admitted' = [admitted EXCEPT ![ip[h]] = @ + 1]
  BY DEF Admit, Done, tableVars
<1>2. \A b \in Buckets :
        bucket'[b] = IF b = lim[h] THEN [tokens |-> Level(lim[h]) - 1, last |-> now]
                     ELSE bucket[b]
  BY <1>0, AdmitLevel DEF TypeInv
<1>3. TypeInv'
  <2>0. Level(lim[h]) \in 1 .. Burst
    BY AdmitLevel
  <2>1. Level(lim[h]) - 1 \in 0 .. Burst
    BY <2>0, ConstantsAreNat
  <2>2. /\ bucket' \in [Buckets -> [tokens : 0 .. Burst, last : Nat]]
        /\ \A b \in Buckets : bucket'[b].last <= now
    <3> DEFINE c == [tokens |-> Level(lim[h]) - 1, last |-> now]
    <3>1. c \in [tokens : 0 .. Burst, last : Nat] /\ c.last = now /\ now \in Nat
      BY <1>0, <2>1, TypesOf
    <3>2. bucket' = [bucket EXCEPT ![lim[h]] = c]
      BY AdmitLevel
    <3> HIDE DEF c
    <3>3. bucket' \in [Buckets -> [tokens : 0 .. Burst, last : Nat]]
      BY <1>0, <3>1, <3>2 DEF TypeInv
    <3>4. \A b \in Buckets : bucket'[b] = c \/ bucket'[b] = bucket[b]
      BY <1>0, <3>2 DEF TypeInv
    <3> QED BY <1>0, <3>1, <3>3, <3>4, TypesOf
  <2>3. admitted' \in [IPs -> Nat]
    BY <1>0, <1>1, AdmitLevel DEF TypeInv
  <2> QED BY <1>0, <1>1, <2>2, <2>3 DEF TypeInv
<1>4. OwnInv' /\ HandInv'
  BY <1>0, <1>1 DEF TypeInv, OwnInv, HandInv
<1>5. LastInv'
  <2> SUFFICES ASSUME NEW j \in IPs, limiters[j] # None
               PROVE  bucket'[limiters[j]].last <= lastSeen[j] + MaxStall
    BY <1>1 DEF LastInv
  <2>1. CASE limiters[j] = lim[h]
    <3>1. j = ip[h] /\ lim[h] \in Buckets /\ lim[h] # None
      BY <1>0, <2>1, AdmitLevel DEF OwnInv, Admit
    <3>2. now <= lastSeen[j] + MaxStall
      <4>1. since[h] <= lastSeen[j] /\ now <= since[h] + MaxStall
        BY <1>0, <3>1 DEF HandInv
      <4> QED BY <1>0, <4>1, TypesOf, ConstantsAreNat
    <3> QED BY <1>2, <2>1, <3>1, <3>2
  <2>2. CASE limiters[j] # lim[h]
    BY <1>0, <1>2, <2>2, TypesOf DEF LastInv
  <2> QED BY <2>1, <2>2
<1> QED BY <1>3, <1>4, <1>5 DEF TableInv

LEMMA RefuseTable ==
  ASSUME TableInv, NEW h \in Handlers, Refuse(h)
  PROVE  TableInv'
  BY ConstantsAreNat
  DEF Refuse, Done, tableVars, TableInv, TypeInv, OwnInv, HandInv, LastInv

\* A request in hand keeps its address from being evicted.
LEMMA EvictTable == ASSUME TableInv, Evict PROVE TableInv'
<1>1. /\ limiters' = [i \in IPs |-> IF Idle(i) THEN None ELSE limiters[i]]
      /\ UNCHANGED <<now, lastSeen, bucket, lim, ip, since, admitted, atTick>>
  BY DEF Evict, handlerVars, history
<1>2. ASSUME NEW h \in Handlers, lim[h] # None PROVE ~Idle(ip[h])
  BY <1>2, LimiterAssumption, ConstantsAreNat
  DEF TableInv, TypeInv, HandInv, Idle, Ticks
<1>3. TypeInv' /\ OwnInv' /\ LastInv'
  BY <1>1 DEF TableInv, TypeInv, OwnInv, LastInv
<1>4. HandInv'
  BY <1>1, <1>2 DEF TableInv, HandInv
<1> QED BY <1>3, <1>4 DEF TableInv

LEMMA TickTable == ASSUME TableInv, Tick PROVE TableInv'
<1>1. /\ now' = now + 1 /\ now' \in Ticks
      /\ atTick' = [i \in IPs |-> [atTick[i] EXCEPT ![now'] = admitted[i]]]
      /\ UNCHANGED <<limiters, lastSeen, bucket, lim, ip, since, admitted>>
  BY ConstantsAreNat
  DEF Tick, tableVars, handlerVars, TableInv, TypeInv, Ticks
<1>2. TypeInv'
  BY <1>1, ConstantsAreNat DEF TableInv, TypeInv, Ticks
<1>3. OwnInv' /\ LastInv'
  BY <1>1 DEF TableInv, OwnInv, LastInv
<1>4. HandInv'
  BY <1>1, ConstantsAreNat DEF Tick, TableInv, TypeInv, HandInv, Ticks
<1> QED BY <1>2, <1>3, <1>4 DEF TableInv

LEMMA TableSteps == ASSUME TableInv, [Next]_vars PROVE TableInv'
<1>1. CASE UNCHANGED vars
  BY <1>1
  DEF vars, tableVars, handlerVars, history, TableInv, TypeInv, OwnInv, HandInv,
      LastInv
<1> QED BY <1>1, LookupTable, AdmitTable, RefuseTable, EvictTable, TickTable DEF Next

--------------------------------------------------------------------------------
(***************************************************************************)
(* The windows                                                             *)
(***************************************************************************)

LEMMA SpentType ==
  ASSUME TypeInv, NEW i \in IPs, NEW k \in 0 .. now
  PROVE  Spent(i, k) \in Int /\ Worth(k) \in Int /\ k \in Ticks
<1>1. now \in Nat /\ now <= MaxTime
  BY ConstantsAreNat DEF TypeInv, Ticks
<1>2. k \in Ticks /\ now - k \in Int
  BY <1>1, ConstantsAreNat DEF Ticks
<1>3. Rate * (now - k) \in Int
  BY <1>2, ConstantsAreNat
<1> QED BY <1>2, <1>3, TypesOf, ConstantsAreNat DEF Spent, Worth

\* A step that keeps the clock, and takes as much out of a bucket as it admits.
LEMMA SameWorth ==
  ASSUME TypeInv, now' = now, atTick' = atTick,
         \A i \in IPs : Held(i)' = Held(i) - (admitted'[i] - admitted[i]),
         TypeInv', Potential, Tight
  PROVE  Potential' /\ Tight'
<1>1. ASSUME NEW i \in IPs, NEW k \in 0 .. now
      PROVE  Spent(i, k)' + Held(i)' = Spent(i, k) + Held(i)
  <2>1. Held(i) \in Int
    BY HeldType, ConstantsAreNat
  <2>2. admitted[i] \in Int /\ atTick[i][k] \in Int
    BY SpentType, TypesOf
  <2>3. admitted'[i] \in Int
    BY DEF TypeInv
  <2> QED BY <2>1, <2>2, <2>3 DEF Spent
<1>2. \A k : Worth(k)' = Worth(k)
  BY DEF Worth
<1> QED BY <1>1, <1>2 DEF Potential, Tight

LEMMA HeldStays ==
  ASSUME NEW i \in IPs, UNCHANGED <<now, bucket>>, limiters'[i] = limiters[i]
  PROVE  Held(i)' = Held(i)
  BY DEF Held, Level, Refilled

\* A new bucket is full, and those of other addresses stay.
LEMMA LookupWorth ==
  ASSUME TableInv, NEW h \in Handlers, NEW i \in IPs, Lookup(h, i)
  PROVE  \A j \in IPs : Held(j)' = Held(j)
<1>1. now' = now
  BY DEF Lookup
<1>2. CASE limiters[i] # None
  BY <1>1, <1>2, HeldStays DEF Lookup
<1>3. CASE limiters[i] = None
  <2>1. PICK b \in Buckets :
          /\ Unreachable(b)
          /\ limiters' = [limiters EXCEPT ![i] = b]
          /\ bucket' = [bucket EXCEPT ![b] = NewLimiter]
    BY <1>3 DEF Lookup
  <2>2. Held(i)' = Burst
    <3>1. /\ limiters'[i] = b /\ b # None
          /\ bucket'[b].tokens = Burst /\ bucket'[b].last = now
      BY <2>1, LimiterAssumption DEF TableInv, TypeInv, NewLimiter
    <3>2. (now' - bucket'[b].last) * Rate = 0
      BY <1>1, <3>1, ConstantsAreNat DEF TableInv, TypeInv, Ticks
    <3>3. Refilled(b)' = Burst
      BY <3>1, <3>2, ConstantsAreNat DEF Refilled
    <3> QED BY <3>1, <3>3, ConstantsAreNat DEF Held, Level
  <2>3. ASSUME NEW j \in IPs, j # i PROVE Held(j)' = Held(j)
    <3>1. limiters'[j] = limiters[j] /\ limiters[j] # b
      BY <2>1, <2>3 DEF TableInv, TypeInv, Unreachable
    <3>2. limiters[j] # None => bucket'[limiters[j]] = bucket[limiters[j]]
      BY <2>1, <3>1 DEF TableInv, TypeInv
    <3> QED BY <1>1, <3>1, <3>2 DEF Held, Level, Refilled
  <2> QED BY <1>3, <2>2, <2>3 DEF Held
<1> QED BY <1>2, <1>3

LEMMA AdmitWorth ==
  ASSUME TableInv, NEW h \in Handlers, Admit(h), NEW i \in IPs
  PROVE  Held(i)' = Held(i) - (admitted'[i] - admitted[i])
<1>1. /\ UNCHANGED <<now, limiters>>
      /\ admitted' = [admitted EXCEPT ![ip[h]] = @ + 1]
  BY DEF Admit, Done, tableVars
<1>2. CASE i = ip[h]
  <2> DEFINE b == limiters[i]
  <2>1. /\ b \in Buckets /\ b # None /\ b' = b
        /\ bucket'[b].tokens = Level(b) - 1 /\ bucket'[b].last = now
        /\ Level(b) \in 1 .. Burst
    BY <1>1, <1>2, AdmitLevel, LimiterAssumption DEF TableInv, TypeInv
  <2>2. (now' - bucket'[b].last) * Rate = 0
    BY <1>1, <2>1, ConstantsAreNat DEF TableInv, TypeInv, Ticks
  <2>3. Held(i)' = Level(b) - 1
    <3>1. Refilled(b)' = Level(b) - 1
      BY <2>1, <2>2, ConstantsAreNat DEF Refilled
    <3> QED BY <1>1, <2>1, <3>1, ConstantsAreNat DEF Held, Level
  <2>4. Held(i) = Level(b)
    BY <2>1 DEF Held
  <2>5. admitted'[i] = admitted[i] + 1 /\ admitted[i] \in Nat
    BY <1>1, <1>2 DEF TableInv, TypeInv
  <2> HIDE DEF b
  <2> QED BY <2>1, <2>3, <2>4, <2>5, ConstantsAreNat
<1>3. CASE i # ip[h]
  <2>1. limiters[i] # None =>
          /\ limiters[i] # lim[h]
          /\ bucket'[limiters[i]] = bucket[limiters[i]]
    BY <1>3, AdmitLevel DEF TableInv, TypeInv, OwnInv
  <2>2. Held(i)' = Held(i) /\ admitted'[i] = admitted[i]
    BY <1>1, <1>3, <2>1 DEF Held, Level, Refilled, TableInv, TypeInv
  <2>3. Held(i) \in Int /\ admitted[i] \in Int
    BY HeldType, TypesOf, ConstantsAreNat DEF TableInv
  <2> QED BY <2>2, <2>3
<1> QED BY <1>2, <1>3

\* What is evicted was full.
LEMMA EvictWorth ==
  ASSUME TableInv, Evict, NEW i \in IPs
  PROVE  Held(i)' = Held(i)
<1>1. /\ limiters'[i] = IF Idle(i) THEN None ELSE limiters[i]
      /\ UNCHANGED <<now, bucket>>
  BY DEF Evict
<1>2. CASE ~Idle(i)
  BY <1>1, <1>2, HeldStays
<1>3. CASE Idle(i)
  <2> DEFINE b == limiters[i]
  <2>1. b # None /\ b \in Buckets /\ now - lastSeen[i] > EvictAfter
    BY <1>3 DEF Idle, TableInv, TypeInv
  <2>2. /\ bucket[b].last <= lastSeen[i] + MaxStall /\ lastSeen[i] \in Nat
        /\ bucket[b].last \in Nat /\ bucket[b].last <= now /\ now \in Nat
        /\ bucket[b].tokens \in Nat
    BY <2>1, ConstantsAreNat DEF TableInv, TypeInv, LastInv, Ticks
  <2> HIDE DEF b
  <2>3. /\ now - bucket[b].last \in Nat
        /\ now - bucket[b].last >= EvictAfter + 1 - MaxStall
    BY <2>1, <2>2, ConstantsAreNat
  <2>4. (now - bucket[b].last) * Rate >= Burst
    BY <2>3, LongEnough
  <2>5. (now - bucket[b].last) * Rate \in Nat
    BY <2>3, ConstantsAreNat
  <2>6. Level(b) = Burst
    <3>1. Refilled(b) \in Nat /\ Refilled(b) >= Burst
      BY <2>2, <2>4, <2>5, ConstantsAreNat DEF Refilled
    <3> QED BY <3>1, ConstantsAreNat DEF Level
  <2> QED BY <1>1, <1>3, <2>1, <2>6 DEF Held, b
<1> QED BY <1>2, <1>3

\* A tick adds a token rate to what is worth and no more than that to a bucket.
LEMMA TickHeld ==
  ASSUME TableInv, Tick, NEW i \in IPs
  PROVE  Held(i)' = IF Held(i) + Rate > Burst THEN Burst ELSE Held(i) + Rate
<1>1. now' = now + 1 /\ UNCHANGED <<limiters, bucket>>
  BY DEF Tick, tableVars
<1>2. CASE limiters[i] = None
  BY <1>1, <1>2, ConstantsAreNat DEF Held
<1>3. CASE limiters[i] # None
  <2> DEFINE b == limiters[i]
  <2>1. b \in Buckets
    BY <1>3 DEF TableInv, TypeInv
  <2>2. /\ now \in Nat /\ bucket[b].last \in Nat /\ bucket[b].tokens \in 0 .. Burst
        /\ bucket[b].last <= now
    BY <2>1 DEF TableInv, TypeInv, Ticks
  <2>3. (now - bucket[b].last) * Rate \in Nat
    BY <2>2, ConstantsAreNat
  <2>4. (now' - bucket[b].last) * Rate = (now - bucket[b].last) * Rate + Rate
    <3>1. now' - bucket[b].last = (now - bucket[b].last) + 1
          /\ now - bucket[b].last \in Int
      BY <1>1, <2>2
    <3> QED BY <3>1, OneMore
  <2>5. Held(i) = Level(b) /\ Held(i)' = Level(b)'
    BY <1>1, <1>3 DEF Held
  <2>6. Refilled(b)' = Refilled(b) + Rate /\ Refilled(b) \in Nat
    <3>1. Refilled(b) \in Nat
      BY <2>1, LevelType DEF TableInv
    <3>2. bucket'[b] = bucket[b] /\ b' = b
      BY <1>1
    <3> QED BY <2>2, <2>3, <2>4, <3>1, <3>2, ConstantsAreNat DEF Refilled
  <2>7. Level(b)' = IF Refilled(b)' > Burst THEN Burst ELSE Refilled(b)'
    BY DEF Level
  <2> QED BY <2>5, <2>6, <2>7, ConstantsAreNat DEF Level
<1> QED BY <1>2, <1>3

LEMMA TickWorth ==
  ASSUME TableInv, Potential, Tight, Tick
  PROVE  Potential' /\ Tight'
<1>1. /\ now' = now + 1 /\ now \in Nat /\ now' \in Ticks
      /\ atTick' = [i \in IPs |-> [atTick[i] EXCEPT ![now'] = admitted[i]]]
      /\ admitted' = admitted
  BY ConstantsAreNat DEF Tick, TableInv, TypeInv, Ticks
<1>2. ASSUME NEW i \in IPs, NEW k, k = now' PROVE Spent(i, k)' = 0
  <2>1. atTick'[i][k] = admitted[i] /\ admitted[i] \in Nat
    BY <1>1, <1>2 DEF TableInv, TypeInv
  <2> QED BY <1>1, <2>1 DEF Spent
<1>3. ASSUME NEW i \in IPs, NEW k \in 0 .. now PROVE Spent(i, k)' = Spent(i, k)
  <2>1. k # now' /\ k \in Ticks
    BY <1>1, <1>3, SpentType DEF TableInv
  <2> QED BY <1>1, <1>3, <2>1 DEF Spent, TableInv, TypeInv
<1>4. ASSUME NEW k \in 0 .. now PROVE Worth(k)' = Worth(k) + Rate
  <2>1. now' - k = (now - k) + 1 /\ now - k \in Int
    BY <1>1, <1>4
  <2>2. Rate * (now' - k) = Rate * (now - k) + Rate
    BY <2>1, OneMore
  <2>3. Rate * (now - k) \in Int
    BY <2>1, ConstantsAreNat
  <2> QED BY <2>2, <2>3, ConstantsAreNat DEF Worth
<1>5. ASSUME NEW k, k = now' PROVE Worth(k)' = Burst
  <2>1. now' - k = 0
    BY <1>1, <1>5
  <2> QED BY <2>1, ConstantsAreNat DEF Worth
<1>6. ASSUME NEW i \in IPs, NEW k \in 0 .. now
      PROVE  /\ Spent(i, k) \in Int /\ Worth(k) \in Int /\ Held(i) \in 0 .. Burst
  BY <1>6, SpentType, HeldType DEF TableInv
<1>7. ASSUME NEW i \in IPs PROVE Held(i) \in 0 .. Burst /\ Held(i)' \in 0 .. Burst
  BY <1>7, HeldType, TickHeld, ConstantsAreNat DEF TableInv
<1>8. Potential'
  <2> SUFFICES ASSUME NEW i \in IPs, NEW k \in 0 .. now'
               PROVE  Spent(i, k)' + Held(i)' <= Worth(k)'
    BY DEF Potential
  <2>1. CASE k = now'
    <3>1. Spent(i, k)' = 0 /\ Worth(k)' = Burst
      BY <1>2, <1>5, <2>1
    <3> QED BY <1>7, <3>1, ConstantsAreNat
  <2>2. CASE k # now'
    <3>1. k \in 0 .. now
      BY <1>1, <2>2
    <3>2. Spent(i, k) + Held(i) <= Worth(k)
      BY <3>1 DEF Potential
    <3>3. Held(i)' <= Held(i) + Rate
      BY <1>7, TickHeld, ConstantsAreNat
    <3> QED BY <1>3, <1>4, <1>6, <1>7, <3>1, <3>2, <3>3, ConstantsAreNat
  <2> QED BY <2>1, <2>2
<1>9. Tight'
  <2> SUFFICES ASSUME NEW i \in IPs
               PROVE  \E k \in 0 .. now' : Spent(i, k)' + Held(i)' = Worth(k)'
    BY DEF Tight
  <2>1. CASE Held(i) + Rate > Burst
    <3>1. PICK k \in 0 .. now' : k = now'
      BY <1>1
    <3>2. Spent(i, k)' = 0 /\ Worth(k)' = Burst /\ Held(i)' = Burst
      BY <1>2, <1>5, <2>1, <3>1, TickHeld
    <3> QED BY <3>2, ConstantsAreNat
  <2>2. CASE ~(Held(i) + Rate > Burst)
    <3>1. PICK k \in 0 .. now : Spent(i, k) + Held(i) = Worth(k)
      BY DEF Tight
    <3>2. Held(i)' = Held(i) + Rate /\ k \in 0 .. now'
      BY <1>1, <2>2, TickHeld
    <3>3. Spent(i, k)' + Held(i)' = Worth(k)'
      BY <1>3, <1>4, <1>6, <3>1, <3>2, ConstantsAreNat
    <3> QED BY <3>2, <3>3
  <2> QED BY <2>1, <2>2
<1> QED BY <1>8, <1>9

--------------------------------------------------------------------------------
(***************************************************************************)
(* The invariant                                                           *)
(***************************************************************************)

LEMMA LimiterStarts == Init => LimiterInv
<1> SUFFICES ASSUME Init PROVE LimiterInv
  OBVIOUS
<1>1. TableInv
  BY TableStarts
<1>2. ASSUME NEW i \in IPs PROVE Held(i) = Burst /\ Spent(i, 0) = 0
  BY <1>2, ConstantsAreNat DEF Init, Held, Spent, Ticks
<1>3. now = 0 /\ 0 .. now = {0} /\ Worth(0) = Burst
  BY ConstantsAreNat DEF Init, Worth
<1>4. Potential /\ Tight
  BY <1>2, <1>3, ConstantsAreNat DEF Potential, Tight
<1> QED BY <1>1, <1>4 DEF LimiterInv

LEMMA LimiterSteps == ASSUME LimiterInv, [Next]_vars PROVE LimiterInv'
<1>1. TableInv /\ TableInv' /\ TypeInv /\ TypeInv' /\ Potential /\ Tight
  BY TableSteps DEF LimiterInv, TableInv
<1>2. CASE Tick
  BY <1>1, <1>2, TickWorth DEF LimiterInv
<1>3. CASE \E h \in Handlers : Admit(h)
  <2>1. PICK h \in Handlers : Admit(h)
    BY <1>3
  <2>2. now' = now /\ atTick' = atTick
    BY <2>1 DEF Admit, Done
  <2>3. \A i \in IPs : Held(i)' = Held(i) - (admitted'[i] - admitted[i])
    BY <1>1, <2>1, AdmitWorth
  <2> QED BY <1>1, <2>2, <2>3, SameWorth DEF LimiterInv
<1>4. CASE \/ \E h \in Handlers : (\E i \in IPs : Lookup(h, i)) \/ Refuse(h)
           \/ Evict \/ UNCHANGED vars
  <2>1. now' = now /\ atTick' = atTick /\ admitted' = admitted
    BY <1>4 DEF Lookup, Refuse, Done, Evict, vars, history
  <2>2. ASSUME NEW h \in Handlers, Refuse(h) PROVE \A i \in IPs : Held(i)' = Held(i)
    BY <2>2, HeldStays DEF Refuse, Done, tableVars
  <2>3. ASSUME UNCHANGED vars PROVE \A i \in IPs : Held(i)' = Held(i)
    BY <2>3, HeldStays DEF vars, tableVars
  <2>4. \A i \in IPs : Held(i)' = Held(i)
    BY <1>1, <1>4, <2>2, <2>3, LookupWorth, EvictWorth
  <2>5. \A i \in IPs : Held(i) \in Int /\ admitted[i] \in Int
    BY <1>1, HeldType, TypesOf, ConstantsAreNat
  <2>6. \A i \in IPs : Held(i)' = Held(i) - (admitted'[i] - admitted[i])
    BY <2>1, <2>4, <2>5
  <2> QED BY <1>1, <2>1, <2>6, SameWorth DEF LimiterInv
<1> QED BY <1>2, <1>3, <1>4 DEF Next

LEMMA LimiterKeepsInv == Spec => []LimiterInv
<1>1. LimiterInv /\ [Next]_vars => LimiterInv'
  BY LimiterSteps
<1> QED BY <1>1, LimiterStarts, PTL DEF Spec

--------------------------------------------------------------------------------
(***************************************************************************)
(* Theorems                                                                *)
(***************************************************************************)

\* In no window of time is an address admitted more than its burst and the rate
\* times the window, however lookups, admissions and evictions interleave
\* (ratelimit.go; README.md lines 129 and 130).
THEOREM WindowsBounded == Spec => []WindowBound
<1>1. LimiterInv => WindowBound
  <2> SUFFICES ASSUME LimiterInv, NEW i \in IPs, NEW k \in 0 .. now
               PROVE  Spent(i, k) <= Burst + Rate * (now - k)
    BY DEF WindowBound
  <2>1. /\ Spent(i, k) \in Int /\ Worth(k) \in Int /\ Held(i) \in 0 .. Burst
        /\ Spent(i, k) + Held(i) <= Worth(k)
    BY SpentType, HeldType DEF LimiterInv, TableInv, Potential
  <2> QED BY <2>1, ConstantsAreNat DEF Worth
<1> QED BY <1>1, LimiterKeepsInv, PTL

\* Requests of one address that are between lookup and Allow share its bucket, and
\* those of two addresses never do: no eviction comes in between.
THEOREM BucketsShared == Spec => []OneBucketPerAddress
<1>1. LimiterInv => OneBucketPerAddress
  BY DEF LimiterInv, TableInv, TypeInv, OwnInv, HandInv, OneBucketPerAddress
<1> QED BY <1>1, LimiterKeepsInv, PTL

\* A request is refused only if some window would have been exceeded by it: the
\* limiter takes no token that it does not admit a request for.
THEOREM RefusalsJustified == Spec => RefusalJustified
<1> DEFINE Justified ==
      \A h \in Handlers :
        lim[h] # None /\ lim'[h] = None /\ admitted' = admitted =>
          \E k \in 0 .. now : Spent(ip[h], k) + 1 > Burst + Rate * (now - k)
<1>1. LimiterInv /\ [Next]_vars => [Justified]_vars
  <2> SUFFICES ASSUME LimiterInv, Next, NEW h \in Handlers,
                      lim[h] # None, lim'[h] = None, admitted' = admitted
               PROVE  \E k \in 0 .. now :
                        Spent(ip[h], k) + 1 > Burst + Rate * (now - k)
    OBVIOUS
  <2>1. Refuse(h)
    <3>1. ASSUME NEW g \in Handlers, NEW i \in IPs, Lookup(g, i) PROVE FALSE
      BY <3>1, LimiterAssumption DEF Lookup, LimiterInv, TableInv, TypeInv
    <3>2. ASSUME NEW g \in Handlers, Admit(g) PROVE FALSE
      <4>1. ip[g] \in IPs /\ admitted' = [admitted EXCEPT ![ip[g]] = @ + 1]
        BY <3>2, AdmitLevel DEF LimiterInv, Admit
      <4> QED BY <4>1 DEF LimiterInv, TableInv, TypeInv
    <3>3. ASSUME NEW g \in Handlers, Refuse(g) PROVE g = h
      BY <3>3 DEF Refuse, Done, LimiterInv, TableInv, TypeInv
    <3>4. ~Evict /\ ~Tick
      BY DEF Evict, Tick, handlerVars
    <3> QED BY <3>1, <3>2, <3>3, <3>4 DEF Next
  <2>2. /\ lim[h] \in Buckets /\ ip[h] \in IPs
        /\ limiters[ip[h]] = lim[h]
    BY DEF LimiterInv, TableInv, TypeInv, HandInv
  <2>3. Held(ip[h]) = 0
    <3>1. Available(h) = Level(lim[h]) /\ Available(h) < 1
      BY <2>1 DEF Refuse, Available, Level, Refilled
    <3>2. Level(lim[h]) \in 0 .. Burst
      BY <2>2, LevelType DEF LimiterInv, TableInv
    <3> QED BY <2>2, <3>1, <3>2, ConstantsAreNat DEF Held
  <2>4. PICK k \in 0 .. now : Spent(ip[h], k) + Held(ip[h]) = Worth(k)
    BY <2>2 DEF LimiterInv, Tight
  <2>5. Spent(ip[h], k) \in Int /\ Worth(k) \in Int
    BY <2>2, SpentType DEF LimiterInv, TableInv
  <2>6. Spent(ip[h], k) + 1 > Worth(k)
    BY <2>3, <2>4, <2>5
  <2> QED BY <2>6 DEF Worth
<1> QED BY <1>1, LimiterKeepsInv, PTL DEF Spec, RefusalJustified
================================================================================
