--------------------------- MODULE YtDlpClientProofs ---------------------------
(***************************************************************************)
(* Theorems of YtDlpClient for any finite number of calls and any value of *)
(* MAX_CONCURRENT_YTDLP.  The inductive invariant is the conservation of   *)
(* tokens: those in the channel and those held by calls make up the cap.   *)
(* Then of BulkFetch for any number of bulk requests, goroutines and slots *)
(* of the local semaphores.                                                *)
(***************************************************************************)
EXTENDS BulkFetch, FiniteSetTheorems, TLAPS

\* New turns every configured value into a positive cap.
LEMMA CapPositive == Cap \in Nat /\ Cap > 0
  BY ClientAssumption DEF Cap

\* The calls that hold a token are finitely many.
LEMMA HoldersFinite == IsFiniteSet(Holders) /\ Cardinality(Holders) \in Nat
<1>1. Holders \subseteq Calls
  BY DEF Holders
<1> QED
  BY <1>1, ClientAssumption, FS_Subset, FS_CardinalityType

\* How a step of one call changes who holds a token.
LEMMA MoveHolders ==
  ASSUME TypeOK, NEW c \in Calls, NEW from, NEW to, Move(c, from, to)
  PROVE  /\ pc'[c] = to /\ \A d \in Calls \ {c} : pc'[d] = pc[d]
         /\ pc[c] \in Holding /\ to \in Holding => Holders' = Holders
         /\ pc[c] \notin Holding /\ to \notin Holding => Holders' = Holders
         /\ pc[c] \notin Holding /\ to \in Holding =>
              c \notin Holders /\ Holders' = Holders \cup {c}
         /\ pc[c] \in Holding /\ to \notin Holding =>
              c \in Holders /\ Holders' = Holders \ {c}
<1>1. pc'[c] = to /\ \A d \in Calls \ {c} : pc'[d] = pc[d]
  BY DEF Move, TypeOK
<1> QED
  BY <1>1 DEF Holders

--------------------------------------------------------------------------------
(* Type correctness *)

\* The client starts with all variables in their types.
LEMMA TypeInit == Init => TypeOK
  BY CapPositive DEF Init, TypeOK

\* Every step of a call or of a context keeps the variables in their types;
\* for the channel that needs its bound on both sides.
LEMMA TypeStep == TypeOK /\ [Next]_vars => TypeOK'
<1> SUFFICES ASSUME TypeOK, [Next]_vars PROVE TypeOK'
  OBVIOUS
<1> USE DEF TypeOK, Move
<1>1. ASSUME NEW r \in Requests, Open(r) \/ Expire(r) \/ Close(r) PROVE TypeOK'
  BY <1>1 DEF Open, Expire, Close
<1>2. ASSUME NEW c \in Calls, NEW r \in Requests, Invoke(c, r) PROVE TypeOK'
  BY <1>2 DEF Invoke
<1>3. ASSUME NEW c \in Calls, Acquire(c) PROVE TypeOK'
  BY <1>3, CapPositive DEF Acquire, Holding
<1>4. ASSUME NEW c \in Calls, Refuse(c) PROVE TypeOK'
  BY <1>4 DEF Refuse, Returned
<1>5. ASSUME NEW c \in Calls, Start(c) \/ Kill(c) PROVE TypeOK'
  BY <1>5 DEF Start, Kill, Holding, Running
<1>6. ASSUME NEW c \in Calls, StartFails(c) \/ Exit(c) \/ Drained(c) PROVE TypeOK'
  BY <1>6 DEF StartFails, Exit, Drained, Holding, Ending
<1>7. ASSUME NEW c \in Calls, Release(c) PROVE TypeOK'
  BY <1>7, CapPositive DEF Release, Returned
<1>8. ASSUME NEW c \in Calls, Return(c) PROVE TypeOK'
  BY <1>8 DEF Return
<1>9. CASE UNCHANGED vars
  BY <1>9 DEF vars
<1> QED
  BY <1>1, <1>2, <1>3, <1>4, <1>5, <1>6, <1>7, <1>8, <1>9 DEF Next, Run

\* The client's variables keep their types; above all, the number of tokens
\* in the channel stays between zero and the cap.
THEOREM TypeCorrect == Spec => []TypeOK
  BY TypeInit, TypeStep, PTL DEF Spec

--------------------------------------------------------------------------------
(* Conservation *)

Inv == TypeOK /\ SlotConservation

\* An Acquire takes one token and adds one holder.
LEMMA AcquireEffect ==
  ASSUME TypeOK, NEW c \in Calls, Acquire(c)
  PROVE  /\ slots > 0 /\ slots' = slots - 1
         /\ c \notin Holders /\ Holders' = Holders \cup {c}
         /\ Cardinality(Holders') = Cardinality(Holders) + 1
<1>1. Move(c, {"acquiring"}, "acquired") /\ slots > 0 /\ slots' = slots - 1
  BY DEF Acquire
<1>2. pc[c] \notin Holding /\ "acquired" \in Holding
  BY <1>1 DEF Move, Holding, Running, Ending
<1>3. c \notin Holders /\ Holders' = Holders \cup {c}
  BY <1>1, <1>2, MoveHolders
<1> QED
  BY <1>1, <1>3, HoldersFinite, FS_AddElement

\* A Release puts one token back and removes one holder.
LEMMA ReleaseEffect ==
  ASSUME TypeOK, NEW c \in Calls, Release(c)
  PROVE  /\ slots' = slots + 1
         /\ c \in Holders /\ Holders' = Holders \ {c}
         /\ Cardinality(Holders') = Cardinality(Holders) - 1
<1>1. slots' = slots + 1
  BY DEF Release
<1>2. PICK from \in {{"releaseOk"}, {"releaseErr"}}, to \in {"ok", "failed"} :
        Move(c, from, to)
  BY DEF Release
<1>3. pc[c] \in Holding /\ to \notin Holding
  BY <1>2 DEF Move, Holding, Running, Ending
<1>4. c \in Holders /\ Holders' = Holders \ {c}
  BY <1>2, <1>3, MoveHolders
<1> QED
  BY <1>1, <1>4, HoldersFinite, FS_RemoveElement

\* Every other step leaves the tokens and their holders where they are.
LEMMA OtherSteps ==
  ASSUME TypeOK, [Next]_vars, \A c \in Calls : ~Acquire(c) /\ ~Release(c)
  PROVE  UNCHANGED <<slots, Holders>>
<1>1. ASSUME UNCHANGED <<slots, pc>> PROVE UNCHANGED <<slots, Holders>>
  BY <1>1 DEF Holders
<1>2. ASSUME NEW c \in Calls, NEW r \in Requests, Invoke(c, r)
      PROVE  UNCHANGED <<slots, Holders>>
  <2>1. Move(c, {"idle"}, "acquiring") /\ slots' = slots
    BY <1>2 DEF Invoke
  <2> QED
    BY <2>1, MoveHolders DEF Move, Holding, Running, Ending
<1>3. ASSUME NEW c \in Calls, Refuse(c) \/ Return(c) PROVE UNCHANGED <<slots, Holders>>
  <2>1. slots' = slots /\ \E from, to :
          /\ Move(c, from, to)
          /\ from \cap Holding = {} /\ to \notin Holding
    BY <1>3 DEF Refuse, Return, Returned, Holding, Running, Ending
  <2>2. PICK from, to :
          /\ Move(c, from, to)
          /\ from \cap Holding = {} /\ to \notin Holding
    BY <2>1
  <2>3. pc[c] \notin Holding
    BY <2>2 DEF Move
  <2> QED
    BY <2>1, <2>2, <2>3, MoveHolders
<1>4. ASSUME NEW c \in Calls, Start(c) \/ StartFails(c) \/ Exit(c) \/ Kill(c) \/ Drained(c)
      PROVE  UNCHANGED <<slots, Holders>>
  <2>1. slots' = slots /\ \E from \in SUBSET Holding, to \in Holding : Move(c, from, to)
    BY <1>4 DEF Start, StartFails, Exit, Kill, Drained, Holding, Running, Ending
  <2>2. PICK from \in SUBSET Holding, to \in Holding : Move(c, from, to)
    BY <2>1
  <2>3. pc[c] \in Holding
    BY <2>2 DEF Move
  <2> QED
    BY <2>1, <2>2, <2>3, MoveHolders
<1> QED
  BY <1>1, <1>2, <1>3, <1>4 DEF Next, Run, Open, Expire, Close, vars

\* A new client has all its tokens in the channel.
LEMMA InvInit == Init => Inv
<1> SUFFICES ASSUME Init PROVE SlotConservation
  BY TypeInit DEF Inv
<1>1. Holders = {}
  BY DEF Init, Holders, Holding, Running, Ending
<1> QED
  BY <1>1, CapPositive, FS_EmptySet DEF Init, SlotConservation

\* The conservation of tokens is kept by every step.
LEMMA InvStep == Inv /\ [Next]_vars => Inv'
<1> SUFFICES ASSUME Inv, [Next]_vars PROVE SlotConservation'
  BY TypeStep DEF Inv
<1>0. slots \in Nat /\ Cardinality(Holders) \in Nat /\ Cap' = Cap
  BY HoldersFinite, CapPositive DEF Inv, TypeOK, Cap
<1>1. ASSUME NEW c \in Calls, Acquire(c) PROVE SlotConservation'
  BY <1>0, <1>1, AcquireEffect DEF Inv, SlotConservation
<1>2. ASSUME NEW c \in Calls, Release(c) PROVE SlotConservation'
  BY <1>0, <1>2, ReleaseEffect DEF Inv, SlotConservation
<1>3. ASSUME \A c \in Calls : ~Acquire(c) /\ ~Release(c) PROVE SlotConservation'
  BY <1>0, <1>3, OtherSteps DEF Inv, SlotConservation
<1> QED
  BY <1>1, <1>2, <1>3

\* The conservation of tokens holds in every reachable state.
LEMMA InvAlways == Spec => []Inv
  BY InvInit, InvStep, PTL DEF Spec

\* No interleaving of calls, cancellations and failures loses a token or
\* makes one up.
THEOREM TokensConserved == Spec => []SlotConservation
<1>1. Inv => SlotConservation
  BY DEF Inv
<1> QED
  BY <1>1, InvAlways, PTL

\* However many requests there are, no more than Cap subprocesses exist.
THEOREM ProcessesCapped == Spec => []CapRespected
<1>1. Inv => CapRespected
  <2> SUFFICES ASSUME Inv PROVE CapRespected
    OBVIOUS
  <2>1. {c \in Calls : pc[c] \in Running} \subseteq Holders
    BY DEF Holders, Holding
  <2>2. /\ Cardinality({c \in Calls : pc[c] \in Running}) \in Nat
        /\ Cardinality({c \in Calls : pc[c] \in Running}) <= Cardinality(Holders)
    BY <2>1, HoldersFinite, FS_Subset, FS_CardinalityType
  <2> QED
    BY <2>2, HoldersFinite, CapPositive DEF Inv, TypeOK, SlotConservation, CapRespected
<1> QED
  BY <1>1, InvAlways, PTL

\* The deferred release of a call finds room in the channel, so that run
\* returns as soon as its subprocess is gone.
THEOREM ReleasesNeverBlock == Spec => []ReleaseNeverBlocks
<1>1. Inv => ReleaseNeverBlocks
  <2> SUFFICES ASSUME Inv, NEW c \in Calls, pc[c] \in Ending PROVE slots < Cap
    BY DEF ReleaseNeverBlocks
  <2>1. c \in Holders
    BY DEF Holders, Holding
  <2>2. Cardinality(Holders) # 0
    BY <2>1, HoldersFinite, FS_EmptySet
  <2> QED
    BY <2>2, HoldersFinite, CapPositive DEF Inv, TypeOK, SlotConservation
<1> QED
  BY <1>1, InvAlways, PTL

\* The channel of tokens implements the counting semaphore.
THEOREM ClientImplementsPool == Spec => ImplementsPool
<1>1. Init => Pool!Init
  BY DEF Init, Pool!Init, Holders, Holding, Running, Ending
<1>2. Inv /\ [Next]_vars => [Pool!Next]_Holders
  <2> SUFFICES ASSUME Inv, [Next]_vars PROVE [Pool!Next]_Holders
    OBVIOUS
  <2>1. ASSUME NEW c \in Calls, Acquire(c) PROVE Pool!Enter(c)
    <3>1. Cardinality(Holders) < Cap
      BY <2>1, HoldersFinite, CapPositive, AcquireEffect
         DEF Inv, TypeOK, SlotConservation
    <3>2. Pool!Cardinality(Holders) = Cardinality(Holders)
      BY DEF Pool!Cardinality, Cardinality
    <3> QED
      BY <2>1, <3>1, <3>2, AcquireEffect DEF Inv, Pool!Enter
  <2>2. ASSUME NEW c \in Calls, Release(c) PROVE Pool!Leave(c)
    BY <2>2, ReleaseEffect DEF Inv, Pool!Leave
  <2>3. ASSUME \A c \in Calls : ~Acquire(c) /\ ~Release(c) PROVE UNCHANGED Holders
    BY <2>3, OtherSteps DEF Inv
  <2> QED
    BY <2>1, <2>2, <2>3 DEF Pool!Next
<1> QED
  BY <1>1, <1>2, InvAlways, PTL DEF Spec, ImplementsPool, Pool!Spec

--------------------------------------------------------------------------------
(***************************************************************************)
(* Under the bulk tools                                                    *)
(***************************************************************************)

\* A step of a goroutine, of its request or of a single call is a step of the
\* client's, or none.
LEMMA StepOfClient == [FetchNext]_allVars => [Next]_vars
<1> SUFFICES ASSUME [FetchNext]_allVars PROVE [Next]_vars
  OBVIOUS
<1>1. ASSUME NEW r \in Bulk, Execute(r) \/ Answer(r) PROVE UNCHANGED vars
  BY <1>1 DEF Execute, Answer
<1>2. ASSUME NEW r \in Bulk, Leave(r) PROVE Next
  BY <1>2, BulkFetchAssumption DEF Leave, Next
<1>3. ASSUME NEW c \in InBulk,  TakeSlot(c) \/ Fetch(c) \/ Fetched(c)
      PROVE  [Next]_vars
  <2>1. PICK r \in Bulk : c \in Calls /\ startedBy[c] = r
    BY <1>3 DEF InBulk, Goroutines
  <2>2. r \in Requests
    BY BulkFetchAssumption
  <2>3. CASE TakeSlot(c)
    BY <2>3 DEF TakeSlot
  <2>4. CASE Fetch(c)
    BY <2>1, <2>2, <2>4 DEF Fetch, Next
  <2>5. CASE Fetched(c)
    BY <2>1, <2>5 DEF Fetched, Next, Run
  <2> QED BY <1>3, <2>3, <2>4, <2>5
<1>4. ASSUME NEW c \in Calls, InClient(c) \/ SingleCall(c) PROVE Next
  BY <1>4 DEF InClient, SingleCall, Next, Run
<1>5. CASE Contexts
  BY <1>5 DEF Contexts, Next
<1>6. CASE UNCHANGED allVars
  BY <1>6 DEF allVars
<1> QED BY <1>1, <1>2, <1>3, <1>4, <1>5, <1>6 DEF FetchNext

\* The bulk tools, any number of them at once, and the single calls beside them
\* use the client as it takes its callers to do.
THEOREM BulkUsesClient == FetchSpec => ImplementsClient
<1>1. FetchInit => Init
  BY DEF FetchInit
<1> QED BY <1>1, StepOfClient, PTL DEF FetchSpec, ImplementsClient, Spec

\* No token is lost under the goroutines of bulk tools, with their errors and
\* deferred releases inside one another.
THEOREM BulkKeepsTokens == FetchSpec => []SlotConservation
  BY BulkUsesClient, TokensConserved, PTL DEF ImplementsClient

\* And the pool stays a pool under them.
THEOREM BulkKeepsPool == FetchSpec => ImplementsPool
  BY BulkUsesClient, ClientImplementsPool, PTL DEF ImplementsClient
--------------------------------------------------------------------------------
(***************************************************************************)
(* What a bulk request keeps: the local semaphore, the entries and the     *)
(* calls of its goroutines                                                 *)
(***************************************************************************)

BulkType ==
  /\ bulk \in [Bulk -> {"idle", "running", "answered"}]
  /\ at \in [InBulk -> {"none", "waiting", "inside", "fetching", "left"}]
  /\ result \in [InBulk -> {"empty", "ok", "error"}]

\* Goroutine c follows its request, and is in the client when it says so.
GoroutineInv(c) ==
  /\ at[c] = "none" <=> bulk[startedBy[c]] = "idle"
  /\ bulk[startedBy[c]] = "answered" => at[c] = "left"
  /\ at[c] = "left" => result[c] # "empty"
  /\ at[c] = "fetching" => owner[c] = startedBy[c]
  /\ at[c] # "fetching" => pc[c] = "idle"

\* Only its goroutines make calls for a bulk request, and its context is open
\* from Execute to the end of the handler.
RequestInv ==
  /\ \A c \in Calls : pc[c] = "idle" => owner[c] = None
  /\ \A c \in Calls \ InBulk : owner[c] \notin Bulk
  /\ \A r \in Bulk : bulk[r] # "idle" => ctx[r] # "closed"

\* The goroutines of one request inside its local semaphore are no more than it
\* has room for.
SlotsBounded == \A r \in Bulk : Cardinality(Inside(r)) <= bulkConcurrency

FetchInv ==
  TypeOK /\ BulkType /\ (\A c \in InBulk : GoroutineInv(c)) /\ RequestInv /\ SlotsBounded

\* An answered request has an entry for each of its URLs, and no call of its that
\* is still in the client.
AnswersWhole ==
  \A r \in Bulk : bulk[r] = "answered" =>
    \A c \in Goroutines(r) : result[c] # "empty" /\ pc[c] = "idle"

\* One bulk request fills no more of the pool than its local semaphore lets in.
ShareBounded ==
  \A r \in Bulk : Cardinality({c \in Calls : owner[c] = r}) <= bulkConcurrency

\* A goroutine inside the semaphore can call the client: the context of its
\* request is open, and the call it made before has returned.
CallAllowed ==
  \A c \in InBulk : at[c] = "inside" => ctx[startedBy[c]] # "closed" /\ pc[c] = "idle"

LEMMA GoroutinesOf ==
  /\ \A c \in InBulk : c \in Calls /\ startedBy[c] \in Bulk
  /\ \A c \in Calls : startedBy[c] \in Bulk => c \in InBulk
  /\ \A r \in Bulk : Goroutines(r) = {c \in InBulk : startedBy[c] = r}
  /\ \A r \in Bulk : Inside(r) = {c \in InBulk : startedBy[c] = r
                                                /\ at[c] \in {"inside", "fetching"}}
  /\ Bulk \subseteq Requests /\ None \notin Bulk
  BY BulkFetchAssumption, ClientAssumption DEF InBulk, Goroutines, Inside

LEMMA InsideFinite ==
  ASSUME NEW r \in Bulk
  PROVE  IsFiniteSet(Inside(r)) /\ Cardinality(Inside(r)) \in Nat
<1>1. IsFiniteSet(Calls) /\ Inside(r) \subseteq Calls
  BY ClientAssumption DEF Inside, Goroutines
<1> QED BY <1>1, FS_Subset, FS_CardinalityType

LEMMA FetchStarts == FetchInit => FetchInv
<1> SUFFICES ASSUME FetchInit PROVE FetchInv
  OBVIOUS
<1>1. TypeOK
  BY TypeInit DEF FetchInit
<1>2. BulkType
  BY DEF FetchInit, BulkType
<1>3. \A c \in InBulk : GoroutineInv(c)
  BY GoroutinesOf DEF FetchInit, Init, GoroutineInv
<1>4. RequestInv
  BY GoroutinesOf DEF FetchInit, Init, RequestInv
<1>5. SlotsBounded
  <2> SUFFICES ASSUME NEW r \in Bulk PROVE Cardinality(Inside(r)) <= bulkConcurrency
    BY DEF SlotsBounded
  <2>1. Inside(r) = {}
    BY GoroutinesOf DEF FetchInit
  <2> QED BY <2>1, FS_EmptySet, BulkFetchAssumption
<1> QED BY <1>1, <1>2, <1>3, <1>4, <1>5 DEF FetchInv

\* Where the goroutines stand, the semaphores are filled.
LEMMA SameInside ==
  ASSUME SlotsBounded,
         \A c \in InBulk : at'[c] \in {"inside", "fetching"} =>
                             at[c] \in {"inside", "fetching"}
  PROVE  SlotsBounded'
<1> SUFFICES ASSUME NEW r \in Bulk PROVE Cardinality(Inside(r)') <= bulkConcurrency
  BY DEF SlotsBounded
<1>1. Inside(r)' \in SUBSET Inside(r)
  BY GoroutinesOf DEF Inside, Goroutines
<1> HIDE DEF Inside
<1>2. Cardinality(Inside(r)') <= Cardinality(Inside(r)) /\ IsFiniteSet(Inside(r)')
  BY <1>1, InsideFinite, FS_Subset
<1>3. Cardinality(Inside(r)') \in Nat
  BY <1>2, FS_CardinalityType
<1> QED BY <1>2, <1>3, InsideFinite, BulkFetchAssumption DEF SlotsBounded

LEMMA ExecuteKeeps ==
  ASSUME FetchInv, NEW r \in Bulk, Execute(r)
  PROVE  FetchInv'
<1> USE DEF FetchInv
<1>1. TypeOK'
  BY TypeStep DEF Execute
<1>2. BulkType'
  BY DEF Execute, BulkType
<1>3. ASSUME NEW c \in InBulk PROVE GoroutineInv(c)'
  BY <1>3, GoroutinesOf DEF Execute, BulkType, GoroutineInv, vars
<1>4. RequestInv'
  BY GoroutinesOf DEF Execute, BulkType, RequestInv, vars
<1>5. SlotsBounded'
  <2>1. \A c \in InBulk : at'[c] \in {"inside", "fetching"} =>
                             at[c] \in {"inside", "fetching"}
    BY DEF Execute
  <2> QED BY <2>1, SameInside
<1> QED BY <1>1, <1>2, <1>3, <1>4, <1>5

LEMMA AnswerKeeps ==
  ASSUME FetchInv, NEW r \in Bulk, Answer(r)
  PROVE  FetchInv'
<1> USE DEF FetchInv
<1>1. TypeOK'
  BY TypeStep DEF Answer
<1>2. BulkType'
  BY DEF Answer, BulkType
<1>3. ASSUME NEW c \in InBulk PROVE GoroutineInv(c)'
  BY <1>3, GoroutinesOf DEF Answer, BulkType, GoroutineInv, vars
<1>4. RequestInv'
  BY GoroutinesOf DEF Answer, BulkType, RequestInv, vars
<1>5. SlotsBounded'
  BY SameInside DEF Answer
<1> QED BY <1>1, <1>2, <1>3, <1>4, <1>5

LEMMA LeaveKeeps ==
  ASSUME FetchInv, NEW r \in Bulk, Leave(r)
  PROVE  FetchInv'
<1> USE DEF FetchInv
<1>1. TypeOK'
  BY TypeStep, StepOfClient DEF FetchNext
<1>2. BulkType'
  BY DEF Leave, BulkType
<1>3. ASSUME NEW c \in InBulk PROVE GoroutineInv(c)'
  BY <1>3, GoroutinesOf DEF Leave, Close, BulkType, GoroutineInv
<1>4. RequestInv'
  <2>1. ctx' = [ctx EXCEPT ![r] = "closed"] /\ UNCHANGED <<pc, owner>>
    BY DEF Leave, Close
  <2>2. bulk' = [bulk EXCEPT ![r] = "idle"]
    BY DEF Leave
  <2> QED BY <2>1, <2>2, GoroutinesOf DEF BulkType, TypeOK, RequestInv
<1>5. SlotsBounded'
  <2>1. \A c \in InBulk : at'[c] \in {"inside", "fetching"} =>
                             at[c] \in {"inside", "fetching"}
    BY DEF Leave
  <2> QED BY <2>1, SameInside
<1> QED BY <1>1, <1>2, <1>3, <1>4, <1>5

LEMMA TakeSlotKeeps ==
  ASSUME FetchInv, NEW c \in InBulk, TakeSlot(c)
  PROVE  FetchInv'
<1> USE DEF FetchInv
<1>1. TypeOK'
  BY TypeStep DEF TakeSlot
<1>2. BulkType'
  BY DEF TakeSlot, BulkType
<1>3. ASSUME NEW d \in InBulk PROVE GoroutineInv(d)'
  BY <1>3, GoroutinesOf DEF TakeSlot, BulkType, GoroutineInv, vars
<1>4. RequestInv'
  BY DEF TakeSlot, RequestInv, vars
<1>5. SlotsBounded'
  <2> SUFFICES ASSUME NEW r \in Bulk PROVE Cardinality(Inside(r)') <= bulkConcurrency
    BY DEF SlotsBounded
  <2>1. CASE r # startedBy[c]
    <3>1. Inside(r)' = Inside(r)
      BY <2>1, GoroutinesOf DEF TakeSlot, BulkType, Inside, Goroutines
    <3> QED BY <3>1 DEF SlotsBounded
  <2>2. CASE r = startedBy[c]
    <3>1. Inside(r)' = Inside(r) \cup {c} /\ Cardinality(Inside(r)) < bulkConcurrency
      BY <2>2, GoroutinesOf DEF TakeSlot, BulkType, Inside, Goroutines
    <3> HIDE DEF Inside
    <3>2. \/ Cardinality(Inside(r)') = Cardinality(Inside(r))
          \/ Cardinality(Inside(r)') = Cardinality(Inside(r)) + 1
      BY <3>1, InsideFinite, FS_AddElement
    <3> QED BY <3>1, <3>2, InsideFinite, BulkFetchAssumption
  <2> QED BY <2>1, <2>2
<1> QED BY <1>1, <1>2, <1>3, <1>4, <1>5

LEMMA FetchKeeps ==
  ASSUME FetchInv, NEW c \in InBulk, Fetch(c)
  PROVE  FetchInv'
<1> USE DEF FetchInv
<1>1. TypeOK'
  BY TypeStep, StepOfClient DEF FetchNext
<1>2. /\ at' = [at EXCEPT ![c] = "fetching"] /\ at[c] = "inside"
      /\ pc' = [pc EXCEPT ![c] = "acquiring"]
      /\ owner' = [owner EXCEPT ![c] = startedBy[c]]
      /\ UNCHANGED <<ctx, bulk, result>>
  BY DEF Fetch, Invoke, Move
<1>3. BulkType'
  BY <1>2 DEF BulkType
<1>4. ASSUME NEW d \in InBulk PROVE GoroutineInv(d)'
  BY <1>2, <1>4, GoroutinesOf DEF BulkType, GoroutineInv, TypeOK
<1>5. RequestInv'
  BY <1>2, GoroutinesOf DEF RequestInv, TypeOK
<1>6. SlotsBounded'
  <2>1. \A d \in InBulk : at'[d] \in {"inside", "fetching"} =>
                             at[d] \in {"inside", "fetching"}
    BY <1>2 DEF BulkType
  <2> QED BY <2>1, SameInside
<1> QED BY <1>1, <1>3, <1>4, <1>5, <1>6

LEMMA FetchedKeeps ==
  ASSUME FetchInv, NEW c \in InBulk, Fetched(c)
  PROVE  FetchInv'
<1> USE DEF FetchInv
<1>1. TypeOK'
  BY TypeStep, StepOfClient DEF FetchNext
<1>2. /\ at' = [at EXCEPT ![c] = "left"] /\ at[c] = "fetching"
      /\ pc' = [pc EXCEPT ![c] = "idle"]
      /\ owner' = [owner EXCEPT ![c] = None]
      /\ UNCHANGED <<ctx, bulk>>
  BY DEF Fetched, Return, Move
<1>3. PICK e \in {"ok", "error"} : result' = [result EXCEPT ![c] = e]
  BY DEF Fetched
<1>4. BulkType'
  BY <1>2, <1>3 DEF BulkType
<1>5. ASSUME NEW d \in InBulk PROVE GoroutineInv(d)'
  BY <1>2, <1>3, <1>5, GoroutinesOf DEF BulkType, GoroutineInv, TypeOK
<1>6. RequestInv'
  BY <1>2, GoroutinesOf DEF RequestInv, TypeOK
<1>7. SlotsBounded'
  <2>1. \A d \in InBulk : at'[d] \in {"inside", "fetching"} =>
                             at[d] \in {"inside", "fetching"}
    BY <1>2 DEF BulkType
  <2> QED BY <2>1, SameInside
<1> QED BY <1>1, <1>4, <1>5, <1>6, <1>7

\* A step inside the client changes neither whose call it is nor whether it is one.
LEMMA InClientKeeps ==
  ASSUME FetchInv, NEW c \in Calls, InClient(c)
  PROVE  FetchInv'
<1> USE DEF FetchInv
<1>1. TypeOK'
  BY TypeStep, StepOfClient DEF FetchNext
<1>2. UNCHANGED <<bulk, at, result, owner, ctx>>
  BY DEF InClient, fetchVars, Acquire, Refuse, Start, StartFails, Exit, Kill, Drained,
         Release
<1>3. PICK to \in Holding \cup Returned :
        pc[c] # "idle" /\ pc' = [pc EXCEPT ![c] = to]
  BY DEF InClient, Acquire, Refuse, Start, StartFails, Exit, Kill, Drained, Release,
         Move, Holding, Running, Ending, Returned
<1>4. to # "idle"
  BY DEF Holding, Running, Ending, Returned
<1>5. ASSUME NEW d \in InBulk PROVE GoroutineInv(d)'
  BY <1>2, <1>3, <1>5, GoroutinesOf DEF GoroutineInv, TypeOK
<1>6. RequestInv'
  BY <1>2, <1>3, <1>4, GoroutinesOf DEF RequestInv, TypeOK
<1>7. BulkType'
  BY <1>2 DEF BulkType
<1>8. SlotsBounded'
  BY <1>2, SameInside
<1> QED BY <1>1, <1>5, <1>6, <1>7, <1>8

LEMMA SingleKeeps ==
  ASSUME FetchInv, NEW c \in Calls, SingleCall(c)
  PROVE  FetchInv'
<1> USE DEF FetchInv
<1>1. TypeOK'
  BY TypeStep, StepOfClient DEF FetchNext
<1>2. c \notin InBulk /\ UNCHANGED <<bulk, at, result, ctx>>
  BY DEF SingleCall, fetchVars, Return, Invoke
<1>3. PICK to \in {"idle", "acquiring"}, q \in (Requests \ Bulk) \cup {None} :
        /\ pc' = [pc EXCEPT ![c] = to]
        /\ owner' = [owner EXCEPT ![c] = q]
        /\ to = "idle" => q = None
  BY DEF SingleCall, Return, Invoke, Move
<1>4. ASSUME NEW d \in InBulk PROVE GoroutineInv(d)'
  BY <1>2, <1>3, <1>4, GoroutinesOf DEF GoroutineInv, TypeOK
<1>5. RequestInv'
  BY <1>2, <1>3, GoroutinesOf DEF RequestInv, TypeOK
<1>6. BulkType'
  BY <1>2 DEF BulkType
<1>7. SlotsBounded'
  BY <1>2, SameInside
<1> QED BY <1>1, <1>4, <1>5, <1>6, <1>7

LEMMA ContextsKeep ==
  ASSUME FetchInv, Contexts
  PROVE  FetchInv'
<1> USE DEF FetchInv
<1>1. TypeOK'
  BY TypeStep, StepOfClient DEF FetchNext
<1>2. UNCHANGED <<bulk, at, result, pc, owner>>
  BY DEF Contexts, fetchVars, Open, Expire, Close
<1>3. \A r \in Bulk : ctx[r] # "closed" => ctx'[r] # "closed"
  <2>1. PICK q \in Requests : \/ ctx' = [ctx EXCEPT ![q] = "live"]
                              \/ ctx' = [ctx EXCEPT ![q] = "done"]
                              \/ q \notin Bulk /\ ctx' = [ctx EXCEPT ![q] = "closed"]
    BY DEF Contexts, Open, Expire, Close
  <2> QED BY <2>1, GoroutinesOf DEF TypeOK
<1>4. ASSUME NEW d \in InBulk PROVE GoroutineInv(d)'
  BY <1>2, <1>4 DEF GoroutineInv
<1>5. RequestInv'
  BY <1>2, <1>3 DEF RequestInv
<1>6. BulkType'
  BY <1>2 DEF BulkType
<1>7. SlotsBounded'
  BY <1>2, SameInside
<1> QED BY <1>1, <1>4, <1>5, <1>6, <1>7

LEMMA FetchStep == FetchInv /\ [FetchNext]_allVars => FetchInv'
<1> SUFFICES ASSUME FetchInv, [FetchNext]_allVars PROVE FetchInv'
  OBVIOUS
<1>1. CASE UNCHANGED allVars
  BY <1>1
  DEF allVars, vars, fetchVars, FetchInv, TypeOK, BulkType, GoroutineInv, RequestInv,
      SlotsBounded, Inside, Goroutines
<1>2. CASE FetchNext
  BY <1>2, ExecuteKeeps, AnswerKeeps, LeaveKeeps, TakeSlotKeeps, FetchKeeps,
     FetchedKeeps, InClientKeeps, SingleKeeps, ContextsKeep DEF FetchNext
<1> QED BY <1>1, <1>2

LEMMA FetchAlways == FetchSpec => []FetchInv
  BY FetchStarts, FetchStep, PTL DEF FetchSpec

\* When a bulk tool answers, each of its URLs has its entry and none of its calls
\* is still in the client, wherever in the pool, the subprocess or its context's
\* end the goroutines met their errors: the safety that EveryBulkAnswered rests on.
THEOREM BulkAnswersWhole == FetchSpec => []AnswersWhole
<1>1. FetchInv => AnswersWhole
  <2> SUFFICES ASSUME FetchInv, NEW r \in Bulk, bulk[r] = "answered",
                      NEW c \in Goroutines(r)
               PROVE  result[c] # "empty" /\ pc[c] = "idle"
    BY DEF AnswersWhole
  <2>1. c \in InBulk /\ startedBy[c] = r
    BY GoroutinesOf
  <2> QED BY <2>1 DEF FetchInv, GoroutineInv
<1> QED BY <1>1, FetchAlways, PTL

\* However many URLs a bulk request has, it fills no more of the pool of the
\* server than its local semaphore lets in.
THEOREM BulkShareBounded == FetchSpec => []ShareBounded
<1>1. FetchInv => ShareBounded
  <2> SUFFICES ASSUME FetchInv, NEW r \in Bulk
               PROVE  Cardinality({c \in Calls : owner[c] = r}) <= bulkConcurrency
    BY DEF ShareBounded
  <2> DEFINE owned == {c \in Calls : owner[c] = r}
  <2>1. ASSUME NEW c \in Calls, owner[c] = r PROVE c \in Inside(r)
    <3>1. c \in InBulk
      BY <2>1 DEF FetchInv, RequestInv
    <3>2. at[c] = "fetching"
      BY <2>1, <3>1, GoroutinesOf DEF FetchInv, GoroutineInv, RequestInv
    <3>3. startedBy[c] = r
      BY <2>1, <3>1, <3>2 DEF FetchInv, GoroutineInv
    <3> QED BY <3>1, <3>2, <3>3, GoroutinesOf
  <2>2. owned \in SUBSET Inside(r)
    BY <2>1
  <2> HIDE DEF owned
  <2>3. Cardinality(owned) <= Cardinality(Inside(r)) /\ Cardinality(owned) \in Nat
    BY <2>2, InsideFinite, FS_Subset, FS_CardinalityType
  <2>4. Cardinality(owned) <= bulkConcurrency
    BY <2>3, InsideFinite, BulkFetchAssumption DEF FetchInv, SlotsBounded
  <2> QED BY <2>4 DEF owned
<1> QED BY <1>1, FetchAlways, PTL

\* A goroutine that has its slot finds the context of its request open and its
\* last call returned: no guard of the client's holds it up.
THEOREM BulkCallsAllowed == FetchSpec => []CallAllowed
<1>1. FetchInv => CallAllowed
  BY GoroutinesOf DEF FetchInv, GoroutineInv, RequestInv, BulkType, CallAllowed
<1> QED BY <1>1, FetchAlways, PTL
================================================================================
