------------------------- MODULE RequestPipelineProofs -------------------------
(***************************************************************************)
(* Theorems of RequestPipeline for any number of callers, any calls among  *)
(* AllCalls and any budget of the limiter.  The inductive invariant says   *)
(* what is settled about a request at each place of the chain: by the      *)
(* browser before the call is sent, by CORS for the header, by App Check   *)
(* for the token.                                                          *)
(***************************************************************************)
EXTENDS RequestPipeline, TLAPS

--------------------------------------------------------------------------------
(***************************************************************************)
(* The process                                                             *)
(***************************************************************************)

\* Of a process that is gone nothing is left, and main returns only once the
\* shutdown goroutine has closed the listener.
ProcessInv ==
  /\ unit \in {"running", "failed", "stopped"}
  /\ main \in {"starting", "serving", "returning"}
  /\ shutdown \in {"waiting", "draining", "over"}
  /\ main = "returning" => shutdown # "waiting"

\* What the process does to its requests.
ProcessStep == \/ Listen \/ ServeReturns \/ Exit \/ ListenFails \/ Crash
               \/ Sigterm \/ Drained \/ DrainTimeout \/ Restart \/ Deploy

LEMMA ProcessStarts == Init => ProcessInv
  BY DEF Init, ProcessInv

LEMMA ProcessKeepsInv ==
  ASSUME ProcessInv, ProcessStep \/ UNCHANGED <<unit, main, shutdown>>
  PROVE  ProcessInv'
  BY DEF ProcessInv, ProcessStep, Listen, ServeReturns, Exit, ListenFails, Crash,
         EndProcess, Sigterm, Drained, DrainTimeout, Restart, Deploy

\* A step that stops the unit is one of a process that was told to stop.
LEMMA StopIsTold ==
  ASSUME ProcessInv, ProcessStep \/ UNCHANGED <<unit, main, shutdown>>,
         unit = "running", unit' = "stopped"
  PROVE  shutdown # "waiting"
  BY DEF ProcessInv, ProcessStep, Listen, ServeReturns, Exit, ListenFails, Crash,
         EndProcess, Sigterm, Drained, DrainTimeout, Restart, Deploy

\* The server without its pipeline.
LEMMA ServerSteps ==
  ASSUME [Next]_vars
  PROVE  ProcessStep \/ UNCHANGED <<unit, main, shutdown>>
  BY DEF Next, vars, ProcessStep, Accept, Answer, Leave

--------------------------------------------------------------------------------
(***************************************************************************)
(* The invariant of a request                                              *)
(***************************************************************************)

Stages == {"cors", "limit", "appcheck", "decode", "validate", "execute"}

PipeTypeInv ==
  /\ req \in [Requests -> {"none", "active", "answered", "cut"}]
  /\ call \in [Requests -> AllCalls]
  /\ want \in [Requests -> {"none", "options", "post"}]
  /\ at \in [Requests -> Stages \cup {"none"}]
  /\ hdr \in [Requests -> BOOLEAN] /\ lost \in [Requests -> BOOLEAN]
  /\ resp \in [Requests -> {"none", "noContent", "code", "answer", "late"}]
  /\ heard \in [Requests -> {"none", "network", "code", "answer"}]

\* A preflight belongs to a call to another origin.  What the browser sends for
\* such a call has passed the preflight or needs none.
Sent(r) ==
  /\ want[r] = "options" => Cross(r)
  /\ want[r] = "post" => /\ call[r].origin = "foreign" => ~AsksFirst(call[r])
                         /\ call[r].origin = "allowed" => call[r].token = "none"

\* Behind CORS there are no preflights, and the header is as the origin asks;
\* behind App Check every token is valid, if tokens are looked at.
Settled(r) ==
  req[r] = "active" =>
    /\ want[r] # "none" /\ at[r] \in Stages
    /\ at[r] # "cors" => want[r] = "post" /\ hdr[r] = (call[r].origin = "allowed")
    /\ at[r] \in {"decode", "validate", "execute"} =>
         (verifies => call[r].token = "valid")

\* A response has the header that its origin asks for, and a call's is one that a
\* caller can make out.
Answered(r) ==
  req[r] = "answered" =>
    /\ want[r] # "none" /\ hdr[r] = (call[r].origin = "allowed")
    /\ want[r] = "post" => resp[r] \in {"code", "answer", "late"}

HeardInv(r) ==
  \/ heard[r] \in {"none", "answer", "code"}
  \/ heard[r] = "network" /\ lost[r]
  \/ /\ heard[r] = "network"
     /\ \/ call[r].origin = "foreign"
        \/ call[r].origin = "allowed" /\ call[r].token # "none"

RequestInv(r) == Sent(r) /\ Settled(r) /\ Answered(r) /\ HeardInv(r)

PipeInv == PipeTypeInv /\ \A r \in Requests : RequestInv(r)

\* The chain in its order.
LEMMA ChainOrder ==
  /\ Chain[1] = "cors"
  /\ After("cors") = "limit" /\ After("limit") = "appcheck"
  /\ After("appcheck") = "decode" /\ After("decode") = "validate"
  /\ After("validate") = "execute"
<1>1. DOMAIN Chain = 1 .. 6
  BY DEF Chain
<1>2. /\ \A n \in 1 .. 6 : Chain[n] = "cors" <=> n = 1
      /\ \A n \in 1 .. 6 : Chain[n] = "limit" <=> n = 2
      /\ \A n \in 1 .. 6 : Chain[n] = "appcheck" <=> n = 3
      /\ \A n \in 1 .. 6 : Chain[n] = "decode" <=> n = 4
      /\ \A n \in 1 .. 6 : Chain[n] = "validate" <=> n = 5
  BY DEF Chain
<1>3. /\ Chain[1] = "cors" /\ Chain[1 + 1] = "limit" /\ Chain[2 + 1] = "appcheck"
      /\ Chain[3 + 1] = "decode" /\ Chain[4 + 1] = "validate"
      /\ Chain[5 + 1] = "execute"
  BY DEF Chain
<1>4. /\ (CHOOSE n \in 1 .. 6 : Chain[n] = "cors") = 1
      /\ (CHOOSE n \in 1 .. 6 : Chain[n] = "limit") = 2
      /\ (CHOOSE n \in 1 .. 6 : Chain[n] = "appcheck") = 3
      /\ (CHOOSE n \in 1 .. 6 : Chain[n] = "decode") = 4
      /\ (CHOOSE n \in 1 .. 6 : Chain[n] = "validate") = 5
  BY <1>2
<1> QED BY <1>1, <1>3, <1>4 DEF After

LEMMA PipeStarts == PipeInit => PipeInv
<1> SUFFICES ASSUME PipeInit PROVE PipeInv
  OBVIOUS
<1>1. [origin |-> "same", token |-> "none", type |-> "json", body |-> "good"]
        \in AllCalls
  BY DEF AllCalls
<1>2. PipeTypeInv
  BY <1>1 DEF PipeInit, Init, PipeTypeInv
<1>3. \A r \in Requests : RequestInv(r)
  BY DEF PipeInit, Init, RequestInv, Sent, Settled, Answered, HeardInv
<1> QED BY <1>2, <1>3 DEF PipeInv

\* A step of one request leaves what is known of another.
LEMMA OthersKeep ==
  ASSUME NEW q, RequestInv(q), verifies' = verifies,
         req'[q] = req[q], call'[q] = call[q], want'[q] = want[q],
         at'[q] = at[q], hdr'[q] = hdr[q], resp'[q] = resp[q],
         heard'[q] = heard[q], lost'[q] = lost[q]
  PROVE  RequestInv(q)'
  BY DEF RequestInv, Sent, Settled, Answered, HeardInv, Cross

--------------------------------------------------------------------------------
(***************************************************************************)
(* The browser                                                             *)
(***************************************************************************)

LEMMA FetchKeeps ==
  ASSUME PipeInv, NEW r \in Requests, Fetch(r)
  PROVE  PipeInv'
<1>1. PipeTypeInv'
  BY PipelineAssumption DEF PipeInv, PipeTypeInv, Fetch, vars
<1>2. RequestInv(r)'
  BY DEF PipeInv, PipeTypeInv, Fetch, vars, RequestInv, Sent, Settled, Answered,
         HeardInv, Cross, AsksFirst, AllCalls
<1>3. ASSUME NEW q \in Requests \ {r} PROVE RequestInv(q)'
  BY <1>3, OthersKeep DEF PipeInv, PipeTypeInv, Fetch, vars
<1> QED BY <1>1, <1>2, <1>3 DEF PipeInv

\* The end of a call, however it came.
LEMMA ToldKeeps ==
  ASSUME PipeInv, NEW r \in Requests, NEW what, NEW isLost, Told(r, what, isLost),
         what \in {"network", "answer", "code"}, isLost \in BOOLEAN,
         req'[r] = "none", \A q \in Requests \ {r} : req'[q] = req[q],
         req' \in [Requests -> {"none", "active", "answered", "cut"}],
         what = "network" /\ ~isLost =>
           \/ call[r].origin = "foreign"
           \/ call[r].origin = "allowed" /\ call[r].token # "none"
  PROVE  PipeInv'
<1>1. PipeTypeInv'
  BY DEF PipeInv, PipeTypeInv, Told
<1>2. RequestInv(r)'
  BY DEF PipeInv, PipeTypeInv, Told, RequestInv, Sent, Settled, Answered, HeardInv
<1>3. ASSUME NEW q \in Requests \ {r} PROVE RequestInv(q)'
  BY <1>3, OthersKeep DEF PipeInv, PipeTypeInv, Told
<1> QED BY <1>1, <1>2, <1>3 DEF PipeInv

LEMMA LeaveFrees ==
  ASSUME PipeInv, NEW r \in Requests, Leave(r)
  PROVE  /\ req'[r] = "none" /\ \A q \in Requests \ {r} : req'[q] = req[q]
         /\ req' \in [Requests -> {"none", "active", "answered", "cut"}]
  BY DEF PipeInv, PipeTypeInv, Leave

LEMMA BrowserKeeps ==
  ASSUME PipeInv, NEW r \in Requests, Browser(r)
  PROVE  PipeInv'
<1>1. CASE Refused(r)
  BY <1>1, ToldKeeps DEF Refused, vars, PipeInv, PipeTypeInv
<1>2. CASE Arrive(r)
  <2>1. PipeTypeInv'
    BY <1>2, ChainOrder DEF Arrive, Accept, PipeInv, PipeTypeInv, Stages
  <2>2. RequestInv(r)'
    BY <1>2, ChainOrder
    DEF Arrive, Accept, PipeInv, PipeTypeInv, RequestInv, Sent, Settled,
        Answered, HeardInv, Cross, Stages, AsksFirst
  <2>3. ASSUME NEW q \in Requests \ {r} PROVE RequestInv(q)'
    BY <1>2, <2>3, OthersKeep DEF Arrive, Accept, PipeInv, PipeTypeInv
  <2> QED BY <2>1, <2>2, <2>3 DEF PipeInv
<1>3. CASE HearsPreflight(r)
  <2>1. CASE PreflightPasses(r) /\ want' = [want EXCEPT ![r] = "post"]
             /\ hdr' = [hdr EXCEPT ![r] = FALSE]
             /\ resp' = [resp EXCEPT ![r] = "none"]
             /\ UNCHANGED <<verifies, budget, call, at, heard, lost>>
    <3>1. PipeTypeInv'
      BY <1>3, <2>1, LeaveFrees DEF HearsPreflight, PipeInv, PipeTypeInv
    <3>2. RequestInv(r)'
      BY <1>3, <2>1, LeaveFrees
      DEF HearsPreflight, PreflightPasses, PipeInv, PipeTypeInv, RequestInv,
          Sent, Settled, Answered, HeardInv, Cross
    <3>3. ASSUME NEW q \in Requests \ {r} PROVE RequestInv(q)'
      BY <1>3, <2>1, <3>3, LeaveFrees, OthersKeep
      DEF HearsPreflight, PipeInv, PipeTypeInv
    <3> QED BY <3>1, <3>2, <3>3 DEF PipeInv
  <2>2. CASE ~PreflightPasses(r) /\ Told(r, "network", FALSE)
    <3>1. \/ call[r].origin = "foreign"
          \/ call[r].origin = "allowed" /\ call[r].token # "none"
      BY <1>3, <2>2
      DEF HearsPreflight, PreflightPasses, PipeInv, RequestInv, Sent, Answered,
          Cross
    <3> QED BY <1>3, <2>2, <3>1, LeaveFrees, ToldKeeps DEF HearsPreflight
  <2> QED BY <1>3, <2>1, <2>2 DEF HearsPreflight
<1>4. CASE Hears(r)
  <2>1. /\ resp[r] \in {"code", "answer", "late"}
        /\ Cross(r) /\ ~hdr[r] => call[r].origin = "foreign"
    BY <1>4 DEF Hears, PipeInv, RequestInv, Sent, Answered, Cross
  <2>2. \/ Told(r, "network", TRUE)
        \/ Told(r, "network", FALSE) /\ call[r].origin = "foreign"
        \/ Told(r, resp[r], FALSE) /\ resp[r] \in {"code", "answer"}
    BY <1>4, <2>1 DEF Hears
  <2> QED BY <1>4, <2>2, LeaveFrees, ToldKeeps DEF Hears
<1>5. CASE HearsCut(r)
  BY <1>5, LeaveFrees, ToldKeeps DEF HearsCut
<1> QED BY <1>1, <1>2, <1>3, <1>4, <1>5 DEF Browser

--------------------------------------------------------------------------------
(***************************************************************************)
(* The chain                                                               *)
(***************************************************************************)

\* A step of a request within the chain, or out of it with a response.
LEMMA ChainKeeps ==
  ASSUME PipeInv, NEW r \in Requests, OnlyPath, req[r] = "active",
         NEW h \in BOOLEAN, hdr' = [hdr EXCEPT ![r] = h],
         \/ /\ UNCHANGED <<vars, resp>>
            /\ at' = [at EXCEPT ![r] = After(at[r])]
            /\ After(at[r]) \in Stages \ {"cors"}
            /\ want[r] = "post" /\ h = (call[r].origin = "allowed")
            /\ After(at[r]) \in {"decode", "validate", "execute"} =>
                 (verifies => call[r].token = "valid")
         \/ \E kind \in {"noContent", "code", "answer", "late"} :
              /\ Respond(r, kind)
              /\ h = (call[r].origin = "allowed")
              /\ want[r] = "post" => kind # "noContent"
  PROVE  PipeInv'
<1>1. PipeTypeInv'
  BY DEF PipeInv, PipeTypeInv, OnlyPath, Respond, Answer, vars
<1>2. RequestInv(r)'
  BY DEF PipeInv, PipeTypeInv, OnlyPath, Respond, Answer, vars, RequestInv, Sent,
         Settled, Answered, HeardInv, Cross
<1>3. ASSUME NEW q \in Requests \ {r} PROVE RequestInv(q)'
  BY <1>3, OthersKeep
  DEF PipeInv, PipeTypeInv, OnlyPath, Respond, Answer, vars
<1> QED BY <1>1, <1>2, <1>3 DEF PipeInv

LEMMA ChecksKeep ==
  ASSUME PipeInv, NEW r \in Requests, Checks(r) \/ Execute(r)
  PROVE  PipeInv'
<1>1. PipeTypeInv /\ RequestInv(r)
  BY DEF PipeInv
<1>2. CASE CORS(r)
  <2>1. want[r] = "options" \/ want[r] = "post"
    BY <1>1, <1>2 DEF CORS, In, PipeTypeInv, RequestInv, Settled
  <2>2. /\ req[r] = "active" /\ OnlyPath
        /\ hdr' = [hdr EXCEPT ![r] = (call[r].origin = "allowed")]
    BY <1>2 DEF CORS, In
  <2>3. CASE want[r] = "options"
    <3>1. Respond(r, "noContent")
      BY <1>2, <2>3 DEF CORS
    <3> QED BY <2>2, <2>3, <3>1, ChainKeeps
  <2>4. CASE want[r] = "post"
    <3>1. UNCHANGED <<vars, resp>> /\ at' = [at EXCEPT ![r] = After(at[r])]
      BY <1>2, <2>4 DEF CORS, Passes
    <3>2. After(at[r]) = "limit"
      BY <1>2, ChainOrder DEF CORS, In
    <3> QED BY <2>2, <2>4, <3>1, <3>2, ChainKeeps DEF Stages
  <2> QED BY <2>1, <2>3, <2>4
<1>3. CASE ~CORS(r)
  <2>1. /\ req[r] = "active" /\ OnlyPath /\ UNCHANGED hdr
        /\ at[r] \in Stages \ {"cors"}
    BY <1>3 DEF Checks, RateLimit, AppCheck, Decode, Validate, Execute, In, Stages
  <2>2. /\ want[r] = "post" /\ hdr[r] = (call[r].origin = "allowed")
        /\ hdr' = [hdr EXCEPT ![r] = hdr[r]] /\ hdr[r] \in BOOLEAN
    BY <1>1, <2>1 DEF PipeTypeInv, RequestInv, Settled
  <2>3. \/ /\ UNCHANGED <<vars, resp>>
           /\ at' = [at EXCEPT ![r] = After(at[r])]
           /\ After(at[r]) \in Stages \ {"cors"}
           /\ After(at[r]) \in {"decode", "validate", "execute"} =>
                (verifies => call[r].token = "valid")
        \/ \E kind \in {"code", "answer", "late"} : Respond(r, kind)
    <3>1. CASE RateLimit(r)
      BY <3>1, ChainOrder DEF RateLimit, In, Passes, Stages
    <3>2. CASE AppCheck(r)
      BY <3>2, ChainOrder DEF AppCheck, In, Passes, Stages
    <3>3. CASE Decode(r)
      BY <1>1, <3>3, ChainOrder
      DEF Decode, In, Passes, Stages, RequestInv, Settled
    <3>4. CASE Validate(r)
      BY <1>1, <3>4, ChainOrder
      DEF Validate, Recovered, In, Passes, Stages, RequestInv, Settled
    <3>5. CASE Execute(r)
      BY <3>5 DEF Execute
    <3> QED BY <1>3, <3>1, <3>2, <3>3, <3>4, <3>5 DEF Checks
  <2> QED BY <2>1, <2>2, <2>3, ChainKeeps
<1> QED BY <1>2, <1>3

--------------------------------------------------------------------------------
(***************************************************************************)
(* The process again: what its end does to the requests in it.             *)
(***************************************************************************)

LEMMA TakesKeeps ==
  ASSUME PipeInv, ProcessStep, Takes
  PROVE  PipeInv'
<1>1. /\ req' \in [Requests -> {"none", "active", "answered", "cut"}]
      /\ \A r \in Requests : \/ req'[r] = req[r]
                             \/ req'[r] = "cut"
  BY DEF PipeInv, PipeTypeInv, ProcessStep, Listen, ServeReturns, Exit,
         ListenFails, Crash, EndProcess, Active, Sigterm, Drained, DrainTimeout,
         Restart, Deploy
<1>2. PipeTypeInv'
  BY <1>1 DEF PipeInv, PipeTypeInv, Takes
<1>3. ASSUME NEW r \in Requests PROVE RequestInv(r)'
  BY <1>1, <1>3
  DEF PipeInv, PipeTypeInv, Takes, RequestInv, Sent, Settled, Answered, HeardInv,
      Cross
<1> QED BY <1>2, <1>3 DEF PipeInv

LEMMA ProcessIsStep == Process => ProcessStep /\ Takes
  BY DEF Process, Main, Restarts, ToolCrash, ProcessStep

LEMMA PipeSteps ==
  ASSUME PipeInv, [PipeNext]_allVars
  PROVE  PipeInv'
<1>1. CASE Process
  BY <1>1, ProcessIsStep, TakesKeeps
<1>2. CASE Refill \/ UNCHANGED allVars
  <2>1. UNCHANGED <<req, verifies, call, want, at, hdr, resp, heard, lost>>
    BY <1>2 DEF Refill, allVars, pipeVars, vars
  <2>2. PipeTypeInv'
    BY <2>1 DEF PipeInv, PipeTypeInv
  <2> QED BY <2>1, <2>2, OthersKeep DEF PipeInv
<1>3. ASSUME NEW r \in Requests, Fetch(r) \/ Browser(r) \/ Checks(r) \/ Execute(r)
      PROVE  PipeInv'
  BY <1>3, FetchKeeps, BrowserKeeps, ChecksKeep
<1> QED BY <1>1, <1>2, <1>3 DEF PipeNext

\* The pipeline takes the steps of the process, and no other that touches it.
LEMMA PipeProcessSteps ==
  ASSUME [PipeNext]_allVars
  PROVE  ProcessStep \/ UNCHANGED <<unit, main, shutdown>>
<1>1. CASE Process
  BY <1>1, ProcessIsStep
<1>2. CASE Refill \/ UNCHANGED allVars
  BY <1>2 DEF Refill, allVars, vars
<1>3. ASSUME NEW r \in Requests, Fetch(r) \/ Browser(r)
      PROVE  UNCHANGED <<unit, main, shutdown>>
  BY <1>3
  DEF Fetch, Browser, Refused, Arrive, Accept, HearsPreflight, Hears, HearsCut,
      Leave, vars
<1>4. ASSUME NEW r \in Requests, Checks(r) \/ Execute(r)
      PROVE  UNCHANGED <<unit, main, shutdown>>
  BY <1>4
  DEF Checks, CORS, RateLimit, AppCheck, Decode, Validate, Recovered, Execute,
      Passes, Respond, Answer, vars
<1> QED BY <1>1, <1>2, <1>3, <1>4 DEF PipeNext

LEMMA InvShows == PipeInv => HeardUnlessLost /\ OnlyCheckedRuns
<1>1. PipeInv => HeardUnlessLost
  BY DEF PipeInv, RequestInv, HeardInv, HeardUnlessLost
<1>2. PipeInv => OnlyCheckedRuns
  BY DEF PipeInv, RequestInv, Sent, Settled, OnlyCheckedRuns, In, AllCalls,
         PipeTypeInv, AsksFirst
<1> QED BY <1>1, <1>2

--------------------------------------------------------------------------------
(***************************************************************************)
(* Theorems                                                                *)
(***************************************************************************)

LEMMA PipeKeepsInv == PipeSpec => []PipeInv
<1>1. PipeInit => PipeInv
  BY PipeStarts
<1>2. PipeInv /\ [PipeNext]_allVars => PipeInv'
  BY PipeSteps
<1> QED BY <1>1, <1>2, PTL DEF PipeSpec

\* Whoever calls hears an answer or a code, for any number of calls at once: the
\* failures of the network that a caller sees without process or connection being
\* lost are those of pages whose preflight fails or whose answer CORS keeps back.
THEOREM CallersHear == PipeSpec => []HeardUnlessLost
  BY PipeKeepsInv, InvShows, PTL

\* With App Check, Execute of a tool is reached only by calls with a valid token
\* that are not of another origin; and without it by those of an origin that is not
\* allowed only where the browser asks for no preflight, as CORS passes them on.
THEOREM OnlyCheckedCallsRun == PipeSpec => []OnlyCheckedRuns
  BY PipeKeepsInv, InvShows, PTL

\* However requests, panics and signals meet, the unit is stopped only by a process
\* that was told to stop: a failed listener and a crash leave it to systemd.
THEOREM OnlySigtermStops == PipeSpec => StopsOnlyBySigterm
<1>1. PipeInit => ProcessInv
  BY ProcessStarts DEF PipeInit
<1>2. ProcessInv /\ [PipeNext]_allVars => ProcessInv'
  BY PipeProcessSteps, ProcessKeepsInv
<1>3. ProcessInv /\ [PipeNext]_allVars =>
        [unit = "running" /\ unit' = "stopped" => shutdown # "waiting"]_vars
  BY PipeProcessSteps, StopIsTold
<1> QED BY <1>1, <1>2, <1>3, PTL DEF PipeSpec, StopsOnlyBySigterm

\* The same of the process alone, whatever its requests are.
THEOREM ServerStopsOnlyBySigterm == Spec => StopsOnlyBySigterm
<1>1. Init => ProcessInv
  BY ProcessStarts
<1>2. ProcessInv /\ [Next]_vars => ProcessInv'
  BY ServerSteps, ProcessKeepsInv
<1>3. ProcessInv /\ [Next]_vars =>
        [unit = "running" /\ unit' = "stopped" => shutdown # "waiting"]_vars
  BY ServerSteps, StopIsTold
<1> QED BY <1>1, <1>2, <1>3, PTL DEF Spec, StopsOnlyBySigterm
================================================================================
