---------------------------- MODULE RequestPipeline ----------------------------
(***************************************************************************)
(* What becomes of a page's fetch: the browser's preflight, the middlewares*)
(* of router.go in their order, the handler of a tool call, the response,  *)
(* and what the browser lets the page see of it; in a process that may end *)
(* at any time (ServerLifecycle).                                          *)
(*                                                                         *)
(* The client addresses of the rate limiter are one here; RateLimiter has  *)
(* its buckets.  What Execute does is in the modules of the tools.         *)
(***************************************************************************)
EXTENDS ServerLifecycle, Naturals, Sequences

\* Pages are of the origin that nginx serves, or of another one; that one is
\* among ALLOWED_ORIGINS or not.  The site's own pages send options with every call
\* and declare the body as JSON (api-client.ts).  Programs, which have no origin,
\* and pages that are not the site's may send anything and declare it as text: the
\* handler decodes whatever it is called.
AllCalls ==
  {c \in [origin : {"same", "allowed", "foreign", "program"},
          token  : {"none", "valid", "stale"},
          type   : {"json", "text"},
          body   : {"good", "refused", "noOptions", "garbled"}] :
     c.origin \in {"same", "allowed"} =>
       c.type = "json" /\ c.body \in {"good", "refused"}}

CONSTANTS
  Burst,  \* RATE_LIMIT_BURST
  Calls   \* the calls that are made

ASSUME PipelineAssumption == Burst \in Nat /\ Calls \subseteq AllCalls

VARIABLES
  verifies,  \* App Check has credentials
  budget,    \* requests that the limiter will admit at once
  call,      \* call[r]: who calls, with which token and which body
  want,      \* want[r]: what the browser asks next: "none", "options", "post"
  at,        \* at[r]: the middleware that the request is in, or "none"
  hdr,       \* hdr[r]: the response will have Access-Control-Allow-Origin
  resp,      \* resp[r]: the kind of the response
  heard,     \* heard[r]: what the caller was told in the end
  lost       \* lost[r]: for want of a process or a connection
             \* (for the properties only)

pipeVars == <<verifies, budget, call, want, at, hdr, resp, heard, lost>>
allVars == <<vars, pipeVars>>

Cross(r) == call[r].origin \in {"allowed", "foreign"}

PipeInit ==
  /\ Init
  /\ verifies \in BOOLEAN /\ budget = Burst
  /\ call = [r \in Requests |-> [origin |-> "same", token |-> "none",
                                 type |-> "json", body |-> "good"]]
  /\ want = [r \in Requests |-> "none"] /\ at = [r \in Requests |-> "none"]
  /\ hdr = [r \in Requests |-> FALSE] /\ resp = [r \in Requests |-> "none"]
  /\ heard = [r \in Requests |-> "none"] /\ lost = [r \in Requests |-> FALSE]

--------------------------------------------------------------------------------
(***************************************************************************)
(* The browser                                                             *)
(***************************************************************************)

\* A call to another origin is asked for first, if its type is JSON or it has the
\* header of App Check; otherwise the browser sends it without asking.
AsksFirst(c) == /\ c.origin \in {"allowed", "foreign"}
                /\ c.type = "json" \/ c.token # "none"

\* fetch
Fetch(r) ==
  /\ want[r] = "none" /\ req[r] = "none"
  /\ \E c \in Calls :
       /\ call' = [call EXCEPT ![r] = c]
       /\ want' = [want EXCEPT ![r] = IF AsksFirst(c) THEN "options" ELSE "post"]
  /\ heard' = [heard EXCEPT ![r] = "none"] /\ lost' = [lost EXCEPT ![r] = FALSE]
  /\ UNCHANGED <<vars, verifies, budget, at, hdr, resp>>

\* The end of a call.
Told(r, what, isLost) ==
  /\ heard' = [heard EXCEPT ![r] = what] /\ lost' = [lost EXCEPT ![r] = isLost]
  /\ want' = [want EXCEPT ![r] = "none"]
  /\ resp' = [resp EXCEPT ![r] = "none"] /\ hdr' = [hdr EXCEPT ![r] = FALSE]
  /\ UNCHANGED <<verifies, budget, call, at>>

Refused(r) ==
  /\ want[r] # "none" /\ req[r] = "none"
  /\ ~(unit = "running" /\ main = "serving" /\ shutdown = "waiting")
  /\ Told(r, "network", TRUE)
  /\ UNCHANGED vars

\* The response to the preflight has to allow the origin, and all headers: App
\* Check's is not among those that the middleware allows.
PreflightPasses(r) == hdr[r] /\ call[r].token = "none"

HearsPreflight(r) ==
  /\ want[r] = "options" /\ req[r] = "answered"
  /\ Leave(r)
  /\ \/ /\ PreflightPasses(r)
        /\ want' = [want EXCEPT ![r] = "post"]
        /\ hdr' = [hdr EXCEPT ![r] = FALSE] /\ resp' = [resp EXCEPT ![r] = "none"]
        /\ UNCHANGED <<verifies, budget, call, at, heard, lost>>
     \/ ~PreflightPasses(r) /\ Told(r, "network", FALSE)

\* A response to another origin without the header is kept from the page.
Hears(r) ==
  /\ want[r] = "post" /\ req[r] = "answered"
  /\ Leave(r)
  /\ IF resp[r] = "late" THEN Told(r, "network", TRUE)
     ELSE Told(r, IF Cross(r) /\ ~hdr[r] THEN "network" ELSE resp[r], FALSE)

HearsCut(r) == req[r] = "cut" /\ Leave(r) /\ Told(r, "network", TRUE)

--------------------------------------------------------------------------------
(***************************************************************************)
(* The middlewares.  A response leaves through all that were entered.      *)
(***************************************************************************)

\* Mutant of Chain: the limiter stands before CORS.
ChainLimitFirst == <<"limit", "cors", "appcheck", "decode", "validate", "execute">>

Chain == <<"cors", "limit", "appcheck", "decode", "validate", "execute">>

After(stage) ==
  Chain[(CHOOSE n \in DOMAIN Chain : Chain[n] = stage) + 1]

Arrive(r) ==
  /\ want[r] # "none"
  /\ Accept(r)
  /\ at' = [at EXCEPT ![r] = Chain[1]]
  /\ UNCHANGED <<verifies, budget, call, want, hdr, resp, heard, lost>>

In(r, stage) == req[r] = "active" /\ at[r] = stage

Passes(r) == /\ at' = [at EXCEPT ![r] = After(at[r])]
             /\ UNCHANGED <<vars, resp>>

Respond(r, kind) == /\ Answer(r)
                    /\ at' = [at EXCEPT ![r] = "none"]
                    /\ resp' = [resp EXCEPT ![r] = kind]

OnlyPath == UNCHANGED <<verifies, call, want, heard, lost>>

\* Mutant of CORS: any origin is sent back as allowed.
CORSAny(r) ==
  /\ In(r, "cors")
  /\ hdr' = [hdr EXCEPT ![r] = TRUE]
  /\ IF want[r] = "options" THEN Respond(r, "noContent") ELSE Passes(r)
  /\ UNCHANGED budget /\ OnlyPath

\* Any OPTIONS ends here, with 204.  Anything else goes on, also without the header.
CORS(r) ==
  /\ In(r, "cors")
  /\ hdr' = [hdr EXCEPT ![r] = (call[r].origin = "allowed")]
  /\ IF want[r] = "options" THEN Respond(r, "noContent") ELSE Passes(r)
  /\ UNCHANGED budget /\ OnlyPath

RateLimit(r) ==
  /\ In(r, "limit")
  /\ IF budget > 0 THEN budget' = budget - 1 /\ Passes(r)
                   ELSE UNCHANGED budget /\ Respond(r, "code")
  /\ UNCHANGED hdr /\ OnlyPath

Refill == /\ budget < Burst /\ budget' = budget + 1
          /\ UNCHANGED <<vars, verifies, call, want, at, hdr, resp, heard, lost>>

\* Without credentials everything passes.
AppCheck(r) ==
  /\ In(r, "appcheck")
  /\ IF verifies /\ call[r].token # "valid" THEN Respond(r, "code")
                                            ELSE Passes(r)
  /\ UNCHANGED <<budget, hdr>> /\ OnlyPath

--------------------------------------------------------------------------------
(***************************************************************************)
(* handleToolCall                                                          *)
(***************************************************************************)

\* Mutant of Decode: it waits for more if a body is garbled.
DecodeOnly(r) ==
  /\ In(r, "decode")
  /\ call[r].body # "garbled" /\ Passes(r)
  /\ UNCHANGED <<budget, hdr>> /\ OnlyPath

Decode(r) ==
  /\ In(r, "decode")
  /\ IF call[r].body = "garbled" THEN Respond(r, "code") ELSE Passes(r)
  /\ UNCHANGED <<budget, hdr>> /\ OnlyPath

\* Recover answers 500 with a code.
Recovered(r) == Respond(r, "code")

\* Validate refuses; or it panics, if it sets the default language in a map that
\* the body did not bring.
Validate(r) ==
  /\ In(r, "validate")
  /\ \/ call[r].body = "refused" /\ Respond(r, "code")
     \/ call[r].body = "noOptions" /\ Recovered(r)
     \/ call[r].body \in {"good", "noOptions"} /\ Passes(r)
  /\ UNCHANGED <<budget, hdr>> /\ OnlyPath

\* An answer or an error, or the one or the other after the 60 s in which the
\* server may still write.
Execute(r) ==
  /\ In(r, "execute")
  /\ \E kind \in {"answer", "code", "late"} : Respond(r, kind)
  /\ UNCHANGED <<budget, hdr>> /\ OnlyPath

Checks(r) == CORS(r) \/ RateLimit(r) \/ AppCheck(r) \/ Decode(r) \/ Validate(r)

--------------------------------------------------------------------------------

\* A goroutine that panics, outside of Recover, belongs to a tool at work.
ToolCrash == (\E r \in Requests : In(r, "execute")) /\ Crash

\* What ends with a process is where its requests were and what its limiter
\* counted.
Takes ==
  /\ at' = [r \in Requests |-> IF req'[r] = "active" THEN at[r] ELSE "none"]
  /\ budget' = IF unit' = unit THEN budget ELSE Burst
  /\ UNCHANGED <<verifies, call, want, hdr, resp, heard, lost>>

Main == (Listen \/ ServeReturns \/ Exit) /\ Takes

Restarts == Restart /\ Takes

Process == \/ Main \/ Restarts
           \/ /\ \/ ListenFails \/ ToolCrash
                 \/ Sigterm \/ Drained \/ DrainTimeout \/ Deploy
              /\ Takes

Browser(r) == Refused(r) \/ Arrive(r) \/ HearsPreflight(r) \/ Hears(r)
              \/ HearsCut(r)

PipeNext == \/ Process \/ Refill
            \/ \E r \in Requests : Fetch(r) \/ Browser(r) \/ Checks(r)
                                  \/ Execute(r)

PipeSpec == PipeInit /\ [][PipeNext]_allVars

\* The browser asks and listens, the goroutines of requests and of main run, and
\* systemd restarts what failed.  Nothing is assumed of the tools.
PipeFairness ==
  /\ \A r \in Requests : WF_allVars(Browser(r)) /\ WF_allVars(Checks(r))
  /\ WF_allVars(Main) /\ WF_allVars(Restarts)

PipeLive == PipeSpec /\ PipeFairness

--------------------------------------------------------------------------------
\* Whoever calls is told an answer or an error with a code, from whichever place
\* in the chain, a panic included; but where process or connection were lost, for
\* a page of an origin that is not allowed, and for one of an origin that is
\* allowed if it sends an App Check token, which cors.go:23 does not allow.
HeardUnlessLost ==
  \A r \in Requests :
    \/ heard[r] \in {"none", "answer", "code"}
    \/ heard[r] = "network" /\ lost[r]
    \/ /\ heard[r] = "network"
       /\ \/ call[r].origin = "foreign"
          \/ call[r].origin = "allowed" /\ call[r].token # "none"

\* With App Check a tool runs for nobody without a valid token, and for no page of
\* another origin: not of an allowed one either, which has no way to send a token.
\* Without App Check it runs for a page of an origin that is not allowed only if the
\* browser did not ask first: CORS keeps the answer from such a page, and passes the
\* call on (cors.go:28-33, router.go:77).
OnlyCheckedRuns ==
  \A r \in Requests : In(r, "execute") =>
    /\ call[r].origin = "foreign" => ~verifies /\ ~AsksFirst(call[r])
    /\ verifies => call[r].token = "valid" /\ call[r].origin # "allowed"

\* Every fetch ends, through restarts, deployments and stops of the unit; one that
\* does not is one whose tool does not (YtDlpClient and BulkThumbnails say when
\* they do).
EveryCallHeard ==
  \A r \in Requests :
    want[r] # "none" ~> want[r] = "none" \/ In(r, "execute")
================================================================================
