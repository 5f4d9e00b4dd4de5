-------------------------------- MODULE ToolPage -------------------------------
(***************************************************************************)
(* A tool page in the browser: its form and options, the calls it makes    *)
(* through the API client, the mutation of react-query that it shows, and  *)
(* the results panel.  One page is open at a time; a visit to another      *)
(* unmounts it, and what its calls bring then reaches nobody.              *)
(*                                                                         *)
(* What a form hands over has been checked (UrlForms) and differs from one *)
(* submission to the next: the number of the call stands for it.           *)
(*                                                                         *)
(* The page sees the state of its mutation only when it renders, which     *)
(* react-query schedules with a timer.  A second submission can slip in    *)
(* before; that an answer comes before it, after a token and a round trip, *)
(* is left out.                                                            *)
(***************************************************************************)
EXTENDS Naturals, ToolPages

CONSTANTS
  Pages,      \* the tool pages that are visited
  MaxCalls,   \* bound: submissions on one visit
  MaxCopies   \* bound: copies whose timer runs

ASSUME PageAssumption ==
  /\ Pages \subseteq Slugs /\ Pages # {}
  /\ MaxCalls \in Nat /\ MaxCopies \in Nat

VARIABLES
  page,    \* the page that is open
  opts,    \* the values of its options
  online,  \* what the browser says of the network
  calls,   \* the calls of this visit: what each sends, how far it is
  mut,     \* the mutation: its status, its call and what came of it
  seen,    \* mut as it was last rendered
  prev,    \* prevStatus of the results panel
  copied,  \* the copy button that says so, or "none"
  timers,  \* timers that will reset copied
  events,  \* outcomes that the panel has tracked in this visit
  owed     \* outcomes that have reached the page (for the properties only)

pageVars == <<page, opts, online, calls, mut, seen, prev, copied, timers,
              events, owed>>

Idle == [status |-> "idle", call |-> 0, code |-> Empty, answer |-> {}]

\* What an ended call sent is of no account.
Done == [opts |-> None, reply |-> Empty, stage |-> "done"]

\* A page as it mounts.
Mounts(p) ==
  /\ page' = p /\ opts' = InitialOptions(p)
  /\ calls' = <<>> /\ mut' = Idle /\ seen' = Idle /\ prev' = "idle"
  /\ copied' = "none" /\ timers' = 0
  /\ events' = <<>> /\ owed' = 0

ToolInit ==
  /\ page \in Pages /\ opts = InitialOptions(page)
  /\ online = TRUE
  /\ calls = <<>> /\ mut = Idle /\ seen = Idle /\ prev = "idle"
  /\ copied = "none" /\ timers = 0
  /\ events = <<>> /\ owed = 0

--------------------------------------------------------------------------------
(***************************************************************************)
(* The API client.  A call waits for an App Check token, which it does     *)
(* without if there is none, then for the response, then for its body.     *)
(***************************************************************************)

At(n, stage) == n \in DOMAIN calls /\ calls[n].stage = stage

OnlyCalls == UNCHANGED <<page, opts, online, seen, prev, copied, timers, events>>

\* Mutant of Settles: the page keeps its state by hand, and the last answer wins.
SettlesLast(n, status, code, answer) ==
  /\ calls' = [calls EXCEPT ![n] = Done]
  /\ mut' = [status |-> status, call |-> n, code |-> code, answer |-> answer]
  /\ owed' = owed + 1
  /\ OnlyCalls

\* react-query hands an outcome to the page only if its call is the latest.
Settles(n, status, code, answer) ==
  /\ calls' = [calls EXCEPT ![n] = Done]
  /\ IF mut.call = n
     THEN /\ mut' = [status |-> status, call |-> n, code |-> code,
                     answer |-> answer]
          /\ owed' = owed + 1
     ELSE UNCHANGED <<mut, owed>>
  /\ OnlyCalls

\* The latest call has been rendered as loading before it ends.
Rendered(n) == mut.call = n => seen.status = "pending"

TokenDone(n) ==
  /\ At(n, "token")
  /\ calls' = [calls EXCEPT ![n].stage = "fetch"]
  /\ UNCHANGED <<mut, owed>> /\ OnlyCalls

\* Mutant of FetchFails: the fetch outside of its try, and nobody catches.
FetchFailsUncaught(n) ==
  /\ At(n, "fetch") /\ Rendered(n)
  /\ calls' = [calls EXCEPT ![n] = Done]
  /\ UNCHANGED <<mut, owed>> /\ OnlyCalls

FetchFails(n) ==
  /\ At(n, "fetch") /\ Rendered(n)
  /\ Settles(n, "error", "NETWORK_ERROR", {})

\* The replies there are: an answer with all its fields or with those that it
\* must have, an error of the tool, of the limiter or of App Check with its code,
\* an error of nobody, and the page of a proxy.
Replies(n) ==
  {"toolError", "bareError", "notJson"}
  \cup IF Validates(page, PageOf[page].member, calls[n].opts)
       THEN {"full", "bare"} ELSE {}

Respond(n) ==
  /\ At(n, "fetch")
  /\ \E r \in Replies(n) :
       calls' = [calls EXCEPT ![n].stage = "body", ![n].reply = r]
  /\ UNCHANGED <<mut, owed>> /\ OnlyCalls

\* The body is not read inside of a try: the error is not JSON, and the page
\* finds no code in it.
BodyFails(n) ==
  /\ At(n, "body") /\ Rendered(n)
  /\ Settles(n, "error", Empty, {})

BodyRead(n) ==
  /\ At(n, "body") /\ Rendered(n)
  /\ LET r == calls[n].reply
         t == ToolOf[page]
     IN \/ r = "full"      /\ Settles(n, "success", Empty, t.gives \cup t.may)
        \/ r = "bare"      /\ Settles(n, "success", Empty, t.gives)
        \/ r = "toolError" /\ Settles(n, "error", "TOOL_CODE", {})
        \/ r = "bareError" /\ Settles(n, "error", "UNKNOWN_ERROR", {})
        \/ r = "notJson"   /\ Settles(n, "error", "INVALID_RESPONSE", {})

--------------------------------------------------------------------------------
(***************************************************************************)
(* The page                                                                *)
(***************************************************************************)

\* mutation.mutate.  Off line, the mutation is paused before it calls the client.
Submit ==
  /\ seen.status # "pending" /\ Len(calls) < MaxCalls
  /\ calls' = Append(calls, [opts |-> opts, reply |-> Empty,
                             stage |-> IF online THEN "token" ELSE "paused"])
  /\ mut' = [Idle EXCEPT !.status = "pending", !.call = Len(calls) + 1]
  /\ UNCHANGED <<page, opts, online, seen, prev, copied, timers, events, owed>>

Resume(n) ==
  /\ online /\ At(n, "paused")
  /\ calls' = [calls EXCEPT ![n].stage = "token"]
  /\ UNCHANGED <<mut, owed>> /\ OnlyCalls

\* The options stay enabled.  A paused call has not read them yet: it will by the
\* function of the latest rendering, while the page still observes it.
SetOption ==
  /\ \E o \in DOMAIN opts : \E v \in OptionValues(page, o) \ {opts[o]} :
       opts' = [opts EXCEPT ![o] = v]
  /\ calls' = [n \in DOMAIN calls |->
                 IF n = mut.call /\ At(n, "paused")
                 THEN [calls[n] EXCEPT !.opts = opts'] ELSE calls[n]]
  /\ UNCHANGED <<page, online, mut, seen, prev, copied, timers, events, owed>>

\* Mutant of Render: the panel remembers outcomes only.
RenderForgetful ==
  /\ seen # mut
  /\ seen' = mut
  /\ prev' = IF mut.status \in {"success", "error"} THEN mut.status ELSE prev
  /\ events' = IF mut.status # prev /\ mut.status \in {"success", "error"}
               THEN Append(events, <<mut.status, mut.code>>) ELSE events
  /\ UNCHANGED <<page, opts, online, calls, mut, copied, timers, owed>>

\* A rendering, and after it the effect of the results panel.
Render ==
  /\ seen # mut
  /\ seen' = mut /\ prev' = mut.status
  /\ events' = IF mut.status # prev /\ mut.status \in {"success", "error"}
               THEN Append(events, <<mut.status, mut.code>>) ELSE events
  /\ UNCHANGED <<page, opts, online, calls, mut, copied, timers, owed>>

\* navigator.clipboard.writeText is not waited for.
handleCopy ==
  /\ seen.status = "success" /\ timers < MaxCopies
  /\ \E k \in PageOf[page].copies : copied' = k
  /\ timers' = timers + 1
  /\ UNCHANGED <<page, opts, online, calls, mut, seen, prev, events, owed>>

TimerFires ==
  /\ timers > 0
  /\ timers' = timers - 1 /\ copied' = "none"
  /\ UNCHANGED <<page, opts, online, calls, mut, seen, prev, events, owed>>

\* The browser goes to the link in the page's own window.  A file is saved and
\* changes nothing; the JSON that a link gets when it has expired takes the place
\* of the page, which starts anew when the user comes back to it.
handleDownload ==
  /\ seen.status = "success" /\ PageOf[page].links # {}
  /\ Mounts(page) /\ UNCHANGED online

Visit == \E p \in Pages \ {page} : Mounts(p) /\ UNCHANGED online

NetworkChanges ==
  /\ online' = ~online
  /\ UNCHANGED <<page, opts, calls, mut, seen, prev, copied, timers, events,
                 owed>>

Step(n) == \/ Resume(n) \/ TokenDone(n) \/ FetchFails(n) \/ Respond(n)
           \/ BodyFails(n) \/ BodyRead(n)

ToolNext == \/ Submit \/ SetOption \/ Render \/ handleCopy \/ TimerFires
            \/ handleDownload \/ Visit \/ NetworkChanges
            \/ \E n \in 1 .. MaxCalls : Step(n)

--------------------------------------------------------------------------------
\* The page shows an outcome only of what was submitted last, however the answers
\* of a double click overtake one another.
ShownIsLastAsked ==
  seen = mut /\ seen.status \in {"success", "error"} =>
    /\ seen.call = Len(calls)
    /\ calls[Len(calls)].stage = "done"

\* Every outcome that the page shows has been tracked once, with its code.
OutcomeTrackedOnce ==
  seen = mut => /\ Len(events) = owed
                /\ seen.status \in {"success", "error"} =>
                     events[Len(events)] = <<seen.status, seen.code>>

\* A page finds in an answer whatever it reads without asking, although the type
\* it declares for the answer is checked by nobody.
AnswerFitsPage ==
  seen.status = "success" => PageOf[page].reads \subseteq seen.answer

\* What a page sends, with whatever its options offer, its tool accepts: but for
\* the chapter validator, whose page sends the text where the tool does not look,
\* and for an offset beyond Go's int, however it is written.
RequestFitsTool ==
  \A n \in DOMAIN calls :
    \/ calls[n].stage = "done"
    \/ Validates(page, PageOf[page].member, calls[n].opts)
    \/ page = "chapter-validator"
    \/ page = "timestamp-offset" /\ calls[n].opts.offset \in BeyondInt
================================================================================
