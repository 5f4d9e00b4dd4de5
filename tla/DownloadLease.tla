----------------------------- MODULE DownloadLease -----------------------------
(***************************************************************************)
(* What the backend promises about a download link, with no clock, no map, *)
(* no lock and no file: a token is a lease.  It is issued once, it is live *)
(* for a while, and then it is over for good.  A GET of the link is first  *)
(* asked; it is refused (404) only while the lease is not live, granted    *)
(* only while it is; a granted request is served (200), or fails (500) if  *)
(* the lease has ended in the meantime.  DownloadStore implements it.      *)
(***************************************************************************)

CONSTANTS Tokens,    \* what Register may return
          Handlers,  \* goroutines running handleDownload
          None       \* no token

VARIABLES status,    \* status[t]: the life of the lease t
          wants,     \* wants[h]: the token that h was asked for
          verdict    \* verdict[h]: how far h has got with its answer

vars == <<status, wants, verdict>>

Undecided == {"asked", "granted"}
Decided   == {"served", "refused", "failed"}

\* The types of the state.
TypeOK ==
  /\ status \in [Tokens -> {"unissued", "live", "over"}]
  /\ wants \in [Handlers -> Tokens \cup {None}]
  /\ verdict \in [Handlers -> {"none"} \cup Undecided \cup Decided]

Init ==
  /\ status = [t \in Tokens |-> "unissued"]
  /\ wants = [h \in Handlers |-> None]
  /\ verdict = [h \in Handlers |-> "none"]

Issue(t) ==
  /\ status[t] = "unissued"
  /\ status' = [status EXCEPT ![t] = "live"]
  /\ UNCHANGED <<wants, verdict>>

\* Time passes, and the leases in S end with it.
Expire(S) ==
  /\ \A t \in S : status[t] = "live"
  /\ status' = [t \in Tokens |-> IF t \in S THEN "over" ELSE status[t]]
  /\ UNCHANGED <<wants, verdict>>

Ask(h, t) ==
  /\ verdict[h] = "none"
  /\ verdict' = [verdict EXCEPT ![h] = "asked"]
  /\ wants' = [wants EXCEPT ![h] = t]
  /\ UNCHANGED status

Move(h, from, to) ==
  /\ verdict[h] = from
  /\ verdict' = [verdict EXCEPT ![h] = to]
  /\ UNCHANGED <<status, wants>>

Grant(h)  == Move(h, "asked", "granted") /\ status[wants[h]] = "live"
Refuse(h) == Move(h, "asked", "refused") /\ status[wants[h]] # "live"
Serve(h)  == Move(h, "granted", "served")
Fail(h)   == Move(h, "granted", "failed") /\ status[wants[h]] = "over"

Reply(h) ==
  /\ verdict[h] \in Decided
  /\ verdict' = [verdict EXCEPT ![h] = "none"]
  /\ wants' = [wants EXCEPT ![h] = None]
  /\ UNCHANGED status

\* The process dies: every lease ends, every request is cut.
Drop ==
  /\ status' = [t \in Tokens |-> IF status[t] = "live" THEN "over" ELSE status[t]]
  /\ wants' = [h \in Handlers |-> None]
  /\ verdict' = [h \in Handlers |-> "none"]

Next ==
  \/ \E t \in Tokens : Issue(t)
  \/ \E S \in SUBSET Tokens : Expire(S)
  \/ \E h \in Handlers, t \in Tokens : Ask(h, t)
  \/ \E h \in Handlers : Grant(h) \/ Refuse(h) \/ Serve(h) \/ Fail(h) \/ Reply(h)
  \/ Drop

Spec == Init /\ [][Next]_vars
================================================================================
