--------------------------- MODULE MCRequestPipeline ---------------------------
(***************************************************************************)
(* RequestPipeline for TLC: two calls at a time, of pages of each origin   *)
(* with and without a token, of a page that is not asked for first, and of *)
(* a program with each body.                                               *)
(***************************************************************************)
EXTENDS RequestPipeline

CONSTANTS r1, r2

From(origin, token, body) == [origin |-> origin, token |-> token,
                              type |-> "json", body |-> body]
AsText(c) == [c EXCEPT !.type = "text"]

MCCalls ==
  {From("same", t, "good") : t \in {"none", "valid", "stale"}}
  \cup {From("allowed", t, "good") : t \in {"none", "valid"}}
  \cup {From("foreign", "none", "good"), AsText(From("foreign", "none", "good")),
        From("same", "valid", "refused"),
        From("program", "none", "garbled"), From("program", "valid", "noOptions")}
================================================================================
