------------------------------ MODULE BoundedPool ------------------------------
(***************************************************************************)
(* What a counting semaphore promises: workers enter and leave, and at     *)
(* most Limit of them are inside.  The semaphore of the yt-dlp client,     *)
(* which takes tokens out of a full channel (internal/ytdlp), implements   *)
(* it, and so does the channel that the goroutines of one bulk request     *)
(* send to (bulkthumbnaildownloader/tool.go).                              *)
(***************************************************************************)
EXTENDS Naturals, FiniteSets

CONSTANTS Workers, Limit

VARIABLE inside

Init == inside = {}

Enter(w) ==
  /\ w \notin inside
  /\ Cardinality(inside) < Limit
  /\ inside' = inside \cup {w}

Leave(w) ==
  /\ w \in inside
  /\ inside' = inside \ {w}

Next == \E w \in Workers : Enter(w) \/ Leave(w)

Spec == Init /\ [][Next]_inside
================================================================================
