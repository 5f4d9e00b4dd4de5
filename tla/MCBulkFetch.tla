------------------------------ MODULE MCBulkFetch ------------------------------
(* BulkFetch for TLC: goroutines of one bulk request beside a single call. *)
EXTENDS BulkFetch

CONSTANTS c1, c2, c3, s1, r1, r2

MCStartedBy == [c \in Calls |-> IF c = s1 THEN None ELSE r1]
================================================================================
