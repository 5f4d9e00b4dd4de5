--------------------------- MODULE MCServerLifecycle ---------------------------
(* ServerLifecycle for TLC: three connections. *)
EXTENDS ServerLifecycle

CONSTANTS r1, r2, r3
================================================================================
