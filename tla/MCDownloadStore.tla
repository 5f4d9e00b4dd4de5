---------------------------- MODULE MCDownloadStore ----------------------------
(* DownloadStore for TLC: small sets of tokens, paths and handlers. *)
EXTENDS DownloadStore, TLC

CONSTANTS t1, t2, p1, p2, h1, h2

MCSymmetry == Permutations(Tokens) \cup Permutations(Paths) \cup Permutations(Handlers)
================================================================================
