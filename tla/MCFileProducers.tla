---------------------------- MODULE MCFileProducers ----------------------------
(***************************************************************************)
(* FileProducers for TLC.  A tick is ten minutes at the finest, so that    *)
(* the lifetimes of 15 and 20 minutes are one and two ticks.               *)
(***************************************************************************)
EXTENDS FileProducers, TLC

CONSTANTS t1, t2, p1, p2, h1

MCTTLOf == [k \in Tools |-> IF k = "transcript" THEN 1 ELSE 2]

MCSymmetry == Permutations(Tokens) \cup Permutations(Paths)
================================================================================
