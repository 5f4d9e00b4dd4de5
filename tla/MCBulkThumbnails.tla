--------------------------- MODULE MCBulkThumbnails ----------------------------
(* BulkThumbnails for TLC: URLs of different videos. *)
EXTENDS BulkThumbnails

CONSTANTS t1, t2, t3, t4, u1, u2, u3, va, vb, vc, zip

Different == [u \in URLs |-> CASE u = u1 -> va [] u = u2 -> vb [] u = u3 -> vc]
================================================================================
