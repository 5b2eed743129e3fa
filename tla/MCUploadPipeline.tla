-------------------------- MODULE MCUploadPipeline --------------------------
(***************************************************************************)
(* Instances of UploadPipeline for TLC: the features of u and v and those  *)
(* of v and w overlap, those of u and w do not.  Clients p1 and p2         *)
(* use method FULL_EDR, client p3 one of the others.                       *)
(***************************************************************************)
EXTENDS UploadPipeline

CONSTANTS u, v, w, f1, f2, f3, f4, p1, p2, p3

OverlapFeatures ==
  [ch \in Chunk |-> CASE ch = u -> <<f1, f2>>
                      [] ch = v -> <<f2, f3>>
                      [] ch = w -> <<f3, f4>>]

Methods == [cl \in Client |-> IF cl = p3 THEN "NORMAL" ELSE "FULL_EDR"]
=============================================================================
