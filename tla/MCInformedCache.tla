--------------------------- MODULE MCInformedCache ---------------------------
(***************************************************************************)
(* Instances of InformedCache for TLC: chunks whose features overlap       *)
(* pairwise in a chain (a - x - y), and one chunk t whose features         *)
(* coincide, as those of a short tail chunk do.                            *)
(***************************************************************************)
EXTENDS InformedCache

CONSTANTS a, x, y, t, f1, f2, f3, f4, f5

ChainFeatures ==
  [c \in Chunk |-> CASE c = a -> <<f1, f2>>
                     [] c = x -> <<f2, f3>>
                     [] c = y -> <<f3, f4>>
                     [] c = t -> <<f5, f5>>]
=============================================================================
