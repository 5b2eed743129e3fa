--------------------------- MODULE MCClientUpload ---------------------------
(***************************************************************************)
(* An instance of ClientUpload for TLC.  p and q are alike in two of three *)
(* features and in their first bytes, q and r in one feature.              *)
(***************************************************************************)
EXTENDS ClientUpload

CONSTANTS cl1, cl2, p, q, r, f1, f2, f3, f4, f5, f6

FeaturesOfPQR ==
  [ch \in Chunk |-> IF ch = p THEN <<f1, f2, f3>> ELSE IF ch = q THEN <<f1, f2, f4>>
                    ELSE <<f4, f5, f6>>]
Heads == [ch \in Chunk |-> IF ch = r THEN r ELSE p]
TwoFiles == [cl \in Client |-> IF cl = cl1 THEN {<<p, q, p>>} ELSE {<<>>, <<r, p>>}]
TwoMethods == [cl \in Client |-> IF cl = cl1 THEN {"full_edr"} ELSE {"only_enc", "enc_comp"}]
=============================================================================
