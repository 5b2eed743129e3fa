---------------------------- MODULE SimilarPolicy ----------------------------
(***************************************************************************)
(* Finesse similarity detection (reduction/similar_policy.cc), shared by   *)
(* the key manager, the storage server's global feature index and every    *)
(* client's inform cache.  A chunk carries SUPER_FEATURE_PER_CHUNK super   *)
(* features; an index maps a feature to the base chunk inserted under it.  *)
(***************************************************************************)
EXTENDS Naturals, FiniteSets

CONSTANTS
  Chunk,       \* chunks, named by their fingerprint
  Feature,     \* super-feature values
  NoBase,      \* what a lookup of a feature that is not in the index yields
  SUPER_FEATURE_PER_CHUNK,
  FeaturesOf   \* the features FinesseUtil::ExtractFeature computes of a chunk

Slot == 1 .. SUPER_FEATURE_PER_CHUNK

(* Two slots of one chunk may hold the same feature: ExtractFeature makes  *)
(* them equal when the sub-chunk maxima of every group coincide, as they   *)
(* do for constant data and for a tail chunk of less than 12 bytes.        *)
ASSUME SimilarAssumption ==
  /\ SUPER_FEATURE_PER_CHUNK \in Nat \ {0}
  /\ IsFiniteSet(Feature)
  /\ FeaturesOf \in [Chunk -> [Slot -> Feature]]
  /\ NoBase \notin Chunk

FeatureSet(c) == {FeaturesOf[c][i] : i \in Slot}

Index == [Feature -> Chunk \cup {NoBase}]
EmptyIndex == [f \in Feature |-> NoBase]
Known(index) == {f \in Feature : index[f] # NoBase}

-----------------------------------------------------------------------------
(* FindBaseChunk, from what the index answered for the chunk's features.   *)

Matches(answer) == {i \in Slot : answer[i] # NoBase}
FeatureFreq(answer, b) == Cardinality({i \in Slot : answer[i] = b})
Candidates(answer) == {answer[i] : i \in Matches(answer)}

FirstMatch(answer) ==
  answer[CHOOSE i \in Matches(answer) : \A j \in Matches(answer) : i <= j]

(* With three features at most one base can answer twice or more, so the   *)
(* order in which std::sort leaves equal frequencies does not matter.      *)
BaseOf(answer) ==
  IF \A b \in Candidates(answer) : FeatureFreq(answer, b) = 1
    THEN FirstMatch(answer)
    ELSE CHOOSE b \in Candidates(answer) :
           \A d \in Candidates(answer) :
             FeatureFreq(answer, d) <= FeatureFreq(answer, b)

Lookup(index, c) == [i \in Slot |-> index[FeaturesOf[c][i]]]
IsSimilar(index, c) == Matches(Lookup(index, c)) # {}
FindBaseChunk(index, c) == BaseOf(Lookup(index, c))

(* UpdateFeatureIndex: every feature of the chunk now leads to it.         *)
UpdateFeatureIndex(index, c) ==
  [f \in Feature |-> IF f \in FeatureSet(c) THEN c ELSE index[f]]
=============================================================================
