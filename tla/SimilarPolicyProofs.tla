------------------------- MODULE SimilarPolicyProofs -------------------------
(***************************************************************************)
(* What SimilarPolicy's operators return, for every set of chunks and      *)
(* features.                                                               *)
(***************************************************************************)
EXTENDS SimilarPolicy, Integers, FiniteSetTheorems, FunctionTheorems,
        WellFoundedInduction, TLAPS

Less == {p \in Nat \X Nat : p[1] < p[2]}

(* A set of natural numbers that is not empty has a least element.         *)
LEMMA LeastNatural ==
  ASSUME NEW T \in SUBSET Nat, T # {}
  PROVE  \E m \in T : \A n \in T : m <= n
<1>1. IsWellFoundedOn(Less, Nat)
  BY NatLessThanWellFounded DEF OpToRel, Less
<1>2. PICK m \in T : \A n \in T : ~ (<<n, m>> \in Less)
  BY <1>1, WFMin
<1>3. ASSUME NEW n \in T
      PROVE  m <= n
  <2>1. ~ (<<n, m>> \in Less)
    BY <1>2
  <2>2. <<n, m>> \in Nat \X Nat
    OBVIOUS
  <2>3. QED
    BY <2>1, <2>2 DEF Less
<1>4. QED
  BY <1>3

(* A chunk has at least one feature and at most SUPER_FEATURE_PER_CHUNK,   *)
(* all of them members of Feature.                                         *)
LEMMA FeatureSetFacts ==
  ASSUME NEW c \in Chunk
  PROVE  /\ FeatureSet(c) \subseteq Feature
         /\ FeatureSet(c) # {}
         /\ IsFiniteSet(FeatureSet(c))
         /\ Cardinality(FeatureSet(c)) \in Nat
         /\ Cardinality(FeatureSet(c)) <= SUPER_FEATURE_PER_CHUNK
<1> USE SimilarAssumption
<1>1. FeaturesOf[c] \in [Slot -> Feature]
  OBVIOUS
<1>2. IsFiniteSet(Slot) /\ Cardinality(Slot) = SUPER_FEATURE_PER_CHUNK
  BY FS_Interval DEF Slot
<1>3. FeatureSet(c) \subseteq Feature
  BY <1>1 DEF FeatureSet
<1>4. 1 \in Slot /\ FeaturesOf[c][1] \in FeatureSet(c)
  BY DEF Slot, FeatureSet
<1>5. FeaturesOf[c] \in Surjection(Slot, FeatureSet(c))
  BY <1>1 DEF FeatureSet, Surjection
<1>6. IsFiniteSet(FeatureSet(c)) /\ Cardinality(FeatureSet(c)) <= Cardinality(Slot)
  BY <1>2, <1>5, FS_Surjection
<1>7. Cardinality(FeatureSet(c)) \in Nat
  BY <1>6, FS_CardinalityType
<1>8. QED
  BY <1>2, <1>3, <1>4, <1>6, <1>7

(* FindBaseChunk returns one of the bases the index answered with, however *)
(* it chooses between them.                                                *)
LEMMA BaseOfAnswered ==
  ASSUME NEW answer, Matches(answer) # {}
  PROVE  BaseOf(answer) \in Candidates(answer)
<1> USE SimilarAssumption
<1>1. CASE \A b \in Candidates(answer) : FeatureFreq(answer, b) = 1
  <2>1. Matches(answer) \in SUBSET Nat
    BY DEF Matches, Slot
  <2>2. \E i \in Matches(answer) : \A j \in Matches(answer) : i <= j
    BY <2>1, LeastNatural
  <2>3. FirstMatch(answer) \in Candidates(answer)
    BY <2>2 DEF FirstMatch, Candidates
  <2>4. QED
    BY <1>1, <2>3 DEF BaseOf
<1>2. CASE ~ \A b \in Candidates(answer) : FeatureFreq(answer, b) = 1
  <2> DEFINE Rest(b) == SUPER_FEATURE_PER_CHUNK - FeatureFreq(answer, b)
             Rests == {n \in Nat : \E b \in Candidates(answer) : n = Rest(b)}
  <2>1. IsFiniteSet(Slot) /\ Cardinality(Slot) = SUPER_FEATURE_PER_CHUNK
    BY FS_Interval DEF Slot
  <2>2. ASSUME NEW b
        PROVE  /\ FeatureFreq(answer, b) \in Nat
               /\ FeatureFreq(answer, b) <= SUPER_FEATURE_PER_CHUNK
    <3>1. {i \in Slot : answer[i] = b} \in SUBSET Slot
      OBVIOUS
    <3>2. QED
      BY <2>1, <3>1, FS_Subset, FS_CardinalityType DEF FeatureFreq
  <2>3. ASSUME NEW b \in Candidates(answer)
        PROVE  Rest(b) \in Rests
    BY <2>2
  <2>4. Rests # {} /\ Rests \in SUBSET Nat
    <3>1. PICK b : b \in Candidates(answer)
      BY DEF Candidates
    <3>2. Rest(b) \in Rests
      BY <2>3, <3>1
    <3>3. QED
      BY <3>2
  <2>5. PICK m \in Rests : \A n \in Rests : m <= n
    <3> HIDE DEF Rests
    <3> QED
      BY <2>4, LeastNatural
  <2>6. PICK b \in Candidates(answer) : m = Rest(b)
    OBVIOUS
  <2>7. ASSUME NEW d \in Candidates(answer)
        PROVE  FeatureFreq(answer, d) <= FeatureFreq(answer, b)
    <3>1. Rest(b) <= Rest(d)
      BY <2>3, <2>5, <2>6
    <3>2. QED
      BY <2>2, <3>1
  <2>8. QED
    BY <1>2, <2>7 DEF BaseOf
<1>3. QED
  BY <1>1, <1>2

(* A chunk is similar iff the index knows one of its features.             *)
LEMMA SimilarIffKnown ==
  ASSUME NEW index \in Index, NEW c \in Chunk
  PROVE  IsSimilar(index, c) <=> FeatureSet(c) \cap Known(index) # {}
<1> USE SimilarAssumption
<1>1. FeaturesOf[c] \in [Slot -> Feature]
  OBVIOUS
<1>2. QED
  BY <1>1 DEF IsSimilar, Matches, Lookup, FeatureSet, Known

(* The base of a similar chunk is what the index has under one of the      *)
(* chunk's features.                                                       *)
LEMMA FindBaseChunkIndexed ==
  ASSUME NEW index \in Index, NEW c \in Chunk, IsSimilar(index, c)
  PROVE  \E f \in FeatureSet(c) \cap Known(index) : FindBaseChunk(index, c) = index[f]
<1> USE SimilarAssumption
<1>1. FeaturesOf[c] \in [Slot -> Feature]
  OBVIOUS
<1>2. FindBaseChunk(index, c) \in Candidates(Lookup(index, c))
  BY BaseOfAnswered DEF IsSimilar, FindBaseChunk
<1>3. PICK i \in Slot : /\ Lookup(index, c)[i] # NoBase
                        /\ FindBaseChunk(index, c) = Lookup(index, c)[i]
  BY <1>2 DEF Candidates, Matches
<1>4. Lookup(index, c)[i] = index[FeaturesOf[c][i]]
  BY DEF Lookup
<1>5. FeaturesOf[c][i] \in FeatureSet(c) \cap Known(index)
  BY <1>1, <1>3, <1>4 DEF FeatureSet, Known
<1>6. QED
  BY <1>3, <1>4, <1>5

(* UpdateFeatureIndex adds the features of the chunk to what is known.     *)
LEMMA UpdateFeatureIndexFacts ==
  ASSUME NEW index \in Index, NEW c \in Chunk
  PROVE  /\ UpdateFeatureIndex(index, c) \in Index
         /\ Known(UpdateFeatureIndex(index, c)) = Known(index) \cup FeatureSet(c)
         /\ \A f \in Feature : UpdateFeatureIndex(index, c)[f]
                                 = IF f \in FeatureSet(c) THEN c ELSE index[f]
<1>1. FeatureSet(c) \subseteq Feature
  BY FeatureSetFacts
<1>2. c # NoBase
  BY SimilarAssumption
<1>3. QED
  BY <1>1, <1>2 DEF UpdateFeatureIndex, Index, Known
=============================================================================
