------------------------------ MODULE CacheMeta ------------------------------
(***************************************************************************)
(* The client's half of the informed cache (client/cache_meta.cc): which   *)
(* cipher features the server's inform cache of this client holds, and in  *)
(* which upload each was last used.  Version 0 stands for "not in the      *)
(* index": the first upload runs with version 1.                           *)
(***************************************************************************)
EXTENDS SimilarPolicy

CONSTANTS
  LastNPara,         \* CacheMeta::last_n_para_
  FeatureBatchSize   \* CacheMeta::send_recipe_batch_size_

ASSUME CacheMetaAssumption ==
  /\ LastNPara \in Nat \ {0}
  /\ FeatureBatchSize \in Nat \ {0}

VARIABLES
  feature_2_version_idx,   \* in memory, for the upload in progress
  cur_version_num,
  cache_meta_db            \* the file: what the last StoreCacheMeta wrote

cacheMetaVars == <<feature_2_version_idx, cur_version_num, cache_meta_db>>

VersionIdx == [Feature -> Nat]

CacheMetaTypeOK ==
  /\ feature_2_version_idx \in VersionIdx
  /\ cur_version_num \in Nat
  /\ cache_meta_db \in [version : Nat, idx : VersionIdx]

CacheMetaInit ==
  /\ feature_2_version_idx = [f \in Feature |-> 0]
  /\ cur_version_num = 0
  /\ cache_meta_db = [version |-> 0, idx |-> [f \in Feature |-> 0]]

ClientFeatures == {f \in Feature : feature_2_version_idx[f] # 0}

(* The constructor: a new upload, one version further than the stored one. *)
LoadCacheMeta ==
  /\ feature_2_version_idx' = cache_meta_db.idx
  /\ cur_version_num' = cache_meta_db.version + 1
  /\ UNCHANGED cache_meta_db

(* The destructor, once the upload's threads are joined.                   *)
StoreCacheMeta ==
  /\ cache_meta_db' = [version |-> cur_version_num, idx |-> feature_2_version_idx]
  /\ UNCHANGED <<feature_2_version_idx, cur_version_num>>

(* A hit refreshes every feature of the chunk that is in the index.        *)
QueryCacheMeta(c) == FeatureSet(c) \cap ClientFeatures # {}

(* Faulty variants, named for their fault, show that a property notices it.*)
RefreshUnknownFeatures(c) ==
  feature_2_version_idx' =
    [f \in Feature |-> IF f \in FeatureSet(c) THEN cur_version_num
                                              ELSE feature_2_version_idx[f]]

RefreshFeatures(c) ==
  feature_2_version_idx' =
    [f \in Feature |-> IF f \in FeatureSet(c) \cap ClientFeatures
                         THEN cur_version_num
                         ELSE feature_2_version_idx[f]]

UpdateFirstFeature(c) ==
  feature_2_version_idx' =
    [f \in Feature |-> IF f = FeaturesOf[c][1] THEN cur_version_num
                                              ELSE feature_2_version_idx[f]]

UpdateCacheMeta(c) ==
  feature_2_version_idx' =
    [f \in Feature |-> IF f \in FeatureSet(c)
                         THEN cur_version_num
                         ELSE feature_2_version_idx[f]]

(* EvictFeature walks the index once and erases what was last used too     *)
(* long ago.  It sends what it erases in full batches, and behind the walk *)
(* the rest as a batch of its own, which may be empty.                     *)
Evictable ==
  {f \in ClientFeatures : cur_version_num - feature_2_version_idx[f] >= LastNPara}

Erase(S) ==
  feature_2_version_idx' =
    [f \in Feature |-> IF f \in S THEN 0 ELSE feature_2_version_idx[f]]

EvictFeature(S) ==
  /\ S \subseteq Evictable
  /\ Cardinality(S) = FeatureBatchSize
  /\ Erase(S)

EvictTail ==
  /\ Cardinality(Evictable) < FeatureBatchSize
  /\ Erase(Evictable)
=============================================================================
