----------------------------- MODULE InformCache -----------------------------
(***************************************************************************)
(* The server's half of the informed cache (server/inform_cache.cc), one   *)
(* per client id: uncompressed base chunks in a key-value store that       *)
(* survives the process, a reference count per base and the index from     *)
(* features to bases, both in memory and written to two files when the     *)
(* session ends.                                                           *)
(***************************************************************************)
EXTENDS SimilarPolicy, Integers

VARIABLES
  local_feature_2_fp_db,   \* feature -> base
  base_2_cnt_idx,          \* base -> reference count, NoCnt if not in the map
  base_2_data_db,          \* the bases in the key-value store
  cnt_file,                \* the "<client id>_cnt" file
  idx_file                 \* the "<client id>_idx" file

informCacheVars ==
  <<local_feature_2_fp_db, base_2_cnt_idx, base_2_data_db, cnt_file, idx_file>>

NoCnt == -1
CntIdx == [Chunk -> Nat \cup {NoCnt}]
EmptyCntIdx == [c \in Chunk |-> NoCnt]

InformCacheTypeOK ==
  /\ local_feature_2_fp_db \in Index
  /\ base_2_cnt_idx \in CntIdx
  /\ base_2_data_db \in SUBSET Chunk
  /\ cnt_file \in CntIdx
  /\ idx_file \in Index

InformCacheInit ==
  /\ local_feature_2_fp_db = EmptyIndex
  /\ base_2_cnt_idx = EmptyCntIdx
  /\ base_2_data_db = {}
  /\ cnt_file = EmptyCntIdx
  /\ idx_file = EmptyIndex

LocalFeatures == Known(local_feature_2_fp_db)
Refs(b) == {f \in Feature : local_feature_2_fp_db[f] = b}

(* LoadCntIdx gives up before it reads the feature index when the count    *)
(* index holds no item.                                                    *)
LoadCntIdx ==
  /\ base_2_cnt_idx' = cnt_file
  /\ local_feature_2_fp_db' = IF cnt_file = EmptyCntIdx THEN EmptyIndex ELSE idx_file
  /\ UNCHANGED <<base_2_data_db, cnt_file, idx_file>>

(* Faulty variants, named for their fault, show that a property notices it.*)
InsertDataOnly(c) ==
  /\ base_2_cnt_idx' = [base_2_cnt_idx EXCEPT ![c] = SUPER_FEATURE_PER_CHUNK]
  /\ base_2_data_db' = base_2_data_db \cup {c}
  /\ UNCHANGED <<local_feature_2_fp_db, cnt_file, idx_file>>

InsertCachedChunk(c) ==
  /\ local_feature_2_fp_db' = UpdateFeatureIndex(local_feature_2_fp_db, c)
  /\ base_2_cnt_idx' =
       [base_2_cnt_idx EXCEPT ![c] = IF @ = NoCnt THEN SUPER_FEATURE_PER_CHUNK
                                                  ELSE @ + SUPER_FEATURE_PER_CHUNK]
  /\ base_2_data_db' =
       IF base_2_cnt_idx[c] = NoCnt THEN base_2_data_db \cup {c} ELSE base_2_data_db
  /\ UNCHANGED <<cnt_file, idx_file>>

(* EvictCacheChunk on the features S: each must be in the feature index    *)
(* and lead to a base that is in the count index, or the server exits.     *)
CanEvict(S) ==
  \A f \in S : /\ local_feature_2_fp_db[f] # NoBase
               /\ base_2_cnt_idx[local_feature_2_fp_db[f]] # NoCnt

DropNothing(cnt, n) == cnt

DropRefs(cnt, n) == IF cnt > n THEN cnt - n ELSE 0

EvictCacheChunk(S) ==
  /\ base_2_cnt_idx' =
       [b \in Chunk |-> IF base_2_cnt_idx[b] = NoCnt
                          THEN NoCnt
                          ELSE DropRefs(base_2_cnt_idx[b], Cardinality(S \cap Refs(b)))]
  /\ local_feature_2_fp_db' =
       [f \in Feature |-> IF f \in S THEN NoBase ELSE local_feature_2_fp_db[f]]
  /\ UNCHANGED <<base_2_data_db, cnt_file, idx_file>>

SeldomReferenced == {b \in Chunk : base_2_cnt_idx[b] \in {0, 1}}

(* The end of a session (~ClientVar): unreferenced bases leave the store,  *)
(* then ~InformCache writes the counts and then the feature index.         *)
Unreferenced == {b \in Chunk : base_2_cnt_idx[b] = 0}

DeleteCountOnly ==
  /\ base_2_cnt_idx' =
       [b \in Chunk |-> IF b \in Unreferenced THEN NoCnt ELSE base_2_cnt_idx[b]]
  /\ UNCHANGED <<local_feature_2_fp_db, base_2_data_db, cnt_file, idx_file>>

DeleteEvictChunk ==
  /\ base_2_data_db' = base_2_data_db \ Unreferenced
  /\ base_2_cnt_idx' =
       [b \in Chunk |-> IF b \in Unreferenced THEN NoCnt ELSE base_2_cnt_idx[b]]
  /\ UNCHANGED <<local_feature_2_fp_db, cnt_file, idx_file>>

StoreCnt ==
  /\ cnt_file' = base_2_cnt_idx
  /\ UNCHANGED <<local_feature_2_fp_db, base_2_cnt_idx, base_2_data_db, idx_file>>

StoreIdx ==
  /\ idx_file' = local_feature_2_fp_db
  /\ UNCHANGED <<local_feature_2_fp_db, base_2_cnt_idx, base_2_data_db, cnt_file>>

(* The process is gone: what was only in memory is lost.                   *)
LoseMemory ==
  /\ local_feature_2_fp_db' = EmptyIndex
  /\ base_2_cnt_idx' = EmptyCntIdx
  /\ UNCHANGED <<base_2_data_db, cnt_file, idx_file>>
=============================================================================
