------------------------- MODULE InformedCacheProofs -------------------------
(***************************************************************************)
(* The informed cache keeps its two halves in agreement, for every set of  *)
(* chunks, every assignment of features and every number of uploads, as    *)
(* long as neither process dies; and it keeps every base that a feature    *)
(* leads to even if they do.                                               *)
(***************************************************************************)
EXTENDS InformedCache, SimilarPolicyProofs, SequenceTheorems

USE CacheMetaAssumption, BoundAssumption

-----------------------------------------------------------------------------
(* Messages and the wire *)

(* A message is one of the three kinds, with the features of its kind.     *)
LEMMA MessageFacts ==
  ASSUME NEW m \in Message
  PROVE  /\ m.features \in SUBSET Feature
         /\ \/ /\ m.type \in {"FULL_EDR_CACHE_CHUNK", "FULL_EDR_UNCOMPRESS_CHUNK"}
               /\ m.chunk \in Chunk
               /\ m.features = FeatureSet(m.chunk)
            \/ m.type = "CLIENT_UPLOAD_FEATURE"
<1>1. CASE \E c \in Chunk : m = CacheChunk(c)
  BY <1>1, FeatureSetFacts DEF CacheChunk
<1>2. CASE \E c \in Chunk : m = UncompressChunk(c)
  BY <1>2, FeatureSetFacts DEF UncompressChunk
<1>3. CASE \E S \in SUBSET Feature : m = FeatureBatch(S)
  BY <1>3 DEF FeatureBatch
<1>4. QED
  BY <1>1, <1>2, <1>3 DEF Message

(* What a thread puts at the end of the wire comes after all that is there.*)
LEMMA AppendFacts ==
  ASSUME NEW w \in Seq(Message), NEW m \in Message
  PROVE  /\ Append(w, m) \in Seq(Message)
         /\ DOMAIN w = 1 .. Len(w)
         /\ Len(w) \in Nat
         /\ DOMAIN Append(w, m) = 1 .. Len(w) + 1
         /\ Append(w, m)[Len(w) + 1] = m
         /\ \A i \in 1 .. Len(w) : Append(w, m)[i] = w[i]
  OBVIOUS

(* What a thread takes is the first message, the others move up by one.    *)
LEMMA TailFacts ==
  ASSUME NEW w \in Seq(Message), w # <<>>
  PROVE  /\ Tail(w) \in Seq(Message)
         /\ Head(w) = w[1] /\ Head(w) \in Message
         /\ Len(w) \in Nat \ {0}
         /\ DOMAIN w = 1 .. Len(w)
         /\ DOMAIN Tail(w) = 1 .. Len(w) - 1
         /\ \A i \in 1 .. Len(w) - 1 : Tail(w)[i] = w[i + 1]
  OBVIOUS

(* A feature is pending iff a message of that kind on the wire carries it. *)
LEMMA PendingIff ==
  ASSUME NEW type, NEW f
  PROVE  f \in Pending(type) <=>
           \E i \in DOMAIN wire : wire[i].type = type /\ f \in wire[i].features
  BY DEF Pending

(* The features that lead to one base are finitely many.                   *)
LEMMA RefsFinite ==
  ASSUME NEW b
  PROVE  /\ Refs(b) \subseteq Feature
         /\ IsFiniteSet(Refs(b))
         /\ Cardinality(Refs(b)) \in Nat
<1>1. Refs(b) \subseteq Feature
  BY DEF Refs
<1>2. IsFiniteSet(Refs(b))
  BY <1>1, SimilarAssumption, FS_Subset
<1>3. QED
  BY <1>1, <1>2, FS_CardinalityType

-----------------------------------------------------------------------------
(* Types *)

LEMMA DropRefsType ==
  ASSUME NEW cnt \in Nat, NEW S, NEW b
  PROVE  DropRefs(cnt, Cardinality(S \cap Refs(b))) \in Nat
<1>1. IsFiniteSet(S \cap Refs(b))
  BY RefsFinite, FS_Intersection
<1>2. Cardinality(S \cap Refs(b)) \in Nat
  BY <1>1, FS_CardinalityType
<1>3. QED
  BY <1>2 DEF DropRefs

(* The client's steps keep the types of all variables.                     *)
LEMMA ClientTypes ==
  ASSUME TypeOK, ClientNext
  PROVE  TypeOK'
<1> USE DEF TypeOK, CacheMetaTypeOK, VersionIdx
<1>1. ASSUME NEW c \in Chunk, FullEDR(c)
      PROVE  TypeOK'
  <2>1. CacheChunk(c) \in Message /\ UncompressChunk(c) \in Message
    BY DEF Message
  <2>2. wire' \in Seq(Message)
    <3>1. \E m \in Message : wire' = Append(wire, m)
      BY <1>1, <2>1 DEF FullEDR
    <3>2. QED
      BY <3>1, AppendFacts
  <2>3. feature_2_version_idx' \in VersionIdx
    BY <1>1 DEF FullEDR, RefreshFeatures, UpdateCacheMeta
  <2>4. InformCacheTypeOK'
    BY <1>1 DEF FullEDR, InformCacheTypeOK, informCacheVars
  <2>5. QED
    BY <1>1, <2>2, <2>3, <2>4 DEF FullEDR
<1>2. CASE RecipeEnd
  BY <1>2 DEF RecipeEnd, cacheMetaVars, informCacheVars, boundVars, InformCacheTypeOK
<1>3. ASSUME NEW S \in SUBSET Evictable, SendFeatures(S)
      PROVE  TypeOK'
  <2>1. S \in SUBSET Feature
    BY DEF Evictable, ClientFeatures
  <2>2. FeatureBatch(S) \in Message
    BY <2>1 DEF Message
  <2>3. wire' \in Seq(Message)
    BY <1>3, <2>2, AppendFacts DEF SendFeatures
  <2>4. feature_2_version_idx' \in VersionIdx
    BY <1>3 DEF SendFeatures, EvictFeature, Erase
  <2>5. InformCacheTypeOK'
    BY <1>3 DEF SendFeatures, InformCacheTypeOK, informCacheVars
  <2>6. QED
    BY <1>3, <2>3, <2>4, <2>5 DEF SendFeatures, boundVars
<1>4. CASE Finish
  <2>1. FeatureBatch(Evictable) \in Message
    BY DEF Message, Evictable, ClientFeatures
  <2>2. wire' \in Seq(Message)
    BY <1>4, <2>1, AppendFacts DEF Finish
  <2>3. feature_2_version_idx' \in VersionIdx
    BY <1>4 DEF Finish, EvictTail, Erase
  <2>4. InformCacheTypeOK'
    BY <1>4 DEF Finish, InformCacheTypeOK, informCacheVars
  <2>5. QED
    BY <1>4, <2>2, <2>3, <2>4 DEF Finish, boundVars
<1>5. CASE ClientExit
  BY <1>5 DEF ClientExit, StoreCacheMeta, informCacheVars, boundVars, InformCacheTypeOK
<1>6. QED
  BY <1>1, <1>2, <1>3, <1>4, <1>5 DEF ClientNext

(* The server's steps keep the types of all variables.                     *)
LEMMA ServerTypes ==
  ASSUME TypeOK, ServerNext
  PROVE  TypeOK'
<1> USE DEF TypeOK, InformCacheTypeOK
<1> DEFINE SessionTypes ==
      /\ client \in {"off", "sending", "evicting", "finished"}
      /\ server \in {"unlocked", "serving", "deleted", "cnt_stored", "exit"}
      /\ n_upload \in Nat /\ n_chunk \in Nat
      /\ n_crash \in [client : Nat, server : Nat]
      /\ last_sent \in [Chunk -> Nat]
<1>1. CASE ProcCacheChunk
  <2>1. Head(wire).chunk \in Chunk /\ wire' \in Seq(Message)
    BY <1>1, TailFacts, MessageFacts DEF ProcCacheChunk, Receive
  <2>2. local_feature_2_fp_db' \in Index
    BY <1>1, <2>1, UpdateFeatureIndexFacts DEF ProcCacheChunk, InsertCachedChunk
  <2>3. base_2_cnt_idx' \in CntIdx
    BY <1>1, <2>1, SimilarAssumption DEF ProcCacheChunk, InsertCachedChunk, CntIdx
  <2>4. base_2_data_db' \in SUBSET Chunk
    BY <1>1, <2>1 DEF ProcCacheChunk, InsertCachedChunk
  <2>5. stored' \in [Chunk -> Stat]
    BY <1>1, <2>1 DEF ProcCacheChunk, Stat
  <2>6. SessionTypes' /\ CacheMetaTypeOK'
    BY <1>1 DEF ProcCacheChunk, boundVars, cacheMetaVars, CacheMetaTypeOK
  <2>7. base_of' \in [Chunk -> Chunk \cup {NoBase}] /\ cnt_file' \in CntIdx /\ idx_file' \in Index
    BY <1>1 DEF ProcCacheChunk, InsertCachedChunk
  <2>8. QED
    BY <2>1, <2>2, <2>3, <2>4, <2>5, <2>6, <2>7
<1>2. CASE ProcUncompressChunk
  <2>1. Head(wire).chunk \in Chunk /\ wire' \in Seq(Message)
    BY <1>2, TailFacts, MessageFacts DEF ProcUncompressChunk, Receive
  <2>2. InformCacheTypeOK' /\ CacheMetaTypeOK'
    BY <1>2 DEF ProcUncompressChunk, informCacheVars, cacheMetaVars, CacheMetaTypeOK
  <2>3. /\ stored' \in [Chunk -> Stat]
        /\ base_of' \in [Chunk -> Chunk \cup {NoBase}]
        /\ server' \in {server, "exit"}
    <3> DEFINE c == Head(wire).chunk
               b == FindBaseChunk(local_feature_2_fp_db, c)
    <3>1. CASE UNCHANGED <<stored, base_of>> /\ server' \in {server, "exit"}
      BY <3>1
    <3>2. CASE /\ b \in base_2_data_db /\ server' = server
               /\ stored' = [stored EXCEPT ![c] = "CACHE_DELTA"]
               /\ base_of' = [base_of EXCEPT ![c] = b]
      <4>1. b \in Chunk
        BY <3>2
      <4>2. QED
        BY <2>1, <3>2, <4>1 DEF Stat
    <3>3. CASE /\ stored' = [stored EXCEPT ![c] = "RAW_AS_COMP"]
               /\ UNCHANGED <<server, base_of>>
      BY <2>1, <3>3 DEF Stat
    <3>4. QED
      BY <1>2, <3>1, <3>2, <3>3 DEF ProcUncompressChunk
  <2>4. SessionTypes'
    BY <1>2, <2>3 DEF ProcUncompressChunk, boundVars
  <2>5. QED
    BY <2>1, <2>2, <2>3, <2>4
<1>3. CASE ProcEvictFeature
  <2>1. Head(wire).features \in SUBSET Feature /\ wire' \in Seq(Message)
    BY <1>3, TailFacts, MessageFacts DEF ProcEvictFeature, Receive
  <2>2. SessionTypes' /\ CacheMetaTypeOK'
    BY <1>3 DEF ProcEvictFeature, boundVars, cacheMetaVars, CacheMetaTypeOK,
       informCacheVars
  <2>3. InformCacheTypeOK'
    <3>1. CASE UNCHANGED informCacheVars
      BY <3>1 DEF informCacheVars
    <3>2. ASSUME NEW S \in SUBSET Feature, EvictCacheChunk(S)
          PROVE  InformCacheTypeOK'
      <4>1. base_2_cnt_idx' \in CntIdx
        BY <3>2, DropRefsType DEF EvictCacheChunk, CntIdx, NoCnt
      <4>2. local_feature_2_fp_db' \in Index
        BY <3>2 DEF EvictCacheChunk, Index
      <4>3. QED
        BY <3>2, <4>1, <4>2 DEF EvictCacheChunk
    <3>3. QED
      BY <1>3, <2>1, <3>1, <3>2 DEF ProcEvictFeature
  <2>4. QED
    BY <1>3, <2>1, <2>2, <2>3 DEF ProcEvictFeature
<1>4. CASE DeleteEvict
  BY <1>4 DEF DeleteEvict, DeleteEvictChunk, CntIdx, cacheMetaVars, CacheMetaTypeOK, boundVars
<1>5. CASE StoreCntIdx
  BY <1>5 DEF StoreCntIdx, StoreCnt, StoreIdx, cacheMetaVars, CacheMetaTypeOK, boundVars
<1>6. QED
  BY <1>1, <1>2, <1>3, <1>4, <1>5 DEF ServerNext

(* All variables of both processes keep their types, crashes included.     *)
THEOREM TypeCorrect == Spec => []TypeOK
<1>1. Init => TypeOK
  <2> SUFFICES ASSUME Init
               PROVE  TypeOK
    OBVIOUS
  <2>1. CacheMetaTypeOK
    BY DEF Init, CacheMetaInit, CacheMetaTypeOK, VersionIdx
  <2>2. InformCacheTypeOK
    BY DEF Init, InformCacheInit, InformCacheTypeOK, EmptyCntIdx, CntIdx, EmptyIndex, Index
  <2>3. QED
    BY <2>1, <2>2 DEF Init, TypeOK, Stat
<1>2. TypeOK /\ [Next]_vars => TypeOK'
  <2> SUFFICES ASSUME TypeOK, [Next]_vars
               PROVE  TypeOK'
    OBVIOUS
  <2> USE DEF TypeOK
  <2>1. CASE Login
    <3>1. CacheMetaTypeOK'
      BY <2>1 DEF Login, LoadCacheMeta, CacheMetaTypeOK
    <3>2. EmptyIndex \in Index
      BY DEF EmptyIndex, Index
    <3>3. InformCacheTypeOK'
      BY <2>1, <3>2 DEF Login, LoadCntIdx, InformCacheTypeOK
    <3>4. QED
      BY <2>1, <3>1, <3>3 DEF Login
  <2>2. CASE ClientNext
    BY <2>2, ClientTypes
  <2>3. CASE ServerNext
    BY <2>3, ServerTypes
  <2>4. CASE ClientCrash
    BY <2>4 DEF ClientCrash, CacheMetaTypeOK, InformCacheTypeOK, informCacheVars
  <2>5. CASE ServerCrash
    <3>1. CacheMetaTypeOK' /\ client' \in {"off", "sending", "evicting", "finished"}
      BY <2>5 DEF ServerCrash, CacheMetaTypeOK, cacheMetaVars
    <3>2. InformCacheTypeOK'
      BY <2>5 DEF ServerCrash, LoseMemory, InformCacheTypeOK, EmptyIndex, Index,
         EmptyCntIdx, CntIdx
    <3>3. wire' \in Seq(Message)
      BY <2>5 DEF ServerCrash
    <3>4. n_crash' \in [client : Nat, server : Nat]
      <4>1. n_crash.server + 1 \in Nat /\ n_crash \in [client : Nat, server : Nat]
        OBVIOUS
      <4>2. n_crash' = [n_crash EXCEPT !.server = n_crash.server + 1]
        BY <2>5 DEF ServerCrash
      <4> HIDE DEF TypeOK
      <4>3. QED
        BY <4>1, <4>2
    <3>5. /\ stored' \in [Chunk -> Stat]
          /\ base_of' \in [Chunk -> Chunk \cup {NoBase}]
          /\ server' = "unlocked"
          /\ UNCHANGED <<n_upload, n_chunk, last_sent>>
      BY <2>5 DEF ServerCrash, Stat
    <3>6. QED
      BY <3>1, <3>2, <3>3, <3>4, <3>5
  <2>6. CASE UNCHANGED vars
    BY <2>6 DEF vars, cacheMetaVars, informCacheVars, sessionVars, boundVars,
       CacheMetaTypeOK, InformCacheTypeOK
  <2>7. QED
    BY <2>1, <2>2, <2>3, <2>4, <2>5, <2>6 DEF Next
<1>3. QED
  BY <1>1, <1>2, PTL DEF Spec

-----------------------------------------------------------------------------
(* The inductive invariant *)

(* A feature of the local index leads to a base that is counted, in the    *)
(* key-value store and in the fp index.                                    *)
LEMMA IndexedBase ==
  ASSUME TypeOK, BasesKept, NEW f \in LocalFeatures
  PROVE  /\ f \in Feature
         /\ local_feature_2_fp_db[f] \in Chunk
         /\ base_2_cnt_idx[local_feature_2_fp_db[f]] \in Nat
         /\ base_2_cnt_idx[local_feature_2_fp_db[f]] # NoCnt
         /\ local_feature_2_fp_db[f] \in base_2_data_db
         /\ stored[local_feature_2_fp_db[f]] # "none"
<1> DEFINE b == local_feature_2_fp_db[f]
<1>1. f \in Feature /\ b \in Chunk
  BY DEF LocalFeatures, Known, TypeOK, InformCacheTypeOK, Index
<1>2. base_2_cnt_idx[b] \in Nat \cup {NoCnt}
  BY <1>1 DEF TypeOK, InformCacheTypeOK, CntIdx
<1>3. base_2_cnt_idx[b] >= Cardinality(Refs(b)) /\ Cardinality(Refs(b)) \in Nat
  BY RefsFinite DEF BasesKept
<1>4. base_2_cnt_idx[b] # NoCnt /\ base_2_cnt_idx[b] \in Nat
  BY <1>2, <1>3 DEF NoCnt
<1>5. QED
  BY <1>1, <1>4 DEF BasesKept

(* Without any counted base no feature leads anywhere, so that LoadCntIdx  *)
(* loses nothing when it stops at an empty count index.                    *)
LEMMA NothingCounted ==
  ASSUME TypeOK, BasesKept, base_2_cnt_idx = EmptyCntIdx
  PROVE  local_feature_2_fp_db = EmptyIndex
<1>1. ASSUME NEW f \in LocalFeatures
      PROVE  FALSE
  BY <1>1, IndexedBase DEF EmptyCntIdx
<1>2. \A f \in Feature : local_feature_2_fp_db[f] = NoBase
  BY <1>1 DEF LocalFeatures, Known
<1>3. QED
  BY <1>2 DEF TypeOK, InformCacheTypeOK, Index, EmptyIndex

(* A step that touches neither memory nor wire only has to keep the phases.*)
LEMMA PhaseStep ==
  ASSUME IInv, TypeOK', Phases', server' # "exit",
         client' = "sending" => client = "sending" \/ wire = <<>>,
         UNCHANGED <<wire, feature_2_version_idx, local_feature_2_fp_db,
                     base_2_cnt_idx, base_2_data_db, stored, base_of>>
  PROVE  IInv'
<1> USE DEF IInv
<1>1. ServerNeverExits' /\ NeverStoredRaw' /\ BaseStored'
  BY DEF ServerNeverExits, NeverStoredRaw, BaseStored
<1>2. WireOrder'
  BY DEF WireOrder, IsEvict, IsType
<1>3. LocalFeatures' = LocalFeatures /\ ClientFeatures' = ClientFeatures
  BY DEF LocalFeatures, Known, ClientFeatures
<1>4. CacheChunksNew' /\ UncompressChunksKnown' /\ EvictsKnown'
  BY <1>3 DEF CacheChunksNew, UncompressChunksKnown, EvictsKnown, IsCache,
     IsUncompress, IsEvict, IsType
<1>5. BasesKept'
  BY <1>3 DEF BasesKept, Refs
<1>6. MemoryInSync'
  BY <1>3 DEF MemoryInSync, Pending
<1>7. QED
  BY <1>1, <1>2, <1>4, <1>5, <1>6

LEMMA LoginStep ==
  ASSUME IInv, TypeOK', Login
  PROVE  IInv'
<1> USE DEF IInv
<1>1. wire = <<>> /\ wire' = wire
  BY DEF Login, Phases
<1>2. cnt_file = base_2_cnt_idx /\ idx_file = local_feature_2_fp_db
  BY DEF Login, Phases
<1>3. UNCHANGED <<base_2_cnt_idx, local_feature_2_fp_db>>
  BY <1>2, NothingCounted DEF Login, LoadCntIdx
<1>4. UNCHANGED feature_2_version_idx
  BY DEF Login, LoadCacheMeta, Phases
<1>5. Phases'
  BY <1>1 DEF Login, Phases, LoadCacheMeta, TypeOK, CacheMetaTypeOK
<1>6. UNCHANGED <<base_2_data_db, stored, base_of>> /\ server' # "exit"
  BY DEF Login, LoadCntIdx
<1>7. QED
  BY <1>1, <1>3, <1>4, <1>5, <1>6, PhaseStep

LEMMA RecipeEndStep ==
  ASSUME IInv, TypeOK', RecipeEnd
  PROVE  IInv'
<1>1. Phases' /\ server' # "exit" /\ client' # "sending"
  BY DEF IInv, RecipeEnd, Phases, informCacheVars, cacheMetaVars
<1>2. QED
  BY <1>1, PhaseStep DEF RecipeEnd, informCacheVars, cacheMetaVars

LEMMA ClientExitStep ==
  ASSUME IInv, TypeOK', ClientExit
  PROVE  IInv'
<1>1. Phases' /\ client' # "sending"
  BY DEF IInv, ClientExit, StoreCacheMeta, Phases, informCacheVars, TypeOK,
     CacheMetaTypeOK
<1>2. server' # "exit"
  BY DEF IInv, ServerNeverExits, ClientExit
<1>3. QED
  BY <1>1, <1>2, PhaseStep DEF ClientExit, StoreCacheMeta, informCacheVars

LEMMA StoreCntIdxStep ==
  ASSUME IInv, TypeOK', StoreCntIdx
  PROVE  IInv'
<1>1. Phases' /\ client' = client
  BY DEF IInv, StoreCntIdx, StoreCnt, StoreIdx, Phases, cacheMetaVars
<1>2. server' # "exit"
  BY DEF StoreCntIdx
<1>3. QED
  BY <1>1, <1>2, PhaseStep DEF StoreCntIdx, StoreCnt, StoreIdx, cacheMetaVars

(* Nothing that is still led to leaves the store at the end of a session.  *)
LEMMA DeleteEvictStep ==
  ASSUME IInv, TypeOK', DeleteEvict
  PROVE  IInv'
<1> USE DEF IInv
<1>1. wire = <<>> /\ wire' = <<>>
  BY DEF DeleteEvict
<1>2. LocalFeatures' = LocalFeatures /\ ClientFeatures' = ClientFeatures
  BY DEF DeleteEvict, DeleteEvictChunk, cacheMetaVars, LocalFeatures, Known, ClientFeatures
<1>3. ServerNeverExits' /\ NeverStoredRaw' /\ BaseStored'
  BY DEF DeleteEvict, ServerNeverExits, NeverStoredRaw, BaseStored
<1>4. Phases'
  BY <1>1 DEF DeleteEvict, DeleteEvictChunk, Phases, cacheMetaVars
<1>5. WireOrder' /\ CacheChunksNew' /\ UncompressChunksKnown' /\ EvictsKnown'
  BY <1>1 DEF WireOrder, CacheChunksNew, UncompressChunksKnown, EvictsKnown
<1>6. BasesKept'
  <2>1. ASSUME NEW f \in LocalFeatures
        PROVE  LET b == local_feature_2_fp_db[f] IN base_2_cnt_idx'[b] >= Cardinality(Refs(b))
    <3> DEFINE b == local_feature_2_fp_db[f]
    <3>1. base_2_cnt_idx[b] >= Cardinality(Refs(b)) /\ base_2_cnt_idx[b] \in Nat /\ b \in Chunk
      BY IndexedBase DEF BasesKept
    <3>2. f \in Refs(b)
      BY IndexedBase DEF Refs
    <3>3. Cardinality(Refs(b)) # 0 /\ Cardinality(Refs(b)) \in Nat
      BY <3>2, RefsFinite, FS_EmptySet
    <3>4. b \notin Unreferenced
      BY <3>1, <3>3 DEF Unreferenced
    <3>5. QED
      BY <3>1, <3>4 DEF DeleteEvict, DeleteEvictChunk
  <2>2. \A b : Refs(b)' = Refs(b)
    BY DEF DeleteEvict, DeleteEvictChunk, Refs
  <2>3. ASSUME NEW b \in Chunk, base_2_cnt_idx'[b] # NoCnt
        PROVE  b \in base_2_data_db' /\ stored'[b] # "none"
    BY <2>3 DEF DeleteEvict, DeleteEvictChunk, BasesKept, Unreferenced
  <2>4. local_feature_2_fp_db' = local_feature_2_fp_db
    BY DEF DeleteEvict, DeleteEvictChunk
  <2>5. QED
    BY <1>2, <2>1, <2>2, <2>3, <2>4 DEF BasesKept
<1>7. MemoryInSync'
  BY <1>1, <1>2 DEF MemoryInSync, Pending
<1>8. QED
  BY <1>3, <1>4, <1>5, <1>6, <1>7

-----------------------------------------------------------------------------
(* Steps that put a message on the wire *)

LEMMA PutFacts ==
  ASSUME TypeOK, NEW m \in Message, wire' = Append(wire, m)
  PROVE  \E n \in Nat :
           /\ n \notin DOMAIN wire
           /\ DOMAIN wire' = DOMAIN wire \cup {n}
           /\ wire'[n] = m
           /\ \A i \in DOMAIN wire : i \in Nat /\ i < n /\ wire'[i] = wire[i]
<1>1. wire \in Seq(Message)
  BY DEF TypeOK
<1>2. /\ DOMAIN wire = 1 .. Len(wire)
      /\ Len(wire) \in Nat
      /\ DOMAIN wire' = 1 .. Len(wire) + 1
      /\ wire'[Len(wire) + 1] = m
      /\ \A i \in 1 .. Len(wire) : wire'[i] = wire[i]
  BY <1>1, AppendFacts
<1>3. QED
  BY <1>2

LEMMA PutPending ==
  ASSUME TypeOK, NEW m \in Message, wire' = Append(wire, m), NEW type
  PROVE  Pending(type)' = Pending(type) \cup IF m.type = type THEN m.features ELSE {}
<1>1. PICK n \in Nat :
        /\ n \notin DOMAIN wire
        /\ DOMAIN wire' = DOMAIN wire \cup {n}
        /\ wire'[n] = m
        /\ \A i \in DOMAIN wire : i \in Nat /\ i < n /\ wire'[i] = wire[i]
  BY PutFacts
<1>2. ASSUME NEW f
      PROVE  f \in Pending(type)' <=>
               f \in Pending(type) \/ (m.type = type /\ f \in m.features)
  BY <1>1 DEF Pending
<1>3. QED
  BY <1>2

(* What FullEDR and SendFeatures leave alone.                              *)
LEMMA ClientFrame ==
  ASSUME IInv, UNCHANGED <<informCacheVars, server, stored, base_of>>
  PROVE  /\ ServerNeverExits' /\ NeverStoredRaw' /\ BaseStored' /\ BasesKept'
         /\ LocalFeatures' = LocalFeatures
<1>1. LocalFeatures' = LocalFeatures /\ \A b : Refs(b)' = Refs(b)
  BY DEF LocalFeatures, Known, Refs, informCacheVars
<1>2. BasesKept'
  BY <1>1 DEF IInv, BasesKept, informCacheVars
<1>3. QED
  BY <1>1, <1>2 DEF IInv, ServerNeverExits, NeverStoredRaw, BaseStored

(* While chunks are sent nothing is evicted: the client's features are     *)
(* those in the cache and on the way to it.                                *)
LEMMA SendingFeatures ==
  ASSUME IInv, client = "sending"
  PROVE  /\ Pending("CLIENT_UPLOAD_FEATURE") = {}
         /\ ClientFeatures = LocalFeatures \cup Pending("FULL_EDR_CACHE_CHUNK")
         /\ \A i \in DOMAIN wire : ~IsEvict(i)
<1>1. \A i \in DOMAIN wire : ~IsEvict(i)
  BY DEF IInv, WireOrder
<1>2. Pending("CLIENT_UPLOAD_FEATURE") = {}
  BY <1>1 DEF Pending, IsEvict, IsType
<1>3. QED
  BY <1>1, <1>2 DEF IInv, MemoryInSync

(* A hit: the chunk goes out uncompressed behind the feature it hit.       *)
LEMMA HitStep ==
  ASSUME IInv, TypeOK', NEW c \in Chunk, FullEDR(c), QueryCacheMeta(c),
         RefreshFeatures(c), wire' = Append(wire, UncompressChunk(c))
  PROVE  IInv'
<1> USE DEF IInv
<1> DEFINE m == UncompressChunk(c)
<1>1. /\ m \in Message
      /\ m.type = "FULL_EDR_UNCOMPRESS_CHUNK"
      /\ m.features = FeatureSet(c)
  BY DEF Message, UncompressChunk
<1>2. PICK n \in Nat :
        /\ n \notin DOMAIN wire
        /\ DOMAIN wire' = DOMAIN wire \cup {n}
        /\ wire'[n] = m
        /\ \A i \in DOMAIN wire : i \in Nat /\ i < n /\ wire'[i] = wire[i]
  BY <1>1, PutFacts
<1> HIDE DEF m
<1>3. client = "sending" /\ client' = "sending"
  BY DEF FullEDR
<1>4. /\ ServerNeverExits' /\ NeverStoredRaw' /\ BaseStored' /\ BasesKept'
      /\ LocalFeatures' = LocalFeatures
  BY ClientFrame DEF FullEDR
<1>5. ClientFeatures' = ClientFeatures
  BY <1>3 DEF ClientFeatures, RefreshFeatures, Phases, TypeOK, CacheMetaTypeOK
<1>6. Phases'
  BY <1>3 DEF FullEDR, Phases, informCacheVars
<1>7. WireOrder'
  BY <1>1, <1>2, <1>3, SendingFeatures DEF WireOrder, IsEvict, IsType
<1>8. CacheChunksNew'
  BY <1>1, <1>2, <1>4 DEF CacheChunksNew, IsCache, IsType
<1>9. UncompressChunksKnown'
  <2>1. PICK f \in FeatureSet(c) :
          f \in LocalFeatures \/ f \in Pending("FULL_EDR_CACHE_CHUNK")
    BY <1>3, SendingFeatures DEF QueryCacheMeta
  <2>2. \/ f \in LocalFeatures
        \/ \E j \in DOMAIN wire : IsCache(j) /\ f \in wire[j].features
    BY <2>1, PendingIff DEF IsCache, IsType
  <2>3. ASSUME NEW i \in DOMAIN wire, IsUncompress(i)'
        PROVE  \/ wire'[i].features \cap LocalFeatures # {}
               \/ \E j \in DOMAIN wire' :
                    j < i /\ IsCache(j)' /\ wire'[i].features \cap wire'[j].features # {}
    <3>1. IsUncompress(i)
      BY <1>2, <2>3 DEF IsUncompress, IsType
    <3>2. \/ wire[i].features \cap LocalFeatures # {}
          \/ \E j \in DOMAIN wire :
               j < i /\ IsCache(j) /\ wire[i].features \cap wire[j].features # {}
      BY <3>1 DEF UncompressChunksKnown
    <3>3. QED
      BY <1>2, <3>2 DEF IsCache, IsType
  <2>4. \/ wire'[n].features \cap LocalFeatures # {}
        \/ \E j \in DOMAIN wire' :
             j < n /\ IsCache(j)' /\ wire'[n].features \cap wire'[j].features # {}
    BY <1>1, <1>2, <2>1, <2>2 DEF IsCache, IsType
  <2>5. QED
    BY <1>2, <1>4, <2>3, <2>4 DEF UncompressChunksKnown
<1>10. EvictsKnown'
  BY <1>1, <1>2, <1>3, SendingFeatures DEF EvictsKnown, IsEvict, IsType
<1>11. MemoryInSync'
  <2>1. wire' = Append(wire, m)
    BY DEF m
  <2> HIDE DEF m
  <2>2. ASSUME NEW type, type # "FULL_EDR_UNCOMPRESS_CHUNK"
        PROVE  Pending(type)' = Pending(type)
    <3>1. Pending(type)' = Pending(type) \cup IF m.type = type THEN m.features ELSE {}
      BY <1>1, <2>1, PutPending
    <3>2. QED
      BY <1>1, <2>2, <3>1
  <2>3. /\ Pending("FULL_EDR_CACHE_CHUNK")' = Pending("FULL_EDR_CACHE_CHUNK")
        /\ Pending("CLIENT_UPLOAD_FEATURE")' = Pending("CLIENT_UPLOAD_FEATURE")
    BY <2>2
  <2>4. QED
    BY <1>4, <1>5, <2>3 DEF MemoryInSync
<1>12. QED
  BY <1>4, <1>6, <1>7, <1>8, <1>9, <1>10, <1>11

(* A miss: none of the chunk's features is in the cache or on the way.     *)
LEMMA MissStep ==
  ASSUME IInv, TypeOK', NEW c \in Chunk, FullEDR(c), ~QueryCacheMeta(c),
         UpdateCacheMeta(c), wire' = Append(wire, CacheChunk(c))
  PROVE  IInv'
<1> USE DEF IInv
<1> DEFINE m == CacheChunk(c)
<1>1. /\ m \in Message
      /\ m.type = "FULL_EDR_CACHE_CHUNK"
      /\ m.features = FeatureSet(c)
      /\ FeatureSet(c) \subseteq Feature
  BY FeatureSetFacts DEF Message, CacheChunk
<1>2. PICK n \in Nat :
        /\ n \notin DOMAIN wire
        /\ DOMAIN wire' = DOMAIN wire \cup {n}
        /\ wire'[n] = m
        /\ \A i \in DOMAIN wire : i \in Nat /\ i < n /\ wire'[i] = wire[i]
  BY <1>1, PutFacts
<1> HIDE DEF m
<1>3. client = "sending" /\ client' = "sending"
  BY DEF FullEDR
<1>4. /\ ServerNeverExits' /\ NeverStoredRaw' /\ BaseStored' /\ BasesKept'
      /\ LocalFeatures' = LocalFeatures
  BY ClientFrame DEF FullEDR
<1>5. ClientFeatures' = ClientFeatures \cup FeatureSet(c)
  BY <1>1, <1>3 DEF ClientFeatures, UpdateCacheMeta, Phases, TypeOK, CacheMetaTypeOK
<1>6. FeatureSet(c) \cap (LocalFeatures \cup Pending("FULL_EDR_CACHE_CHUNK")) = {}
  BY <1>3, SendingFeatures DEF QueryCacheMeta
<1>7. Phases'
  BY <1>3 DEF FullEDR, Phases, informCacheVars
<1>8. WireOrder'
  BY <1>1, <1>2, <1>3, SendingFeatures DEF WireOrder, IsEvict, IsType
<1>9. CacheChunksNew'
  <2>1. ASSUME NEW j \in DOMAIN wire, IsCache(j)
        PROVE  wire[j].features \cap FeatureSet(c) = {}
    BY <1>6, <2>1, PendingIff DEF IsCache, IsType
  <2>2. ASSUME NEW i \in DOMAIN wire', IsCache(i)'
        PROVE  wire'[i].features \cap LocalFeatures = {}
    BY <1>1, <1>2, <1>6, <2>2 DEF CacheChunksNew, IsCache, IsType
  <2>3. ASSUME NEW i \in DOMAIN wire', NEW j \in DOMAIN wire', i # j,
               IsCache(i)', IsCache(j)'
        PROVE  wire'[i].features \cap wire'[j].features = {}
    <3>1. CASE i = n
      BY <1>1, <1>2, <2>1, <2>3, <3>1 DEF IsCache, IsType
    <3>2. CASE j = n
      BY <1>1, <1>2, <2>1, <2>3, <3>2 DEF IsCache, IsType
    <3>3. CASE i # n /\ j # n
      BY <1>2, <2>3, <3>3 DEF CacheChunksNew, IsCache, IsType
    <3>4. QED
      BY <3>1, <3>2, <3>3
  <2>4. QED
    BY <1>4, <2>2, <2>3 DEF CacheChunksNew
<1>10. UncompressChunksKnown'
  <2>1. ASSUME NEW i \in DOMAIN wire', IsUncompress(i)'
        PROVE  \/ wire'[i].features \cap LocalFeatures # {}
               \/ \E j \in DOMAIN wire' :
                    j < i /\ IsCache(j)' /\ wire'[i].features \cap wire'[j].features # {}
    <3>1. i \in DOMAIN wire /\ IsUncompress(i)
      BY <1>1, <1>2, <2>1 DEF IsUncompress, IsType
    <3>2. \/ wire[i].features \cap LocalFeatures # {}
          \/ \E j \in DOMAIN wire :
               j < i /\ IsCache(j) /\ wire[i].features \cap wire[j].features # {}
      BY <3>1 DEF UncompressChunksKnown
    <3>3. QED
      BY <1>2, <3>1, <3>2 DEF IsCache, IsType
  <2>2. QED
    BY <1>4, <2>1 DEF UncompressChunksKnown
<1>11. EvictsKnown'
  BY <1>1, <1>2, <1>3, SendingFeatures DEF EvictsKnown, IsEvict, IsType
<1>12. MemoryInSync'
  <2>1. Pending("FULL_EDR_CACHE_CHUNK")' = Pending("FULL_EDR_CACHE_CHUNK") \cup FeatureSet(c)
    BY <1>1, PutPending DEF m
  <2>2. Pending("CLIENT_UPLOAD_FEATURE")' = {}
    BY <1>1, <1>3, PutPending, SendingFeatures DEF m
  <2>3. QED
    BY <1>3, <1>4, <1>5, <2>1, <2>2, SendingFeatures DEF MemoryInSync
<1>13. QED
  BY <1>4, <1>7, <1>8, <1>9, <1>10, <1>11, <1>12

LEMMA FullEDRStep ==
  ASSUME IInv, TypeOK', NEW c \in Chunk, FullEDR(c)
  PROVE  IInv'
  BY HitStep, MissStep DEF FullEDR

(* The client evicts only features it holds, each of them once.            *)
LEMMA EvictStep ==
  ASSUME IInv, TypeOK', NEW S \in SUBSET Evictable, Erase(S),
         wire' = Append(wire, FeatureBatch(S)),
         client = "evicting", client' \in {"evicting", "finished"},
         UNCHANGED <<cur_version_num, cache_meta_db, informCacheVars, server, stored, base_of>>
  PROVE  IInv'
<1> USE DEF IInv
<1> DEFINE m == FeatureBatch(S)
<1>1. S \subseteq ClientFeatures /\ S \in SUBSET Feature
  BY DEF Evictable, ClientFeatures
<1>2. /\ m \in Message
      /\ m.type = "CLIENT_UPLOAD_FEATURE"
      /\ m.features = S
  BY <1>1 DEF Message, FeatureBatch
<1>3. PICK n \in Nat :
        /\ n \notin DOMAIN wire
        /\ DOMAIN wire' = DOMAIN wire \cup {n}
        /\ wire'[n] = m
        /\ \A i \in DOMAIN wire : i \in Nat /\ i < n /\ wire'[i] = wire[i]
  BY <1>2, PutFacts
<1>4. /\ Pending("FULL_EDR_CACHE_CHUNK")' = Pending("FULL_EDR_CACHE_CHUNK")
      /\ Pending("CLIENT_UPLOAD_FEATURE")' = Pending("CLIENT_UPLOAD_FEATURE") \cup S
  <2>1. wire' = Append(wire, m)
    OBVIOUS
  <2> HIDE DEF m
  <2>2. Pending("FULL_EDR_CACHE_CHUNK")' = Pending("FULL_EDR_CACHE_CHUNK")
    BY <1>2, <2>1, PutPending
  <2>3. Pending("CLIENT_UPLOAD_FEATURE")' = Pending("CLIENT_UPLOAD_FEATURE") \cup S
    BY <1>2, <2>1, PutPending
  <2>4. QED
    BY <2>2, <2>3
<1> HIDE DEF m
<1>5. client = "evicting" /\ client' # "sending" /\ client' # "off"
  OBVIOUS
<1>6. /\ ServerNeverExits' /\ NeverStoredRaw' /\ BaseStored' /\ BasesKept'
      /\ LocalFeatures' = LocalFeatures
  BY ClientFrame
<1>7. ClientFeatures' = ClientFeatures \ S
  BY DEF ClientFeatures, Erase
<1>8. Phases'
  BY <1>5 DEF Phases, informCacheVars
<1>9. WireOrder'
  BY <1>2, <1>3, <1>5 DEF WireOrder, IsEvict, IsType
<1>10. CacheChunksNew'
  BY <1>2, <1>3, <1>6 DEF CacheChunksNew, IsCache, IsType
<1>11. UncompressChunksKnown'
  <2>1. ASSUME NEW i \in DOMAIN wire', IsUncompress(i)'
        PROVE  \/ wire'[i].features \cap LocalFeatures # {}
               \/ \E j \in DOMAIN wire' :
                    j < i /\ IsCache(j)' /\ wire'[i].features \cap wire'[j].features # {}
    <3>1. i \in DOMAIN wire /\ IsUncompress(i)
      BY <1>2, <1>3, <2>1 DEF IsUncompress, IsType
    <3>2. \/ wire[i].features \cap LocalFeatures # {}
          \/ \E j \in DOMAIN wire :
               j < i /\ IsCache(j) /\ wire[i].features \cap wire[j].features # {}
      BY <3>1 DEF UncompressChunksKnown
    <3>3. QED
      BY <1>3, <3>1, <3>2 DEF IsCache, IsType
  <2>2. QED
    BY <1>6, <2>1 DEF UncompressChunksKnown
<1>12. EvictsKnown'
  <2>1. ASSUME NEW f \in S
        PROVE  \/ f \in LocalFeatures
               \/ \E j \in DOMAIN wire : IsCache(j) /\ f \in wire[j].features
    BY <1>1, PendingIff DEF MemoryInSync, IsCache, IsType
  <2>2. ASSUME NEW j \in DOMAIN wire, IsEvict(j)
        PROVE  wire[j].features \cap S = {}
    BY <1>1, <2>2, PendingIff DEF MemoryInSync, IsEvict, IsType
  <2>3. ASSUME NEW i \in DOMAIN wire', IsEvict(i)', NEW f \in wire'[i].features
        PROVE  \/ f \in LocalFeatures
               \/ \E j \in DOMAIN wire' : IsCache(j)' /\ f \in wire'[j].features
    <3>1. \/ f \in LocalFeatures
          \/ \E j \in DOMAIN wire : IsCache(j) /\ f \in wire[j].features
      <4>1. CASE i = n
        BY <1>2, <1>3, <2>1, <2>3, <4>1
      <4>2. CASE i \in DOMAIN wire
        BY <1>3, <2>3, <4>2 DEF EvictsKnown, IsEvict, IsType
      <4>3. QED
        BY <1>3, <4>1, <4>2
    <3>2. QED
      BY <1>3, <3>1 DEF IsCache, IsType
  <2>4. ASSUME NEW i \in DOMAIN wire', NEW j \in DOMAIN wire', j # i,
               IsEvict(i)', IsEvict(j)'
        PROVE  wire'[i].features \cap wire'[j].features = {}
    <3>1. CASE i = n
      BY <1>2, <1>3, <2>2, <2>4, <3>1 DEF IsEvict, IsType
    <3>2. CASE j = n
      BY <1>2, <1>3, <2>2, <2>4, <3>2 DEF IsEvict, IsType
    <3>3. CASE i # n /\ j # n
      BY <1>3, <2>4, <3>3 DEF EvictsKnown, IsEvict, IsType
    <3>4. QED
      BY <3>1, <3>2, <3>3
  <2>5. QED
    BY <1>6, <2>3, <2>4 DEF EvictsKnown
<1>13. MemoryInSync'
  BY <1>4, <1>6, <1>7 DEF MemoryInSync
<1>14. QED
  BY <1>6, <1>8, <1>9, <1>10, <1>11, <1>12, <1>13

LEMMA SendFeaturesStep ==
  ASSUME IInv, TypeOK', NEW S \in SUBSET Evictable, SendFeatures(S)
  PROVE  IInv'
  BY EvictStep DEF SendFeatures, EvictFeature

(* The tail is one more batch; without one, nothing is erased.             *)
LEMMA FinishStep ==
  ASSUME IInv, TypeOK', Finish
  PROVE  IInv'
<1>1. CASE Evictable # {}
  BY <1>1, EvictStep DEF Finish, EvictTail
<1>2. CASE Evictable = {}
  <2>1. feature_2_version_idx' = feature_2_version_idx
    BY <1>2 DEF Finish, EvictTail, Erase, IInv, TypeOK, CacheMetaTypeOK, VersionIdx
  <2>2. Phases' /\ server' # "exit" /\ client' # "sending"
    BY <1>2 DEF IInv, Finish, Phases, informCacheVars
  <2>3. QED
    BY <1>2, <2>1, <2>2, PhaseStep DEF Finish, informCacheVars
<1>3. QED
  BY <1>1, <1>2

-----------------------------------------------------------------------------
(* Steps that take a message from the wire *)

LEMMA TakeFacts ==
  ASSUME TypeOK, wire # <<>>, wire' = Tail(wire)
  PROVE  /\ 1 \in DOMAIN wire
         /\ Head(wire) = wire[1]
         /\ Head(wire) \in Message
         /\ \A i \in DOMAIN wire' : i \in Nat /\ i + 1 \in DOMAIN wire
                                  /\ i + 1 # 1 /\ wire'[i] = wire[i + 1]
         /\ \A j \in DOMAIN wire : j \in Nat /\ 1 <= j
         /\ \A j \in DOMAIN wire :
              j # 1 => j - 1 \in DOMAIN wire' /\ wire'[j - 1] = wire[j]
<1>1. wire \in Seq(Message)
  BY DEF TypeOK
<1>2. QED
  BY <1>1, TailFacts

LEMMA TakePending ==
  ASSUME TypeOK, wire # <<>>, wire' = Tail(wire), NEW type
  PROVE  Pending(type) =
           Pending(type)' \cup IF Head(wire).type = type THEN Head(wire).features ELSE {}
<1>1. ASSUME NEW f \in Pending(type)
      PROVE  f \in Pending(type)' \/ (Head(wire).type = type /\ f \in Head(wire).features)
  <2>1. PICK i \in DOMAIN wire : wire[i].type = type /\ f \in wire[i].features
    BY PendingIff
  <2>2. CASE i = 1
    BY <2>1, <2>2, TakeFacts
  <2>3. CASE i # 1
    <3>1. i - 1 \in DOMAIN wire' /\ wire'[i - 1] = wire[i]
      BY <2>3, TakeFacts
    <3>2. QED
      BY <2>1, <3>1 DEF Pending
  <2>4. QED
    BY <2>2, <2>3
<1>2. ASSUME NEW f \in Pending(type)'
      PROVE  f \in Pending(type)
  <2>1. PICK i \in DOMAIN wire' : wire'[i].type = type /\ f \in wire'[i].features
    BY DEF Pending
  <2>2. i + 1 \in DOMAIN wire /\ wire'[i] = wire[i + 1]
    BY TakeFacts
  <2>3. QED
    BY <2>1, <2>2, PendingIff
<1>3. ASSUME Head(wire).type = type, NEW f \in Head(wire).features
      PROVE  f \in Pending(type)
  BY <1>3, TakeFacts, PendingIff
<1>4. QED
  BY <1>1, <1>2, <1>3

(* Taking a message keeps the order of the others and the disjointness of  *)
(* their features.                                                         *)
LEMMA TakeKeepsOrder ==
  ASSUME IInv, wire # <<>>, wire' = Tail(wire), client' = client,
         LocalFeatures' \subseteq LocalFeatures \cup
           (IF IsCache(1) THEN Head(wire).features ELSE {})
  PROVE  WireOrder' /\ CacheChunksNew'
<1> USE DEF IInv
<1>1. /\ 1 \in DOMAIN wire
      /\ Head(wire) = wire[1]
      /\ \A i \in DOMAIN wire' : i \in Nat /\ i + 1 \in DOMAIN wire
                               /\ i + 1 # 1 /\ wire'[i] = wire[i + 1]
  BY TakeFacts
<1>2. WireOrder'
  <2>1. ASSUME NEW i \in DOMAIN wire', NEW j \in DOMAIN wire', i < j, IsEvict(i)'
        PROVE  IsEvict(j)'
    <3>1. i + 1 < j + 1 /\ IsEvict(i + 1)
      BY <1>1, <2>1 DEF IsEvict, IsType
    <3>2. IsEvict(j + 1)
      BY <1>1, <3>1 DEF WireOrder
    <3>3. QED
      BY <1>1, <3>2 DEF IsEvict, IsType
  <2>2. ASSUME client' = "sending", NEW i \in DOMAIN wire'
        PROVE  ~IsEvict(i)'
    BY <1>1, <2>2 DEF WireOrder, IsEvict, IsType
  <2>3. QED
    BY <2>1, <2>2 DEF WireOrder
<1>3. CacheChunksNew'
  <2>1. ASSUME NEW i \in DOMAIN wire', IsCache(i)'
        PROVE  wire'[i].features \cap LocalFeatures' = {}
    <3>1. IsCache(i + 1) /\ i + 1 \in DOMAIN wire
      BY <1>1, <2>1 DEF IsCache, IsType
    <3>2. /\ wire[i + 1].features \cap LocalFeatures = {}
          /\ IsCache(1) => wire[i + 1].features \cap wire[1].features = {}
      BY <1>1, <3>1 DEF CacheChunksNew
    <3>3. QED
      BY <1>1, <3>2
  <2>2. ASSUME NEW i \in DOMAIN wire', IsCache(i)', NEW j \in DOMAIN wire', IsCache(j)', j # i
        PROVE  wire'[i].features \cap wire'[j].features = {}
    <3>1. IsCache(i + 1) /\ IsCache(j + 1) /\ j + 1 # i + 1
      BY <1>1, <2>2 DEF IsCache, IsType
    <3>2. QED
      BY <1>1, <3>1 DEF CacheChunksNew
  <2>3. QED
    BY <2>1, <2>2 DEF CacheChunksNew
<1>4. QED
  BY <1>2, <1>3

(* A pending feature found in the cache, or on the way to it, stays so.    *)
LEMMA TakeKeepsKnown ==
  ASSUME IInv, wire # <<>>, wire' = Tail(wire), ~IsEvict(1),
         LocalFeatures' = LocalFeatures \cup
           (IF IsCache(1) THEN Head(wire).features ELSE {})
  PROVE  UncompressChunksKnown' /\ EvictsKnown'
<1> USE DEF IInv
<1>1. /\ 1 \in DOMAIN wire
      /\ Head(wire) = wire[1]
      /\ \A i \in DOMAIN wire' : i \in Nat /\ i + 1 \in DOMAIN wire
                               /\ i + 1 # 1 /\ wire'[i] = wire[i + 1]
      /\ \A j \in DOMAIN wire : j \in Nat /\ 1 <= j
      /\ \A j \in DOMAIN wire :
           j # 1 => j - 1 \in DOMAIN wire' /\ wire'[j - 1] = wire[j]
  BY TakeFacts
<1>2. UncompressChunksKnown'
  <2>1. ASSUME NEW i \in DOMAIN wire', IsUncompress(i)'
        PROVE  \/ wire'[i].features \cap LocalFeatures' # {}
               \/ \E j \in DOMAIN wire' :
                    j < i /\ IsCache(j)' /\ wire'[i].features \cap wire'[j].features # {}
    <3>1. IsUncompress(i + 1) /\ i + 1 \in DOMAIN wire /\ wire'[i] = wire[i + 1]
      BY <1>1, <2>1 DEF IsUncompress, IsType
    <3>2. CASE wire[i + 1].features \cap LocalFeatures # {}
      BY <3>1, <3>2
    <3>3. ASSUME NEW j \in DOMAIN wire, j < i + 1, IsCache(j),
                 wire[i + 1].features \cap wire[j].features # {}
          PROVE  \/ wire'[i].features \cap LocalFeatures' # {}
                 \/ \E k \in DOMAIN wire' :
                      k < i /\ IsCache(k)' /\ wire'[i].features \cap wire'[k].features # {}
      <4>1. CASE j = 1
        BY <1>1, <3>1, <3>3, <4>1
      <4>2. CASE j # 1
        <5>1. j - 1 \in DOMAIN wire' /\ wire'[j - 1] = wire[j] /\ j - 1 < i
          BY <1>1, <3>3, <4>2
        <5>2. IsCache(j - 1)'
          BY <3>3, <5>1 DEF IsCache, IsType
        <5>3. QED
          BY <3>1, <3>3, <5>1, <5>2
      <4>3. QED
        BY <4>1, <4>2
    <3>4. QED
      BY <3>1, <3>2, <3>3 DEF UncompressChunksKnown
  <2>2. QED
    BY <2>1 DEF UncompressChunksKnown
<1>3. EvictsKnown'
  <2>1. ASSUME NEW i \in DOMAIN wire', IsEvict(i)', NEW f \in wire'[i].features
        PROVE  \/ f \in LocalFeatures'
               \/ \E j \in DOMAIN wire' : IsCache(j)' /\ f \in wire'[j].features
    <3>1. IsEvict(i + 1) /\ i + 1 \in DOMAIN wire /\ f \in wire[i + 1].features
      BY <1>1, <2>1 DEF IsEvict, IsType
    <3>2. CASE f \in LocalFeatures
      BY <3>2
    <3>3. ASSUME NEW j \in DOMAIN wire, IsCache(j), f \in wire[j].features
          PROVE  \/ f \in LocalFeatures'
                 \/ \E k \in DOMAIN wire' : IsCache(k)' /\ f \in wire'[k].features
      <4>1. CASE j = 1
        BY <1>1, <3>3, <4>1
      <4>2. CASE j # 1
        <5>1. j - 1 \in DOMAIN wire' /\ wire'[j - 1] = wire[j]
          BY <1>1, <4>2
        <5>2. IsCache(j - 1)'
          BY <3>3, <5>1 DEF IsCache, IsType
        <5>3. QED
          BY <3>3, <5>1, <5>2
      <4>3. QED
        BY <4>1, <4>2
    <3>4. QED
      BY <3>1, <3>2, <3>3 DEF EvictsKnown
  <2>2. ASSUME NEW i \in DOMAIN wire', IsEvict(i)', NEW j \in DOMAIN wire', IsEvict(j)', j # i
        PROVE  wire'[i].features \cap wire'[j].features = {}
    <3>1. IsEvict(i + 1) /\ IsEvict(j + 1) /\ j + 1 # i + 1
      BY <1>1, <2>2 DEF IsEvict, IsType
    <3>2. QED
      BY <1>1, <3>1 DEF EvictsKnown
  <2>3. QED
    BY <2>1, <2>2 DEF EvictsKnown
<1>4. QED
  BY <1>2, <1>3

(* The chunk to cache becomes the base of features nobody else had.        *)
LEMMA ProcCacheChunkStep ==
  ASSUME IInv, TypeOK', ProcCacheChunk
  PROVE  IInv'
<1> USE DEF IInv
<1>1. /\ wire # <<>> /\ wire' = Tail(wire) /\ client' = client
      /\ server = "serving" /\ server' = "serving"
      /\ Head(wire).type = "FULL_EDR_CACHE_CHUNK"
  BY DEF ProcCacheChunk, Receive
<1>2. PICK c \in Chunk :
      /\ c = Head(wire).chunk
      /\ Head(wire).features = FeatureSet(c)
      /\ IsCache(1) /\ ~IsEvict(1)
      /\ 1 \in DOMAIN wire
      /\ Head(wire) = wire[1]
  BY <1>1, TakeFacts, MessageFacts DEF IsCache, IsEvict, IsType
<1>3. /\ LocalFeatures' = LocalFeatures \cup FeatureSet(c)
      /\ \A f \in Feature : local_feature_2_fp_db'[f]
                            = IF f \in FeatureSet(c) THEN c ELSE local_feature_2_fp_db[f]
  BY <1>2, UpdateFeatureIndexFacts
  DEF ProcCacheChunk, InsertCachedChunk, LocalFeatures, TypeOK, InformCacheTypeOK
<1>4. ClientFeatures' = ClientFeatures
  BY DEF ProcCacheChunk, cacheMetaVars, ClientFeatures
<1>5. WireOrder' /\ CacheChunksNew'
  BY <1>1, <1>2, <1>3, TakeKeepsOrder
<1>6. UncompressChunksKnown' /\ EvictsKnown'
  BY <1>1, <1>2, <1>3, TakeKeepsKnown
<1>7. ServerNeverExits' /\ Phases'
  BY <1>1 DEF ServerNeverExits, Phases, ProcCacheChunk, InsertCachedChunk, cacheMetaVars
<1>8. \A d \in Chunk : /\ stored'[d] = stored[d] \/ (stored[d] = "none" /\ stored'[d] = "COMP")
                       /\ base_of'[d] = base_of[d]
  BY DEF ProcCacheChunk, TypeOK
<1>9. stored'[c] # "none"
  BY <1>2 DEF ProcCacheChunk, TypeOK
<1>10. NeverStoredRaw' /\ BaseStored'
  <2>1. NeverStoredRaw'
    BY <1>8 DEF NeverStoredRaw
  <2>2. ASSUME NEW d \in Chunk, stored'[d] = "CACHE_DELTA"
        PROVE  base_of'[d] # NoBase /\ stored'[base_of'[d]] # "none"
    <3>1. stored[d] = "CACHE_DELTA" /\ base_of'[d] = base_of[d]
      BY <1>8, <2>2
    <3>2. base_of[d] \in Chunk /\ stored[base_of[d]] # "none"
      BY <3>1 DEF BaseStored, TypeOK
    <3>3. QED
      BY <1>8, <3>1, <3>2, SimilarAssumption
  <2>3. QED
    BY <2>1, <2>2 DEF BaseStored
<1>11. BasesKept'
  <2>1. base_2_cnt_idx \in CntIdx
    BY DEF TypeOK, InformCacheTypeOK
  <2>2. base_2_cnt_idx'[c] >= Cardinality(Refs(c)')
    <3>1. Refs(c)' = Refs(c) \cup FeatureSet(c)
      BY <1>2, <1>3, FeatureSetFacts DEF Refs
    <3>2. /\ IsFiniteSet(Refs(c)) /\ Cardinality(Refs(c)) \in Nat
          /\ IsFiniteSet(FeatureSet(c)) /\ Cardinality(FeatureSet(c)) \in Nat
          /\ Cardinality(FeatureSet(c)) <= SUPER_FEATURE_PER_CHUNK
      BY <1>2, RefsFinite, FeatureSetFacts
    <3>3. /\ Cardinality(Refs(c) \cap FeatureSet(c)) \in Nat
          /\ Cardinality(Refs(c) \cup FeatureSet(c))
               = Cardinality(Refs(c)) + Cardinality(FeatureSet(c))
                   - Cardinality(Refs(c) \cap FeatureSet(c))
      BY <3>2, FS_Union, FS_Intersection, FS_CardinalityType
    <3>4. Cardinality(Refs(c)') <= Cardinality(Refs(c)) + SUPER_FEATURE_PER_CHUNK
      BY <3>1, <3>2, <3>3, SimilarAssumption
    <3>5. CASE Refs(c) = {}
      <4>1. Cardinality(Refs(c)) = 0
        BY <3>5, FS_EmptySet
      <4>2. base_2_cnt_idx'[c] >= SUPER_FEATURE_PER_CHUNK
        BY <1>2, <2>1, SimilarAssumption DEF ProcCacheChunk, InsertCachedChunk, CntIdx, NoCnt
      <4>3. Cardinality(Refs(c)') <= SUPER_FEATURE_PER_CHUNK
        BY <3>4, <4>1, SimilarAssumption
      <4>4. Cardinality(Refs(c)') \in Nat
        BY <3>1, <3>2, FS_Union, FS_CardinalityType
      <4>5. base_2_cnt_idx'[c] \in Nat
        BY <1>2, <2>1, SimilarAssumption DEF ProcCacheChunk, InsertCachedChunk, CntIdx, NoCnt
      <4>6. QED
        BY <4>2, <4>3, <4>4, <4>5, SimilarAssumption
    <3>6. ASSUME NEW f \in Refs(c)
          PROVE  base_2_cnt_idx'[c] >= Cardinality(Refs(c)')
      <4>1. f \in LocalFeatures /\ local_feature_2_fp_db[f] = c
        BY <1>2, SimilarAssumption DEF Refs, LocalFeatures, Known
      <4>2. base_2_cnt_idx[c] \in Nat /\ base_2_cnt_idx[c] # NoCnt
        BY <4>1, IndexedBase
      <4>3. base_2_cnt_idx[c] >= Cardinality(Refs(c))
        BY <4>1 DEF BasesKept
      <4>4. base_2_cnt_idx'[c] = base_2_cnt_idx[c] + SUPER_FEATURE_PER_CHUNK
        BY <1>2, <2>1, <4>2 DEF ProcCacheChunk, InsertCachedChunk, CntIdx
      <4>5. Cardinality(Refs(c)') \in Nat
        BY <3>1, <3>2, FS_Union, FS_CardinalityType
      <4>6. QED
        BY <3>2, <3>4, <4>2, <4>3, <4>4, <4>5, SimilarAssumption
    <3>7. QED
      BY <3>5, <3>6
  <2>3. ASSUME NEW b \in Chunk, b # c
        PROVE  Refs(b)' = Refs(b) /\ base_2_cnt_idx'[b] = base_2_cnt_idx[b]
    <3>1. base_2_cnt_idx'[b] = base_2_cnt_idx[b]
      BY <1>2, <2>1, <2>3 DEF ProcCacheChunk, InsertCachedChunk, CntIdx
    <3>2. FeatureSet(c) \cap LocalFeatures = {}
      BY <1>2 DEF CacheChunksNew
    <3>3. \A f \in Refs(b) : f \in LocalFeatures
      BY <2>3, SimilarAssumption DEF Refs, LocalFeatures, Known
    <3>4. Refs(b)' = Refs(b)
      BY <1>3, <2>3, <3>2, <3>3 DEF Refs
    <3>5. QED
      BY <3>1, <3>4
  <2>4. ASSUME NEW f \in LocalFeatures', NEW b, b = local_feature_2_fp_db'[f]
        PROVE  base_2_cnt_idx'[b] >= Cardinality(Refs(b)')
    <3>1. CASE b = c
      BY <2>2, <3>1
    <3>2. CASE b # c
      <4>1. f \in LocalFeatures /\ b = local_feature_2_fp_db[f] /\ b \in Chunk
        <5>1. f \in Feature
          BY DEF LocalFeatures, Known
        <5>2. f \notin FeatureSet(c)
          BY <1>3, <2>4, <3>2, <5>1
        <5>3. QED
          BY <1>3, <2>4, <5>1, <5>2, IndexedBase
      <4>2. base_2_cnt_idx[b] >= Cardinality(Refs(b))
        BY <4>1 DEF BasesKept
      <4>3. QED
        BY <2>3, <3>2, <4>1, <4>2
    <3>3. QED
      BY <3>1, <3>2
  <2>5. ASSUME NEW b \in Chunk, base_2_cnt_idx'[b] # NoCnt
        PROVE  b \in base_2_data_db' /\ stored'[b] # "none"
    <3>1. CASE b = c
      BY <1>2, <1>9, <3>1 DEF ProcCacheChunk, InsertCachedChunk, BasesKept
    <3>2. CASE b # c
      <4>1. b \in base_2_data_db /\ stored[b] # "none"
        BY <2>3, <2>5, <3>2 DEF BasesKept
      <4>2. QED
        BY <1>8, <4>1 DEF ProcCacheChunk, InsertCachedChunk
    <3>3. QED
      BY <3>1, <3>2
  <2>6. QED
    BY <2>4, <2>5 DEF BasesKept
<1>12. MemoryInSync'
  <2>1. Pending("FULL_EDR_CACHE_CHUNK")
          = Pending("FULL_EDR_CACHE_CHUNK")' \cup FeatureSet(c)
    BY <1>1, <1>2, TakePending
  <2>2. Pending("CLIENT_UPLOAD_FEATURE") = Pending("CLIENT_UPLOAD_FEATURE")'
    BY <1>1, TakePending
  <2>3. QED
    BY <1>3, <1>4, <2>1, <2>2 DEF MemoryInSync
<1>13. QED
  BY <1>5, <1>6, <1>7, <1>10, <1>11, <1>12

(* A chunk sent uncompressed always finds its base: the branches of an     *)
(* empty cache and of the server's exits are never taken.                  *)
LEMMA ProcUncompressChunkStep ==
  ASSUME IInv, TypeOK', ProcUncompressChunk
  PROVE  IInv'
<1> USE DEF IInv
<1>1. /\ wire # <<>> /\ wire' = Tail(wire) /\ client' = client
      /\ server = "serving"
      /\ Head(wire).type = "FULL_EDR_UNCOMPRESS_CHUNK"
  BY DEF ProcUncompressChunk, Receive
<1>2. PICK c \in Chunk :
      /\ c = Head(wire).chunk
      /\ Head(wire).features = FeatureSet(c)
      /\ IsUncompress(1) /\ ~IsCache(1) /\ ~IsEvict(1)
      /\ 1 \in DOMAIN wire
      /\ Head(wire) = wire[1]
  BY <1>1, TakeFacts, MessageFacts DEF IsCache, IsUncompress, IsEvict, IsType
<1>3. IsSimilar(local_feature_2_fp_db, c)
  <2>1. wire[1].features \cap LocalFeatures # {}
    <3>1. \A j \in DOMAIN wire : ~ (j < 1)
      BY <1>1, TakeFacts
    <3>2. QED
      BY <1>2, <3>1 DEF UncompressChunksKnown
  <2>2. QED
    BY <1>2, <2>1, SimilarIffKnown DEF LocalFeatures, TypeOK, InformCacheTypeOK
<1>4. PICK b : b = FindBaseChunk(local_feature_2_fp_db, c)
  OBVIOUS
<1>5. b \in Chunk /\ b \in base_2_data_db /\ stored[b] # "none"
  <2>1. \E f \in LocalFeatures : b = local_feature_2_fp_db[f]
    BY <1>3, <1>4, FindBaseChunkIndexed DEF LocalFeatures, TypeOK, InformCacheTypeOK
  <2>2. QED
    BY <2>1, IndexedBase
<1>6. \/ UNCHANGED <<server, stored, base_of>>
      \/ /\ stored[c] = "none"
         /\ stored' = [stored EXCEPT ![c] = "CACHE_DELTA"]
         /\ base_of' = [base_of EXCEPT ![c] = b]
         /\ UNCHANGED server
  BY <1>2, <1>3, <1>4, <1>5 DEF ProcUncompressChunk
<1>7. /\ LocalFeatures' = LocalFeatures
      /\ ClientFeatures' = ClientFeatures
      /\ \A d : Refs(d)' = Refs(d)
  BY DEF ProcUncompressChunk, informCacheVars, cacheMetaVars, LocalFeatures, Known,
     ClientFeatures, Refs
<1>8. WireOrder' /\ CacheChunksNew'
  BY <1>1, <1>2, <1>7, TakeKeepsOrder
<1>9. UncompressChunksKnown' /\ EvictsKnown'
  BY <1>1, <1>2, <1>7, TakeKeepsKnown
<1>10. server' = "serving" /\ ServerNeverExits' /\ Phases'
  <2>1. server' = "serving"
    BY <1>1, <1>6
  <2>2. QED
    BY <1>1, <2>1 DEF ServerNeverExits, Phases, ProcUncompressChunk, informCacheVars,
       cacheMetaVars
<1>11. NeverStoredRaw' /\ BaseStored' /\ BasesKept'
  <2>1. \A d \in Chunk : stored[d] # "none" => stored'[d] # "none"
    BY <1>2, <1>6 DEF TypeOK
  <2>2. NeverStoredRaw'
    BY <1>2, <1>6 DEF NeverStoredRaw, TypeOK
  <2>3. ASSUME NEW d \in Chunk, stored'[d] = "CACHE_DELTA"
        PROVE  base_of'[d] # NoBase /\ stored'[base_of'[d]] # "none"
    <3>1. CASE stored[d] = "CACHE_DELTA" /\ base_of'[d] = base_of[d]
      <4>1. base_of[d] \in Chunk /\ stored[base_of[d]] # "none"
        BY <3>1 DEF BaseStored, TypeOK
      <4>2. QED
        BY <2>1, <3>1, <4>1, SimilarAssumption
    <3>2. CASE d = c /\ base_of'[d] = b
      BY <1>5, <2>1, <3>2, SimilarAssumption
    <3>3. QED
      BY <1>2, <1>6, <2>3, <3>1, <3>2 DEF TypeOK
  <2>4. BasesKept'
    BY <1>7, <2>1 DEF BasesKept, ProcUncompressChunk, informCacheVars
  <2>5. QED
    BY <2>2, <2>3, <2>4 DEF BaseStored
<1>12. MemoryInSync'
  <2>1. Pending("FULL_EDR_CACHE_CHUNK") = Pending("FULL_EDR_CACHE_CHUNK")'
    BY <1>1, TakePending
  <2>2. Pending("CLIENT_UPLOAD_FEATURE") = Pending("CLIENT_UPLOAD_FEATURE")'
    BY <1>1, TakePending
  <2>3. QED
    BY <1>7, <2>1, <2>2 DEF MemoryInSync
<1>13. QED
  BY <1>8, <1>9, <1>10, <1>11, <1>12

(* What the client evicts is in the cache, and its count goes down by no   *)
(* more than the references that go.                                       *)
LEMMA ProcEvictFeatureStep ==
  ASSUME IInv, TypeOK', ProcEvictFeature
  PROVE  IInv'
<1> USE DEF IInv
<1>1. /\ wire # <<>> /\ wire' = Tail(wire) /\ client' = client
      /\ server = "serving"
      /\ Head(wire).type = "CLIENT_UPLOAD_FEATURE"
  BY DEF ProcEvictFeature, Receive
<1>2. PICK S \in SUBSET Feature :
      /\ S = Head(wire).features
      /\ IsEvict(1) /\ ~IsCache(1) /\ ~IsUncompress(1)
      /\ 1 \in DOMAIN wire
      /\ Head(wire) = wire[1]
  <2>1. /\ 1 \in DOMAIN wire
        /\ Head(wire) = wire[1]
        /\ Head(wire) \in Message
    BY <1>1, TakeFacts
  <2>2. Head(wire).features \in SUBSET Feature
    BY <2>1, MessageFacts
  <2>3. IsEvict(1) /\ ~IsCache(1) /\ ~IsUncompress(1)
    BY <1>1, <2>1 DEF IsCache, IsUncompress, IsEvict, IsType
  <2>4. QED
    BY <2>1, <2>2, <2>3
<1>3. \A i \in DOMAIN wire : IsEvict(i)
  <2>1. \A i \in DOMAIN wire : i \in Nat /\ 1 <= i
    BY <1>1, TakeFacts
  <2>2. \A i \in DOMAIN wire : 1 < i => IsEvict(i)
    BY <1>2 DEF WireOrder
  <2>3. QED
    BY <1>2, <2>1, <2>2
<1>4. S \subseteq LocalFeatures
  BY <1>2, <1>3 DEF EvictsKnown, IsEvict, IsCache, IsType
<1>5. CanEvict(S)
  BY <1>4, IndexedBase, SimilarAssumption DEF CanEvict
<1>6. EvictCacheChunk(S) /\ server' = "serving"
  BY <1>1, <1>2, <1>5 DEF ProcEvictFeature
<1>7. /\ LocalFeatures' = LocalFeatures \ S
      /\ ClientFeatures' = ClientFeatures
      /\ \A b \in Chunk : Refs(b)' = Refs(b) \ S
  BY <1>6, SimilarAssumption
  DEF ProcEvictFeature, EvictCacheChunk, cacheMetaVars, LocalFeatures, Known,
      ClientFeatures, Refs
<1>8. WireOrder' /\ CacheChunksNew'
  BY <1>1, <1>2, <1>7, TakeKeepsOrder
<1>9. \A i \in DOMAIN wire' : /\ i + 1 \in DOMAIN wire /\ i + 1 # 1
                             /\ wire'[i] = wire[i + 1]
                             /\ IsEvict(i)'
  BY <1>1, <1>3, TakeFacts DEF IsEvict, IsType
<1>10. UncompressChunksKnown'
  BY <1>9 DEF UncompressChunksKnown, IsUncompress, IsEvict, IsType
<1>11. EvictsKnown'
  <2>1. ASSUME NEW i \in DOMAIN wire', NEW f \in wire'[i].features
        PROVE  f \in LocalFeatures'
    <3>1. i + 1 \in DOMAIN wire /\ IsEvict(i + 1) /\ i + 1 # 1 /\ wire'[i] = wire[i + 1]
      BY <1>3, <1>9
    <3>2. f \in LocalFeatures
      BY <1>3, <2>1, <3>1 DEF EvictsKnown, IsEvict, IsCache, IsType
    <3>3. f \notin S
      BY <1>2, <2>1, <3>1 DEF EvictsKnown
    <3>4. QED
      BY <1>7, <3>2, <3>3
  <2>2. ASSUME NEW i \in DOMAIN wire', NEW j \in DOMAIN wire', j # i
        PROVE  wire'[i].features \cap wire'[j].features = {}
    <3>1. /\ i + 1 \in DOMAIN wire /\ IsEvict(i + 1) /\ wire'[i] = wire[i + 1]
          /\ j + 1 \in DOMAIN wire /\ IsEvict(j + 1) /\ wire'[j] = wire[j + 1]
      BY <1>3, <1>9
    <3>2. i + 1 # j + 1
      BY <1>1, <2>2, TakeFacts
    <3>3. QED
      BY <3>1, <3>2 DEF EvictsKnown
  <2>3. QED
    BY <2>1, <2>2 DEF EvictsKnown
<1>12. ServerNeverExits' /\ Phases'
  BY <1>1, <1>6 DEF ServerNeverExits, Phases, ProcEvictFeature, EvictCacheChunk, cacheMetaVars
<1>13. NeverStoredRaw' /\ BaseStored'
  BY DEF ProcEvictFeature, NeverStoredRaw, BaseStored
<1>14. BasesKept'
  <2>1. ASSUME NEW f \in LocalFeatures', NEW b, b = local_feature_2_fp_db'[f]
        PROVE  base_2_cnt_idx'[b] >= Cardinality(Refs(b)')
    <3>1. f \in LocalFeatures /\ b = local_feature_2_fp_db[f]
      BY <1>6, <1>7, <2>1, IndexedBase DEF EvictCacheChunk
    <3>2. /\ b \in Chunk
          /\ base_2_cnt_idx[b] \in Nat /\ base_2_cnt_idx[b] # NoCnt
          /\ base_2_cnt_idx[b] >= Cardinality(Refs(b))
      BY <3>1, IndexedBase DEF BasesKept
    <3>3. base_2_cnt_idx'[b] = DropRefs(base_2_cnt_idx[b], Cardinality(S \cap Refs(b)))
      BY <1>6, <3>2 DEF EvictCacheChunk
    <3>4. Refs(b)' = Refs(b) \ S
      BY <1>7, <3>2
    <3>5. IsFiniteSet(Refs(b)) /\ Cardinality(Refs(b)) \in Nat
      BY RefsFinite
    <3>6. S \cap Refs(b) = Refs(b) \cap S
      OBVIOUS
    <3>7. Cardinality(Refs(b)') = Cardinality(Refs(b)) - Cardinality(S \cap Refs(b))
      BY <3>4, <3>5, <3>6, FS_Difference
    <3>8. Cardinality(S \cap Refs(b)) \in Nat
      BY <3>5, FS_Intersection, FS_CardinalityType
    <3>9. QED
      BY <3>2, <3>3, <3>5, <3>7, <3>8 DEF DropRefs
  <2>2. ASSUME NEW b \in Chunk, base_2_cnt_idx'[b] # NoCnt
        PROVE  b \in base_2_data_db' /\ stored'[b] # "none"
    BY <1>6, <2>2 DEF EvictCacheChunk, ProcEvictFeature, BasesKept
  <2>3. QED
    BY <2>1, <2>2 DEF BasesKept
<1>15. MemoryInSync'
  <2>1. Pending("FULL_EDR_CACHE_CHUNK") = {} /\ Pending("FULL_EDR_CACHE_CHUNK")' = {}
    BY <1>3, <1>9 DEF Pending, IsEvict, IsType
  <2>2. Pending("CLIENT_UPLOAD_FEATURE") = Pending("CLIENT_UPLOAD_FEATURE")' \cup S
    BY <1>1, <1>2, TakePending
  <2>3. QED
    BY <1>7, <2>1, <2>2 DEF MemoryInSync
<1>16. QED
  BY <1>8, <1>10, <1>11, <1>12, <1>13, <1>14, <1>15

-----------------------------------------------------------------------------
(* Theorems *)

(* IInv holds as long as nobody dies.                                      *)
THEOREM InvariantHolds ==
  ASSUME MaxClientCrash = 0, MaxServerCrash = 0
  PROVE  Spec => []IInv
<1>1. Init => IInv
  <2> SUFFICES ASSUME Init
               PROVE  IInv
    OBVIOUS
  <2>1. LocalFeatures = {} /\ ClientFeatures = {} /\ wire = <<>>
    BY DEF Init, InformCacheInit, CacheMetaInit, LocalFeatures, Known, EmptyIndex,
       ClientFeatures
  <2>2. DOMAIN wire = {}
    BY <2>1
  <2>3. TypeOK
    <3>1. CacheMetaTypeOK
      BY DEF Init, CacheMetaInit, CacheMetaTypeOK, VersionIdx
    <3>2. InformCacheTypeOK
      BY DEF Init, InformCacheInit, InformCacheTypeOK, EmptyCntIdx, CntIdx,
         EmptyIndex, Index
    <3>3. QED
      BY <3>1, <3>2 DEF Init, TypeOK, Stat
  <2>4. ServerNeverExits /\ NeverStoredRaw /\ BaseStored /\ Phases
    BY DEF Init, ServerNeverExits, NeverStoredRaw, BaseStored, Phases,
       CacheMetaInit, InformCacheInit
  <2>5. WireOrder /\ CacheChunksNew /\ UncompressChunksKnown /\ EvictsKnown
    BY <2>2 DEF WireOrder, CacheChunksNew, UncompressChunksKnown, EvictsKnown
  <2>6. BasesKept
    BY <2>1 DEF BasesKept, Init, InformCacheInit, EmptyCntIdx
  <2>7. MemoryInSync
    BY <2>1, <2>2 DEF MemoryInSync, Pending
  <2>8. QED
    BY <2>3, <2>4, <2>5, <2>6, <2>7 DEF IInv
<1>2. TypeOK' /\ IInv /\ [Next]_vars => IInv'
  <2> SUFFICES ASSUME TypeOK', IInv, [Next]_vars
               PROVE  IInv'
    OBVIOUS
  <2>1. CASE Login
    BY <2>1, LoginStep
  <2>2. CASE ClientNext
    BY <2>2, FullEDRStep, RecipeEndStep, SendFeaturesStep, FinishStep, ClientExitStep
    DEF ClientNext
  <2>3. CASE ServerNext
    BY <2>3, ProcCacheChunkStep, ProcUncompressChunkStep, ProcEvictFeatureStep,
       DeleteEvictStep, StoreCntIdxStep
    DEF ServerNext
  <2>4. CASE ClientCrash
    BY <2>4 DEF ClientCrash, IInv, TypeOK
  <2>5. CASE ServerCrash
    BY <2>5 DEF ServerCrash, IInv, TypeOK
  <2>6. CASE UNCHANGED vars
    <3>1. UNCHANGED <<client, server, wire, stored, base_of, cacheMetaVars, informCacheVars>>
      BY <2>6 DEF vars, sessionVars
    <3>2. Phases' /\ server' # "exit"
      BY <3>1 DEF Phases, IInv, ServerNeverExits, cacheMetaVars, informCacheVars
    <3>3. QED
      BY <3>1, <3>2, PhaseStep DEF cacheMetaVars, informCacheVars
  <2>7. QED
    BY <2>1, <2>2, <2>3, <2>4, <2>5, <2>6 DEF Next
<1>3. QED
  BY <1>1, <1>2, TypeCorrect, PTL DEF Spec

(* CacheMeta and InformCache agree at every moment, messages on the way    *)
(* accounted for, so that the client never sends a chunk uncompressed that *)
(* the server could not reduce.                                            *)
THEOREM HalvesInSync ==
  ASSUME MaxClientCrash = 0, MaxServerCrash = 0
  PROVE  Spec => []InSync
<1>1. IInv => InSync
  <2> SUFFICES ASSUME IInv
               PROVE  InSync
    OBVIOUS
  <2>1. ServerFeatures = LocalFeatures
    <3>1. CASE server = "unlocked"
      <4>1. LoadedIndex = local_feature_2_fp_db
        BY <3>1, NothingCounted DEF IInv, Phases, LoadedIndex
      <4>2. QED
        BY <3>1, <4>1 DEF ServerFeatures, LocalFeatures
    <3>2. CASE server # "unlocked"
      BY <3>2 DEF ServerFeatures
    <3>3. QED
      BY <3>1, <3>2
  <2>2. QED
    BY <2>1 DEF IInv, MemoryInSync, InSync
<1>2. QED
  BY <1>1, InvariantHolds, PTL

(* Without a crash the server never takes one of the exits it has for a    *)
(* cache that disagrees with the client's.                                 *)
THEOREM NoExit ==
  ASSUME MaxClientCrash = 0, MaxServerCrash = 0
  PROVE  Spec => []ServerNeverExits
<1>1. IInv => ServerNeverExits
  BY DEF IInv
<1>2. QED
  BY <1>1, InvariantHolds, PTL

(* Without a crash no uncompressed chunk is recorded as a compressed one.  *)
THEOREM NoRawChunk ==
  ASSUME MaxClientCrash = 0, MaxServerCrash = 0
  PROVE  Spec => []NeverStoredRaw
<1>1. IInv => NeverStoredRaw
  BY DEF IInv
<1>2. QED
  BY <1>1, InvariantHolds, PTL

(* Without a crash the base of every cache delta is itself in the fp index.*)
THEOREM DeltaBaseStored ==
  ASSUME MaxClientCrash = 0, MaxServerCrash = 0
  PROVE  Spec => []BaseStored
<1>1. IInv => BaseStored
  BY DEF IInv
<1>2. QED
  BY <1>1, InvariantHolds, PTL

-----------------------------------------------------------------------------
(* The last n uploads, when nobody dies.                                   *)

(* No feature is newer than the upload in progress.                        *)
LEMMA VersionBound ==
  ASSUME TypeOK, Versions, VersionOfChunk, NEW f \in Feature
  PROVE  feature_2_version_idx[f] \in Nat /\ feature_2_version_idx[f] <= n_upload
<1>1. feature_2_version_idx[f] \in Nat /\ n_upload \in Nat
  BY DEF TypeOK, CacheMetaTypeOK, VersionIdx
<1>2. CASE f \in ClientFeatures
  <2>1. PICK c \in Chunk : feature_2_version_idx[f] <= last_sent[c]
    BY <1>2 DEF VersionOfChunk
  <2>2. last_sent[c] \in Nat /\ last_sent[c] <= n_upload
    BY DEF Versions, TypeOK
  <2> QED BY <1>1, <2>1, <2>2
<1>3. CASE f \notin ClientFeatures
  BY <1>1, <1>3 DEF ClientFeatures
<1> QED BY <1>2, <1>3

(* A chunk that is sent makes one of its features the most recent.         *)
LEMMA LastNSend ==
  ASSUME TypeOK, LastNInv, client = "sending", client' = "sending", NEW c \in Chunk,
         NEW S \in SUBSET FeatureSet(c), S # {},
         feature_2_version_idx' = [f \in Feature |-> IF f \in S THEN cur_version_num
                                                    ELSE feature_2_version_idx[f]],
         last_sent' = [last_sent EXCEPT ![c] = n_upload],
         UNCHANGED <<cur_version_num, n_upload>>
  PROVE  LastNInv'
<1>1. /\ n_upload \in Nat /\ cur_version_num = n_upload
      /\ \A d \in Chunk : last_sent[d] \in Nat /\ last_sent[d] <= n_upload
      /\ \A d \in Chunk : last_sent'[d] = IF d = c THEN n_upload ELSE last_sent[d]
      /\ \A f \in Feature : feature_2_version_idx[f] \in Nat
                             /\ feature_2_version_idx[f] <= n_upload
  BY VersionBound DEF TypeOK, LastNInv, Versions
<1>2. \A f \in Feature : feature_2_version_idx'[f]
                           = IF f \in S THEN n_upload ELSE feature_2_version_idx[f]
  BY <1>1
<1>3. Versions' /\ Evicted'
  BY <1>1 DEF Versions, Evicted
<1>4. ASSUME NEW f \in ClientFeatures'
      PROVE  \E d \in Chunk : f \in FeatureSet(d) /\ feature_2_version_idx'[f] <= last_sent'[d]
  <2>1. f \in Feature /\ feature_2_version_idx'[f] # 0
    BY DEF ClientFeatures
  <2>2. CASE f \in S
    BY <1>1, <1>2, <2>1, <2>2
  <2>3. CASE f \notin S
    <3>1. f \in ClientFeatures
      BY <1>2, <2>1, <2>3 DEF ClientFeatures
    <3>2. PICK d \in Chunk : f \in FeatureSet(d) /\ feature_2_version_idx[f] <= last_sent[d]
      BY <3>1 DEF LastNInv, VersionOfChunk
    <3> QED BY <1>1, <1>2, <2>1, <2>3, <3>2
  <2> QED BY <2>2, <2>3
<1>5. ASSUME NEW d \in Chunk, Recent(d)'
      PROVE  \E f \in FeatureSet(d) : last_sent'[d] <= feature_2_version_idx'[f]
  <2>1. CASE d = c
    <3>1. PICK f \in S : TRUE
      OBVIOUS
    <3>2. f \in FeatureSet(d) /\ f \in Feature
      BY <2>1, FeatureSetFacts
    <3> QED BY <1>1, <1>2, <2>1, <3>2
  <2>2. CASE d # c
    <3>1. Recent(d)
      BY <1>1, <1>5, <2>2 DEF Recent
    <3>2. PICK f \in FeatureSet(d) : last_sent[d] <= feature_2_version_idx[f]
      BY <3>1 DEF LastNInv, RecentKept
    <3>3. f \in Feature
      BY FeatureSetFacts
    <3> QED BY <1>1, <1>2, <2>2, <3>2, <3>3
  <2> QED BY <2>1, <2>2
<1>6. VersionOfChunk' /\ RecentKept'
  BY <1>4, <1>5 DEF VersionOfChunk, RecentKept
<1> QED BY <1>3, <1>6 DEF LastNInv

(* Only features too old for any chunk of the last n uploads are erased.   *)
LEMMA LastNErase ==
  ASSUME TypeOK, LastNInv, client = "evicting", client' \in {"evicting", "finished"},
         NEW S \in SUBSET Evictable, client' = "finished" => S = Evictable, Erase(S),
         UNCHANGED <<cur_version_num, n_upload, last_sent>>
  PROVE  LastNInv'
<1>1. /\ n_upload \in Nat /\ cur_version_num = n_upload
      /\ \A d \in Chunk : last_sent[d] \in Nat /\ last_sent[d] <= n_upload
      /\ \A f \in Feature : feature_2_version_idx[f] \in Nat
                             /\ feature_2_version_idx[f] <= n_upload
      /\ LastNPara \in Nat
  BY VersionBound, CacheMetaAssumption DEF TypeOK, LastNInv, Versions
<1>2. \A f \in Feature : feature_2_version_idx'[f]
                           = IF f \in S THEN 0 ELSE feature_2_version_idx[f]
  BY DEF Erase
<1>3. Versions'
  BY <1>1 DEF LastNInv, Versions
<1>4. Evicted'
  <2>1. ASSUME S = Evictable, NEW f \in Evictable'
        PROVE  FALSE
    <3>1. /\ f \in Feature /\ feature_2_version_idx'[f] # 0
          /\ n_upload - feature_2_version_idx'[f] >= LastNPara
      BY <1>1, <2>1 DEF Evictable, ClientFeatures
    <3>2. f \notin S
      BY <1>2, <3>1
    <3>3. f \in Evictable
      BY <1>1, <1>2, <3>1, <3>2 DEF Evictable, ClientFeatures
    <3> QED BY <2>1, <3>2, <3>3
  <2> QED BY <2>1 DEF Evicted
<1>5. VersionOfChunk'
  <2>1. \A f \in ClientFeatures' : f \in ClientFeatures
                                    /\ feature_2_version_idx'[f] = feature_2_version_idx[f]
    BY <1>2 DEF ClientFeatures
  <2> QED BY <2>1 DEF LastNInv, VersionOfChunk
<1>6. ASSUME NEW c \in Chunk, Recent(c)'
      PROVE  \E f \in FeatureSet(c) : last_sent'[c] <= feature_2_version_idx'[f]
  <2>1. /\ Recent(c) /\ last_sent'[c] = last_sent[c]
        /\ n_upload - last_sent[c] < LastNPara
    BY <1>6 DEF Recent
  <2>2. PICK f \in FeatureSet(c) : last_sent[c] <= feature_2_version_idx[f]
    BY <2>1 DEF LastNInv, RecentKept
  <2>3. f \in Feature
    BY FeatureSetFacts
  <2>4. f \notin S
    BY <1>1, <2>1, <2>2, <2>3 DEF Evictable
  <2> QED BY <1>2, <2>1, <2>2, <2>3, <2>4
<1>7. RecentKept'
  BY <1>6 DEF RecentKept
<1> QED BY <1>3, <1>4, <1>5, <1>7 DEF LastNInv

(* What changes neither the index nor the uploads keeps the invariant.     *)
LEMMA LastNFrame ==
  ASSUME LastNInv, client' \in {"off", "finished"} => client \in {"off", "finished"},
         client' = "off" => cache_meta_db'.version = n_upload,
         UNCHANGED <<feature_2_version_idx, cur_version_num, n_upload, last_sent>>
  PROVE  LastNInv'
<1>1. ClientFeatures' = ClientFeatures /\ Evictable' = Evictable
  BY DEF ClientFeatures, Evictable
<1>2. \A c : Recent(c)' = Recent(c)
  BY DEF Recent
<1> QED BY <1>1, <1>2 DEF LastNInv, Versions, Evicted, VersionOfChunk, RecentKept

LEMMA LastNStep ==
  ASSUME IInv, LastNInv, [Next]_vars, MaxClientCrash = 0, MaxServerCrash = 0
  PROVE  LastNInv'
<1> USE DEF IInv
<1>1. CASE Login
  <2>1. /\ client = "off" /\ client' = "sending" /\ n_upload' = n_upload + 1
        /\ feature_2_version_idx' = feature_2_version_idx
        /\ cur_version_num' = n_upload + 1
        /\ last_sent' = last_sent
    BY <1>1 DEF Login, LoadCacheMeta, Phases, LastNInv, Versions
  <2>2. /\ n_upload \in Nat /\ LastNPara \in Nat
        /\ \A c \in Chunk : last_sent[c] \in Nat /\ last_sent[c] <= n_upload
    BY CacheMetaAssumption DEF TypeOK, LastNInv, Versions
  <2>3. Versions' /\ Evicted'
    BY <2>1, <2>2 DEF Versions, Evicted
  <2>4. VersionOfChunk'
    BY <2>1 DEF LastNInv, VersionOfChunk, ClientFeatures
  <2>5. \A c \in Chunk : Recent(c)' => Recent(c)
    BY <2>1, <2>2 DEF Recent
  <2>6. RecentKept'
    BY <2>1, <2>5 DEF LastNInv, RecentKept
  <2> QED BY <2>3, <2>4, <2>6 DEF LastNInv
<1>2. ASSUME NEW c \in Chunk, FullEDR(c)
      PROVE  LastNInv'
  <2>1. /\ client = "sending" /\ client' = "sending"
        /\ last_sent' = [last_sent EXCEPT ![c] = n_upload]
        /\ UNCHANGED <<cur_version_num, n_upload>>
    BY <1>2 DEF FullEDR
  <2>2. CASE QueryCacheMeta(c) /\ RefreshFeatures(c)
    <3>1. FeatureSet(c) \cap ClientFeatures # {}
      BY <2>2 DEF QueryCacheMeta
    <3> QED BY <2>1, <2>2, <3>1, LastNSend DEF RefreshFeatures
  <2>3. CASE UpdateCacheMeta(c)
    BY <2>1, <2>3, LastNSend, FeatureSetFacts DEF UpdateCacheMeta
  <2> QED BY <1>2, <2>2, <2>3 DEF FullEDR
<1>3. CASE RecipeEnd
  BY <1>3, LastNFrame DEF RecipeEnd, cacheMetaVars, boundVars
<1>4. ASSUME NEW S \in SUBSET Evictable, SendFeatures(S)
      PROVE  LastNInv'
  BY <1>4, LastNErase DEF SendFeatures, EvictFeature, boundVars
<1>5. CASE Finish
  BY <1>5, LastNErase DEF Finish, EvictTail, boundVars
<1>6. CASE ClientExit
  <2>1. cache_meta_db'.version = n_upload
    BY <1>6 DEF ClientExit, StoreCacheMeta, LastNInv, Versions
  <2> QED BY <1>6, <2>1, LastNFrame DEF ClientExit, StoreCacheMeta, boundVars
<1>7. CASE UNCHANGED <<cacheMetaVars, client, boundVars>>
  <2>1. client' = "off" => cache_meta_db'.version = n_upload
    BY <1>7 DEF cacheMetaVars, LastNInv, Versions
  <2> QED BY <1>7, <2>1, LastNFrame DEF cacheMetaVars, boundVars
<1>8. CASE ServerNext
  BY <1>7, <1>8 DEF ServerNext, ProcCacheChunk, ProcUncompressChunk, ProcEvictFeature,
     DeleteEvict, StoreCntIdx
<1>9. CASE ClientCrash \/ ServerCrash
  BY <1>9 DEF ClientCrash, ServerCrash, TypeOK
<1>10. CASE UNCHANGED vars
  BY <1>7, <1>10 DEF vars, sessionVars
<1> QED BY <1>1, <1>2, <1>3, <1>4, <1>5, <1>6, <1>8, <1>9, <1>10 DEF Next, ClientNext

(* As long as nobody dies, a session leaves in the server's files exactly  *)
(* the last LastNPara uploads: whatever was sent in them still leads to a  *)
(* base, and every older feature has been evicted, its tail batch too.     *)
THEOREM CacheHoldsLastN ==
  ASSUME MaxClientCrash = 0, MaxServerCrash = 0
  PROVE  Spec => []CacheIsLastN
<1>1. Init => LastNInv
  BY DEF Init, CacheMetaInit, LastNInv, Versions, Evicted, Evictable, ClientFeatures,
     VersionOfChunk, RecentKept, Recent
<1>2. IInv /\ LastNInv /\ [Next]_vars => LastNInv'
  BY LastNStep
<1>3. IInv /\ LastNInv => CacheIsLastN
  <2> SUFFICES ASSUME IInv, LastNInv, server = "unlocked"
               PROVE  CacheIsLastN
    BY DEF CacheIsLastN
  <2>1. /\ TypeOK /\ BasesKept /\ wire = <<>>
        /\ cnt_file = base_2_cnt_idx /\ idx_file = local_feature_2_fp_db
        /\ client \in {"off", "finished"}
    BY DEF IInv, Phases, TypeOK
  <2>2. LoadedIndex = local_feature_2_fp_db
    BY <2>1, NothingCounted DEF LoadedIndex
  <2>3. ClientFeatures = LocalFeatures
    <3>1. DOMAIN wire = {}
      BY <2>1
    <3>2. \A type : Pending(type) = {}
      BY <3>1 DEF Pending
    <3> QED BY <3>2 DEF IInv, MemoryInSync
  <2>4. /\ cur_version_num = n_upload /\ n_upload \in Nat /\ Evictable = {}
        /\ LastNPara \in Nat
        /\ \A c \in Chunk : last_sent[c] \in Nat /\ last_sent[c] <= n_upload
        /\ \A f \in Feature : feature_2_version_idx[f] \in Nat
    BY <2>1, CacheMetaAssumption
    DEF LastNInv, Versions, Evicted, TypeOK, CacheMetaTypeOK, VersionIdx
  <2>5. ASSUME NEW c \in Chunk, Recent(c)
        PROVE  \E f \in FeatureSet(c) : LoadedIndex[f] \in base_2_data_db
    <3>1. PICK f \in FeatureSet(c) : last_sent[c] <= feature_2_version_idx[f]
      BY <2>5 DEF LastNInv, RecentKept
    <3>2. f \in Feature /\ last_sent[c] # 0
      BY <2>5, FeatureSetFacts DEF Recent
    <3>3. f \in ClientFeatures
      BY <2>4, <3>1, <3>2 DEF ClientFeatures
    <3> QED BY <2>1, <2>2, <2>3, <3>3, IndexedBase
  <2>6. ASSUME NEW f \in Known(LoadedIndex)
        PROVE  \E c \in Chunk : Recent(c) /\ f \in FeatureSet(c)
    <3>1. f \in ClientFeatures /\ f \in Feature
      BY <2>2, <2>3 DEF LocalFeatures, Known
    <3>2. feature_2_version_idx[f] # 0
          /\ ~(n_upload - feature_2_version_idx[f] >= LastNPara)
      BY <2>4, <3>1 DEF Evictable, ClientFeatures
    <3>3. PICK c \in Chunk : f \in FeatureSet(c) /\ feature_2_version_idx[f] <= last_sent[c]
      BY <3>1 DEF LastNInv, VersionOfChunk
    <3>4. Recent(c)
      BY <2>4, <3>1, <3>2, <3>3 DEF Recent
    <3> QED BY <3>3, <3>4
  <2> QED BY <2>5, <2>6 DEF CacheIsLastN
<1>4. QED
  BY <1>1, <1>2, <1>3, InvariantHolds, PTL DEF Spec

-----------------------------------------------------------------------------
(* Reference counts and the store, when processes die.                     *)

(* The features that lead to one base are finitely many.                   *)
LEMMA RefsInFacts ==
  ASSUME NEW index, NEW b
  PROVE  /\ RefsIn(index, b) \subseteq Feature
         /\ IsFiniteSet(RefsIn(index, b))
         /\ Cardinality(RefsIn(index, b)) \in Nat
<1>1. RefsIn(index, b) \subseteq Feature
  BY DEF RefsIn
<1>2. IsFiniteSet(RefsIn(index, b))
  BY <1>1, SimilarAssumption, FS_Subset
<1>3. QED
  BY <1>1, <1>2, FS_CardinalityType

(* A base some feature leads to is counted.                                *)
LEMMA KeptBase ==
  ASSUME NEW index \in Index, NEW cnt \in CntIdx, NEW data, Kept(index, cnt, data),
         NEW f \in Known(index)
  PROVE  /\ f \in Feature /\ index[f] \in Chunk
         /\ cnt[index[f]] \in Nat /\ cnt[index[f]] > 0 /\ index[f] \in data
<1>1. f \in Feature /\ index[f] \in Chunk
  BY DEF Known, Index
<1> DEFINE b == index[f]
<1>2. f \in RefsIn(index, b)
  BY <1>1 DEF RefsIn
<1>3. IsFiniteSet(RefsIn(index, b)) /\ Cardinality(RefsIn(index, b)) \in Nat
  BY RefsInFacts
<1>4. Cardinality(RefsIn(index, b)) # 0
  BY <1>2, <1>3, FS_EmptySet
<1>5. cnt[b] \in Nat \cup {NoCnt} /\ cnt[b] >= Cardinality(RefsIn(index, b))
  BY <1>1 DEF CntIdx, Kept
<1> HIDE DEF b
<1>6. cnt[b] \in Nat /\ cnt[b] > 0
  BY <1>3, <1>4, <1>5 DEF NoCnt
<1>7. b \in data
  BY <1>1, <1>6 DEF Kept, NoCnt, b
<1>8. QED
  BY <1>1, <1>6, <1>7 DEF b

(* InsertCachedChunk counts what it makes lead to the chunk, even when     *)
(* its features led elsewhere before.                                      *)
LEMMA KeptInsert ==
  ASSUME NEW index \in Index, NEW cnt \in CntIdx, NEW data, Kept(index, cnt, data),
         NEW c \in Chunk, NEW cnt2, NEW data2,
         cnt2 = [cnt EXCEPT ![c] = IF @ = NoCnt THEN SUPER_FEATURE_PER_CHUNK
                                                ELSE @ + SUPER_FEATURE_PER_CHUNK],
         data2 = IF cnt[c] = NoCnt THEN data \cup {c} ELSE data
  PROVE  Kept(UpdateFeatureIndex(index, c), cnt2, data2)
<1> DEFINE index2 == UpdateFeatureIndex(index, c)
           n == SUPER_FEATURE_PER_CHUNK
<1>1. /\ index2 \in Index
      /\ \A f \in Feature : index2[f] = IF f \in FeatureSet(c) THEN c ELSE index[f]
  BY UpdateFeatureIndexFacts
<1> HIDE DEF index2
<1>2. n \in Nat \ {0}
  BY SimilarAssumption
<1>3. /\ \A b \in Chunk : cnt[b] \in Nat \cup {NoCnt}
      /\ \A b \in Chunk : b # c => cnt2[b] = cnt[b]
      /\ cnt2[c] = IF cnt[c] = NoCnt THEN n ELSE cnt[c] + n
  BY DEF CntIdx
<1>4. cnt2[c] >= Cardinality(RefsIn(index2, c))
  <2>1. RefsIn(index2, c) \subseteq RefsIn(index, c) \cup FeatureSet(c)
    BY <1>1 DEF RefsIn
  <2>2. /\ IsFiniteSet(RefsIn(index, c)) /\ Cardinality(RefsIn(index, c)) \in Nat
        /\ IsFiniteSet(FeatureSet(c)) /\ Cardinality(FeatureSet(c)) \in Nat
        /\ Cardinality(FeatureSet(c)) <= n
    BY RefsInFacts, FeatureSetFacts
  <2>3. /\ Cardinality(RefsIn(index, c) \cap FeatureSet(c)) \in Nat
        /\ IsFiniteSet(RefsIn(index, c) \cup FeatureSet(c))
        /\ Cardinality(RefsIn(index, c) \cup FeatureSet(c))
             = Cardinality(RefsIn(index, c)) + Cardinality(FeatureSet(c))
                 - Cardinality(RefsIn(index, c) \cap FeatureSet(c))
    BY <2>2, FS_Union, FS_Intersection, FS_CardinalityType
  <2>4. /\ Cardinality(RefsIn(index2, c)) \in Nat
        /\ Cardinality(RefsIn(index2, c)) <= Cardinality(RefsIn(index, c) \cup FeatureSet(c))
    BY <2>1, <2>3, FS_Subset, RefsInFacts
  <2>5. Cardinality(RefsIn(index2, c)) <= Cardinality(RefsIn(index, c)) + n
    <3> HIDE DEF n
    <3> QED BY <1>2, <2>2, <2>3, <2>4
  <2>6. CASE RefsIn(index, c) = {}
    <3>1. Cardinality(RefsIn(index, c)) = 0
      BY <2>6, FS_EmptySet
    <3>2. cnt2[c] \in Nat /\ cnt2[c] >= n
      BY <1>2, <1>3 DEF NoCnt
    <3> HIDE DEF n
    <3> QED BY <1>2, <2>4, <2>5, <3>1, <3>2
  <2>7. ASSUME NEW f \in RefsIn(index, c)
        PROVE  cnt2[c] >= Cardinality(RefsIn(index2, c))
    <3>1. f \in Known(index) /\ index[f] = c
      BY SimilarAssumption DEF RefsIn, Known
    <3>2. cnt[c] \in Nat /\ cnt[c] # NoCnt
      BY <3>1, KeptBase DEF NoCnt
    <3>3. cnt[c] >= Cardinality(RefsIn(index, c))
      BY <3>1 DEF Kept
    <3>4. cnt2[c] = cnt[c] + n
      BY <1>3, <3>2
    <3> HIDE DEF n
    <3> QED BY <1>2, <2>2, <2>4, <2>5, <3>2, <3>3, <3>4
  <2> QED BY <2>6, <2>7
<1>5. ASSUME NEW f \in Known(index2)
      PROVE  cnt2[index2[f]] >= Cardinality(RefsIn(index2, index2[f]))
  <2>1. CASE index2[f] = c
    BY <1>4, <2>1
  <2>2. CASE index2[f] # c
    <3>1. f \in Feature /\ f \notin FeatureSet(c) /\ index2[f] = index[f]
      BY <1>1, <2>2 DEF Known
    <3>2. f \in Known(index)
      BY <1>5, <3>1 DEF Known
    <3> DEFINE b == index[f]
    <3>3. b \in Chunk /\ b # c /\ cnt[b] \in Nat
      BY <2>2, <3>1, <3>2, KeptBase
    <3>4. RefsIn(index2, b) \subseteq RefsIn(index, b)
      BY <1>1, <3>3 DEF RefsIn
    <3>5. /\ Cardinality(RefsIn(index2, b)) <= Cardinality(RefsIn(index, b))
          /\ Cardinality(RefsIn(index2, b)) \in Nat /\ Cardinality(RefsIn(index, b)) \in Nat
      BY <3>4, FS_Subset, RefsInFacts
    <3>6. cnt[b] >= Cardinality(RefsIn(index, b)) /\ cnt2[b] = cnt[b]
      BY <1>3, <3>2, <3>3 DEF Kept
    <3> HIDE DEF b
    <3>7. cnt2[b] >= Cardinality(RefsIn(index2, b))
      BY <3>3, <3>5, <3>6
    <3> QED BY <3>1, <3>7 DEF b
  <2> QED BY <2>1, <2>2
<1>6. ASSUME NEW b \in Chunk, cnt2[b] # NoCnt
      PROVE  b \in data2
  BY <1>3, <1>6 DEF Kept
<1> QED BY <1>5, <1>6 DEF Kept, index2

(* EvictCacheChunk takes from a count no more than what led to the base.   *)
LEMMA KeptEvict ==
  ASSUME NEW index \in Index, NEW cnt \in CntIdx, NEW data, Kept(index, cnt, data),
         NEW S \in SUBSET Feature, NEW index2, NEW cnt2,
         index2 = [f \in Feature |-> IF f \in S THEN NoBase ELSE index[f]],
         cnt2 = [b \in Chunk |-> IF cnt[b] = NoCnt THEN NoCnt
                    ELSE DropRefs(cnt[b], Cardinality(S \cap RefsIn(index, b)))]
  PROVE  Kept(index2, cnt2, data)
<1>1. ASSUME NEW f \in Known(index2)
      PROVE  cnt2[index2[f]] >= Cardinality(RefsIn(index2, index2[f]))
  <2>1. f \in Known(index) /\ index2[f] = index[f]
    BY <1>1 DEF Known
  <2> DEFINE b == index[f]
             d == Cardinality(S \cap RefsIn(index, b))
  <2>2. b \in Chunk /\ cnt[b] \in Nat /\ cnt[b] # NoCnt
    BY <2>1, KeptBase DEF NoCnt
  <2>3. RefsIn(index2, b) = RefsIn(index, b) \ S
    BY <2>2, SimilarAssumption DEF RefsIn
  <2>4. IsFiniteSet(RefsIn(index, b)) /\ Cardinality(RefsIn(index, b)) \in Nat
    BY RefsInFacts
  <2>5. /\ Cardinality(RefsIn(index2, b)) = Cardinality(RefsIn(index, b)) - d
        /\ Cardinality(RefsIn(index2, b)) \in Nat
    <3>1. S \cap RefsIn(index, b) = RefsIn(index, b) \cap S
      OBVIOUS
    <3>2. Cardinality(RefsIn(index, b) \ S)
            = Cardinality(RefsIn(index, b)) - Cardinality(RefsIn(index, b) \cap S)
      BY <2>4, FS_Difference
    <3> QED BY <2>3, <3>1, <3>2, RefsInFacts
  <2>6. d \in Nat
    BY <2>4, FS_Intersection, FS_CardinalityType
  <2>7. cnt2[b] = DropRefs(cnt[b], d) /\ cnt[b] >= Cardinality(RefsIn(index, b))
    BY <2>1, <2>2 DEF Kept
  <2> HIDE DEF b, d
  <2>8. cnt2[b] >= Cardinality(RefsIn(index2, b))
    BY <2>2, <2>4, <2>5, <2>6, <2>7 DEF DropRefs
  <2> QED BY <2>1, <2>8 DEF b
<1>2. ASSUME NEW b \in Chunk, cnt2[b] # NoCnt
      PROVE  b \in data
  BY <1>2 DEF Kept
<1> QED BY <1>1, <1>2 DEF Kept

(* DeleteEvictChunk only takes bases without a feature that leads to them. *)
LEMMA KeptDelete ==
  ASSUME NEW index \in Index, NEW cnt \in CntIdx, NEW data, Kept(index, cnt, data),
         NEW gone, gone = {b \in Chunk : cnt[b] = 0}, NEW cnt2,
         cnt2 = [b \in Chunk |-> IF b \in gone THEN NoCnt ELSE cnt[b]]
  PROVE  Kept(index, cnt2, data \ gone)
<1>1. ASSUME NEW f \in Known(index)
      PROVE  cnt2[index[f]] >= Cardinality(RefsIn(index, index[f]))
  BY KeptBase DEF Kept
<1>2. ASSUME NEW b \in Chunk, cnt2[b] # NoCnt
      PROVE  b \in data \ gone
  BY <1>2 DEF Kept
<1> QED BY <1>1, <1>2 DEF Kept

(* Nothing leads anywhere in an empty index.                               *)
LEMMA KeptEmpty ==
  ASSUME NEW cnt, NEW data, \A b \in Chunk : cnt[b] # NoCnt => b \in data
  PROVE  Kept(EmptyIndex, cnt, data)
  BY DEF Kept, Known, EmptyIndex

(* While a session is served the store only grows.                         *)
LEMMA KeptMore ==
  ASSUME NEW index, NEW cnt, NEW data, NEW data2, Kept(index, cnt, data), data \subseteq data2
  PROVE  Kept(index, cnt, data2)
  BY DEF Kept

(* No crash separates DeleteEvictChunk and the two file writes.            *)
NotTorn == MaxServerCrash = 0 \/ ServerCrashAt \cap {"deleted", "cnt_stored"} = {}

(* CrashInv is kept by every step, of whatever client.                     *)
LEMMA CrashStep ==
  ASSUME NotTorn, TypeOK, CrashInv, [Next]_vars
  PROVE  CrashInv'
<1> DEFINE Memory == Kept(local_feature_2_fp_db, base_2_cnt_idx, base_2_data_db)
           Files == Kept(idx_file, cnt_file, base_2_data_db)
<1>1. /\ local_feature_2_fp_db \in Index /\ base_2_cnt_idx \in CntIdx
      /\ base_2_data_db \in SUBSET Chunk /\ cnt_file \in CntIdx /\ idx_file \in Index
  BY DEF TypeOK, InformCacheTypeOK
<1>2. /\ Memory
      /\ server \notin {"deleted", "cnt_stored"} => Files
      /\ server = "cnt_stored" => cnt_file = base_2_cnt_idx
  BY DEF CrashInv
<1>3. CASE UNCHANGED <<server, informCacheVars>>
  BY <1>2, <1>3 DEF CrashInv, informCacheVars
<1>4. CASE UNCHANGED informCacheVars /\ server = "serving" /\ server' = "exit"
  BY <1>2, <1>4 DEF CrashInv, informCacheVars
<1>5. CASE Login
  <2>1. /\ server = "unlocked" /\ server' = "serving"
        /\ base_2_cnt_idx' = cnt_file
        /\ local_feature_2_fp_db' = IF cnt_file = EmptyCntIdx THEN EmptyIndex ELSE idx_file
        /\ UNCHANGED <<base_2_data_db, cnt_file, idx_file>>
    BY <1>5 DEF Login, LoadCntIdx
  <2>2. Files
    BY <1>2, <2>1
  <2>3. Kept(EmptyIndex, cnt_file, base_2_data_db)
    BY <2>2, KeptEmpty DEF Kept
  <2> QED BY <2>1, <2>2, <2>3 DEF CrashInv
<1>6. CASE ProcCacheChunk
  <2> DEFINE c == Head(wire).chunk
  <2>1. /\ server = "serving" /\ server' = "serving" /\ c \in Chunk
        /\ InsertCachedChunk(c)
    BY <1>6, TailFacts, MessageFacts DEF ProcCacheChunk, Receive, TypeOK
  <2> HIDE DEF c
  <2>2. Memory'
    BY <1>1, <1>2, <2>1, KeptInsert DEF InsertCachedChunk
  <2>3. base_2_data_db \subseteq base_2_data_db' /\ UNCHANGED <<cnt_file, idx_file>>
    BY <2>1 DEF InsertCachedChunk
  <2>4. Files'
    BY <1>2, <2>1, <2>3, KeptMore
  <2> QED BY <2>1, <2>2, <2>4 DEF CrashInv
<1>7. CASE ProcEvictFeature
  <2> DEFINE S == Head(wire).features
  <2>1. server = "serving" /\ S \in SUBSET Feature
    BY <1>7, TailFacts, MessageFacts DEF ProcEvictFeature, Receive, TypeOK
  <2>2. \/ EvictCacheChunk(S) /\ server' = server
        \/ server' = "exit" /\ UNCHANGED informCacheVars
    BY <1>7 DEF ProcEvictFeature
  <2> HIDE DEF S
  <2>3. CASE EvictCacheChunk(S) /\ server' = server
    <3>1. \A b : Refs(b) = RefsIn(local_feature_2_fp_db, b)
      BY DEF Refs, RefsIn
    <3>2. Memory'
      BY <1>1, <1>2, <2>1, <2>3, <3>1, KeptEvict DEF EvictCacheChunk
    <3> QED BY <1>2, <2>1, <2>3, <3>2 DEF CrashInv, EvictCacheChunk
  <2> QED BY <1>4, <2>1, <2>2, <2>3
<1>8. CASE DeleteEvict
  <2>1. DeleteEvictChunk /\ server' = "deleted"
    BY <1>8 DEF DeleteEvict
  <2>2. Memory'
    BY <1>1, <1>2, <2>1, KeptDelete DEF DeleteEvictChunk, Unreferenced
  <2> QED BY <2>1, <2>2 DEF CrashInv
<1>9. CASE StoreCntIdx
  <2>1. CASE server' = "cnt_stored" /\ StoreCnt
    BY <1>2, <2>1 DEF CrashInv, StoreCnt
  <2>2. CASE server = "cnt_stored" /\ server' = "unlocked" /\ StoreIdx
    BY <1>2, <2>2 DEF CrashInv, StoreIdx
  <2> QED BY <1>9, <2>1, <2>2 DEF StoreCntIdx
<1>10. CASE ServerCrash
  <2>1. server \notin {"deleted", "cnt_stored"}
    BY <1>10, BoundAssumption DEF ServerCrash, NotTorn, TypeOK
  <2>2. LoseMemory /\ server' = "unlocked"
    BY <1>10 DEF ServerCrash
  <2>3. Kept(EmptyIndex, EmptyCntIdx, base_2_data_db)
    BY KeptEmpty DEF EmptyCntIdx
  <2> QED BY <1>2, <2>1, <2>2, <2>3 DEF CrashInv, LoseMemory
<1>11. CASE ClientNext \/ ClientCrash
  BY <1>3, <1>11 DEF ClientNext, ClientCrash, FullEDR, RecipeEnd, SendFeatures, Finish,
     ClientExit, informCacheVars
<1>12. CASE ProcUncompressChunk
  BY <1>3, <1>4, <1>12 DEF ProcUncompressChunk, Receive
<1>13. CASE UNCHANGED vars
  BY <1>3, <1>13 DEF vars, sessionVars
<1> QED BY <1>5, <1>6, <1>7, <1>8, <1>9, <1>10, <1>11, <1>12, <1>13 DEF Next, ServerNext

(* Every base that a feature leads to is counted often enough and kept in  *)
(* the store, however often the client and the server die, except that the *)
(* server does not die between DeleteEvictChunk and the end of StoreCntIdx.*)
THEOREM BaseNeverDangles ==
  ASSUME NotTorn
  PROVE  Spec => []NoDanglingBase
<1>1. Init => CrashInv
  <2> SUFFICES ASSUME Init
               PROVE  CrashInv
    OBVIOUS
  <2>1. Kept(EmptyIndex, EmptyCntIdx, base_2_data_db)
    BY KeptEmpty DEF EmptyCntIdx
  <2> QED BY <2>1 DEF Init, InformCacheInit, CrashInv
<1>2. TypeOK /\ CrashInv /\ [Next]_vars => CrashInv'
  BY CrashStep
<1>3. TypeOK /\ CrashInv => NoDanglingBase
  <2> SUFFICES ASSUME TypeOK, CrashInv
               PROVE  NoDanglingBase
    OBVIOUS
  <2>1. /\ local_feature_2_fp_db \in Index /\ base_2_cnt_idx \in CntIdx
        /\ Kept(local_feature_2_fp_db, base_2_cnt_idx, base_2_data_db)
    BY DEF TypeOK, InformCacheTypeOK, CrashInv
  <2>2. \A b : Refs(b) = RefsIn(local_feature_2_fp_db, b)
    BY DEF Refs, RefsIn
  <2> QED BY <2>1, <2>2, KeptBase DEF NoDanglingBase, LocalFeatures, Kept
<1>4. QED
  BY <1>1, <1>2, <1>3, TypeCorrect, PTL DEF Spec

-----------------------------------------------------------------------------
(* Reference counts and the store, when nobody dies.                       *)

(* CountInv is kept: a chunk to cache finds none of its features in use.   *)
LEMMA CountStep ==
  ASSUME FeaturesDiffer, IInv, CountInv, [Next]_vars,
         MaxClientCrash = 0, MaxServerCrash = 0
  PROVE  CountInv'
<1>1. /\ local_feature_2_fp_db \in Index /\ base_2_cnt_idx \in CntIdx
      /\ base_2_data_db \in SUBSET Chunk
  BY DEF IInv, TypeOK, InformCacheTypeOK
<1>2. \A b \in Chunk : base_2_cnt_idx[b] # NoCnt => base_2_cnt_idx[b] = Cardinality(Refs(b))
  BY DEF CountInv, CountsExact
<1>3. CASE /\ UNCHANGED <<local_feature_2_fp_db, base_2_cnt_idx, base_2_data_db>>
           /\ server' \in {"deleted", "cnt_stored", "unlocked"} =>
                server \in {"deleted", "cnt_stored", "unlocked"}
  <2>1. \A b : Refs(b)' = Refs(b)
    BY <1>3 DEF Refs
  <2> QED BY <1>3, <2>1 DEF CountInv, CountsExact, DataCounted, Purged
<1>4. CASE Login
  <2>1. server = "unlocked" /\ server' = "serving" /\ LoadCntIdx
    BY <1>4 DEF Login
  <2>2. cnt_file = base_2_cnt_idx /\ idx_file = local_feature_2_fp_db
    BY <2>1 DEF IInv, Phases
  <2>3. cnt_file = EmptyCntIdx => local_feature_2_fp_db = EmptyIndex
    BY <2>2, NothingCounted DEF IInv
  <2> QED BY <1>3, <2>1, <2>2, <2>3 DEF LoadCntIdx
<1>5. CASE ProcCacheChunk
  <2>1. PICK c \in Chunk :
          /\ server = "serving" /\ server' = "serving" /\ InsertCachedChunk(c)
          /\ FeatureSet(c) \cap LocalFeatures = {}
    <3>1. /\ wire # <<>> /\ Head(wire).type = "FULL_EDR_CACHE_CHUNK"
          /\ server = "serving" /\ server' = "serving"
          /\ InsertCachedChunk(Head(wire).chunk)
      BY <1>5 DEF ProcCacheChunk, Receive
    <3>2. 1 \in DOMAIN wire /\ Head(wire) = wire[1] /\ Head(wire) \in Message
      BY <3>1, TailFacts DEF IInv, TypeOK
    <3>3. Head(wire).chunk \in Chunk /\ Head(wire).features = FeatureSet(Head(wire).chunk)
      BY <3>1, <3>2, MessageFacts
    <3>4. IsCache(1)
      BY <3>1, <3>2 DEF IsCache, IsType
    <3>5. wire[1].features \cap LocalFeatures = {}
      BY <3>2, <3>4 DEF IInv, CacheChunksNew
    <3> QED BY <3>1, <3>2, <3>3, <3>5
  <2> DEFINE n == SUPER_FEATURE_PER_CHUNK
  <2>2. /\ \A b \in Chunk : base_2_cnt_idx[b] \in Nat \cup {NoCnt}
        /\ \A b \in Chunk : b # c => base_2_cnt_idx'[b] = base_2_cnt_idx[b]
        /\ base_2_cnt_idx'[c] = IF base_2_cnt_idx[c] = NoCnt THEN n ELSE base_2_cnt_idx[c] + n
        /\ base_2_data_db' \subseteq base_2_data_db \cup {c}
        /\ n \in Nat \ {0}
    BY <1>1, <2>1, SimilarAssumption DEF InsertCachedChunk, CntIdx
  <2>3. \A f \in Feature : local_feature_2_fp_db'[f]
                             = IF f \in FeatureSet(c) THEN c ELSE local_feature_2_fp_db[f]
    BY <1>1, <2>1, UpdateFeatureIndexFacts DEF InsertCachedChunk
  <2>4. \A b \in Chunk : Refs(b) \subseteq LocalFeatures
    BY SimilarAssumption DEF Refs, LocalFeatures, Known
  <2>5. ASSUME NEW b \in Chunk, b # c
        PROVE  Refs(b)' = Refs(b)
    BY <2>1, <2>3, <2>4, <2>5 DEF Refs
  <2>6. base_2_cnt_idx'[c] = Cardinality(Refs(c)')
    <3>1. Refs(c)' = Refs(c) \cup FeatureSet(c)
      BY <2>1, <2>3, FeatureSetFacts DEF Refs
    <3>2. Refs(c) \cap FeatureSet(c) = {}
      BY <2>1, <2>4
    <3>3. /\ IsFiniteSet(Refs(c)) /\ Cardinality(Refs(c)) \in Nat
          /\ IsFiniteSet(FeatureSet(c)) /\ Cardinality(FeatureSet(c)) = n
      BY <2>1, RefsFinite, FeatureSetFacts DEF FeaturesDiffer
    <3>4. Cardinality(Refs(c)') = Cardinality(Refs(c)) + n
      <4>1. Cardinality(Refs(c) \cap FeatureSet(c)) = 0
        BY <3>2, FS_EmptySet
      <4>2. Cardinality(Refs(c) \cup FeatureSet(c))
              = Cardinality(Refs(c)) + Cardinality(FeatureSet(c))
                  - Cardinality(Refs(c) \cap FeatureSet(c))
        BY <3>3, FS_Union
      <4> HIDE DEF n
      <4> QED BY <2>2, <3>1, <3>3, <4>1, <4>2
    <3>5. CASE base_2_cnt_idx[c] = NoCnt
      <4>1. ASSUME NEW f \in Refs(c)
            PROVE  FALSE
        <5>1. f \in LocalFeatures /\ local_feature_2_fp_db[f] = c
          BY <2>1, <2>4 DEF Refs
        <5> QED BY <3>5, <5>1, IndexedBase DEF IInv
      <4>2. Cardinality(Refs(c)) = 0
        BY <4>1, FS_EmptySet
      <4> HIDE DEF n
      <4> QED BY <2>2, <3>4, <3>5, <4>2
    <3>6. CASE base_2_cnt_idx[c] # NoCnt
      BY <1>2, <2>1, <2>2, <3>4, <3>6
    <3> QED BY <3>5, <3>6
  <2>7. \A b \in Chunk : base_2_cnt_idx'[b] # NoCnt
                           => base_2_cnt_idx'[b] = Cardinality(Refs(b)')
    BY <1>2, <2>2, <2>5, <2>6
  <2>8. ASSUME NEW b \in base_2_data_db'
        PROVE  base_2_cnt_idx'[b] # NoCnt
    <3>1. CASE b = c
      BY <2>1, <2>2, <3>1 DEF NoCnt
    <3>2. CASE b # c
      BY <1>1, <2>2, <2>8, <3>2 DEF CountInv, DataCounted
    <3> QED BY <3>1, <3>2
  <2> QED BY <2>1, <2>7, <2>8 DEF CountInv, CountsExact, DataCounted, Purged
<1>6. CASE ProcEvictFeature
  <2> DEFINE S == Head(wire).features
  <2>1. server = "serving" /\ S \in SUBSET Feature
    BY <1>6, TailFacts, MessageFacts DEF ProcEvictFeature, Receive, IInv, TypeOK
  <2>2. \/ EvictCacheChunk(S) /\ server' = server
        \/ server' = "exit" /\ UNCHANGED informCacheVars
    BY <1>6 DEF ProcEvictFeature
  <2> HIDE DEF S
  <2>3. CASE EvictCacheChunk(S) /\ server' = server
    <3>1. ASSUME NEW b \in Chunk
          PROVE  /\ base_2_cnt_idx'[b] = NoCnt <=> base_2_cnt_idx[b] = NoCnt
                 /\ base_2_cnt_idx'[b] # NoCnt =>
                      base_2_cnt_idx'[b] = Cardinality(Refs(b)')
      <4> DEFINE d == Cardinality(S \cap Refs(b))
      <4>1. Refs(b)' = Refs(b) \ S
        BY <2>3, <3>1, SimilarAssumption DEF EvictCacheChunk, Refs
      <4>2. IsFiniteSet(Refs(b)) /\ Cardinality(Refs(b)) \in Nat
        BY RefsFinite
      <4>3. d \in Nat
        BY <4>2, FS_Intersection, FS_CardinalityType
      <4>4. /\ Cardinality(Refs(b)') = Cardinality(Refs(b)) - d
            /\ Cardinality(Refs(b)') \in Nat
        <5>1. S \cap Refs(b) = Refs(b) \cap S
          OBVIOUS
        <5>2. /\ IsFiniteSet(Refs(b) \ S)
              /\ Cardinality(Refs(b) \ S)
                   = Cardinality(Refs(b)) - Cardinality(Refs(b) \cap S)
          BY <4>2, FS_Difference
        <5> QED BY <4>1, <5>1, <5>2, FS_CardinalityType
      <4>5. base_2_cnt_idx[b] \in Nat \cup {NoCnt}
        BY <1>1 DEF CntIdx
      <4>6. base_2_cnt_idx'[b] = IF base_2_cnt_idx[b] = NoCnt THEN NoCnt
                                 ELSE DropRefs(base_2_cnt_idx[b], d)
        BY <2>3 DEF EvictCacheChunk
      <4>7. base_2_cnt_idx[b] # NoCnt => base_2_cnt_idx[b] = Cardinality(Refs(b))
        BY <1>2
      <4> HIDE DEF d
      <4> QED BY <4>2, <4>3, <4>4, <4>5, <4>6, <4>7 DEF DropRefs, NoCnt
    <3>2. base_2_data_db' = base_2_data_db
      BY <2>3 DEF EvictCacheChunk
    <3> QED BY <1>1, <2>1, <2>3, <3>1, <3>2 DEF CountInv, CountsExact, DataCounted, Purged
  <2>4. CASE server' = "exit" /\ UNCHANGED informCacheVars
    BY <1>3, <2>4 DEF informCacheVars
  <2> QED BY <2>2, <2>3, <2>4
<1>7. CASE DeleteEvict
  <2>1. /\ base_2_data_db' = base_2_data_db \ Unreferenced
        /\ \A b \in Chunk : base_2_cnt_idx'[b]
                              = IF b \in Unreferenced THEN NoCnt ELSE base_2_cnt_idx[b]
        /\ \A b : Refs(b)' = Refs(b)
    BY <1>7 DEF DeleteEvict, DeleteEvictChunk, Refs
  <2>2. \A b \in Chunk : b \in Unreferenced <=> base_2_cnt_idx[b] = 0
    BY DEF Unreferenced
  <2> QED BY <1>1, <1>2, <2>1, <2>2 DEF CountInv, CountsExact, DataCounted, Purged, NoCnt
<1>8. CASE StoreCntIdx
  BY <1>3, <1>8 DEF StoreCntIdx, StoreCnt, StoreIdx
<1>9. CASE ClientNext
  BY <1>3, <1>9 DEF ClientNext, FullEDR, RecipeEnd, SendFeatures, Finish, ClientExit,
     informCacheVars
<1>10. CASE ProcUncompressChunk
  BY <1>3, <1>10 DEF ProcUncompressChunk, Receive, informCacheVars
<1>11. CASE ClientCrash \/ ServerCrash
  BY <1>11 DEF ClientCrash, ServerCrash, IInv, TypeOK
<1>12. CASE UNCHANGED vars
  BY <1>3, <1>12 DEF vars, sessionVars, informCacheVars
<1> QED BY <1>4, <1>5, <1>6, <1>7, <1>8, <1>9, <1>10, <1>11, <1>12 DEF Next, ServerNext

(* Every count is exact, every base in the store is counted, and at the    *)
(* end of a session none is left without a feature.                        *)
THEOREM CountsCorrect ==
  ASSUME FeaturesDiffer, MaxClientCrash = 0, MaxServerCrash = 0
  PROVE  Spec => [](IInv /\ CountInv)
<1>1. Init => CountInv
  BY DEF Init, InformCacheInit, EmptyCntIdx, CountInv, CountsExact, DataCounted, Purged, NoCnt
<1>2. IInv /\ CountInv /\ [Next]_vars => CountInv'
  BY CountStep
<1>3. QED
  BY <1>1, <1>2, InvariantHolds, PTL DEF Spec

(* In a session the count of a base is always the number of features that  *)
(* lead to it (inform_cache.h:33), when nobody crashes and no chunk has a  *)
(* feature twice.                                                          *)
THEOREM RefCounts ==
  ASSUME FeaturesDiffer, MaxClientCrash = 0, MaxServerCrash = 0
  PROVE  Spec => []RefCountExact
<1>1. CountInv => RefCountExact
  BY DEF CountInv, CountsExact, RefCountExact
<1>2. QED
  BY <1>1, CountsCorrect, PTL

(* Between sessions the store holds only bases that a feature leads to,    *)
(* when nobody crashes and no chunk has a feature twice: DeleteEvictChunk  *)
(* finds every base that EvictCacheChunk has taken the last feature from.  *)
THEOREM StoreHasNoLeak ==
  ASSUME FeaturesDiffer, MaxClientCrash = 0, MaxServerCrash = 0
  PROVE  Spec => []NothingLeaks
<1>1. IInv /\ CountInv => NothingLeaks
  <2> SUFFICES ASSUME IInv, CountInv, server = "unlocked", NEW b \in base_2_data_db
               PROVE  \E f \in Feature : LoadedIndex[f] = b
    BY DEF NothingLeaks
  <2>1. /\ b \in Chunk /\ base_2_cnt_idx[b] # NoCnt /\ base_2_cnt_idx[b] # 0
    BY DEF IInv, TypeOK, InformCacheTypeOK, CountInv, DataCounted, Purged
  <2>2. Cardinality(Refs(b)) # 0
    BY <2>1 DEF CountInv, CountsExact
  <2>3. PICK f : f \in Refs(b)
    BY <2>2, FS_EmptySet
  <2>4. cnt_file = base_2_cnt_idx /\ idx_file = local_feature_2_fp_db
    BY DEF IInv, Phases
  <2>5. cnt_file # EmptyCntIdx
    BY <2>1, <2>4 DEF EmptyCntIdx
  <2> QED BY <2>3, <2>4, <2>5 DEF LoadedIndex, Refs
<1>2. QED
  BY <1>1, CountsCorrect, PTL
=============================================================================
