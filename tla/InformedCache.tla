---------------------------- MODULE InformedCache ----------------------------
(***************************************************************************)
(* The informed cache of one client id: the client decides from its own    *)
(* CacheMeta which chunks it sends uncompressed, and the server's          *)
(* InformCache must hold a base for each of them, although the two sides   *)
(* only share one stream of messages and keep their state in files of      *)
(* their own between uploads.                                              *)
(*                                                                         *)
(* `wire' is that stream up to CacheCompThd: the SSL connection and the    *)
(* queues _recv_2_dual_mq and _dual_2_comp_mq, all first in, first out.    *)
(* LockClientID serves one connection of a client id at a time.  Uploads   *)
(* use method FULL_EDR; a download changes neither half.                   *)
(***************************************************************************)
EXTENDS CacheMeta, InformCache, Sequences

CONSTANTS
  MaxUpload,        \* bound: uploads in a behaviour
  MaxChunk,         \* bound: chunks in one upload
  MaxClientCrash,   \* bound: how often the client dies in an upload
  MaxServerCrash,   \* bound: how often the server dies
  ServerCrashAt     \* where in a session the server may die

ASSUME BoundAssumption ==
  /\ MaxUpload \in Nat /\ MaxChunk \in Nat
  /\ MaxClientCrash \in Nat /\ MaxServerCrash \in Nat
  /\ ServerCrashAt \subseteq {"unlocked", "serving", "deleted", "cnt_stored", "exit"}

VARIABLES
  client,        \* "off", "sending" chunks, "evicting", "finished"
  server,        \* "unlocked", "serving", "deleted", "cnt_stored", "exit"
  wire,          \* messages sent and not yet processed
  stored,        \* fp index: how each chunk is stored
  base_of,       \* KeyForChunkHashDB_t::base_fp of a cache delta
  n_upload,      \* uploads started
  n_chunk,       \* chunks sent in this upload
  n_crash,       \* crashes so far of the client and of the server
  last_sent      \* history: the upload that sent the chunk last, or 0

sessionVars == <<client, server, wire, stored, base_of>>
boundVars == <<n_upload, n_chunk, n_crash, last_sent>>
vars == <<cacheMetaVars, informCacheVars, sessionVars, boundVars>>

(* How the fp index describes a chunk: not there, stored as the client     *)
(* compressed it (as a base or as a delta of one), as a delta of an        *)
(* uncompressed cached base, or uncompressed but recorded as compressed.   *)
Stat == {"none", "COMP", "CACHE_DELTA", "RAW_AS_COMP"}

CacheChunk(c) == [type |-> "FULL_EDR_CACHE_CHUNK", chunk |-> c,
                  features |-> FeatureSet(c)]
UncompressChunk(c) == [type |-> "FULL_EDR_UNCOMPRESS_CHUNK", chunk |-> c,
                       features |-> FeatureSet(c)]
FeatureBatch(S) == [type |-> "CLIENT_UPLOAD_FEATURE", chunk |-> NoBase,
                    features |-> S]

Message == {CacheChunk(c) : c \in Chunk} \cup {UncompressChunk(c) : c \in Chunk}
             \cup {FeatureBatch(S) : S \in SUBSET Feature}

TypeOK ==
  /\ CacheMetaTypeOK
  /\ InformCacheTypeOK
  /\ client \in {"off", "sending", "evicting", "finished"}
  /\ server \in {"unlocked", "serving", "deleted", "cnt_stored", "exit"}
  /\ wire \in Seq(Message)
  /\ stored \in [Chunk -> Stat]
  /\ base_of \in [Chunk -> Chunk \cup {NoBase}]
  /\ n_upload \in Nat /\ n_chunk \in Nat
  /\ n_crash \in [client : Nat, server : Nat]
  /\ last_sent \in [Chunk -> Nat]

Init ==
  /\ CacheMetaInit
  /\ InformCacheInit
  /\ client = "off"
  /\ server = "unlocked"
  /\ wire = <<>>
  /\ stored = [c \in Chunk |-> "none"]
  /\ base_of = [c \in Chunk |-> NoBase]
  /\ n_upload = 0 /\ n_chunk = 0
  /\ n_crash = [client |-> 0, server |-> 0]
  /\ last_sent = [c \in Chunk |-> 0]

-----------------------------------------------------------------------------
(* The client *)

(* Both constructors run before the first chunk is sent: the client's at   *)
(* start-up, the server's when the lock of the client id is granted.       *)
Login ==
  /\ client = "off" /\ server = "unlocked"
  /\ n_upload < MaxUpload
  /\ client' = "sending" /\ server' = "serving"
  /\ n_upload' = n_upload + 1 /\ n_chunk' = 0
  /\ LoadCacheMeta
  /\ LoadCntIdx
  /\ UNCHANGED <<wire, stored, base_of, n_crash, last_sent>>

(* SelectCompThd::FullEDR: a chunk that hits the cache meta goes out       *)
(* uncompressed; for any other the uncompressed chunk to cache and the     *)
(* compressed chunk to store go out together, never split over batches.    *)
FullEDR(c) ==
  /\ client = "sending" /\ n_chunk < MaxChunk
  /\ n_chunk' = n_chunk + 1
  /\ last_sent' = [last_sent EXCEPT ![c] = n_upload]
  /\ \/ /\ QueryCacheMeta(c)
        /\ RefreshFeatures(c)
        /\ wire' = Append(wire, UncompressChunk(c))
     \/ /\ ~QueryCacheMeta(c)
        /\ UpdateCacheMeta(c)
        /\ wire' = Append(wire, CacheChunk(c))
  /\ UNCHANGED <<cur_version_num, cache_meta_db, informCacheVars,
                 client, server, stored, base_of, n_upload, n_crash>>

(* SenderThd on RECIPE_CHUNK: the recipe end, the evicted features in full *)
(* batches, then their tail and SSLConnection::Finish.                     *)
RecipeEnd ==
  /\ client = "sending"
  /\ client' = "evicting"
  /\ UNCHANGED <<cacheMetaVars, informCacheVars, server, wire, stored, base_of,
                 boundVars>>

SendFeatures(S) ==
  /\ client = "evicting"
  /\ EvictFeature(S)
  /\ wire' = Append(wire, FeatureBatch(S))
  /\ UNCHANGED <<cur_version_num, cache_meta_db, informCacheVars,
                 client, server, stored, base_of, boundVars>>

(* A faulty variant: the tail is erased but not sent.                      *)
FinishWithoutTail ==
  /\ client = "evicting"
  /\ EvictTail
  /\ client' = "finished"
  /\ UNCHANGED <<cur_version_num, cache_meta_db, informCacheVars,
                 server, wire, stored, base_of, boundVars>>

(* The walk is over when less than a batch is left: the tail is sent and,  *)
(* whatever EvictFeature did, the connection is closed.                    *)
Finish ==
  /\ client = "evicting"
  /\ EvictTail
  /\ wire' = IF Evictable = {} THEN wire ELSE Append(wire, FeatureBatch(Evictable))
  /\ client' = "finished"
  /\ UNCHANGED <<cur_version_num, cache_meta_db, informCacheVars,
                 server, stored, base_of, boundVars>>

ClientExit ==
  /\ client = "finished"
  /\ client' = "off"
  /\ StoreCacheMeta
  /\ UNCHANGED <<informCacheVars, server, wire, stored, base_of, boundVars>>

(* The client dies before its destructors ran: what it sent still arrives, *)
(* the file keeps the state of the upload before.                          *)
ClientCrash ==
  /\ client # "off"
  /\ n_crash.client < MaxClientCrash
  /\ client' = "off"
  /\ n_crash' = [n_crash EXCEPT !.client = @ + 1]
  /\ feature_2_version_idx' = cache_meta_db.idx
  /\ cur_version_num' = cache_meta_db.version
  /\ UNCHANGED <<cache_meta_db, informCacheVars, server, wire, stored, base_of,
                 n_upload, n_chunk, last_sent>>

-----------------------------------------------------------------------------
(* The server: DualDedupThd, CacheCompThd and DataWriterThd on a message.  *)

Receive(type) ==
  /\ server = "serving"
  /\ wire # <<>>
  /\ Head(wire).type = type

(* A faulty variant: the chunk is cached but not handed on to be stored.   *)
ProcCacheChunkWithoutPair ==
  /\ Receive("FULL_EDR_CACHE_CHUNK")
  /\ InsertCachedChunk(Head(wire).chunk)
  /\ wire' = Tail(wire)
  /\ UNCHANGED <<cacheMetaVars, client, server, stored, base_of, boundVars>>

(* CACHE_INSERT_CHUNK and the CHUNK_PAIR behind it.                        *)
ProcCacheChunk ==
  /\ Receive("FULL_EDR_CACHE_CHUNK")
  /\ LET c == Head(wire).chunk IN
     /\ InsertCachedChunk(c)
     /\ stored' = [stored EXCEPT ![c] = IF @ = "none" THEN "COMP" ELSE @]
  /\ wire' = Tail(wire)
  /\ UNCHANGED <<cacheMetaVars, client, server, base_of, boundVars>>

(* SINGLE_CHUNK: a duplicate is dropped; a unique one becomes a delta of a *)
(* cached base; without one it is passed on as it is, and only if the      *)
(* cache is empty, or else the server exits ("wrong chunk type in cache"). *)
ProcUncompressChunk ==
  /\ Receive("FULL_EDR_UNCOMPRESS_CHUNK")
  /\ LET c == Head(wire).chunk
         b == FindBaseChunk(local_feature_2_fp_db, c)
         similar == IsSimilar(local_feature_2_fp_db, c)
     IN
     \/ /\ stored[c] # "none"
        /\ UNCHANGED <<server, stored, base_of>>
     \/ /\ stored[c] = "none" /\ similar /\ b \in base_2_data_db
        /\ stored' = [stored EXCEPT ![c] = "CACHE_DELTA"]
        /\ base_of' = [base_of EXCEPT ![c] = b]
        /\ UNCHANGED server
     \/ /\ stored[c] = "none" /\ ~similar /\ LocalFeatures = {}
        /\ stored' = [stored EXCEPT ![c] = "RAW_AS_COMP"]
        /\ UNCHANGED <<server, base_of>>
     \/ /\ stored[c] = "none"
        /\ IF similar THEN b \notin base_2_data_db ELSE LocalFeatures # {}
        /\ server' = "exit"
        /\ UNCHANGED <<stored, base_of>>
  /\ wire' = Tail(wire)
  /\ UNCHANGED <<cacheMetaVars, informCacheVars, client, boundVars>>

ProcEvictFeature ==
  /\ Receive("CLIENT_UPLOAD_FEATURE")
  /\ LET S == Head(wire).features IN
     \/ CanEvict(S) /\ EvictCacheChunk(S) /\ UNCHANGED server
     \/ ~CanEvict(S) /\ server' = "exit" /\ UNCHANGED informCacheVars
  /\ wire' = Tail(wire)
  /\ UNCHANGED <<cacheMetaVars, client, stored, base_of, boundVars>>

(* The client closed the connection or is gone and every queue is drained: *)
(* ~ClientVar, then the lock of the client id is released.                 *)
DeleteEvict ==
  /\ server = "serving"
  /\ wire = <<>> /\ client \in {"finished", "off"}
  /\ server' = "deleted"
  /\ DeleteEvictChunk
  /\ UNCHANGED <<cacheMetaVars, client, wire, stored, base_of, boundVars>>

StoreCntIdx ==
  \/ /\ server = "deleted"
     /\ server' = "cnt_stored"
     /\ StoreCnt
     /\ UNCHANGED <<cacheMetaVars, client, wire, stored, base_of, boundVars>>
  \/ /\ server = "cnt_stored"
     /\ server' = "unlocked"
     /\ StoreIdx
     /\ UNCHANGED <<cacheMetaVars, client, wire, stored, base_of, boundVars>>

(* The process dies and is started again.  It only writes the fp index on  *)
(* a graceful stop, so every chunk of this run is forgotten; a client in   *)
(* the middle of an upload fails to send and exits.                        *)
ServerCrash ==
  /\ server \in ServerCrashAt
  /\ n_crash.server < MaxServerCrash
  /\ server' = "unlocked"
  /\ n_crash' = [n_crash EXCEPT !.server = @ + 1]
  /\ LoseMemory
  /\ stored' = [c \in Chunk |-> "none"]
  /\ base_of' = [c \in Chunk |-> NoBase]
  /\ wire' = <<>>
  /\ IF client \in {"sending", "evicting"}
       THEN /\ client' = "off"
            /\ feature_2_version_idx' = cache_meta_db.idx
            /\ cur_version_num' = cache_meta_db.version
            /\ UNCHANGED cache_meta_db
       ELSE UNCHANGED <<client, cacheMetaVars>>
  /\ UNCHANGED <<n_upload, n_chunk, last_sent>>

ClientNext ==
  \/ \E c \in Chunk : FullEDR(c)
  \/ RecipeEnd
  \/ \E S \in SUBSET Evictable : SendFeatures(S)
  \/ Finish
  \/ ClientExit

ServerNext ==
  \/ ProcCacheChunk
  \/ ProcUncompressChunk
  \/ ProcEvictFeature
  \/ DeleteEvict
  \/ StoreCntIdx

Next == Login \/ ClientNext \/ ServerNext \/ ClientCrash \/ ServerCrash

Spec == Init /\ [][Next]_vars
-----------------------------------------------------------------------------
(* Properties *)

Pending(type) ==
  UNION {wire[i].features : i \in {j \in DOMAIN wire : wire[j].type = type}}

(* What a session that starts now would load, and what one in progress has.*)
LoadedIndex == IF cnt_file = EmptyCntIdx THEN EmptyIndex ELSE idx_file
ServerFeatures ==
  IF server = "unlocked" THEN Known(LoadedIndex) ELSE LocalFeatures

(* CacheMeta and InformCache hold the same features at every moment, once  *)
(* the messages between them are accounted for: what the client believes   *)
(* cached is what the server holds, adds on the way and does not yet drop. *)
InSync ==
  ClientFeatures = (ServerFeatures \cup Pending("FULL_EDR_CACHE_CHUNK"))
                     \ Pending("CLIENT_UPLOAD_FEATURE")

(* None of the server's exits on a disagreement of the two halves happens: *)
(* "wrong chunk type in cache" (cache_comp_thd.cc:96), "cannot find the    *)
(* base chunk in the inform cache" (inform_cache.cc:113), "cannot find the *)
(* evict feature in local feature index" (inform_cache.cc:300).            *)
ServerNeverExits == server # "exit"

(* No uncompressed chunk is ever recorded as a compressed one: the branch  *)
(* of CacheCompThd for an empty cache (cache_comp_thd.cc:92) would store   *)
(* bytes that the client's download then tries to decompress.              *)
NeverStoredRaw == \A c \in Chunk : stored[c] # "RAW_AS_COMP"

InSession == server \in {"serving", "deleted", "cnt_stored"}

(* A base that some feature still leads to is counted at least that often  *)
(* and its data is in the store, so that DeleteEvictChunk never takes a    *)
(* base from under the feature index.                                      *)
NoDanglingBase ==
  InSession =>
    \A f \in LocalFeatures :
      LET b == local_feature_2_fp_db[f] IN
      /\ base_2_cnt_idx[b] >= Cardinality(Refs(b))
      /\ b \in base_2_data_db

(* base_2_cnt_idx_ "records the reference count" (inform_cache.h:33): a    *)
(* base's count is the number of features that lead to it.                 *)
RefCountExact ==
  InSession =>
    \A b \in Chunk :
      base_2_cnt_idx[b] # NoCnt => base_2_cnt_idx[b] = Cardinality(Refs(b))

(* Between sessions the key-value store holds no base that no feature      *)
(* leads to any more: the cache does not grow with evicted chunks.         *)
NothingLeaks ==
  server = "unlocked" =>
    \A b \in base_2_data_db : \E f \in Feature : LoadedIndex[f] = b

(* The base of a cache delta is itself a stored chunk: when the cache has  *)
(* dropped it, DataReaderThd finds it in the fp index.                     *)
BaseStored ==
  \A c \in Chunk : stored[c] = "CACHE_DELTA" =>
    base_of[c] # NoBase /\ stored[base_of[c]] # "none"

(* Once a session is over, the cache has what the last n uploads sent, with*)
(* n = CacheMeta::last_n_para_: a chunk sent in one of them has a feature  *)
(* that leads to a base in the store, and each feature that is left belongs*)
(* to a chunk sent in one of them.  The server has no limit of its own: it *)
(* forgets only what EvictFeature (cache_meta.cc:168) sends it.            *)
Recent(c) == last_sent[c] # 0 /\ n_upload - last_sent[c] < LastNPara

CacheIsLastN ==
  server = "unlocked" =>
    /\ \A c \in Chunk : Recent(c) =>
         \E f \in FeatureSet(c) : LoadedIndex[f] \in base_2_data_db
    /\ \A f \in Known(LoadedIndex) :
         \E c \in Chunk : Recent(c) /\ f \in FeatureSet(c)
-----------------------------------------------------------------------------
(* The inductive invariant behind InSync and ServerNeverExits, for a       *)
(* system in which nobody crashes.                                         *)

IsType(i, type) == wire[i].type = type
IsCache(i) == IsType(i, "FULL_EDR_CACHE_CHUNK")
IsUncompress(i) == IsType(i, "FULL_EDR_UNCOMPRESS_CHUNK")
IsEvict(i) == IsType(i, "CLIENT_UPLOAD_FEATURE")

(* The phases of client and server fit together, and what is in memory,    *)
(* in the files and on the wire follows from them.                         *)
Phases ==
  /\ client \in {"sending", "evicting"} => server = "serving"
  /\ server # "serving" => wire = <<>>
  /\ client = "off" => cache_meta_db.idx = feature_2_version_idx
  /\ client # "off" => cur_version_num > 0
  /\ server \in {"cnt_stored", "unlocked"} => cnt_file = base_2_cnt_idx
  /\ server = "unlocked" => idx_file = local_feature_2_fp_db

(* Chunks come before evicted features in an upload.                       *)
WireOrder ==
  /\ \A i, j \in DOMAIN wire : i < j /\ IsEvict(i) => IsEvict(j)
  /\ client = "sending" => \A i \in DOMAIN wire : ~IsEvict(i)

(* A chunk to cache brings only features neither in the cache nor on the   *)
(* way to it.                                                              *)
CacheChunksNew ==
  \A i \in DOMAIN wire : IsCache(i) =>
    /\ wire[i].features \cap LocalFeatures = {}
    /\ \A j \in DOMAIN wire :
         IsCache(j) /\ j # i => wire[i].features \cap wire[j].features = {}

(* A chunk sent uncompressed will find one of its features in the cache.   *)
UncompressChunksKnown ==
  \A i \in DOMAIN wire : IsUncompress(i) =>
    \/ wire[i].features \cap LocalFeatures # {}
    \/ \E j \in DOMAIN wire :
         j < i /\ IsCache(j) /\ wire[i].features \cap wire[j].features # {}

(* A feature is evicted once, after it was cached.                         *)
EvictsKnown ==
  \A i \in DOMAIN wire : IsEvict(i) =>
    /\ \A f \in wire[i].features :
         \/ f \in LocalFeatures
         \/ \E j \in DOMAIN wire : IsCache(j) /\ f \in wire[j].features
    /\ \A j \in DOMAIN wire :
         IsEvict(j) /\ j # i => wire[i].features \cap wire[j].features = {}

(* What the feature index leads to is counted at least as often as it does *)
(* so, and what is counted is kept and stored.                             *)
BasesKept ==
  /\ \A f \in LocalFeatures :
       LET b == local_feature_2_fp_db[f] IN base_2_cnt_idx[b] >= Cardinality(Refs(b))
  /\ \A b \in Chunk : base_2_cnt_idx[b] # NoCnt =>
       b \in base_2_data_db /\ stored[b] # "none"

(* InSync, in terms of what the server holds in memory.                    *)
MemoryInSync ==
  ClientFeatures = (LocalFeatures \cup Pending("FULL_EDR_CACHE_CHUNK"))
                     \ Pending("CLIENT_UPLOAD_FEATURE")

IInv ==
  /\ TypeOK
  /\ ServerNeverExits
  /\ NeverStoredRaw
  /\ BaseStored
  /\ Phases
  /\ WireOrder
  /\ CacheChunksNew
  /\ UncompressChunksKnown
  /\ EvictsKnown
  /\ BasesKept
  /\ MemoryInSync

-----------------------------------------------------------------------------
(* The inductive invariant behind CacheIsLastN, when nobody crashes: an    *)
(* upload is one version further than the one before, a feature's version  *)
(* is the upload of one of its chunks, and a chunk of the last n uploads   *)
(* has a feature at least as recent as itself.                             *)

Versions ==
  /\ cur_version_num = n_upload
  /\ client = "off" => cache_meta_db.version = n_upload
  /\ \A c \in Chunk : last_sent[c] <= n_upload
Evicted == client \in {"off", "finished"} => Evictable = {}
VersionOfChunk ==
  \A f \in ClientFeatures :
    \E c \in Chunk : f \in FeatureSet(c) /\ feature_2_version_idx[f] <= last_sent[c]
RecentKept ==
  \A c \in Chunk : Recent(c) =>
    \E f \in FeatureSet(c) : last_sent[c] <= feature_2_version_idx[f]

LastNInv == Versions /\ Evicted /\ VersionOfChunk /\ RecentKept

-----------------------------------------------------------------------------
(* The inductive invariant behind RefCountExact and NothingLeaks, when the *)
(* features of each chunk differ: every count in memory is exact, every    *)
(* base in the store is counted, and DeleteEvictChunk left no zero behind. *)

FeaturesDiffer == \A c \in Chunk : Cardinality(FeatureSet(c)) = SUPER_FEATURE_PER_CHUNK

CountsExact ==
  \A b \in Chunk : base_2_cnt_idx[b] # NoCnt => base_2_cnt_idx[b] = Cardinality(Refs(b))
DataCounted == \A b \in base_2_data_db : base_2_cnt_idx[b] # NoCnt
Purged ==
  server \in {"deleted", "cnt_stored", "unlocked"} =>
    \A b \in Chunk : base_2_cnt_idx[b] # 0

CountInv == CountsExact /\ DataCounted /\ Purged

(* The inductive invariant behind NoDanglingBase when processes die, but   *)
(* the server not between its file writes: what memory holds is kept, and  *)
(* so is what the two files hold except while they are written.            *)

RefsIn(index, b) == {g \in Feature : index[g] = b}
Kept(index, cnt, data) ==
  /\ \A f \in Known(index) : cnt[index[f]] >= Cardinality(RefsIn(index, index[f]))
  /\ \A b \in Chunk : cnt[b] # NoCnt => b \in data

CrashInv ==
  /\ Kept(local_feature_2_fp_db, base_2_cnt_idx, base_2_data_db)
  /\ server \notin {"deleted", "cnt_stored"} => Kept(idx_file, cnt_file, base_2_data_db)
  /\ server = "cnt_stored" => cnt_file = base_2_cnt_idx
=============================================================================
