# EDRStore: a verification project

TLA+ models of EDRStore (`EDRStore/`), the encrypted-data-reduction storage
system of this repository: a client that chunks, encrypts and uploads files, a
key manager, and a storage server that deduplicates, delta-compresses and
stores the chunks. TLC checks the models on small instances; TLAPS proves the
most important results for every instance. Paths below are relative to
`EDRStore/`.

## 1. Inventory

| Component | State | Operations | What makes it hard, and right |
|---|---|---|---|
| Message queues, `include/message_queue/` | items, `_done` | `Push`, `Pop`, `IsEmpty`, end of stream | two threads, no lock or a lock with two conditions; every item arrives once, in order, and the consumer stops after the last |
| Similarity policy, `src/reduction/similar_policy.cc` | feature -> base | `FindBaseChunk`, `UpdateFeatureIndex` | a base it names is one the index knows |
| Client cache metadata, `src/client/cache_meta.cc` | feature -> version, a file | query/refresh, update, evict, load, store | only a guess of what the server holds |
| Server inform cache, `src/server/inform_cache.cc` | feature -> base, base -> count, base data (RocksDB), two files | insert, process, evict, delete, load, store | reference counts; three stores written at different moments |
| Client upload, `src/client/*_thd.cc` | batches, send buffer, key buffer, key recipe | six threads in a chain | batch boundaries: a cached chunk and its compressed form, a chunk and its key, a fingerprint and its place belong together however the batches fall |
| Key manager, `src/key_manager/basic_km.cc` | shared feature index, a batch per client | one thread per client | look-up and update lock the index call by call |
| Session control, `src/server/server_opt_thd.cc` | client-id locks, `ClientVar` | login, lock, file check, start and join threads, unlock | the lock is released on every path; a recipe is read by no session while another writes it |
| Programs, `src/app/server_main.cc` | list of threads, indexes | accept, CTRL-C, restart | the indexes are written after all sessions have ended |
| Server upload, `data_recv_thd.cc`, `dual_dedup_thd.cc`, `cache_comp_thd.cc`, `data_writer_thd.cc` | per-client queues, recipe, current container | four threads per client | check, announcement and store of a chunk happen in different threads; the shared indexes are locked call by call |
| In-memory indexes, `src/database/in_mem_db.cc` | fp -> address, feature -> fp | locked query, overwriting insert, load, store | persisted only on a graceful stop |
| Container storage, `src/server/storage_core.cc` | container files | `WriteChunk`, `SaveContainer`, `ReadChunk` | files visible while being written |
| Container read cache, `src/util/readCache.cc` | LRU list, slots | `Insert`, `Exist`, `Read` | a slot is reused when its container is evicted |
| Server download, `data_reader_thd.cc`, `data_decoder_thd.cc` | queue to the decoder, send buffer | read, decode, send | must undo every stored form |
| Client download, `data_retriever_thd.cc`, `download_writer_thd.cc` | batch of keys, restored chunks | decrypt, decompress, restore, write | stays in step with the key recipe |
| Network, `src/network/ssl_conn.cc` | SSL sockets | connect, send, receive, finish | a reliable FIFO stream with an end; what each side does when the other is gone |
| Chunking, encryption, compression, delta coding | none | pure functions on bytes | represented by constants and by what undoes what |

How they interact. A client program opens one connection per upload or
download. On the server `ServerOptThd::Run` takes the lock of the client id,
builds a `ClientVar` (which opens the recipe and loads the client's inform
cache) and starts the threads. For an upload there are four, joined by three
queues: `DataRecvThd` splits messages into chunks and writes the recipe;
`DualDedupThd` asks the fp index and announces a new chunk there with an unset
address; `CacheCompThd` feeds the inform cache and turns an uncompressed chunk
into a delta of a cached base; `DataWriterThd` looks for a base in the shared
feature index, reads it, writes the chunk into the client's current container
and only then publishes features and address. When the client closes, `_done`
travels down the queues, the threads are joined and `~ClientVar` trims and
stores the inform cache. For a download `DataReaderThd` fetches each chunk of
the recipe with its base and `DataDecoderThd` undoes the deltas it can; the
client undoes the rest. Before an upload's bytes are sent, the client asks the
key manager for one seed per chunk, in batches. Any `exit()` in any thread ends
the process for all clients, and the in-memory indexes with it.

The hazards of this code, with the line where each bites and the property that
watches it, are listed in `PROJECT.json` under `hazards`.

## 2. Modules

| Module | Models | Correspondence |
|---|---|---|
| `AbsMQ` | what a queue promises | numbered items are delivered in order, the consumer stops after the last |
| `LckFreeMQ` | `LckFreeMQ` with producer end, consumer loop and destructor | `_done && IsEmpty()` is two steps, `Delete` follows both joins |
| `BlockedMQ` | `BlockedMQ` with the same threads | a critical section is one step; a waiter is woken by the other side's notify or spuriously; setting `_done` notifies nobody. `MQFactory` offers this queue, but client and server both ask for the lock-free one (`client_main.cc:51`, `client_var.h:35`) |
| `SimilarPolicy` | `FindBaseChunk`, `UpdateFeatureIndex` | operators, extended by every module with a feature index |
| `CacheMeta` | client half of the informed cache | one operator per method; version 0 is "not in the index" |
| `InformCache` | server half | one operator per method, `StoreCntIdx` in its two files |
| `InformedCache` | both halves of one client id over a FIFO stream, over several uploads | extends both; `Login` runs both constructors, `FullEDR` is `SelectCompThd::FullEDR`, the `Proc...` actions are the server's handling of each message, `DeleteEvict` and `StoreCntIdx` are `~ClientVar`; crashes of client and server |
| `ContainerStore` | the container a session fills, and the container files | `AddItem` is `WriteChunk`, `OpenFile` and `CloseFile` are `SaveContainer` around the write of the file; extended by the next and by `Restore` |
| `UploadPipeline` | four server threads per session over the shared indexes and containers | one action per step between two accesses of shared state |
| `ReadCache` | `ReadCache` over the LRU list of `lruCache.h` | operators on a record of list, slot per name and slot contents |
| `Restore` | an upload's result, and the whole download path of server and client | extends `ContainerStore` and `ReadCache`; one action per fetched chunk, base, decoded chunk, message and restored chunk; batches of recipe, messages and keys; clients that die |
| `StorageServer` | `server_main.cc` and `ServerOptThd::Run` for all connections | one action per step of `Run` between two waits; CTRL-C, `exit()` in any thread, crash, restart; the fp index file in two steps |
| `KeyManager` | `BasicKM::Run` of several clients | one action per locked call of the index; `KmSpec` leaves the clients open |
| `ClientUpload` | `KeyGenThd`, `SelectCompThd`, `SenderThd` of several clients with `KeyManager` and the server's `DataRecvThd` | extends `KeyManager`; one action per chunk and thread, batches and tails as in the code, all three methods |
| `MC...` | TLC instances | constants as functions of model values |
| `...Proofs` | TLAPS proofs | |

Operators whose comment calls them a faulty variant belong to no
specification: substituted for the operator they precede, each plants one
plausible bug, and the property named for it in `PROJECT.json` (`mutants`) must
fail.

What composes what. `UploadPipeline` and `Restore` share `ContainerStore`, and
`Restore` starts from what uploads leave there; `InformedCache` and
`ClientUpload` share `SimilarPolicy`, the first over what is cached where and
the second over which bytes, keys and fingerprints travel; `StorageServer` is
the frame in which the sessions of the others run.

Abstractions. A chunk is a model value that stands for its fingerprint, or for
its content at the client; its super-features are the constant `FeaturesOf`
(features may coincide). Bytes are reduced to the form they are stored in and
to what is needed to undo it: in `Restore` a delta knows its target, its base
and how much of the base was read when it was made, and only the same base
restores it; in `ClientUpload` encryption, compression and hashes are injective
constructors, and the place of a chunk in the file, like the list `keys` of the
keys it was given, is history that no step depends on. `InformedCache` joins
the three queues and the connection into
one sequence, which the queue models justify, and takes the dedup test and the
store of a chunk as one step, since one client's chunks are handled in order;
what several clients do to each other is in `UploadPipeline`.
`UploadPipeline` in turn keeps the set of cached bases only: whether a chunk
comes uncompressed is a free choice as soon as some base is cached.
A session's read cache is the set of containers it may hold cut short, because
they were read while they were being written (`torn_cached`); that the LRU may
have dropped such a copy is left open. `Restore` has the cache itself.
`FindBaseChunk` and `UpdateFeatureIndex` over the shared index are one step
each there although they lock it once per feature; `KeyManager` splits them.
`Restore` takes the server's four upload threads on one chunk as one step up to
the writing of its bytes, leaves open which stored or cached base a chunk is
similar to, and lets `~ClientVar` drop any cached bases. `StorageServer` lets
each received chunk enter the index at once under the container of its session;
that the container is a file once the threads are joined is `UploadDurable` of
`UploadPipeline`. CTRL-C runs on the main thread, where the kernel delivers it
when that thread waits; if it is delivered to a session thread the handler
joins itself, which is not modelled. The unset address `DetectDuplicate`
inserts is uninitialised memory in the code; it is taken to name no existing
container, and its kind may be read as any.

## 3. Runs

| Run | Instance | Shows |
|---|---|---|
| `lck_free_mq` | 12 items, capacity 4 | implements `AbsMQ`, clean deletion, both threads stop |
| `blocked_mq` | 10 items, capacity 4 | implements `AbsMQ`; the producer gets through and every item arrives |
| `informed_cache` | 3 chunks with overlapping features, 5 uploads of 2 chunks, eviction after 2 uploads in batches of 2 | the two halves agree at every moment; no server exit; reference counts exact; no leak; between sessions the cache holds the last 2 uploads and nothing older |
| `informed_cache_crash` | client and server may die, the server not between its file writes | no feature leads to a missing base |
| `informed_cache_client_crash` (violation) | one client crash | a later upload makes the server exit |
| `upload_pipeline` | 2 sessions at once, 2 similar chunks, 3 uploads of a chunk in all, containers of 1 | no thread exits, addresses lead to their chunk, nothing in a recipe is lost, sessions end |
| `upload_pipeline_serial` | 3 sessions never at once, one of them with methods 0/1, 3 chunks, 4 uploads of a chunk in all, containers of 2 | every delta restorable, nothing stored twice, ended sessions are in files |
| `upload_pipeline_normal_exit` (violation) | methods 0/1, one session at a time | the first unique chunk stops the server |
| `upload_pipeline_self_delta` (violation) | 2 sessions at once | a chunk recorded as a delta of itself |
| `restore` | 2 clients, 3 choices of their files' versions over 4 chunks (3 of one key), containers of 1, a cache of 2, batches of 2, one download, one death | what is written is what was uploaded; after uploads that did not overlap only multi-level deltas are in doubt; no exit without doubt or death; the read cache is faithful; every download ends |
| `storage_server` | 2 connections, 2 client ids, the second connection uploads or downloads the first one's file or uploads another; the server goes down twice, in any way and at any moment | one session per id, downloads serve the last upload, the index leads to files, nothing is forgotten without a crash, every exit has a cause, sessions and stops end |
| `client_upload` | 2 clients, files of 3 and of 0 or 2 chunks over 3 chunks with overlapping features, all methods, batches of 2, one death | pairs whole, recipe and keys matched and complete together, one seed for similar chunks, uploads end |

Bounds. `NumItem` exceeds the capacity several times, so that a queue fills,
drains and ends full, empty and in between. Five uploads with `LastNPara = 2`
let a feature be cached, kept for one upload more, evicted and cached again,
and up to four features are evicted at once, in full batches with and without a
tail; the runs with crashes have `LastNPara = 1`, the value in the code. The
chain of overlapping features makes a base lose some of its features to a later
one. Two slots per chunk instead of three keep the instances small; the proofs
are for any number. Two sessions are enough for each race: they differ in who
queried, announced, published or wrote first. One chunk per container in
`upload_pipeline` makes every write meet a full container; two in the serial
run gives offsets within one. In `restore` each stored form occurs (base,
delta, cache delta with its base cached, stored as a base, or stored as a
delta), files of one to three chunks end within and at a batch of two, and
three containers meet a cache of two slots. In `storage_server` a second
session waits for the first, finds its file, finds none, or finds what a dead
one left, before and after a restart; two ends of the process let a
half-written index file be read. In `client_upload` a file of three chunks ends
in the middle of each batch, one of two at its end and the empty one sends
nothing but its recipe end.

Two limits of the code show when an instance is changed. With a chunk whose
features coincide (constant data, or a tail of less than twelve bytes)
`RefCountExact` fails: `InsertCachedChunk` counts it once per slot and its
feature is evicted once, so that its base is never deleted. With `"deleted"` or
`"cnt_stored"` in `ServerCrashAt`, `NoDanglingBase` fails: the old files name
bases that `DeleteEvictChunk` has already removed.

`CHECK_DEADLOCK FALSE` is set throughout: the threads really end, the uploads
are finitely many, and an `exit()` stops everything.

Exceptions in the properties. A property that does not hold without exception
names the exception, as a history variable of the model: chunks that were not
in completely written files when a download began (`doubtful`), uploads at the
same time (`overlapped`), the key manager's threads busy with similar chunks at
the same time (`overlap`), a client that died, a process that ended without
storing its index, a session CTRL-C did not know of because it came between the
creation of its thread and `push_back` (`unlisted`). Each is a way in which the
code gives less than the property, and the runs show that there is no other.

Fairness. Consumer and producer threads spin or hold locks for finite critical
sections, so each gets weak fairness; a spurious wake-up has none. In `UploadPipeline`
each thread of a started session is weakly fair, which for `DataRecvThd` means
that the client sends what it has and closes; new sessions are not obliged to
start. In `Restore` server and client go on with a download as long as they
can. In `StorageServer` the main thread and each session are weakly fair, which
includes that a client program comes to its end; waiting for a lock needs no
more than that, because there is nobody else in the instance who could take it
for ever. In `ClientUpload` the program of each client, the key manager's thread
for it and the server's are weakly fair. Nowhere is a client obliged to die, a
connection to be opened or CTRL-C to be pressed.

## 4. Proofs

Everything below is checked by `tlapm`; the assumptions are the named
`ASSUME`s of the modules (finite sets, positive bounds, values that differ).

- `LckFreeMQProofs`: `QueueInv` (inductive with the type invariant) ties the
  queue's content to the numbers of pushed and popped items and the `_done`
  flag to the threads' positions; `NothingLost`, `DeletedClean` and the
  refinement `LckFreeImplementsAbsMQ` follow, for every capacity and number of
  items. The refinement maps the consumer's three positions to "stopped or
  not"; pushes, pops, `_done` and the last `IsEmpty` are the abstract steps,
  the rest stutters.
- `BlockedMQProofs`: `QueueInv` says the same of the blocking queue, and that
  its producer waits only while it is full and its consumer only while it is
  empty; so they never wait at the same time (`NeverBothAsleep`), and the queue
  implements the same abstract hand-over (`BlockedImplementsAbsMQ`).
- `SimilarPolicyProofs`: a similar chunk's base is one the index holds under
  one of its features, whatever the slot count; what an update changes.
- `InformedCacheProofs`: what holds with crashes is `TypeCorrect` and, if the
  server does not die between its file writes (below), `BaseNeverDangles`. The
  rest is for systems in which nobody crashes (`MaxClientCrash =
  MaxServerCrash = 0`; `informed_cache_client_crash` shows what a client's death
  does). `InSync` is not inductive: it says
  nothing of the order of what is on the wire. `IInv` adds that chunks precede
  evictions (`WireOrder`), that a chunk to cache brings only features that are
  neither cached nor under way (`CacheChunksNew`), that an uncompressed chunk
  will find a feature cached by then (`UncompressChunksKnown`), that each
  evicted feature will be known once (`EvictsKnown`), and that counts cover the
  index and counted bases are kept (`BasesKept`). Each message the server takes
  uses these facts and leaves them for the rest of the wire: `PutFacts` and
  `TakeFacts` describe the wire before and after, one lemma per action shows
  that `IInv` is preserved, and `HalvesInSync`, `NoExit`, `NoRawChunk` and
  `DeltaBaseStored` are its consequences.
  `BaseNeverDangles` does not need the halves to agree. `CrashInv` says that
  memory, and except while it is written the pair of files, counts every base at
  least as often as features lead to it and that what is counted is in the
  store (`Kept`); a count may stay too high, never fall too low. A restart reads
  the files back, so that a crash is harmless as long as the files agree with
  each other and with the store: hence `NotTorn`, no death of the server after
  `DeleteEvictChunk` and before the end of `StoreCntIdx`.
  `CountsCorrect` is for chunks without a repeated feature (`FeaturesDiffer`):
  `InsertCachedChunk` adds one for each slot of the chunk, while the index has
  each of its features once (section 3 says what becomes of other chunks). `CountInv` then has every count exact, each base in the
  store counted, and no count of zero after `DeleteEvictChunk`; with
  `IInv`, which knows that an evicted feature is one the server has, every
  eviction lowers the right count once. `RefCounts` and `StoreHasNoLeak` follow.
  `CacheHoldsLastN` speaks of the uploads that sent a chunk, which neither half
  records. `LastNInv` ties them to the versions of the client's index: a
  feature's version is no later than the last upload of one of its chunks
  (`VersionOfChunk`), a chunk of the last n uploads has a feature at least as
  recent as itself (`RecentKept`), and a client that has finished has nothing
  left to evict (`Evicted`), because the walk ends with the tail. `IInv` carries
  this over to the server, whose features are the client's when a session is
  over, and whose bases are in the store.
- `UploadPipelineProofs`: any number of sessions at once, of any method, over
  any chunks and features. `AddrPointsHome` is preserved because containers
  only grow (`ContainersGrow`) and the writer's own address leads home from the
  moment it has written (`HomeInv`). `NothingLost` needs to know who stores a
  chunk that is only claimed: `FlightInv` has for every unset address a session
  with the chunk behind its `DetectDuplicate` (`Claims`), and for every
  fingerprint of a recipe an address or a session that carries it (`Carries`);
  a step that drops a duplicate leaves it to whoever has claimed it, and a
  thread that has left its loop left an empty queue (`EndsInv`). That no base is
  missing from the fp index (`UploadNoExit`) follows from `ClaimedInv`: what is
  past `DetectDuplicate` is in the index, the index forgets nothing
  (`IndexGrows`), and features lead to such chunks only. It is for servers with
  clients of method `FULL_EDR` only; `upload_pipeline_normal_exit` shows what
  others do.
  Three properties are false of sessions at once, because two of them may ask the
  fp index for a chunk before either has announced it, and one may drop a chunk
  that the other has yet to store. They are proved of sessions one after the other
  (`MaxActive <= 1`), any number of them, over any chunks, features and methods:
  `SerialStoredOnce`, `SerialUploadDurable` and `SerialRestorable`. `SerialInv`
  is what a single pipeline adds to `IInv`. A client without a session has left
  nothing behind (`IdleInv`), so a step meets only its own session's items. A
  chunk that is claimed is in one place of the pipeline only, its address still
  unset, and in no container before it is written (`OnceAt`); hence a container
  has it once (`PlacedInv`), and a real address is never overwritten
  (`RealStays`). What the feature index leads to was published as a base
  (`FeatureInv`), or is the writer's own chunk in the step before; the writer
  finds its base's container saved or its own, and its cache has nothing cut
  short (`TornInv`), so it reads it whole (`HandAt`, `ReadsWhole`), and what it publishes can be restored (`RealInv`). A cache
  delta has no such index: its base is only the client's word. `AheadAt`
  therefore follows the order of the queues: whatever an item refers to is
  stored or is ahead of it (`Follows`), because the client refers only to what
  it has sent (`cached`) and each thread takes and hands on in order; a base
  whose chunk `DetectDuplicate` drops is stored or further ahead
  (`ClaimedAhead`). When the writer ends, nothing is claimed and no container
  is being filled, so all that the recipe names is in files
  (`DurableStep`).
- `StorageServerProofs`: with any number of connections, client ids, chunks,
  crashes and restarts. `ServesLastUpload` is not inductive: that the recipe
  stays what a download has opened needs that no other session of the client id
  is past the lock (`OneSessionPerId`), and that it was the last upload's needs
  `RecipeIsLast` between sessions. `IndexLeadsToContainers` needs that CTRL-C
  knows every session (`Listed`), so that none fills a container when the index
  is written (`NoneLeft`), and that an incomplete index file has a crash or an
  exit behind it (`FileWhole`). One lemma per action preserves `IInv`, the
  conjunction of these; the ends of the process share the lemma about `Ends`.
  On top of `IInv`, `KInv` has what the server remembers and why it exits:
  `NothingForgotten` needs that a session's chunks are in the index while it
  runs (`ReceivedKnown`) and that CTRL-C stores all of them (`AllStored`);
  `ExitHasCause` needs that a client which is gone before its session ends, or
  an upload without its recipe end, means a death (`GoneHasCause`), and that a
  recipe with some chunks of an upload has all or has a reason (`PartHasCause`).
- `ClientUploadProofs`. First the key manager by itself, with any number of
  clients that send one batch at a time, of any length (`KmSpec`). `SeedsOfSimilarChunks` needs that
  what the index has under a feature is a chunk with this feature, and so is
  what it has answered (`KinInv`); it holds even when threads overwrite each
  other's insertions. `BaseKeepsItsSeed` needs `SeedInv`: while no two threads
  are busy with similar chunks, what the index answered still holds but for the
  thread's own insertions (`AnswersHold`), what was inserted is still there
  (`InsertsHold`, `OwnIndexed`), and a chunk that was given another's seed has
  a feature that keeps it from ever being inserted (`OthersKnown`). An insertion
  changes only what was unknown and what no other thread is busy with
  (`InsertKeepsFacts`).
  Then its clients, any number of them, with any files, methods and sizes of
  batches and any number of deaths. The uploading clients implement
  `KmSpec` (`ImplementsKeyManager`), because `KeyGenThd` sends a batch only
  after the seeds of the last have come (`KeyGenInv`), whoever exits or dies;
  both properties of the key manager carry over to every upload. Last, where
  the chunks are. What the server's recipe and the client's key recipe say of
  each other (`RecipeMatchesKeys`) cannot be seen in either: chunk and key part
  in `SenderThd`, go through different batches and meet again only by number.
  `UploadInv` therefore gives every chunk its place in the file and says, of
  each queue, buffer and message, that the places in it follow one another
  (`Ordered`, a cached chunk sharing the place of its compressed form), that
  each item is what its thread makes of the file's chunk at that place under
  the key `KeyGenThd` got for it (`SelectForm`, `WireForm`, `Fingerprint`), and
  that each stage starts where the one before it ends (`SelEnd`, `Sent`, `End`).
  It is a conjunction of one invariant per queue and per batch (`PlacesInv`),
  client by client. The lemmas on sequences say what is left of these when a
  sequence is appended to, cut or shortened (`SendsAppend`, `SendsDrop`,
  `SelectsConcat`, `CountedDrop`, ...); the `...Frame` lemmas say which
  variables each invariant depends on, so that a step is shown to keep only
  those it can disturb (`KeyGenKeeps`, `SenderKeeps`, `RecvKeeps`); one lemma
  per action completes `PlacesFollow`. `UploadTypes` (with `BuffersBounded`:
  a message never outgrows the room for twice a batch), `UploadPairs`,
  `UploadRecipe` and `UploadComplete` are its consequences.
- `RestoreProofs`: any number of clients, files and versions of them, chunks,
  containers and caches of any size, batches of any length, uploads and
  downloads in any order and at once. `RestoredIsUploaded` speaks of the end of a
  download and of no moment before it; `RestoreInv` follows every chunk there.
  The chunks of the recipe are, in its order, received, on the wire, in the
  decoder's buffer, in the queue, in the reader's hand, or not yet read; their
  numbers add up (`ReaderRight`, `DecoderRight`, `WireOK`, `OutRight`), the keys
  of the next batch begin at the next chunk (`KeysRight`), and what stands for a
  chunk at each of these places leads to it (`HandRight`, `RawRight`, `MsgRight`)
  unless the chunk is in doubt. That the reader finds what leads to a chunk rests
  on three facts about the store. A real address leads to the bytes that its kind
  promises, made of a base that is stored, or announced, as the kind asks
  (`AddressRight`), although the base may have been read half-written. What a
  session has in its cache is the beginning of the file of that name
  (`GoodCache`), for which the slots and the LRU list must fit together
  (`TouchFacts`, `InsertFacts`). And a chunk that is safe when the download
  begins stays so (`StaysSafe`): the bytes it needs are in completely written
  files of which the session's cache, if it has them, has all. Other sessions
  only add to the store (`StoreGrows`, `AddressesStay`), which leaves all of this
  intact (`OthersStay`); so a step is shown to be right for its own session only
  (`Composed`), and most steps on the values they change before the state is
  looked at (`RecipeStep`, `PushStep`, `DecodeStep`, `SendStep`, `WireAppend`,
  `WireTake`, `ReceiveStep`). `RestoredFileIsUploaded`, `CachesAreFaithful`,
  `ExitsOnlyInDoubt` (with the causes for an exit and a dead client, `CauseInv`)
  and `RestoreTypes` are its consequences.
  `SerialInv` adds what holds as long as no two uploads were in progress at once.
  A container that is being filled belongs to the upload in progress and its file
  is open only while the writer, for want of room, or the end of the session
  saves it (`SavingRight`). The base of a delta is read by the same session, when
  it has nothing to save: it meets no open file, and its cache has all of every
  container in it (`CacheWhole`, `BaseIsRead`): no delta is made of a part of its base
  (`WholeStored`). An address that is only announced belongs to a chunk still to
  be written (`Promised`). Hence when an upload ends all that its file needs, a
  base and its base included, is in completely written files (`AllInFile`,
  `FileSettled`), and stays there; what a download then has in doubt are deltas
  of a delta of a cached chunk (`SettledIsSafe`, `SerialUploadsLeaveNoDoubt`).

The inductive invariants, and the types of the modules proved about, are not
properties of the runs again: each was checked with TLC before it was proved.

Only model-checked: liveness, since fairness and `ENABLED` are beyond the
prover.

## 5. Disagreements with the documentation

The three runs marked (violation) and `findings` in `PROJECT.json` give the
line and the quoted text for each: methods 0 and 1 stop the server; two clients
that upload the same chunk at the same time can make it unrecoverable; a client
that dies in an upload can make a later upload of the same client stop the
server for everyone.

Three more the models show without a run of their own:

- `blocked_mq.h:85`: a consumer that found the queue empty waits for a push;
  setting `_done` notifies nobody, so it can sleep for ever (`PopWait` of
  `BlockedMQ`, whose liveness property is therefore about items and not about
  the consumer's end). The programs as shipped create no such queue.
- `data_reader_thd.cc:237`: a cache delta can become the cached base of another
  and leave the cache; the reader marks what then remains as
  `MULTI_LEVEL_DELTA_CHUNK` and the client writes it as it came. It is the
  exception in `NoDoubtAfterSerialUploads`.
- `data_writer_thd.cc:147`: a base that cannot be read has the chunk written
  directly, as the comment says, but then falls through and is written again as
  a delta of nothing. `Restore` shows that such a chunk is still restored.

## 6. Not modelled

- Numeric code on bytes: chunking, Rabin fingerprints and features, padding,
  encryption, LZ4, xdelta. It has no control of its own that the properties
  could tell apart; what it computes is a constant or a constructor. This and
  the vendored code are most of the repository's lines: the two copies of
  xdelta, the two of the moodycamel queue and all of `Baseline/`, an older
  sibling with the same queues and pipeline but without the informed cache.
  They are why the models map a small share of all lines although they cover
  nearly all of EDRStore's own threads.
- Wrappers of LevelDB, RocksDB and OpenSSL. RocksDB is a set that survives the
  process in `InformedCache`, a connection is a FIFO stream with an end.
- `ChunkerFPThd` and `PlainSimilarThd`: loops that hand on what they compute;
  their hand-over is `LckFreeMQ`.
- The download of files uploaded with methods 0 and 1: no upload of these
  methods stores a chunk, as `upload_pipeline_normal_exit` shows.
- Two exits of `ServerOptThd::Run` for clients that break the protocol: a login
  message of an unknown type (`server_opt_thd.cc:111-114`) and a message where
  a rejected client should close (`server_opt_thd.cc:140-143`). The client
  program sends two login types only, and exits when it is told that its file
  does not exist (`data_retriever_thd.cc:214-217`).
- CTRL-C delivered to a session thread, whose handler then joins itself.
- The path of a file: its hash is taken of the path followed by the client id,
  `client_main.cc:207`, and two different pairs can give one text.
- Statistics, logging, configuration files, scripts.
