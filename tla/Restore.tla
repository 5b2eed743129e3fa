-------------------------------- MODULE Restore --------------------------------
(***************************************************************************)
(* From the chunks of an upload to the restored file: what an upload leaves*)
(* in containers, fp index and recipe, and the whole download path that    *)
(* undoes it again,                                                        *)
(*   DataReaderThd -> DataDecoderThd -> (network) -> DataRetrieverThd      *)
(*     -> DownloadWriterThd,                                               *)
(* while other clients upload and download.                                *)
(*                                                                         *)
(* An upload is taken chunk by chunk: the server's four threads on one     *)
(* chunk are one step up to the writing of its bytes (UploadPipeline has   *)
(* the threads).  Which stored base a chunk is similar to, and which       *)
(* cached ones, is left open: features are any data.                       *)
(***************************************************************************)
EXTENDS ContainerStore, ReadCache

CONSTANTS
  Chunk,          \* chunks, that is, their fingerprints
  NoBase,
  Key,            \* KeyOf[c] is the key c is encrypted with.  Chunks that
  KeyOf,          \*   share a cipher feature have the same key
  Versions,       \* each client's versions of its file, one per upload, every
                  \*   one a sequence of chunks: the choices
  RecipeBatch,    \* Configure::GetSendRecipeBatchSize
  ChunkBatch,     \* Configure::GetSendChunkBatchSize
  MaxDownload,    \* bound: downloads of all clients
  MaxDeath        \* bound: clients that die in a download

ASSUME RestoreAssumption ==
  /\ NoBase \notin Chunk
  /\ KeyOf \in [Chunk -> Key]
  /\ Versions \subseteq [Client -> Seq(Seq(Chunk))]
  /\ RecipeBatch \in Nat \ {0} /\ ChunkBatch \in Nat \ {0}
  /\ MaxDownload \in Nat /\ MaxDeath \in Nat

VARIABLES
  addr,           \* the fp index
  cached,         \* the bases in each client's inform cache
  versions,       \* the versions of each client's file
  recipe,         \* the fps in its recipe, at the server
  key_recipe,     \* the keys in the client's own key recipe
  session,        \* what the session of each client id does
  pending,        \* what DataWriterThd still has to write of a chunk
  container_cache,         \* ClientVar::_container_cache
  reader, mq, decoder,     \* DataReaderThd, its queue, DataDecoderThd
  wire,           \* messages to the client
  retriever, writer,       \* the client's DataRetrieverThd, DownloadWriterThd
  server,         \* "up", or "exit" when a thread called exit()
  n_upload, n_download, n_death,
  doubtful,       \* history: chunks not safely stored when a download began
  overlapped      \* history: two uploads were in progress at once

indexVars == <<addr, cached>>
fileVars == <<versions, recipe, key_recipe>>
uploadVars == <<pending, n_upload>>
serverDownVars == <<reader, mq, decoder>>
clientDownVars == <<retriever, writer>>
countVars == <<n_download, n_death>>
historyVars == <<doubtful, overlapped>>
vars == <<containerVars, indexVars, fileVars, session, uploadVars, container_cache,
          serverDownVars, wire, clientDownVars, server, countVars, historyVars>>
-----------------------------------------------------------------------------
(* Bytes.  "comp" are the encrypted bytes of a compressed chunk, "uncomp"  *)
(* those of a chunk as it is, "delta" an xdelta; "junk" is anything else.  *)
(* A delta that was encoded against no bytes at all needs no base; one     *)
(* against part of its base fits nothing.                                  *)

Comp(c) == [form |-> "comp", chunk |-> c]
Uncomp(c) == [form |-> "uncomp", chunk |-> c]
Junk == [form |-> "junk"]
Delta(target, base, read) ==
  [form |-> "delta", target |-> target, base |-> base, read |-> read]

Plain == {Comp(c) : c \in Chunk} \cup {Uncomp(c) : c \in Chunk}
Bytes == Plain \cup {Delta(t, b, r) : t \in Plain, b \in Plain,
                                      r \in {"whole", "torn", "nothing"}}

DeltaDecode(base, delta) ==
  IF delta.form = "delta"
     /\ (delta.read = "nothing" \/ (delta.read = "whole" /\ base = delta.base))
  THEN delta.target ELSE Junk

(* What the client makes of bytes: decrypt with a key, and decompress.     *)
ProcComp(bytes, key) ==
  IF bytes.form = "comp" /\ KeyOf[bytes.chunk] = key THEN bytes.chunk ELSE NoBase
ProcUncomp(bytes, key) ==
  IF bytes.form = "uncomp" /\ KeyOf[bytes.chunk] = key THEN bytes.chunk ELSE NoBase

(* ProcRestoreBaseChunk: decrypt, decompress, encrypt again.               *)
ProcRestoreBase(bytes, key) ==
  IF ProcComp(bytes, key) = NoBase THEN Junk ELSE Uncomp(bytes.chunk)

-----------------------------------------------------------------------------
(* KeyForChunkHashDB_t.  DetectDuplicate inserts an address nobody filled  *)
(* in yet, "virtual", whose container id names no container.               *)
Addr == [stat : {"none", "virtual", "COMP_BASE", "COMP_DELTA", "CACHE_DELTA"},
         container_id : ContainerId \cup {NoBase}, offset : Nat,
         base_fp : Chunk \cup {NoBase}]
NoAddr == [stat |-> "none", container_id |-> NoBase, offset |-> 0, base_fp |-> NoBase]
Virtual == [NoAddr EXCEPT !.stat = "virtual"]
IsReal(a) == a.stat \notin {"none", "virtual"}

(* What the writer has to write: the bytes, in order, and what the chunk   *)
(* will be recorded as.                                                    *)
NoPending == [chunk |-> NoBase, bytes |-> <<>>, stat |-> "none", base |-> NoBase]

(* One download.  `next' is the place in the recipe; `batch' are the fps   *)
(* read from it; `fp' is the one in hand, `input' and `base' the two       *)
(* buffers of Reader2Decoder_t, `delta' the second input buffer.           *)
Raw == [stat |-> "none", input |-> Junk, base_type |-> "none", base |-> Junk]
IdleReader == [at |-> "off", next |-> 0, batch |-> <<>>, is_end |-> FALSE,
               raw |-> Raw, delta |-> Junk, want |-> NoBase]
IdleDecoder == [at |-> "off", send_buf |-> <<>>]
IdleRetriever == [at |-> "off", n_key |-> 0, keys |-> <<>>, out |-> <<>>]

Init ==
  /\ ContainerInit
  /\ addr = [c \in Chunk |-> NoAddr]
  /\ cached = [cl \in Client |-> {}]
  /\ versions \in Versions
  /\ recipe = [cl \in Client |-> <<>>]
  /\ key_recipe = [cl \in Client |-> <<>>]
  /\ session = [cl \in Client |-> "off"]
  /\ pending = [cl \in Client |-> NoPending]
  /\ n_upload = [cl \in Client |-> 0]
  /\ container_cache = [cl \in Client |-> EmptyCache]
  /\ reader = [cl \in Client |-> IdleReader]
  /\ mq = [cl \in Client |-> <<>>]
  /\ decoder = [cl \in Client |-> IdleDecoder]
  /\ wire = [cl \in Client |-> <<>>]
  /\ retriever = [cl \in Client |-> IdleRetriever]
  /\ writer = [cl \in Client |-> "off"]
  /\ server = "up"
  /\ n_download = 0 /\ n_death = 0
  /\ doubtful = [cl \in Client |-> {}]
  /\ overlapped = FALSE
-----------------------------------------------------------------------------
(* Reading a stored chunk *)

At(content, offset) == IF offset \in DOMAIN content THEN content[offset] ELSE Junk

(* StorageCore::ReadChunk of client cl's session: from its container cache,*)
(* or else from the file, which goes into the cache as it was found, or    *)
(* else from the container the session itself is filling.  It may find     *)
(* nothing, and the caller's buffer then holds whatever it held before.    *)
Found(bytes, cache) == [bytes |-> bytes, cache |-> cache, found |-> TRUE]
ReadChunk(cl, a) ==
  LET rc == container_cache[cl]
      id == a.container_id
  IN
  IF ~IsReal(a)
    THEN {[bytes |-> Junk, cache |-> rc, found |-> FALSE]}
  ELSE IF Exist(rc, id)
    THEN {Found(At(CachedData(rc, id), a.offset), Touch(rc, id))}
  ELSE IF FileBytes(id) # {}
    THEN {Found(At(content, a.offset), Insert(rc, id, content)) : content \in FileBytes(id)}
  ELSE IF session[cl] = "upload" /\ id = CurId(cl)
    THEN {Found(At(cur[cl], a.offset), rc)}
  ELSE {[bytes |-> Junk, cache |-> rc, found |-> FALSE]}

-----------------------------------------------------------------------------
(* Uploads *)

(* What the client uploads, or uploaded last.                              *)
FileOf(cl) == versions[cl][n_upload[cl]]

Uploading(cl) == session[cl] \in {"upload", "tail"}

(* One program of each client id runs at a time.                           *)
ClientIdle(cl) ==
  retriever[cl].at \in {"off", "done", "dead"} /\ writer[cl] # "run"

(* Both recipes are truncated, the container cache is a new one.           *)
UploadStart(cl) ==
  /\ session[cl] = "off" /\ ClientIdle(cl) /\ n_upload[cl] < Len(versions[cl])
  /\ session' = [session EXCEPT ![cl] = "upload"]
  /\ n_upload' = [n_upload EXCEPT ![cl] = @ + 1]
  /\ UNCHANGED versions
  /\ recipe' = [recipe EXCEPT ![cl] = <<>>]
  /\ key_recipe' = [key_recipe EXCEPT ![cl] = <<>>]
  /\ container_cache' = [container_cache EXCEPT ![cl] = EmptyCache]
  /\ retriever' = [retriever EXCEPT ![cl] = IdleRetriever]
  /\ writer' = [writer EXCEPT ![cl] = "off"]
  /\ overlapped' = (overlapped \/ \E d \in Client : Uploading(d))
  /\ UNCHANGED <<containerVars, indexVars, pending, serverDownVars, wire, server,
                 countVars, doubtful>>

(* The client encrypts the next chunk of the file, notes its key, and sends*)
(* it; the server notes its fingerprint.                                   *)
Sends(cl, c) ==
  /\ session[cl] = "upload" /\ pending[cl] = NoPending
  /\ Len(recipe[cl]) < Len(FileOf(cl))
  /\ c = FileOf(cl)[Len(recipe[cl]) + 1]
  /\ recipe' = [recipe EXCEPT ![cl] = Append(@, c)]
  /\ key_recipe' = [key_recipe EXCEPT ![cl] = Append(@, KeyOf[c])]
  /\ UNCHANGED versions

Announce(c) == addr' = [addr EXCEPT ![c] = Virtual]
ToWrite(cl, c, bytes, stat, b) ==
  pending' = [pending EXCEPT ![cl] = [chunk |-> c, bytes |-> bytes, stat |-> stat,
                                     base |-> b]]

(* A chunk with its uncompressed copy to cache (CACHE_INSERT_CHUNK and     *)
(* CHUNK_PAIR): a duplicate is dropped, a chunk that is similar to none    *)
(* becomes a base.                                                         *)
UploadBase(cl, c) ==
  /\ Sends(cl, c)
  /\ cached' = [cached EXCEPT ![cl] = @ \cup {c}]
  /\ \/ /\ addr[c] # NoAddr
        /\ UNCHANGED <<addr, pending>>
     \/ /\ addr[c] = NoAddr
        /\ Announce(c)
        /\ ToWrite(cl, c, <<Comp(c)>>, "COMP_BASE", NoBase)
  /\ UNCHANGED <<containerVars, session, n_upload, container_cache, serverDownVars,
                 wire, clientDownVars, server, countVars, historyVars>>

(* ProcSimilarChunk: a delta of the base that the feature index names.  If *)
(* no base can be read the chunk is written as it is, and then the delta   *)
(* all the same (data_writer_thd.cc:147).                                  *)
UploadSimilar(cl, c, b) ==
  /\ Sends(cl, c)
  /\ cached' = [cached EXCEPT ![cl] = @ \cup {c}]
  /\ addr[c] = NoAddr /\ addr[b].stat = "COMP_BASE"
  /\ Announce(c)
  /\ \E r \in ReadChunk(cl, addr[b]) :
       /\ container_cache' = [container_cache EXCEPT ![cl] = r.cache]
       /\ LET read == IF ~r.found THEN "nothing"
                      ELSE IF r.bytes = Comp(b) THEN "whole" ELSE "torn"
              delta == Delta(Comp(c), Comp(b), read)
          IN ToWrite(cl, c, IF r.found THEN <<delta>> ELSE <<Comp(c), delta>>,
                     "COMP_DELTA", b)
  /\ UNCHANGED <<containerVars, session, n_upload, serverDownVars, wire,
                 clientDownVars, server, countVars, historyVars>>

(* A chunk that came uncompressed, because the client knows that one of    *)
(* its features is cached: a delta of the cached base with that feature.   *)
CachedBases(cl, c) == {b \in cached[cl] \ {c} : KeyOf[b] = KeyOf[c]}

UploadUncompressed(cl, c) ==
  /\ Sends(cl, c)
  /\ CachedBases(cl, c) \cup (cached[cl] \cap {c}) # {}
  /\ \/ /\ addr[c] # NoAddr
        /\ UNCHANGED <<addr, pending>>
     \/ /\ addr[c] = NoAddr
        /\ Announce(c)
        /\ \E b \in CachedBases(cl, c) :
             ToWrite(cl, c, <<Delta(Uncomp(c), Uncomp(b), "whole")>>, "CACHE_DELTA", b)
  /\ UNCHANGED <<containerVars, cached, session, n_upload, container_cache,
                 serverDownVars, wire, clientDownVars, server, countVars, historyVars>>

(* WriteChunk, and the fp index after the last write of a chunk.           *)
Write(cl) ==
  /\ pending[cl] # NoPending
  /\ AddItem(cl, Head(pending[cl].bytes))
  /\ \/ /\ Len(pending[cl].bytes) > 1
        /\ pending' = [pending EXCEPT ![cl].bytes = Tail(@)]
        /\ UNCHANGED addr
     \/ /\ Len(pending[cl].bytes) = 1
        /\ addr' = [addr EXCEPT ![pending[cl].chunk] =
                      [stat |-> pending[cl].stat, container_id |-> CurId(cl),
                       offset |-> NextOffset(cl), base_fp |-> pending[cl].base]]
        /\ pending' = [pending EXCEPT ![cl] = NoPending]
  /\ UNCHANGED <<cached, fileVars, session, n_upload, container_cache,
                 serverDownVars, wire, clientDownVars, server, countVars, historyVars>>

(* A faulty variant: the tail container is not saved.                      *)
MustSaveNoTail(cl) == pending[cl] # NoPending /\ ~HasRoom(cl)

MustSave(cl) ==
  \/ pending[cl] # NoPending /\ ~HasRoom(cl)
  \/ session[cl] = "tail" /\ cur[cl] # <<>>

SaveContainer(cl) ==
  /\ MustSave(cl)
  /\ OpenFile(cl) \/ CloseFile(cl)
  /\ UNCHANGED <<indexVars, fileVars, session, uploadVars, container_cache,
                 serverDownVars, wire, clientDownVars, server, countVars, historyVars>>

(* The client has sent all; what it has not used for some uploads leaves   *)
(* the inform cache.                                                       *)
UploadTail(cl) ==
  /\ session[cl] = "upload" /\ pending[cl] = NoPending
  /\ Len(recipe[cl]) = Len(FileOf(cl))
  /\ session' = [session EXCEPT ![cl] = "tail"]
  /\ \E S \in SUBSET cached[cl] : cached' = [cached EXCEPT ![cl] = S]
  /\ UNCHANGED <<containerVars, addr, fileVars, uploadVars, container_cache,
                 serverDownVars, wire, clientDownVars, server, countVars, historyVars>>

UploadEnd(cl) ==
  /\ session[cl] = "tail" /\ ~MustSave(cl)
  /\ session' = [session EXCEPT ![cl] = "off"]
  /\ UNCHANGED <<containerVars, indexVars, fileVars, uploadVars, container_cache,
                 serverDownVars, wire, clientDownVars, server, countVars, historyVars>>

Upload(cl) ==
  \/ UploadStart(cl) \/ Write(cl) \/ SaveContainer(cl)
  \/ UploadTail(cl) \/ UploadEnd(cl)
  \/ \E c \in Chunk : \/ UploadBase(cl, c) \/ UploadUncompressed(cl, c)
                      \/ \E b \in Chunk : UploadSimilar(cl, c, b)
-----------------------------------------------------------------------------
(* What can be restored.  A chunk is in doubt, for a download that begins, *)
(* if the bytes that it needs are not all in completely written files.     *)

InFile(c) == IsReal(addr[c]) /\ IsSaved(addr[c].container_id)
Content(c) ==
  LET id == addr[c].container_id IN At(saved[id[1]][id[2]], addr[c].offset)

BaseInFile(c) == InFile(c) /\ addr[c].stat = "COMP_BASE"
CompInFile(c) ==
  \/ BaseInFile(c)
  \/ /\ InFile(c) /\ addr[c].stat = "COMP_DELTA"
     /\ \/ Content(c).read = "nothing"
        \/ Content(c).read = "whole" /\ BaseInFile(addr[c].base_fp)
Safe(cl, c) ==
  \/ CompInFile(c)
  \/ /\ InFile(c) /\ addr[c].stat = "CACHE_DELTA"
     /\ addr[c].base_fp \in cached[cl] \/ CompInFile(addr[c].base_fp)

MultiLevel(c) ==
  addr[c].stat = "CACHE_DELTA" /\ addr[addr[c].base_fp].stat = "CACHE_DELTA"

-----------------------------------------------------------------------------
(* Downloads: the session, DataReaderThd *)

DownloadStart(cl) ==
  /\ session[cl] = "off" /\ ClientIdle(cl)
  /\ n_upload[cl] > 0 /\ n_download < MaxDownload
  /\ session' = [session EXCEPT ![cl] = "download"]
  /\ n_download' = n_download + 1
  /\ container_cache' = [container_cache EXCEPT ![cl] = EmptyCache]
  /\ reader' = [reader EXCEPT ![cl] = [IdleReader EXCEPT !.at = "read"]]
  /\ decoder' = [decoder EXCEPT ![cl] = [IdleDecoder EXCEPT !.at = "pop"]]
  /\ retriever' = [retriever EXCEPT ![cl] = [IdleRetriever EXCEPT !.at = "recv"]]
  /\ writer' = [writer EXCEPT ![cl] = "run"]
  /\ wire' = [wire EXCEPT ![cl] = <<>>]
  /\ doubtful' = [doubtful EXCEPT ![cl] =
                    {c \in {recipe[cl][i] : i \in DOMAIN recipe[cl]} : ~Safe(cl, c)}]
  /\ UNCHANGED <<containerVars, indexVars, fileVars, uploadVars, mq, server, n_death,
                 overlapped>>

Exit ==
  /\ server' = "exit"
  /\ UNCHANGED <<containerVars, indexVars, fileVars, session, uploadVars,
                 container_cache, serverDownVars, wire, clientDownVars, countVars,
                 historyVars>>

ReaderOnly ==
  UNCHANGED <<containerVars, indexVars, fileVars, session, uploadVars, decoder, wire,
              clientDownVars, server, countVars, historyVars>>

(* The next batch of fps of the recipe; fewer than a full batch, or none,  *)
(* are the last.                                                           *)
ReadRecipe(cl) ==
  LET rest == Len(recipe[cl]) - reader[cl].next
      n == IF rest < RecipeBatch THEN rest ELSE RecipeBatch
  IN
  /\ reader[cl].at = "read"
  /\ reader' = [reader EXCEPT ![cl] =
       [@ EXCEPT !.at = IF n = 0 THEN "end" ELSE "fetch",
                 !.next = reader[cl].next + n,
                 !.batch = SubSeq(recipe[cl], reader[cl].next + 1, reader[cl].next + n),
                 !.is_end = n < RecipeBatch]]
  /\ UNCHANGED <<mq, container_cache>>
  /\ ReaderOnly

(* The chunk in hand goes to the decoder, the reader on to its next one.   *)
PushRaw(cl, raw) ==
  LET rest == Tail(reader[cl].batch) IN
  /\ mq' = [mq EXCEPT ![cl] = Append(@, raw)]
  /\ reader' = [reader EXCEPT ![cl] =
       [@ EXCEPT !.at = IF rest # <<>> THEN "fetch"
                        ELSE IF reader[cl].is_end THEN "end" ELSE "read",
                 !.batch = rest, !.raw = Raw, !.delta = Junk, !.want = NoBase]]

KeepCache(cl, cache) == container_cache' = [container_cache EXCEPT ![cl] = cache]

(* FetchChunk, up to the chunk's own bytes.  Of an address that nobody     *)
(* filled in, what is taken for the kind of the chunk may be any.          *)
FetchChunk(cl) ==
  LET a == addr[Head(reader[cl].batch)] IN
  /\ reader[cl].at = "fetch"
  /\ \/ /\ a.stat = "COMP_BASE"
        /\ \E r \in ReadChunk(cl, a) :
             /\ KeepCache(cl, r.cache)
             /\ PushRaw(cl, [Raw EXCEPT !.stat = "COMP_BASE", !.input = r.bytes])
        /\ ReaderOnly
     \/ /\ a.stat \in {"COMP_DELTA", "CACHE_DELTA"}
        /\ \E r \in ReadChunk(cl, a) :
             /\ KeepCache(cl, r.cache)
             /\ reader' = [reader EXCEPT ![cl] =
                  [@ EXCEPT !.at = "base", !.want = a.base_fp,
                            !.raw = [Raw EXCEPT !.stat = a.stat, !.input = r.bytes]]]
        /\ UNCHANGED mq
        /\ ReaderOnly
     \/ /\ a.stat = "virtual"
        /\ PushRaw(cl, [Raw EXCEPT !.stat = "COMP_BASE"])
        /\ UNCHANGED container_cache
        /\ ReaderOnly
     \/ ~IsReal(a) /\ Exit

WithBase(raw, type, bytes) == [raw EXCEPT !.base_type = type, !.base = bytes]

(* ProcNormalDeltaChunk.                                                   *)
ProcNormalDelta(cl) ==
  LET a == addr[reader[cl].want] IN
  /\ reader[cl].at = "base" /\ reader[cl].raw.stat = "COMP_DELTA"
  /\ \E r \in ReadChunk(cl, a) :
       /\ KeepCache(cl, r.cache)
       /\ PushRaw(cl, WithBase(reader[cl].raw, a.stat, r.bytes))
  /\ ReaderOnly

(* ProcCacheDeltaChunk: a cached base is used as it is, of any other the   *)
(* compressed form is looked for, which may itself be a delta.             *)
ProcCacheDelta(cl) ==
  LET b == reader[cl].want
      a == addr[b]
  IN
  /\ reader[cl].at = "base" /\ reader[cl].raw.stat = "CACHE_DELTA"
  /\ \/ /\ b \in cached[cl]
        /\ PushRaw(cl, WithBase(reader[cl].raw, "UNCOMP_BASE", Uncomp(b)))
        /\ UNCHANGED container_cache
        /\ ReaderOnly
     \/ /\ b \notin cached[cl] /\ a.stat = "COMP_BASE"
        /\ \E r \in ReadChunk(cl, a) :
             /\ KeepCache(cl, r.cache)
             /\ PushRaw(cl, WithBase(reader[cl].raw, "COMP_BASE", r.bytes))
        /\ ReaderOnly
     \/ /\ b \notin cached[cl] /\ a.stat = "COMP_DELTA"
        /\ \E r \in ReadChunk(cl, a) :
             /\ KeepCache(cl, r.cache)
             /\ reader' = [reader EXCEPT ![cl] =
                  [@ EXCEPT !.at = "base_base", !.delta = r.bytes, !.want = a.base_fp]]
        /\ UNCHANGED mq
        /\ ReaderOnly
     \/ /\ b \notin cached[cl] /\ a.stat = "CACHE_DELTA"
        /\ PushRaw(cl, WithBase(reader[cl].raw, "MULTI_LEVEL", Junk))
        /\ UNCHANGED container_cache
        /\ ReaderOnly
     \/ /\ b \notin cached[cl] /\ a.stat = "virtual"
        /\ PushRaw(cl, WithBase(reader[cl].raw, "COMP_BASE", Junk))
        /\ UNCHANGED container_cache
        /\ ReaderOnly
     \/ b \notin cached[cl] /\ ~IsReal(a) /\ Exit

(* ... whose base is then read too, and the base decoded.  What cannot be  *)
(* decoded may make DeltaDecode exit.                                      *)
DecodeBase(cl) ==
  /\ reader[cl].at = "base_base"
  /\ \E r \in ReadChunk(cl, addr[reader[cl].want]) :
       LET base == DeltaDecode(r.bytes, reader[cl].delta) IN
       \/ /\ KeepCache(cl, r.cache)
          /\ PushRaw(cl, WithBase(reader[cl].raw, "COMP_BASE", base))
          /\ ReaderOnly
       \/ base = Junk /\ Exit

-----------------------------------------------------------------------------
(* DataDecoderThd *)

Msg(type, data, base) == [type |-> type, data |-> data, base |-> base]

DecoderOnly ==
  UNCHANGED <<containerVars, indexVars, fileVars, session, uploadVars, container_cache,
              reader, clientDownVars, server, countVars, historyVars>>

(* DecodeChunk: what the client gets for a raw chunk.                      *)
Decoded(raw) ==
  IF raw.stat = "COMP_BASE" THEN Msg("COMP_NORMAL", raw.input, Junk)
  ELSE IF raw.stat = "COMP_DELTA"
    THEN Msg("COMP_NORMAL", DeltaDecode(raw.base, raw.input), Junk)
  ELSE IF raw.base_type = "UNCOMP_BASE"
    THEN Msg("UNCOMP_NORMAL", DeltaDecode(raw.base, raw.input), Junk)
  ELSE IF raw.base_type = "COMP_BASE" THEN Msg("CACHE_RESTORE", raw.input, raw.base)
  ELSE Msg("MULTI_LEVEL", raw.input, Junk)

(* exit(): a base of the wrong kind, or a delta that does not decode.      *)
MayExit(raw) ==
  \/ raw.stat = "COMP_DELTA" /\ raw.base_type # "COMP_BASE"
  \/ /\ raw.stat = "COMP_DELTA" \/ raw.base_type = "UNCOMP_BASE"
     /\ Decoded(raw).data = Junk

DecodeChunk(cl) ==
  /\ decoder[cl].at = "pop" /\ mq[cl] # <<>>
  /\ LET raw == Head(mq[cl])
         send_buf == Append(decoder[cl].send_buf, Decoded(raw))
     IN
     \/ /\ ~(raw.stat = "COMP_DELTA" /\ raw.base_type # "COMP_BASE")
        /\ mq' = [mq EXCEPT ![cl] = Tail(@)]
        /\ decoder' = [decoder EXCEPT ![cl] =
             [at |-> IF Len(send_buf) % ChunkBatch = 0 THEN "send" ELSE "pop",
              send_buf |-> send_buf]]
        /\ UNCHANGED wire
        /\ DecoderOnly
     \/ MayExit(raw) /\ Exit

(* _done, and nothing in the queue.                                        *)
AllDecoded(cl) ==
  /\ decoder[cl].at = "pop" /\ reader[cl].at = "end" /\ mq[cl] = <<>>
  /\ decoder' = [decoder EXCEPT ![cl].at =
                   IF decoder[cl].send_buf = <<>> THEN "final" ELSE "tail"]
  /\ UNCHANGED <<mq, wire>>
  /\ DecoderOnly

(* SendChunks and SendEnd.  Sending to a client that is gone may fail, and *)
(* then the whole server exits.                                            *)
Deliver(cl, batch) ==
  wire' = [wire EXCEPT ![cl] = IF retriever[cl].at = "dead" THEN @ ELSE Append(@, batch)]

SendChunks(cl) ==
  /\ decoder[cl].at \in {"send", "tail"}
  /\ \/ /\ Deliver(cl, decoder[cl].send_buf)
        /\ decoder' = [decoder EXCEPT ![cl] =
             [at |-> IF decoder[cl].at = "send" THEN "pop" ELSE "final",
              send_buf |-> <<>>]]
        /\ UNCHANGED mq
        /\ DecoderOnly
     \/ retriever[cl].at = "dead" /\ Exit

FinalMsg == <<>>

SendEnd(cl) ==
  /\ decoder[cl].at = "final"
  /\ \/ /\ Deliver(cl, FinalMsg)
        /\ decoder' = [decoder EXCEPT ![cl].at = "wait"]
        /\ UNCHANGED mq
        /\ DecoderOnly
     \/ retriever[cl].at = "dead" /\ Exit

(* The client closes the connection, or it broke.  A faulty variant: only  *)
(* an orderly close counts.                                                *)
OrderlyClosed(cl) ==
  /\ decoder[cl].at = "wait" /\ retriever[cl].at = "closing"
  /\ decoder' = [decoder EXCEPT ![cl].at = "end"]
  /\ UNCHANGED <<mq, wire>>
  /\ DecoderOnly

ClientClosed(cl) ==
  /\ decoder[cl].at = "wait" /\ retriever[cl].at \in {"closing", "dead"}
  /\ decoder' = [decoder EXCEPT ![cl].at = "end"]
  /\ UNCHANGED <<mq, wire>>
  /\ DecoderOnly

(* Both threads are joined and the client's variables deleted.             *)
DownloadEnd(cl) ==
  /\ session[cl] = "download"
  /\ reader[cl].at = "end" /\ decoder[cl].at = "end"
  /\ session' = [session EXCEPT ![cl] = "off"]
  /\ UNCHANGED <<containerVars, indexVars, fileVars, uploadVars, container_cache,
                 serverDownVars, wire, clientDownVars, server, countVars, historyVars>>

-----------------------------------------------------------------------------
(* The client: DataRetrieverThd (FullEDR) and DownloadWriterThd *)

ClientOnly ==
  UNCHANGED <<containerVars, indexVars, fileVars, session, uploadVars, container_cache,
              serverDownVars, server, n_download, historyVars>>

Receiving(cl) == retriever[cl].at = "recv" /\ wire[cl] # <<>>

(* The key for the next chunk: FetchKeyRecipe reads the next batch of keys *)
(* once the last one is used up.                                           *)
(* A faulty variant: the file is read from its start each time.            *)
Prefix(s, n) == SubSeq(s, 1, IF n < Len(s) THEN n ELSE Len(s))
KeysFromStart(cl) ==
  IF retriever[cl].keys # <<>> THEN retriever[cl].keys
  ELSE Prefix(key_recipe[cl], RecipeBatch)

Keys(cl) ==
  IF retriever[cl].keys # <<>> THEN retriever[cl].keys
  ELSE Prefix(SubSeq(key_recipe[cl], retriever[cl].n_key + 1, Len(key_recipe[cl])),
              RecipeBatch)

(* The chunk that the client restores.  The base of a cache delta is       *)
(* decrypted and encrypted again with the key of the chunk itself.  A      *)
(* multi-level delta is written as it came, which is never the chunk.      *)
Restored(msg, key) ==
  CASE msg.type = "COMP_NORMAL" -> ProcComp(msg.data, key)
    [] msg.type = "UNCOMP_NORMAL" -> ProcUncomp(msg.data, key)
    [] msg.type = "CACHE_RESTORE" ->
         ProcUncomp(DeltaDecode(ProcRestoreBase(msg.base, key), msg.data), key)
    [] msg.type = "MULTI_LEVEL" -> NoBase

Dies(cl) ==
  /\ retriever' = [retriever EXCEPT ![cl].at = "dead"]
  /\ writer' = [writer EXCEPT ![cl] = "off"]
  /\ wire' = [wire EXCEPT ![cl] = <<>>]

RecvChunk(cl) ==
  /\ Receiving(cl) /\ Head(wire[cl]) # FinalMsg
  /\ LET batch == Head(wire[cl])
         keys == Keys(cl)
         chunk == Restored(Head(batch), Head(keys))
     IN
     \/ /\ retriever' = [retriever EXCEPT ![cl] =
             [at |-> "recv", n_key |-> @.n_key + 1, keys |-> Tail(keys),
              out |-> Append(@.out, chunk)]]
        /\ wire' = [wire EXCEPT ![cl] =
             IF Len(batch) = 1 THEN Tail(@) ELSE <<Tail(batch)>> \o Tail(@)]
        /\ UNCHANGED writer
     \/ Head(batch).type = "CACHE_RESTORE" /\ chunk = NoBase /\ Dies(cl)
  /\ UNCHANGED n_death
  /\ ClientOnly

(* SERVER_RESTORE_FINAL: Finish sends its close, and waits for the answer. *)
RecvFinal(cl) ==
  /\ Receiving(cl) /\ Head(wire[cl]) = FinalMsg
  /\ retriever' = [retriever EXCEPT ![cl].at = "closing"]
  /\ wire' = [wire EXCEPT ![cl] = Tail(@)]
  /\ UNCHANGED <<writer, n_death>>
  /\ ClientOnly

Finish(cl) ==
  /\ retriever[cl].at = "closing" /\ decoder[cl].at = "end"
  /\ retriever' = [retriever EXCEPT ![cl].at = "done"]
  /\ UNCHANGED <<writer, wire, n_death>>
  /\ ClientOnly

(* DownloadWriterThd has written all that was pushed, and the queue is     *)
(* _done: what it writes is what it gets, in order (LckFreeMQ).            *)
WriterEnd(cl) ==
  /\ writer[cl] = "run" /\ retriever[cl].at = "done"
  /\ writer' = [writer EXCEPT ![cl] = "end"]
  /\ UNCHANGED <<retriever, wire, n_death>>
  /\ ClientOnly

(* The client is killed while it receives, or loses its server.            *)
ClientDies(cl) ==
  /\ retriever[cl].at = "recv"
  /\ n_death < MaxDeath
  /\ n_death' = n_death + 1
  /\ Dies(cl)
  /\ ClientOnly

ServerGone(cl) ==
  /\ server = "exit"
  /\ \/ retriever[cl].at = "recv" /\ wire[cl] = <<>>
     \/ retriever[cl].at = "closing"
  /\ Dies(cl)
  /\ UNCHANGED n_death
  /\ ClientOnly

-----------------------------------------------------------------------------
(* A server that exited does nothing any more, its clients may go on.      *)

ServerDownload(cl) ==
  \/ ReadRecipe(cl) \/ FetchChunk(cl) \/ ProcNormalDelta(cl) \/ ProcCacheDelta(cl)
  \/ DecodeBase(cl) \/ DecodeChunk(cl) \/ AllDecoded(cl) \/ SendChunks(cl)
  \/ SendEnd(cl) \/ ClientClosed(cl) \/ DownloadEnd(cl)

ClientDownload(cl) ==
  \/ RecvChunk(cl) \/ RecvFinal(cl) \/ Finish(cl)
  \/ WriterEnd(cl) \/ ServerGone(cl)

ServerStep(cl) == server = "up" /\ (Upload(cl) \/ DownloadStart(cl) \/ ServerDownload(cl))

Next == \E cl \in Client : ServerStep(cl) \/ ClientDownload(cl) \/ ClientDies(cl)

Spec == Init /\ [][Next]_vars

(* As long as a thread of a download can take a step, one of them does, in *)
(* the server and in a client that lives; nobody has to start a session,   *)
(* to upload or to die.                                                    *)
Fairness ==
  \A cl \in Client : /\ WF_vars(server = "up" /\ ServerDownload(cl))
                     /\ WF_vars(ClientDownload(cl))

FairSpec == Spec /\ Fairness
-----------------------------------------------------------------------------
(* Properties *)

Type == {"none", "virtual", "COMP_BASE", "COMP_DELTA", "CACHE_DELTA", "UNCOMP_BASE",
         "MULTI_LEVEL"}
Stored == Bytes \cup {Junk}
RawChunk == [stat : Type, input : Stored, base_type : Type, base : Stored]
Message == [type : {"COMP_NORMAL", "UNCOMP_NORMAL", "CACHE_RESTORE", "MULTI_LEVEL"},
            data : Stored, base : Stored]

(* The shape of the state (ClientVar, and the variables of the threads):   *)
(* in particular no container outgrows MAX_CONTAINER_SIZE, whichever way a *)
(* chunk comes to be written.                                              *)
TypeOK ==
  /\ ContainerTypeOK(Bytes)
  /\ addr \in [Chunk -> Addr]
  /\ cached \in [Client -> SUBSET Chunk]
  /\ \A cl \in Client :
       /\ versions[cl] \in Seq(Seq(Chunk)) /\ recipe[cl] \in Seq(Chunk)
       /\ key_recipe[cl] \in Seq(Key)
       /\ session[cl] \in {"off", "upload", "tail", "download"}
       /\ pending[cl].chunk \in Chunk \cup {NoBase}
       /\ pending[cl].bytes \in Seq(Bytes)
       /\ n_upload[cl] \in 0 .. Len(versions[cl])
       /\ reader[cl].at \in {"off", "read", "fetch", "base", "base_base", "end"}
       /\ reader[cl].batch \in Seq(Chunk) /\ reader[cl].raw \in RawChunk
       /\ mq[cl] \in Seq(RawChunk)
       /\ decoder[cl].at \in {"off", "pop", "send", "tail", "final", "wait", "end"}
       /\ decoder[cl].send_buf \in Seq(Message)
       /\ wire[cl] \in Seq(Seq(Message))
       /\ retriever[cl].at \in {"off", "recv", "closing", "done", "dead"}
       /\ retriever[cl].keys \in Seq(Key)
       /\ retriever[cl].out \in Seq(Chunk \cup {NoBase})
       /\ writer[cl] \in {"off", "run", "end"}
       /\ doubtful[cl] \subseteq Chunk
  /\ server \in {"up", "exit"}
  /\ n_download \in 0 .. MaxDownload /\ n_death \in 0 .. MaxDeath
  /\ overlapped \in BOOLEAN

(* A file that DownloadWriterThd has written to its end is, chunk for      *)
(* chunk and in the same order, the file of the upload: whatever form a    *)
(* chunk was stored in, whatever of the base is still cached, however the  *)
(* recipe, the messages and the keys are cut into batches, whatever other  *)
(* clients do meanwhile.  The exception are chunks whose bytes were not    *)
(* in completely written files when the download began.                    *)
RestoredIsUploaded ==
  \A cl \in Client : writer[cl] = "end" =>
    LET out == retriever[cl].out IN
    /\ Len(out) = Len(FileOf(cl))
    /\ \A i \in DOMAIN out : out[i] # FileOf(cl)[i] => FileOf(cl)[i] \in doubtful[cl]

(* As long as no two uploads were in progress at once, the only chunks in  *)
(* doubt are the deltas of a delta of a cached chunk, of which the reader  *)
(* says that they "should [be] avoid[ed]" (data_reader_thd.cc:235):        *)
(* SaveContainer at a full container and at the end of the session leaves  *)
(* nothing of an upload behind, and EvictFeature may drop any base.        *)
NoDoubtAfterSerialUploads ==
  ~overlapped => \A cl \in Client : \A c \in doubtful[cl] : MultiLevel(c)

(* No thread of a download stops the server (the exits of data_reader_thd, *)
(* data_decoder_thd and DeltaDecode) unless a chunk was in doubt or a      *)
(* client died while it was being served.                                  *)
ExitOnlyInDoubt ==
  server = "exit" => n_death > 0 \/ \E cl \in Client : doubtful[cl] # {}

(* The container cache of each session is what readCache.cc and the LRU    *)
(* list promise together: a name leads to a slot of its own, and in that   *)
(* slot is what was read from the file of that name, all of it or, if the  *)
(* file was still being written, its beginning.                            *)
BeginsWith(s, t) == Len(t) <= Len(s) /\ \A i \in DOMAIN t : t[i] = s[i]
ContainerFile(id) == IF IsSaved(id) THEN saved[id[1]][id[2]] ELSE cur[id[1]]
CacheFaithful(cl) ==
  /\ CacheOK(container_cache[cl])
  /\ \A id \in CachedNames(container_cache[cl]) :
       BeginsWith(ContainerFile(id), CachedData(container_cache[cl], id))
CachesFaithful == \A cl \in Client : CacheFaithful(cl)

(* Every download comes to its end, unless the server exits: the reader    *)
(* finishes, the decoder sends the incomplete batch and the end, both ends *)
(* of the connection close, or the client is dead; and a client that began *)
(* is not left waiting for ever.                                           *)
InDownload(cl) == session[cl] = "download" \/ retriever[cl].at \in {"recv", "closing"}
ClientEnded(cl) == writer[cl] = "end" \/ retriever[cl].at = "dead"
DownloadEnds ==
  \A cl \in Client :
    InDownload(cl) ~> ClientEnded(cl) /\ (session[cl] = "off" \/ server = "exit")
=============================================================================
