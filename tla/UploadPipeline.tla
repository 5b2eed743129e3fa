---------------------------- MODULE UploadPipeline ----------------------------
(***************************************************************************)
(* The storage server's upload path: for every connected client a pipeline *)
(* of four threads, DataRecvThd -> DualDedupThd -> CacheCompThd ->         *)
(* DataWriterThd, joined by queues (AbsMQ), over state all clients share:  *)
(* the fp index fp_2_addr_db, the feature index feature_2_fp_db and the    *)
(* container files.  An index locks each query and each insert by itself.  *)
(*                                                                         *)
(* FeaturesOf stands for the features of the compressed chunk.  Of the     *)
(* client's inform cache only its bases are kept here (InformedCache has   *)
(* the rest): the client sends a chunk with its compressed form, and the   *)
(* chunk is cached, or uncompressed, and CacheCompThd then finds a base.   *)
(***************************************************************************)
EXTENDS SimilarPolicy, ContainerStore

CONSTANTS
  Method,          \* a client's method: "FULL_EDR" (-m 2) or "NORMAL" (-m 0, -m 1)
  MaxChunk,        \* bound: chunks in all uploads together
  MaxActive        \* how many clients may be connected at the same time

ASSUME PipelineAssumption ==
  /\ Method \in [Client -> {"FULL_EDR", "NORMAL"}]
  /\ MaxChunk \in Nat /\ MaxActive \in Nat

VARIABLES
  fp_2_addr, feature_2_fp,        \* the indexes every client shares
  recipe,       \* the fps in the client's recipe
  cached,       \* the bases in the client's inform cache
  n_chunk,      \* chunks received so far, of all clients
  mq,           \* the queues between the client's threads
  recv, dual, comp, writer,       \* where the client's threads are
  recv_hand, dual_hand,           \* what a thread holds between two steps
  writer_hand,
  torn_cached,  \* containers that the client's ReadCache may hold cut short
  server        \* "up", or "exit" when a thread called exit()

clientVars == <<recipe, cached, n_chunk>>
recvVars == <<recv, recv_hand>>
dualVars == <<dual, dual_hand>>
writerVars == <<writer, writer_hand, torn_cached>>
vars == <<fp_2_addr, feature_2_fp, containerVars, clientVars, mq,
          recvVars, dualVars, comp, writerVars, server>>

(* KeyForChunkHashDB_t.  DetectDuplicate inserts an address nobody filled  *)
(* in yet, "virtual", whose container id names no container.               *)
Stat == {"none", "virtual", "COMP_BASE", "COMP_DELTA", "CACHE_DELTA"}
Addr == [stat : Stat, container_id : ContainerId \cup {NoBase}, offset : Nat,
         base_fp : Chunk \cup {NoBase}]
NoAddr == [stat |-> "none", container_id |-> NoBase, offset |-> 0,
           base_fp |-> NoBase]
Virtual == [NoAddr EXCEPT !.stat = "virtual"]
IsReal(addr) == addr.stat \notin {"none", "virtual"}

(* What a delta was encoded against: the bytes ReadChunk found there, if   *)
(* it found any ("none" is for what is not a delta of a stored chunk).     *)
Read == {"none", "whole", "torn", "nothing"}
Stored == [chunk : Chunk, stat : Stat, read : Read]

Queue == {"recv_2_dual", "dual_2_comp", "comp_2_writer"}
Item == [stat : {"CHUNK_PAIR", "SINGLE_CHUNK", "UNIQUE_CHUNK",
                 "UNIQUE_CHUNK_AFTER_CACHE", "CACHE_DELTA_CHUNK"},
         chunk : Chunk, base : Chunk \cup {NoBase}]
Hand == [chunk : Chunk \cup {NoBase}, base_addr : Addr, read : Read, addr : Addr]
EmptyHand == [chunk |-> NoBase, base_addr |-> NoAddr, read |-> "none",
              addr |-> NoAddr]

TypeOK ==
  /\ fp_2_addr \in [Chunk -> Addr]
  /\ feature_2_fp \in Index
  /\ ContainerTypeOK(Stored)
  /\ recipe \in [Client -> SUBSET Chunk]
  /\ cached \in [Client -> SUBSET Chunk]
  /\ n_chunk \in Nat
  /\ mq \in [Client -> [Queue -> Seq(Item)]]
  /\ recv \in [Client -> {"off", "recv", "insert", "end"}]
  /\ dual \in [Client -> {"pop", "insert", "end"}]
  /\ comp \in [Client -> {"pop", "end"}]
  /\ writer \in [Client -> {"pop", "query", "read", "direct", "write", "index",
                            "addr", "tail", "end"}]
  /\ recv_hand \in [Client -> Chunk \cup {NoBase}]
  /\ dual_hand \in [Client -> Item \cup {NoBase}]
  /\ writer_hand \in [Client -> Hand]
  /\ torn_cached \in [Client -> SUBSET ContainerId]
  /\ server \in {"up", "exit"}

Init ==
  /\ fp_2_addr = [c \in Chunk |-> NoAddr]
  /\ feature_2_fp = EmptyIndex
  /\ ContainerInit
  /\ recipe = [cl \in Client |-> {}]
  /\ cached = [cl \in Client |-> {}]
  /\ n_chunk = 0
  /\ mq = [cl \in Client |-> [q \in Queue |-> <<>>]]
  /\ recv = [cl \in Client |-> "off"]
  /\ dual = [cl \in Client |-> "pop"]
  /\ comp = [cl \in Client |-> "pop"]
  /\ writer = [cl \in Client |-> "pop"]
  /\ recv_hand = [cl \in Client |-> NoBase]
  /\ dual_hand = [cl \in Client |-> NoBase]
  /\ writer_hand = [cl \in Client |-> EmptyHand]
  /\ torn_cached = [cl \in Client |-> {}]
  /\ server = "up"

-----------------------------------------------------------------------------
(* Queues *)

Msg(stat, c, b) == [stat |-> stat, chunk |-> c, base |-> b]
Push(cl, q, item) == mq' = [mq EXCEPT ![cl][q] = Append(@, item)]
HasItem(cl, q, stat) == mq[cl][q] # <<>> /\ Head(mq[cl][q]).stat = stat
Pop(cl, q) == mq' = [mq EXCEPT ![cl][q] = Tail(@)]
Forward(cl, from, to, item) ==
  mq' = [mq EXCEPT ![cl][from] = Tail(@), ![cl][to] = Append(@, item)]

Active(cl) == recv[cl] # "off" /\ writer[cl] # "end"

-----------------------------------------------------------------------------
(* DataRecvThd *)

SessionStart(cl) ==
  /\ recv[cl] = "off"
  /\ Cardinality({d \in Client : Active(d)}) < MaxActive
  /\ recv' = [recv EXCEPT ![cl] = "recv"]
  /\ UNCHANGED <<fp_2_addr, feature_2_fp, containerVars, clientVars, mq, recv_hand,
                 dualVars, comp, writerVars, server>>

(* ProcessChunks on a chunk of method FULL_EDR, and ProcessRecipe.  A base *)
(* that is cached is found again, so the client does not send it to cache. *)
RecvFullEDR(cl, c) ==
  /\ Method[cl] = "FULL_EDR"
  /\ recv[cl] = "recv" /\ n_chunk < MaxChunk
  /\ n_chunk' = n_chunk + 1
  /\ recipe' = [recipe EXCEPT ![cl] = @ \cup {c}]
  /\ \/ /\ c \notin cached[cl]
        /\ cached' = [cached EXCEPT ![cl] = @ \cup {c}]
        /\ Push(cl, "recv_2_dual", Msg("CHUNK_PAIR", c, NoBase))
     \/ \E b \in cached[cl] :
          /\ Push(cl, "recv_2_dual", Msg("SINGLE_CHUNK", c, b))
          /\ UNCHANGED cached
  /\ UNCHANGED <<fp_2_addr, feature_2_fp, containerVars, recvVars, dualVars, comp,
                 writerVars, server>>

(* On a NORMAL_CHUNK it is DataRecvThd that asks the fp index; a chunk it  *)
(* finds there is only added to the recipe.                                *)
RecvNormal(cl, c) ==
  /\ Method[cl] = "NORMAL"
  /\ recv[cl] = "recv" /\ n_chunk < MaxChunk
  /\ n_chunk' = n_chunk + 1
  /\ \/ /\ fp_2_addr[c] = NoAddr
        /\ recv' = [recv EXCEPT ![cl] = "insert"]
        /\ recv_hand' = [recv_hand EXCEPT ![cl] = c]
        /\ UNCHANGED recipe
     \/ /\ fp_2_addr[c] # NoAddr
        /\ recipe' = [recipe EXCEPT ![cl] = @ \cup {c}]
        /\ UNCHANGED recvVars
  /\ UNCHANGED <<fp_2_addr, feature_2_fp, containerVars, cached, mq, dualVars,
                 comp, writerVars, server>>

RecvInsert(cl) ==
  /\ recv[cl] = "insert"
  /\ LET c == recv_hand[cl] IN
     /\ fp_2_addr' = [fp_2_addr EXCEPT ![c] = Virtual]
     /\ recipe' = [recipe EXCEPT ![cl] = @ \cup {c}]
     /\ Push(cl, "recv_2_dual", Msg("UNIQUE_CHUNK", c, NoBase))
  /\ recv' = [recv EXCEPT ![cl] = "recv"]
  /\ recv_hand' = [recv_hand EXCEPT ![cl] = NoBase]
  /\ UNCHANGED <<feature_2_fp, containerVars, cached, n_chunk, dualVars, comp,
                 writerVars, server>>

(* The client closed its connection: the queue is _done.                   *)
RecvEnd(cl) ==
  /\ recv[cl] = "recv"
  /\ recv' = [recv EXCEPT ![cl] = "end"]
  /\ UNCHANGED <<fp_2_addr, feature_2_fp, containerVars, clientVars, mq, recv_hand,
                 dualVars, comp, writerVars, server>>

-----------------------------------------------------------------------------
(* DualDedupThd: DetectDuplicate asks the fp index and then, unlocked in   *)
(* between, claims the chunk by inserting its unset address.               *)

ForComp(item) ==
  [item EXCEPT !.stat = IF @ = "CHUNK_PAIR" THEN "UNIQUE_CHUNK_AFTER_CACHE"
                                            ELSE "UNIQUE_CHUNK"]

DualPop(cl) ==
  /\ dual[cl] = "pop"
  /\ \/ HasItem(cl, "recv_2_dual", "CHUNK_PAIR")
     \/ HasItem(cl, "recv_2_dual", "SINGLE_CHUNK")
  /\ Pop(cl, "recv_2_dual")
  /\ LET item == Head(mq[cl].recv_2_dual) IN
     \/ /\ fp_2_addr[item.chunk] # NoAddr
        /\ UNCHANGED dualVars
     \/ /\ fp_2_addr[item.chunk] = NoAddr
        /\ dual' = [dual EXCEPT ![cl] = "insert"]
        /\ dual_hand' = [dual_hand EXCEPT ![cl] = item]
  /\ UNCHANGED <<fp_2_addr, feature_2_fp, containerVars, clientVars, recvVars,
                 comp, writerVars, server>>

(* A faulty variant: the chunk is passed on without being claimed.         *)
DualPassOn(cl) ==
  /\ dual[cl] = "insert"
  /\ Push(cl, "dual_2_comp", ForComp(dual_hand[cl]))
  /\ dual' = [dual EXCEPT ![cl] = "pop"]
  /\ dual_hand' = [dual_hand EXCEPT ![cl] = NoBase]
  /\ UNCHANGED <<fp_2_addr, feature_2_fp, containerVars, clientVars, recvVars, comp,
                 writerVars, server>>

DualInsert(cl) ==
  /\ dual[cl] = "insert"
  /\ LET item == dual_hand[cl] IN
     /\ fp_2_addr' = [fp_2_addr EXCEPT ![item.chunk] = Virtual]
     /\ Push(cl, "dual_2_comp", ForComp(item))
  /\ dual' = [dual EXCEPT ![cl] = "pop"]
  /\ dual_hand' = [dual_hand EXCEPT ![cl] = NoBase]
  /\ UNCHANGED <<feature_2_fp, containerVars, clientVars, recvVars, comp, writerVars,
                 server>>

(* The default of its switch: "wrong chunk input type".                    *)
DualExit(cl) ==
  /\ dual[cl] = "pop"
  /\ HasItem(cl, "recv_2_dual", "UNIQUE_CHUNK")
  /\ Pop(cl, "recv_2_dual")
  /\ server' = "exit"
  /\ UNCHANGED <<fp_2_addr, feature_2_fp, containerVars, clientVars, recvVars,
                 dualVars, comp, writerVars>>

DualEnd(cl) ==
  /\ dual[cl] = "pop"
  /\ recv[cl] = "end" /\ mq[cl].recv_2_dual = <<>>
  /\ dual' = [dual EXCEPT ![cl] = "end"]
  /\ UNCHANGED <<fp_2_addr, feature_2_fp, containerVars, clientVars, mq, recvVars,
                 dual_hand, comp, writerVars, server>>

-----------------------------------------------------------------------------
(* CacheCompThd: a chunk that came with its compressed form goes on as it  *)
(* is, one that came uncompressed as a delta of its cached base.           *)

CompAfterCache(cl) ==
  /\ comp[cl] = "pop"
  /\ HasItem(cl, "dual_2_comp", "UNIQUE_CHUNK_AFTER_CACHE")
  /\ Forward(cl, "dual_2_comp", "comp_2_writer",
             [Head(mq[cl].dual_2_comp) EXCEPT !.stat = "UNIQUE_CHUNK"])
  /\ UNCHANGED <<fp_2_addr, feature_2_fp, containerVars, clientVars, recvVars,
                 dualVars, comp, writerVars, server>>

CompUnique(cl) ==
  /\ comp[cl] = "pop"
  /\ HasItem(cl, "dual_2_comp", "UNIQUE_CHUNK")
  /\ Forward(cl, "dual_2_comp", "comp_2_writer",
             [Head(mq[cl].dual_2_comp) EXCEPT !.stat = "CACHE_DELTA_CHUNK"])
  /\ UNCHANGED <<fp_2_addr, feature_2_fp, containerVars, clientVars, recvVars,
                 dualVars, comp, writerVars, server>>

(* A faulty variant: the thread leaves without setting _done.              *)
CompEndWithoutDone(cl) ==
  /\ comp[cl] = "pop"
  /\ dual[cl] = "end" /\ mq[cl].dual_2_comp = <<>>
  /\ UNCHANGED vars

CompEnd(cl) ==
  /\ comp[cl] = "pop"
  /\ dual[cl] = "end" /\ mq[cl].dual_2_comp = <<>>
  /\ comp' = [comp EXCEPT ![cl] = "end"]
  /\ UNCHANGED <<fp_2_addr, feature_2_fp, containerVars, clientVars, mq, recvVars,
                 dualVars, writerVars, server>>

-----------------------------------------------------------------------------
(* DataWriterThd and StorageCore *)

WriterGo(cl, step) == writer' = [writer EXCEPT ![cl] = step]

(* What the writer knows of a popped chunk: what it will be stored as, and *)
(* the base it is (to be) a delta of.                                      *)
HandOf(c, stat, b) ==
  [EmptyHand EXCEPT !.chunk = c,
                    !.addr = [NoAddr EXCEPT !.stat = stat, !.base_fp = b]]

PopCacheDelta(cl) ==
  /\ writer[cl] = "pop"
  /\ HasItem(cl, "comp_2_writer", "CACHE_DELTA_CHUNK")
  /\ Pop(cl, "comp_2_writer")
  /\ LET item == Head(mq[cl].comp_2_writer) IN
     writer_hand' = [writer_hand EXCEPT ![cl] =
                       HandOf(item.chunk, "CACHE_DELTA", item.base)]
  /\ WriterGo(cl, "write")
  /\ UNCHANGED <<fp_2_addr, feature_2_fp, containerVars, clientVars, recvVars,
                 dualVars, comp, torn_cached, server>>

PopUnique(cl) ==
  /\ writer[cl] = "pop"
  /\ HasItem(cl, "comp_2_writer", "UNIQUE_CHUNK")
  /\ Pop(cl, "comp_2_writer")
  /\ LET c == Head(mq[cl].comp_2_writer).chunk IN
     \/ /\ IsSimilar(feature_2_fp, c)
        /\ writer_hand' = [writer_hand EXCEPT ![cl] =
                             HandOf(c, "COMP_DELTA", FindBaseChunk(feature_2_fp, c))]
        /\ WriterGo(cl, "query")
     \/ /\ ~IsSimilar(feature_2_fp, c)
        /\ writer_hand' = [writer_hand EXCEPT ![cl] = HandOf(c, "COMP_BASE", NoBase)]
        /\ WriterGo(cl, "write")
  /\ UNCHANGED <<fp_2_addr, feature_2_fp, containerVars, clientVars, recvVars,
                 dualVars, comp, torn_cached, server>>

(* FetchBaseChunk, step 1: "req base chunk not exits" stops the server.    *)
QueryBaseAddr(cl) ==
  /\ writer[cl] = "query"
  /\ LET base_addr == fp_2_addr[writer_hand[cl].addr.base_fp] IN
     \/ /\ base_addr = NoAddr
        /\ server' = "exit"
        /\ UNCHANGED writerVars
     \/ /\ base_addr # NoAddr
        /\ writer_hand' = [writer_hand EXCEPT ![cl].base_addr = base_addr]
        /\ WriterGo(cl, "read")
        /\ UNCHANGED <<torn_cached, server>>
  /\ UNCHANGED <<fp_2_addr, feature_2_fp, containerVars, clientVars, mq, recvVars,
                 dualVars, comp>>

(* What ReadChunk may find at an address: it looks into the client's cache *)
(* of containers, then for a container file, which another client may be   *)
(* writing, and only then into the client's own current container.  What   *)
(* an LRU cache drops is left open: a cut copy may still be there.         *)
ReadChunk(cl, addr) ==
  LET id == addr.container_id IN
  IF addr.stat = "virtual" THEN {"nothing"}
  ELSE IF IsOpened(id) THEN {"whole", "torn"}
  ELSE IF IsSaved(id) THEN {"whole"} \cup (IF id \in torn_cached[cl] THEN {"torn"} ELSE {})
  ELSE IF id[1] = cl THEN {"whole"}
  ELSE {"nothing"}

(* A container file that is read goes into the cache as it was read.       *)
CacheContainer(cl, addr) ==
  torn_cached' = [torn_cached EXCEPT ![cl] = @ \cup
                    {id \in {addr.container_id} \cap ContainerId : IsOpened(id)}]

(* FetchBaseChunk, step 2, and ProcSimilarChunk's test for no bytes.       *)
ReadBase(cl) ==
  /\ writer[cl] = "read"
  /\ \E r \in ReadChunk(cl, writer_hand[cl].base_addr) :
       /\ writer_hand' = [writer_hand EXCEPT ![cl].read = r, ![cl].base_addr = NoAddr]
       /\ WriterGo(cl, IF r = "nothing" THEN "direct" ELSE "write")
  /\ CacheContainer(cl, writer_hand[cl].base_addr)
  /\ UNCHANGED <<fp_2_addr, feature_2_fp, containerVars, clientVars, mq, recvVars,
                 dualVars, comp, server>>

(* WriteChunk: with no room left, the container is saved first.           *)
(* Faulty variant: no tail container.                                      *)
MustSaveNoTail(cl) == writer[cl] \in {"direct", "write"} /\ ~HasRoom(cl)
MustSave(cl) ==
  \/ writer[cl] \in {"direct", "write"} /\ ~HasRoom(cl)
  \/ writer[cl] = "tail" /\ cur[cl] # <<>>

SaveOpen(cl) ==
  /\ MustSave(cl)
  /\ OpenFile(cl)
  /\ UNCHANGED <<fp_2_addr, feature_2_fp, clientVars, mq, recvVars,
                 dualVars, comp, writerVars, server>>

SaveClose(cl) ==
  /\ CloseFile(cl)
  /\ UNCHANGED <<fp_2_addr, feature_2_fp, clientVars, mq, recvVars, dualVars, comp,
                 writerVars, server>>

WriteChunk(cl, stat) ==
  LET place == [container_id |-> CurId(cl), offset |-> NextOffset(cl)] IN
  /\ AddItem(cl, [chunk |-> writer_hand[cl].chunk, stat |-> stat,
                  read |-> writer_hand[cl].read])
  /\ writer_hand' = [writer_hand EXCEPT ![cl].addr.container_id = place.container_id,
                                        ![cl].addr.offset = place.offset]

(* "avoid delta, directly write" -- and then fall through to the delta.    *)
WriteDirect(cl) ==
  /\ writer[cl] = "direct"
  /\ WriteChunk(cl, "COMP_BASE")
  /\ WriterGo(cl, "write")
  /\ UNCHANGED <<fp_2_addr, feature_2_fp, clientVars, mq, recvVars,
                 dualVars, comp, torn_cached, server>>

(* A faulty variant: the features of a delta are published like a base's.  *)
WriteAndIndex(cl) ==
  /\ writer[cl] = "write"
  /\ WriteChunk(cl, writer_hand[cl].addr.stat)
  /\ WriterGo(cl, "index")
  /\ UNCHANGED <<fp_2_addr, feature_2_fp, clientVars, mq, recvVars,
                 dualVars, comp, torn_cached, server>>

Write(cl) ==
  /\ writer[cl] = "write"
  /\ WriteChunk(cl, writer_hand[cl].addr.stat)
  /\ WriterGo(cl, IF writer_hand[cl].addr.stat = "COMP_BASE" THEN "index" ELSE "addr")
  /\ UNCHANGED <<fp_2_addr, feature_2_fp, clientVars, mq, recvVars,
                 dualVars, comp, torn_cached, server>>

PublishFeatures(cl) ==
  /\ writer[cl] = "index"
  /\ feature_2_fp' = UpdateFeatureIndex(feature_2_fp, writer_hand[cl].chunk)
  /\ WriterGo(cl, "addr")
  /\ UNCHANGED <<fp_2_addr, containerVars, clientVars, mq, recvVars, dualVars, comp,
                 writer_hand, torn_cached, server>>

PublishAddr(cl) ==
  /\ writer[cl] = "addr"
  /\ fp_2_addr' = [fp_2_addr EXCEPT ![writer_hand[cl].chunk] = writer_hand[cl].addr]
  /\ writer_hand' = [writer_hand EXCEPT ![cl] = EmptyHand]
  /\ WriterGo(cl, "pop")
  /\ UNCHANGED <<feature_2_fp, containerVars, clientVars, mq, recvVars, dualVars,
                 comp, torn_cached, server>>

(* A faulty variant: the writer leaves its loop on _done alone.            *)
WriterTailOnDone(cl) ==
  /\ writer[cl] = "pop"
  /\ comp[cl] = "end"
  /\ WriterGo(cl, "tail")
  /\ UNCHANGED <<fp_2_addr, feature_2_fp, containerVars, clientVars, mq, recvVars,
                 dualVars, comp, writer_hand, torn_cached, server>>

WriterTail(cl) ==
  /\ writer[cl] = "pop"
  /\ comp[cl] = "end" /\ mq[cl].comp_2_writer = <<>>
  /\ WriterGo(cl, "tail")
  /\ UNCHANGED <<fp_2_addr, feature_2_fp, containerVars, clientVars, mq, recvVars,
                 dualVars, comp, writer_hand, torn_cached, server>>

WriterEnd(cl) ==
  /\ writer[cl] = "tail" /\ ~MustSave(cl)
  /\ WriterGo(cl, "end")
  /\ UNCHANGED <<fp_2_addr, feature_2_fp, containerVars, clientVars, mq, recvVars,
                 dualVars, comp, writer_hand, torn_cached, server>>

-----------------------------------------------------------------------------
RecvNext(cl) ==
  \/ \E c \in Chunk : RecvFullEDR(cl, c) \/ RecvNormal(cl, c)
  \/ RecvInsert(cl)
  \/ RecvEnd(cl)

DualNext(cl) == DualPop(cl) \/ DualInsert(cl) \/ DualExit(cl) \/ DualEnd(cl)

CompNext(cl) == CompAfterCache(cl) \/ CompUnique(cl) \/ CompEnd(cl)

WriterNext(cl) ==
  \/ PopCacheDelta(cl) \/ PopUnique(cl)
  \/ QueryBaseAddr(cl) \/ ReadBase(cl)
  \/ SaveOpen(cl) \/ SaveClose(cl)
  \/ WriteDirect(cl) \/ Write(cl)
  \/ PublishFeatures(cl) \/ PublishAddr(cl)
  \/ WriterTail(cl) \/ WriterEnd(cl)

Next ==
  /\ server = "up"
  /\ \E cl \in Client :
       \/ SessionStart(cl)
       \/ RecvNext(cl)
       \/ DualNext(cl)
       \/ CompNext(cl)
       \/ WriterNext(cl)

Spec == Init /\ [][Next]_vars

(* The threads are scheduled; the client sends what it has and closes.     *)
FairSpec ==
  Spec /\ \A cl \in Client :
    /\ WF_vars(server = "up" /\ RecvNext(cl))
    /\ WF_vars(server = "up" /\ DualNext(cl))
    /\ WF_vars(server = "up" /\ CompNext(cl))
    /\ WF_vars(server = "up" /\ WriterNext(cl))
-----------------------------------------------------------------------------
(* Properties *)

Containers(cl) == IF cur[cl] = <<>> THEN saved[cl] ELSE Append(saved[cl], cur[cl])
Places == UNION {{<<cl, n, i>> : n \in 1 .. Len(Containers(cl)), i \in 1 .. ContainerSize}
                   : cl \in Client}
HoldsItem(cl, n, i) ==
  n \in DOMAIN Containers(cl) /\ i \in DOMAIN Containers(cl)[n]
ItemAt(addr) == Containers(addr.container_id[1])[addr.container_id[2]][addr.offset]

RealChunks == {c \in Chunk : IsReal(fp_2_addr[c])}
Deltas == {c \in Chunk : fp_2_addr[c].stat = "COMP_DELTA"}
CacheDeltas == {c \in Chunk : fp_2_addr[c].stat = "CACHE_DELTA"}

(* What some thread or queue of a session still has to store; what is left *)
(* in a queue whose consumer has left its loop never gets there.           *)
Served(cl, q) ==
  CASE q = "recv_2_dual" -> dual[cl] # "end"
    [] q = "dual_2_comp" -> comp[cl] # "end"
    [] q = "comp_2_writer" -> writer[cl] \notin {"tail", "end"}

InFlight ==
  {c \in Chunk : \E cl \in Client : \E q \in Queue :
     Served(cl, q) /\ \E i \in DOMAIN mq[cl][q] : mq[cl][q][i].chunk = c}
    \cup {recv_hand[cl] : cl \in Client}
    \cup {dual_hand[cl].chunk : cl \in {d \in Client : dual[d] = "insert"}}
    \cup {writer_hand[cl].chunk : cl \in Client}

(* No thread of the upload path meets what its default or its missing-base *)
(* check stops the process for: above all a feature never leads to a base  *)
(* that the fp index does not know (data_writer_thd.cc:219).               *)
NoExit == server # "exit"

(* However sessions interleave and overwrite each other's entries, a real  *)
(* address in the fp index leads to bytes of that chunk, encoded the way   *)
(* the entry says (data_writer_thd.cc:109, storage_core.cc:131).           *)
AddrPointsHome ==
  \A c \in RealChunks :
    LET addr == fp_2_addr[c]
        at == addr.container_id
    IN /\ HoldsItem(at[1], at[2], addr.offset)
       /\ ItemAt(addr).chunk = c /\ ItemAt(addr).stat = addr.stat

(* A fingerprint in a recipe is in the fp index with a real address, or    *)
(* its chunk is still in some session's queues or threads: a duplicate     *)
(* dropped because of an unset address (dedup_detect.cc:38) is stored by   *)
(* whoever inserted that address.                                          *)
NothingLost ==
  server = "up" =>
    \A cl \in Client : recipe[cl] \subseteq RealChunks \cup InFlight

(* Once a session's writer has ended, everything in its recipe, and the    *)
(* base of every delta in it, is in a container file: the client may be    *)
(* told to download it (data_writer_thd.cc:117).                           *)
InFile(c) ==
  IsReal(fp_2_addr[c]) /\
    LET at == fp_2_addr[c].container_id IN at[2] <= Len(saved[at[1]])

UploadDurable ==
  \A cl \in Client : writer[cl] = "end" =>
    \A c \in recipe[cl] :
      InFile(c) /\ (fp_2_addr[c].base_fp # NoBase => InFile(fp_2_addr[c].base_fp))

(* DataReaderThd restores a delta with one more read: its base is another  *)
(* chunk, stored as a base, and the delta was encoded against all of it.   *)
Restorable ==
  /\ \A c \in Deltas :
       /\ fp_2_addr[fp_2_addr[c].base_fp].stat = "COMP_BASE"
       /\ ItemAt(fp_2_addr[c]).read = "whole"
  /\ \A c \in CacheDeltas : IsReal(fp_2_addr[fp_2_addr[c].base_fp])

(* Deduplication: no chunk is stored twice.                                *)
StoredOnce ==
  \A p, q \in {r \in Places : HoldsItem(r[1], r[2], r[3])} :
    p # q => Containers(p[1])[p[2]][p[3]].chunk # Containers(q[1])[q[2]][q[3]].chunk

(* "it is a similar chunk", "read its base chunk" (data_reader_thd.cc:115, *)
(* :156): a delta's base is a chunk other than itself.                     *)
NoSelfDelta == \A c \in Deltas : fp_2_addr[c].base_fp # c

(* A session that has begun is drained to its end, and its client's        *)
(* pipeline never waits on another's.                                      *)
SessionEnds == \A cl \in Client : recv[cl] # "off" ~> writer[cl] = "end"
=============================================================================
