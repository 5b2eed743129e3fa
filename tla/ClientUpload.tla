---------------------------- MODULE ClientUpload ----------------------------
(***************************************************************************)
(* Uploads from the clients' side: the threads of a client program, one    *)
(* function of each per chunk, the key manager they all ask, and the       *)
(* server's receiving thread, which writes the recipe.                     *)
(*                                                                         *)
(*   file -> KeyGenThd <-> key manager                                     *)
(*   key_gen_mq -> CipherSimilarThd, SelectCompThd -> select_comp_mq       *)
(*              -> SenderThd                                               *)
(*   key recipe <- SenderThd -> messages -> DataRecvThd -> recipe          *)
(*                                                                         *)
(* ChunkerFPThd and PlainSimilarThd only hand on the file's chunks, with   *)
(* their features, and CipherSimilarThd replaces these by the features of  *)
(* the encrypted chunk: one step with SelectCompThd here.  The queues are  *)
(* LckFreeMQ's; here they are never full.                                  *)
(* Storing what was received is UploadPipeline's.                          *)
(***************************************************************************)
EXTENDS KeyManager, Integers

CONSTANTS
  Files,           \* the files, sequences of chunks, each client may upload
  Methods,         \* and the methods it may use
  HeadOf,          \* the first bytes of a chunk, which its key depends on
  ChunkBatch,      \* send_chunk_batch_size_
  RecipeBatch,     \* send_recipe_batch_size_
  MaxDeath         \* bound: how many clients die

Method == {"only_enc", "enc_comp", "full_edr"}

ASSUME ClientUploadAssumption ==
  /\ Files \in [Client -> SUBSET Seq(Chunk)]
  /\ Methods \in [Client -> SUBSET Method]
  /\ DOMAIN HeadOf = Chunk
  /\ ChunkBatch \in Nat \ {0} /\ RecipeBatch \in Nat \ {0}
  /\ MaxDeath \in Nat

VARIABLES
  file, method,     \* of each client: what it uploads, and how
  client,           \* "run"; "closed" when its threads are joined; "gone"
  next,             \* KeyGenThd: how far it is in the file, and after it
  chunk_buf,        \* KeyGenThd: the batch it is filling
  asked,            \* KeyGenThd: it waits for the seeds of the batch
  key_gen_mq,
  cached,           \* CacheMeta: the cipher features of the inform cache
  select_comp_mq,
  send_buf,         \* SenderThd: the message it is filling
  key_buf,          \* SenderThd: the batch of keys
  key_recipe,       \* the file of keys
  wire,             \* messages to the server
  cur_chunk_num,    \* DataRecvThd: chunks it has read of the first message
  recipe_batch,
  recipe,           \* the recipe file: its head, and the fingerprints
  keys,             \* history: the keys KeyGenThd got for the file's chunks
  exited            \* history: programs that called exit(EXIT_FAILURE)

keyGenVars == <<next, chunk_buf, asked>>
senderVars == <<send_buf, key_buf, key_recipe>>
recvVars == <<cur_chunk_num, recipe_batch, recipe>>
fixedVars == <<file, method>>
clientVars == <<fixedVars, client, keyGenVars, key_gen_mq, cached, select_comp_mq,
                senderVars, wire, recvVars, keys, exited>>
vars == <<kmVars, clientVars>>

NoHead == -1
EmptyMsg == [items |-> <<>>, cur_item_num |-> 0]

Init ==
  /\ KmInit
  /\ file \in {f \in [Client -> UNION {Files[cl] : cl \in Client}] :
                 \A cl \in Client : f[cl] \in Files[cl]}
  /\ method \in {m \in [Client -> Method] : \A cl \in Client : m[cl] \in Methods[cl]}
  /\ client = [cl \in Client |-> "run"]
  /\ next = [cl \in Client |-> 0]
  /\ chunk_buf = [cl \in Client |-> <<>>]
  /\ asked = [cl \in Client |-> FALSE]
  /\ key_gen_mq = [cl \in Client |-> <<>>]
  /\ cached = [cl \in Client |-> {}]
  /\ select_comp_mq = [cl \in Client |-> <<>>]
  /\ send_buf = [cl \in Client |-> EmptyMsg]
  /\ key_buf = [cl \in Client |-> <<>>]
  /\ key_recipe = [cl \in Client |-> <<>>]
  /\ wire = [cl \in Client |-> <<>>]
  /\ cur_chunk_num = [cl \in Client |-> 0]
  /\ recipe_batch = [cl \in Client |-> <<>>]
  /\ recipe = [cl \in Client |-> [head |-> NoHead, fps |-> <<>>]]
  /\ keys = [cl \in Client |-> <<>>]
  /\ exited = {}

-----------------------------------------------------------------------------
(* What is computed of a chunk.                                            *)

(* Encryption, compression with padding, and hashes are injective and, as  *)
(* the padding's seed is taken from the chunk, deterministic.              *)
Raw(c) == <<"raw", c>>
Compressed(c) == <<"compressed", c>>
Enc(data, key) == <<"enc", data, key>>
Hash(data) == <<"hash", data>>

KeyOf(c, seed) == <<HeadOf[c], seed>>

(* Two-phase encryption keeps the features of what it encrypts, for a key. *)
CipherFeatures(c, key) == {<<f, key>> : f \in FeatureSet(c)}

(* place is history: which chunk of the file it is.                        *)
RecipeChunk(cl) ==
  [type |-> "recipe", c |-> NoBase, key |-> <<>>, place |-> Len(file[cl]) + 1]
EncChunk(c, seed, place) ==
  [type |-> "normal", c |-> c, key |-> KeyOf(c, seed), place |-> place]

-----------------------------------------------------------------------------
(* A program calls exit(EXIT_FAILURE), or a client dies: its connections   *)
(* break.  The last messages may be lost, but for one that DataRecvThd has *)
(* begun to read, and of the key recipe what the ofstream still had.       *)

Prefixes(s, kept) == {SubSeq(s, 1, n) : n \in kept .. Len(s)}
Opened(cl) == IF cur_chunk_num[cl] = 0 THEN 0 ELSE 1

Gone(cl) ==
  /\ client' = [client EXCEPT ![cl] = "gone"]
  /\ \E w \in Prefixes(wire[cl], Opened(cl)), k \in Prefixes(key_recipe[cl], 0) :
       /\ wire' = [wire EXCEPT ![cl] = w]
       /\ key_recipe' = [key_recipe EXCEPT ![cl] = k]
  /\ next' = [next EXCEPT ![cl] = 0]
  /\ chunk_buf' = [chunk_buf EXCEPT ![cl] = <<>>]
  /\ asked' = [asked EXCEPT ![cl] = FALSE]
  /\ key_gen_mq' = [key_gen_mq EXCEPT ![cl] = <<>>]
  /\ cached' = [cached EXCEPT ![cl] = {}]
  /\ select_comp_mq' = [select_comp_mq EXCEPT ![cl] = <<>>]
  /\ send_buf' = [send_buf EXCEPT ![cl] = EmptyMsg]
  /\ key_buf' = [key_buf EXCEPT ![cl] = <<>>]
  /\ UNCHANGED <<fixedVars, recvVars, keys>>

Died == {cl \in Client : client[cl] = "gone" /\ cl \notin exited}

Running(cl) == client[cl] \in {"run", "sent"}

Die(cl) ==
  /\ Running(cl) /\ Cardinality(Died) < MaxDeath
  /\ Gone(cl)
  /\ UNCHANGED <<kmVars, exited>>

-----------------------------------------------------------------------------
(* KeyGenThd *)

KeyGenRest == UNCHANGED <<fixedVars, client, cached, select_comp_mq, senderVars, wire,
                          recvVars, exited>>

(* AddChunkToBuf                                                           *)
PopChunk(cl) ==
  /\ ~asked[cl] /\ next[cl] < Len(file[cl])
  /\ Len(chunk_buf[cl]) < ChunkBatch
  /\ next' = [next EXCEPT ![cl] = @ + 1]
  /\ chunk_buf' = [chunk_buf EXCEPT ![cl] = Append(@, file[cl][next[cl] + 1])]
  /\ UNCHANGED <<kmVars, asked, key_gen_mq, keys>>
  /\ KeyGenRest

(* A batch is complete, or the recipe chunk has come.                      *)
BatchReady(cl) ==
  \/ Len(chunk_buf[cl]) = ChunkBatch
  \/ next[cl] = Len(file[cl]) /\ chunk_buf[cl] # <<>>

(* After the recipe chunk the connection to the key manager is closed.     *)
Finishing(cl) == next[cl] = Len(file[cl]) + 1

(* ProcessBatch, up to ReceiveData.  If the key manager is gone the client *)
(* exits, as it does in Finish of its connection.                          *)
AskForSeeds(cl) ==
  /\ ~asked[cl] /\ BatchReady(cl) /\ km = "up"
  /\ asked' = [asked EXCEPT ![cl] = TRUE]
  /\ RecvBatch(cl, chunk_buf[cl])
  /\ UNCHANGED <<next, chunk_buf, key_gen_mq, keys>>
  /\ KeyGenRest

(* A faulty variant: a client that waits for an answer waits on.           *)
KeyGenFailsToSend(cl) ==
  /\ BatchReady(cl) \/ Finishing(cl)
  /\ ~asked[cl] /\ km = "down"
  /\ Gone(cl)
  /\ exited' = exited \cup {cl}
  /\ UNCHANGED kmVars

KeyGenFails(cl) ==
  /\ asked[cl] \/ BatchReady(cl) \/ Finishing(cl)
  /\ km = "down"
  /\ Gone(cl)
  /\ exited' = exited \cup {cl}
  /\ UNCHANGED kmVars

(* BasicKM sends the seeds, and KeyGenThd encrypts and hands on the batch. *)
Encrypted(batch, seeds, done) ==
  [i \in 1 .. Len(batch) |-> EncChunk(batch[i], seeds[i], done + i)]

GetSeeds(cl) ==
  /\ asked[cl] /\ Replies(cl)
  /\ SendBatch(cl)
  /\ LET batch == Encrypted(chunk_buf[cl], send_key[cl], Len(keys[cl])) IN
       /\ key_gen_mq' = [key_gen_mq EXCEPT ![cl] = @ \o batch]
       /\ keys' = [keys EXCEPT ![cl] = @ \o [i \in 1 .. Len(batch) |-> batch[i].key]]
  /\ chunk_buf' = [chunk_buf EXCEPT ![cl] = <<>>]
  /\ asked' = [asked EXCEPT ![cl] = FALSE]
  /\ UNCHANGED next
  /\ KeyGenRest

(* The client is gone: ReceiveData has the thread end, or SendData makes   *)
(* the key manager exit.                                                   *)
DropSeeds(cl) ==
  /\ Replies(cl) /\ client[cl] = "gone"
  /\ SendBatch(cl) /\ UNCHANGED <<clientVars>>

SendSeedsFails(cl) ==
  /\ Replies(cl) /\ client[cl] = "gone"
  /\ KmExit /\ UNCHANGED <<clientVars>>

(* The recipe chunk, after the tail batch, and then Finish.                *)
PassRecipe(cl) ==
  /\ ~asked[cl] /\ next[cl] = Len(file[cl]) /\ ~BatchReady(cl)
  /\ next' = [next EXCEPT ![cl] = @ + 1]
  /\ key_gen_mq' = [key_gen_mq EXCEPT ![cl] = Append(@, RecipeChunk(cl))]
  /\ UNCHANGED <<kmVars, chunk_buf, asked, keys>>
  /\ KeyGenRest

FinishKm(cl) ==
  /\ Finishing(cl) /\ km = "up"
  /\ next' = [next EXCEPT ![cl] = @ + 1]
  /\ UNCHANGED <<kmVars, chunk_buf, asked, key_gen_mq, keys>>
  /\ KeyGenRest

KeyGen(cl) ==
  \/ PopChunk(cl) \/ AskForSeeds(cl) \/ KeyGenFails(cl) \/ GetSeeds(cl)
  \/ PassRecipe(cl) \/ FinishKm(cl)

-----------------------------------------------------------------------------
(* SelectCompThd *)

(* What is pushed for a chunk, with its key for the key recipe.            *)
Item(type, data, e) == [type |-> type, data |-> data, key |-> e.key,
                        compressed_fp |-> <<>>, place |-> e.place]
CacheItem(e) == Item("cache", Enc(Raw(e.c), e.key), e)

(* A faulty variant: the fingerprint is of what was not yet encrypted.     *)
UncompressItemEarly(e) ==
  [Item("uncompress", Enc(Raw(e.c), e.key), e) EXCEPT
     !.compressed_fp = Hash(Compressed(e.c))]
UncompressItem(e) ==
  [Item("uncompress", Enc(Raw(e.c), e.key), e) EXCEPT
     !.compressed_fp = Hash(Enc(Compressed(e.c), e.key))]

Selected(m, similar, e) ==
  IF e.type = "recipe" THEN <<Item("recipe", <<>>, e)>>
  ELSE IF m = "only_enc" THEN <<Item("normal", Enc(Raw(e.c), e.key), e)>>
  ELSE IF m = "enc_comp" THEN <<Item("compressed", Compressed(e.c), e)>>
  ELSE IF similar THEN <<UncompressItem(e)>>
  ELSE <<CacheItem(e), Item("compressed", Compressed(e.c), e)>>

SelectComp(cl) ==
  LET e == Head(key_gen_mq[cl])
      features == CipherFeatures(e.c, e.key)
      similar == features \cap cached[cl] # {}
      full == e.type = "normal" /\ method[cl] = "full_edr"
  IN
  /\ key_gen_mq[cl] # <<>>
  /\ key_gen_mq' = [key_gen_mq EXCEPT ![cl] = Tail(@)]
  /\ select_comp_mq' =
       [select_comp_mq EXCEPT ![cl] = @ \o Selected(method[cl], full /\ similar, e)]
  /\ cached' = IF full /\ ~similar THEN [cached EXCEPT ![cl] = @ \cup features] ELSE cached
  /\ UNCHANGED <<kmVars, fixedVars, client, keyGenVars, senderVars, wire, recvVars,
                 keys, exited>>

-----------------------------------------------------------------------------
(* SenderThd *)

SenderRest == UNCHANGED <<kmVars, fixedVars, keyGenVars, key_gen_mq, cached, recvVars,
                          keys, exited>>

(* A compressed chunk is only now encrypted.                               *)
OnWire(item) ==
  IF item.type = "compressed"
    THEN [type |-> "normal", data |-> Enc(item.data, item.key), compressed_fp |-> <<>>,
          place |-> item.place]
    ELSE [type |-> item.type, data |-> item.data, compressed_fp |-> item.compressed_fp,
          place |-> item.place]

(* A faulty variant: a cached chunk counts, and may fill the batch.        *)
CountedAll(item) == TRUE
Counted(item) == item.type # "cache"

StoreKeyRecipe(cl, key) ==
  LET batch == Append(key_buf[cl], key)
      full == Len(batch) = RecipeBatch
  IN
  /\ key_buf' = [key_buf EXCEPT ![cl] = IF full THEN <<>> ELSE batch]
  /\ key_recipe' = [key_recipe EXCEPT ![cl] = IF full THEN @ \o batch ELSE @]

ChunkMsg(buf) == [type |-> "chunks", items |-> buf.items,
                  cur_item_num |-> buf.cur_item_num]
RecipeEndMsg(n) == [type |-> "recipe_end", items |-> <<>>, cur_item_num |-> n]

SendChunk(cl) ==
  LET item == Head(select_comp_mq[cl])
      buf == [items |-> Append(send_buf[cl].items, OnWire(item)),
              cur_item_num |-> send_buf[cl].cur_item_num
                               + (IF Counted(item) THEN 1 ELSE 0)]
      full == Counted(item) /\ buf.cur_item_num % ChunkBatch = 0
  IN
  /\ select_comp_mq[cl] # <<>> /\ item.type # "recipe"
  /\ select_comp_mq' = [select_comp_mq EXCEPT ![cl] = Tail(@)]
  /\ send_buf' = [send_buf EXCEPT ![cl] = IF full THEN EmptyMsg ELSE buf]
  /\ wire' = [wire EXCEPT ![cl] = IF full THEN Append(@, ChunkMsg(buf)) ELSE @]
  /\ IF item.type # "cache" THEN StoreKeyRecipe(cl, item.key)
                            ELSE UNCHANGED <<key_buf, key_recipe>>
  /\ UNCHANGED client /\ SenderRest

(* The recipe chunk: the tail of chunks, the tail of keys, the recipe end. *)
(* A faulty variant: the last keys stay in the buffer.                     *)
KeyTailLost(cl) == <<>>
KeyTail(cl) == key_buf[cl]

Tails(buf) == IF buf.cur_item_num = 0 THEN <<>> ELSE <<ChunkMsg(buf)>>

SendRecipeEnd(cl) ==
  /\ select_comp_mq[cl] # <<>> /\ Head(select_comp_mq[cl]).type = "recipe"
  /\ select_comp_mq' = [select_comp_mq EXCEPT ![cl] = Tail(@)]
  /\ send_buf' = [send_buf EXCEPT ![cl] = EmptyMsg]
  /\ wire' = [wire EXCEPT ![cl] =
                @ \o Tails(send_buf[cl]) \o <<RecipeEndMsg(Len(file[cl]))>>]
  /\ key_recipe' = [key_recipe EXCEPT ![cl] = @ \o KeyTail(cl)]
  /\ key_buf' = [key_buf EXCEPT ![cl] = <<>>]
  /\ client' = [client EXCEPT ![cl] = "sent"]
  /\ SenderRest

(* Once its threads are joined, delete sender_thd closes the key recipe.   *)
CloseKeyRecipe(cl) ==
  /\ client[cl] = "sent" /\ next[cl] = Len(file[cl]) + 2
  /\ client' = [client EXCEPT ![cl] = "closed"]
  /\ UNCHANGED <<select_comp_mq, senderVars, wire>> /\ SenderRest

-----------------------------------------------------------------------------
(* DataRecvThd *)

RecvRest == UNCHANGED <<kmVars, fixedVars, client, keyGenVars, key_gen_mq, cached,
                        select_comp_mq, senderVars, keys, exited>>

(* ProcessChunks takes a cached chunk together with what follows it.       *)
Taken(items) == IF items[1].type = "cache" THEN 2 ELSE 1

DualFp(fp, compressed_fp) == Hash(<<fp, compressed_fp>>)
FpOfFirst(items) ==
  IF items[1].type = "cache"
    THEN DualFp(Hash(items[1].data), Hash(items[2].data))
  ELSE IF items[1].type = "uncompress"
    THEN DualFp(Hash(items[1].data), items[1].compressed_fp)
  ELSE Hash(items[1].data)

(* A faulty variant: a full batch is written but not emptied.              *)
ProcessRecipeAgain(cl, fp) ==
  LET fps == Append(recipe_batch[cl], fp)
      full == Len(fps) % RecipeBatch = 0
  IN
  /\ recipe_batch' = [recipe_batch EXCEPT ![cl] = fps]
  /\ recipe' = [recipe EXCEPT ![cl].fps = IF full THEN @ \o fps ELSE @]

ProcessRecipe(cl, fp) ==
  LET fps == Append(recipe_batch[cl], fp)
      full == Len(fps) % RecipeBatch = 0
  IN
  /\ recipe_batch' = [recipe_batch EXCEPT ![cl] = IF full THEN <<>> ELSE fps]
  /\ recipe' = [recipe EXCEPT ![cl].fps = IF full THEN @ \o fps ELSE @]

ProcessChunk(cl) ==
  LET msg == Head(wire[cl])
      taken == Taken(msg.items)
      rest == SubSeq(msg.items, taken + 1, Len(msg.items))
      done == cur_chunk_num[cl] + 1 = msg.cur_item_num
  IN
  /\ wire[cl] # <<>> /\ msg.type = "chunks" /\ taken <= Len(msg.items)
  /\ ProcessRecipe(cl, FpOfFirst(msg.items))
  /\ cur_chunk_num' = [cur_chunk_num EXCEPT ![cl] = IF done THEN 0 ELSE @ + 1]
  /\ wire' = [wire EXCEPT ![cl] = IF done THEN Tail(@) ELSE [@ EXCEPT ![1].items = rest]]
  /\ RecvRest

(* The batch is written, and stays in the buffer; then the head.           *)
ProcessRecipeEnd(cl) ==
  /\ wire[cl] # <<>> /\ Head(wire[cl]).type = "recipe_end"
  /\ wire' = [wire EXCEPT ![cl] = Tail(@)]
  /\ recipe' = [recipe EXCEPT ![cl] = [head |-> Head(wire[cl]).cur_item_num,
                                       fps |-> @.fps \o recipe_batch[cl]]]
  /\ UNCHANGED <<cur_chunk_num, recipe_batch>> /\ RecvRest

-----------------------------------------------------------------------------

ClientThread(cl) ==
  \/ KeyGen(cl) \/ SelectComp(cl)
  \/ SendChunk(cl) \/ SendRecipeEnd(cl) \/ CloseKeyRecipe(cl)
KmThreads(cl) ==
  \/ KmThread(cl) /\ UNCHANGED <<clientVars>>
  \/ DropSeeds(cl) \/ SendSeedsFails(cl)
RecvThread(cl) == ProcessChunk(cl) \/ ProcessRecipeEnd(cl)

Next ==
  \E cl \in Client :
    \/ Running(cl) /\ ClientThread(cl)
    \/ KmThreads(cl) \/ RecvThread(cl) \/ Die(cl)

Spec == Init /\ [][Next]_vars

(* The program of each client, its thread of the key manager and that of   *)
(* the server go on while they can.                                        *)
Fairness ==
  \A cl \in Client :
    /\ WF_vars(Running(cl) /\ ClientThread(cl))
    /\ WF_vars(KmThreads(cl))
    /\ WF_vars(RecvThread(cl))

FairSpec == Spec /\ Fairness

-----------------------------------------------------------------------------
(* Properties *)

(* The shape of the state; in particular the buffers: SenderThd has room   *)
(* for twice the chunks of a batch (sender_thd.cc:31).                     *)
TypeOK ==
  /\ KmTypeOK
  /\ \A cl \in Client :
       /\ client[cl] \in {"run", "sent", "closed", "gone"}
       /\ next[cl] \in 0 .. Len(file[cl]) + 2
       /\ Len(chunk_buf[cl]) <= ChunkBatch
       /\ asked[cl] => chunk_buf[cl] # <<>>
       /\ asked[cl] /\ km = "up" => recv_req[cl] = chunk_buf[cl]
       /\ Len(send_buf[cl].items) < 2 * ChunkBatch
       /\ send_buf[cl].cur_item_num < ChunkBatch
       /\ Len(key_buf[cl]) < RecipeBatch
       /\ Len(recipe_batch[cl]) < RecipeBatch
       /\ recipe[cl].head \in Nat \cup {NoHead}
  /\ exited \subseteq Client

(* DataRecvThd, which reads cur_item_num chunks of a message, finds them   *)
(* in it, and behind each cached chunk, in the same message, the compressed*)
(* form of the same chunk, encrypted with the same key.                    *)
PairOf(item, other) ==
  \E c \in Chunk :
    \E seed \in Chunk :
      /\ item.data = Enc(Raw(c), KeyOf(c, seed))
      /\ other.type = "normal"
      /\ other.data = Enc(Compressed(c), KeyOf(c, seed))
WholePairs ==
  \A cl \in Client : \A m \in 1 .. Len(wire[cl]) :
    LET msg == wire[cl][m]
        items == msg.items
        n == Cardinality({i \in 1 .. Len(items) : items[i].type # "cache"})
        read == IF m = 1 THEN cur_chunk_num[cl] ELSE 0
    IN
    msg.type = "chunks" =>
      /\ n + read = msg.cur_item_num
      /\ \A i \in 1 .. Len(items) : items[i].type = "cache" =>
           i < Len(items) /\ PairOf(items[i], items[i + 1])

(* The i-th fingerprint of the recipe and the i-th key of the key recipe   *)
(* are of the i-th chunk of the file: the fingerprint is that of the chunk *)
(* under this key, whether it was sent alone or together with a cached     *)
(* chunk, so that a chunk and a key always have the same fingerprint.      *)
Fingerprint(m, c, key) ==
  CASE m = "only_enc" -> Hash(Enc(Raw(c), key))
    [] m = "enc_comp" -> Hash(Enc(Compressed(c), key))
    [] m = "full_edr" -> DualFp(Hash(Enc(Raw(c), key)), Hash(Enc(Compressed(c), key)))
Received(cl) ==
  IF recipe[cl].head = NoHead THEN recipe[cl].fps \o recipe_batch[cl] ELSE recipe[cl].fps
Keys(cl) == key_recipe[cl] \o key_buf[cl]
RecipeMatchesKeys ==
  \A cl \in Client :
    /\ Len(Received(cl)) <= Len(file[cl])
    /\ \A i \in 1 .. Len(Received(cl)) \cap 1 .. Len(Keys(cl)) :
         Received(cl)[i] = Fingerprint(method[cl], file[cl][i], Keys(cl)[i])

(* When the recipe has its head, it has a fingerprint for each chunk, and  *)
(* the key recipe a key for each, unless the client died before it closed  *)
(* the key recipe: then the server has a file that cannot be decrypted.    *)
CompleteTogether ==
  \A cl \in Client :
    /\ recipe[cl].head # NoHead =>
         /\ recipe[cl].head = Len(file[cl])
         /\ Len(recipe[cl].fps) = Len(file[cl])
         /\ client[cl] = "gone" \/ Len(key_recipe[cl]) = Len(file[cl])
    /\ client[cl] = "closed" => Len(key_recipe[cl]) = Len(file[cl])

(* An upload comes to its end: all is sent and stored, or the client is    *)
(* gone, and it never waits for a key manager that exited because of       *)
(* another client.                                                         *)
UploadEnds ==
  \A cl \in Client :
    client[cl] = "run" ~> \/ client[cl] = "closed" /\ recipe[cl].head # NoHead
                          \/ client[cl] = "gone"
-----------------------------------------------------------------------------
(* The inductive invariant of ClientUploadProofs: where each chunk of the  *)
(* file is between KeyGenThd and the recipe.  The places of what a queue   *)
(* or a message holds follow one another, a cached chunk sharing the place *)
(* of its compressed form; each stage ends where the one before it starts. *)

LastOf(s) == s[Len(s)]
IsCache(item) == item.type = "cache"
Ordered(items) ==
  \A i \in 1 .. Len(items) - 1 :
    items[i + 1].place = items[i].place + (IF IsCache(items[i]) THEN 0 ELSE 1)

(* KeyGenThd has handed on Passed chunks, all with their keys; the recipe  *)
(* chunk comes after the last.                                             *)
Passed(cl) == IF next[cl] > Len(file[cl]) THEN Len(file[cl]) + 1 ELSE Len(keys[cl])
BatchInv(cl) ==
  /\ Len(keys[cl]) <= Len(file[cl])
  /\ \A p \in 1 .. Len(keys[cl]) : \E seed \in Chunk : keys[cl][p] = KeyOf(file[cl][p], seed)
  /\ Running(cl) =>
       /\ next[cl] <= Len(file[cl]) => Len(keys[cl]) + Len(chunk_buf[cl]) = next[cl]
       /\ next[cl] > Len(file[cl]) => Len(keys[cl]) = Len(file[cl]) /\ chunk_buf[cl] = <<>>
       /\ \A i \in 1 .. Len(chunk_buf[cl]) : chunk_buf[cl][i] = file[cl][Len(keys[cl]) + i]
AskInv(cl) ==
  /\ asked[cl] => Running(cl) /\ chunk_buf[cl] # <<>>
  /\ asked[cl] /\ km = "up" => recv_req[cl] = chunk_buf[cl]
  /\ km = "down" => recv_req[cl] = <<>>
  /\ Len(chunk_buf[cl]) <= ChunkBatch /\ next[cl] <= Len(file[cl]) + 2

SelEnd(cl) == Passed(cl) - Len(key_gen_mq[cl])
KeyGenMqInv(cl) ==
  \A i \in 1 .. Len(key_gen_mq[cl]) :
    LET e == key_gen_mq[cl][i] IN
    /\ e.place = SelEnd(cl) + i
    /\ e.place <= Len(file[cl]) =>
         e.type = "normal" /\ e.c = file[cl][e.place] /\ e.key = keys[cl][e.place]
    /\ e.place > Len(file[cl]) => e.type = "recipe"

(* What SelectCompThd and SenderThd make of a chunk.                       *)
SelectForm(m, c, key, item) ==
  /\ item.key = key
  /\ m = "only_enc" => item.type = "normal" /\ item.data = Enc(Raw(c), key)
  /\ m = "enc_comp" => item.type = "compressed" /\ item.data = Compressed(c)
  /\ m = "full_edr" =>
       \/ /\ item.type = "uncompress" /\ item.data = Enc(Raw(c), key)
          /\ item.compressed_fp = Hash(Enc(Compressed(c), key))
       \/ item.type = "cache" /\ item.data = Enc(Raw(c), key)
       \/ item.type = "compressed" /\ item.data = Compressed(c)
WireForm(m, c, key, item) ==
  /\ m = "only_enc" => item.type = "normal" /\ item.data = Enc(Raw(c), key)
  /\ m = "enc_comp" => item.type = "normal" /\ item.data = Enc(Compressed(c), key)
  /\ m = "full_edr" =>
       \/ /\ item.type = "uncompress" /\ item.data = Enc(Raw(c), key)
          /\ item.compressed_fp = Hash(Enc(Compressed(c), key))
       \/ item.type = "cache" /\ item.data = Enc(Raw(c), key)
       \/ item.type = "normal" /\ item.data = Enc(Compressed(c), key)

(* SenderThd has the key of every chunk it has sent or put in a message;   *)
(* Open: of the last one it has the cached chunk only.                     *)
Sent(cl) == Len(Keys(cl)) + (IF client[cl] = "run" THEN 0 ELSE 1)
Open(cl) == send_buf[cl].items # <<>> /\ IsCache(LastOf(send_buf[cl].items))
Selects(f, m, ks, q) ==
  /\ Ordered(q)
  /\ \A i \in 1 .. Len(q) :
       /\ q[i].place \in 1 .. Len(f) + 1
       /\ q[i].place <= Len(f) =>
            q[i].place <= Len(ks) /\ SelectForm(m, f[q[i].place], ks[q[i].place], q[i])
       /\ q[i].place > Len(f) => q[i].type = "recipe"
       /\ IsCache(q[i]) => i < Len(q) /\ q[i + 1].type = "compressed"
       /\ m = "full_edr" /\ q[i].type = "compressed" /\ i > 1 => IsCache(q[i - 1])
SelectInv(cl) ==
  LET mq == select_comp_mq[cl] IN
  /\ Selects(file[cl], method[cl], keys[cl], mq)
  /\ method[cl] = "full_edr" /\ mq # <<>> /\ mq[1].type = "compressed" => Open(cl)
  /\ Open(cl) => mq # <<>> /\ mq[1].type = "compressed"
  /\ Running(cl) =>
       /\ mq = <<>> => Sent(cl) = SelEnd(cl)
       /\ mq # <<>> => mq[1].place = Sent(cl) + 1 /\ LastOf(mq).place = SelEnd(cl)

CountedIn(items) == {i \in 1 .. Len(items) : items[i].type # "cache"}
Sends(f, m, ks, items) ==
  /\ Ordered(items)
  /\ \A i \in 1 .. Len(items) :
       /\ items[i].place \in 1 .. Len(ks)
       /\ WireForm(m, f[items[i].place], ks[items[i].place], items[i])
       /\ m = "full_edr" /\ items[i].type = "normal" => i > 1 /\ IsCache(items[i - 1])
       /\ IsCache(items[i]) /\ i < Len(items) => items[i + 1].type = "normal"

(* The last place of what is before a message, or before the buffer.       *)
End(cl, m) == IF m = 0 THEN Len(Received(cl)) ELSE LastOf(wire[cl][m].items).place
ChunksInv(cl, m) ==
  LET msg == wire[cl][m] IN
  /\ msg.items # <<>> /\ ~IsCache(LastOf(msg.items))
  /\ Sends(file[cl], method[cl], keys[cl], msg.items)
  /\ msg.items[1].place = End(cl, m - 1) + 1
  /\ Cardinality(CountedIn(msg.items)) + (IF m = 1 THEN cur_chunk_num[cl] ELSE 0)
       = msg.cur_item_num
RecipeEndInv(cl, m) ==
  /\ m = Len(wire[cl]) /\ client[cl] # "run"
  /\ wire[cl][m].cur_item_num = Len(file[cl]) /\ End(cl, m - 1) = Len(file[cl])
WireInv(cl) ==
  /\ \A m \in 1 .. Len(wire[cl]) :
       \/ wire[cl][m].type = "chunks" /\ ChunksInv(cl, m)
       \/ wire[cl][m].type = "recipe_end" /\ RecipeEndInv(cl, m)
  /\ cur_chunk_num[cl] # 0 => wire[cl] # <<>> /\ wire[cl][1].type = "chunks"

SendBufInv(cl) ==
  LET items == send_buf[cl].items
      open == IF Open(cl) THEN 1 ELSE 0
      end == End(cl, Len(wire[cl]))
  IN
  /\ Sends(file[cl], method[cl], keys[cl], items)
  /\ Cardinality(CountedIn(items)) = send_buf[cl].cur_item_num
  /\ send_buf[cl].cur_item_num < ChunkBatch
  /\ Len(items) <= 2 * send_buf[cl].cur_item_num + open
  /\ items = <<>> /\ client[cl] = "run" => end = Len(Keys(cl))
  /\ items # <<>> =>
       /\ client[cl] = "run"
       /\ items[1].place = end + 1 /\ LastOf(items).place = Len(Keys(cl)) + open

KeyRecipeInv(cl) ==
  /\ Len(Keys(cl)) <= Len(keys[cl]) /\ Len(key_buf[cl]) < RecipeBatch
  /\ \A i \in 1 .. Len(Keys(cl)) : Keys(cl)[i] = keys[cl][i]
  /\ client[cl] \in {"sent", "closed"} =>
       key_buf[cl] = <<>> /\ Len(key_recipe[cl]) = Len(file[cl])
  /\ client[cl] # "run" => key_gen_mq[cl] = <<>> /\ select_comp_mq[cl] = <<>>
RecipeInv(cl) ==
  /\ Len(recipe_batch[cl]) < RecipeBatch
  /\ \A i \in 1 .. Len(Received(cl)) :
       /\ i <= Len(keys[cl])
       /\ Received(cl)[i] = Fingerprint(method[cl], file[cl][i], keys[cl][i])
  /\ recipe[cl].head # NoHead =>
       /\ wire[cl] = <<>> /\ client[cl] # "run"
       /\ recipe[cl].head = Len(file[cl]) /\ Len(recipe[cl].fps) = Len(file[cl])

PlacesInv(cl) ==
  /\ BatchInv(cl) /\ AskInv(cl) /\ KeyGenMqInv(cl) /\ SelectInv(cl)
  /\ WireInv(cl) /\ SendBufInv(cl) /\ KeyRecipeInv(cl) /\ RecipeInv(cl)

(* Every chunk between KeyGenThd::Run and DataRecvThd::ProcessRecipe is    *)
(* where its place in the file has it be, in every queue, buffer and       *)
(* message and in both recipes, however batches fall and programs exit.    *)
UploadInv == \A cl \in Client : PlacesInv(cl)
=============================================================================
