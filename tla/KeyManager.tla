----------------------------- MODULE KeyManager -----------------------------
(***************************************************************************)
(* The key manager (key_manager/basic_km.cc): a thread of BasicKM::Run for *)
(* each client answers batches of requests with a key seed per chunk, from *)
(* an index that all threads share.  The index locks one query or insert   *)
(* at a time, and one chunk takes several of them.                         *)
(*                                                                         *)
(* The seed of a chunk that is similar to none is the hash of the global   *)
(* secret and its features: here, the chunk that stands for all chunks     *)
(* with these features.                                                    *)
(***************************************************************************)
EXTENDS SimilarPolicy, Sequences

CONSTANT Client

VARIABLES
  km,                    \* "up", or "down" once a thread has called exit()
  feature_2_key_index,
  recv_req,              \* the batch of chunks that each thread has received
  send_key,              \* the seeds that it has for the first of them
  answer,                \* what the index answered for the next one's features
  inserted,              \* how many of the next one's features it has inserted
  own,                   \* history: the chunks whose own seed was inserted
  overlap                \* history: two threads were busy with similar chunks

kmVars == <<km, feature_2_key_index, recv_req, send_key, answer, inserted, own, overlap>>

KmInit ==
  /\ km = "up"
  /\ feature_2_key_index = EmptyIndex
  /\ recv_req = [cl \in Client |-> <<>>]
  /\ send_key = [cl \in Client |-> <<>>]
  /\ answer = [cl \in Client |-> <<>>]
  /\ inserted = [cl \in Client |-> 0]
  /\ own = {}
  /\ overlap = FALSE

SeedOf(c) == CHOOSE d \in Chunk : FeaturesOf[d] = FeaturesOf[c]

Pending(cl) == Len(send_key[cl]) < Len(recv_req[cl])

(* A faulty variant: the pointer into the batch is not advanced.           *)
CurrentFirst(cl) == recv_req[cl][1]
Current(cl) == recv_req[cl][Len(send_key[cl]) + 1]
Similar(c, d) == FeatureSet(c) \cap FeatureSet(d) # {}
Busy(cl) == Pending(cl) /\ answer[cl] # <<>>

(* One QueryBuffer of FindBaseChunk.                                       *)
QueryFeature(cl) ==
  /\ Pending(cl) /\ Len(answer[cl]) < SUPER_FEATURE_PER_CHUNK
  /\ answer' =
       [answer EXCEPT ![cl] =
          Append(@, feature_2_key_index[FeaturesOf[Current(cl)][Len(@) + 1]])]
  /\ overlap' = (overlap \/ \E other \in Client \ {cl} :
                              Busy(other) /\ Similar(Current(other), Current(cl)))
  /\ UNCHANGED <<km, feature_2_key_index, recv_req, send_key, inserted, own>>

Answer(cl, seed) ==
  /\ send_key' = [send_key EXCEPT ![cl] = Append(@, seed)]
  /\ answer' = [answer EXCEPT ![cl] = <<>>]
  /\ inserted' = [inserted EXCEPT ![cl] = 0]

(* A faulty variant: every feature of the chunk must be known.             *)
IsKnownAll(ans) == Matches(ans) = Slot
IsKnown(ans) == Matches(ans) # {}

SimilarSeed(cl) ==
  /\ Pending(cl) /\ Len(answer[cl]) = SUPER_FEATURE_PER_CHUNK
  /\ IsKnown(answer[cl])
  /\ Answer(cl, BaseOf(answer[cl]))
  /\ UNCHANGED <<km, feature_2_key_index, recv_req, own, overlap>>

(* One InsertBothBuffer of UpdateFeatureIndex, which overwrites.           *)
InsertFeature(cl) ==
  LET c == Current(cl)
      f == FeaturesOf[c][inserted[cl] + 1]
  IN
  /\ Pending(cl) /\ Len(answer[cl]) = SUPER_FEATURE_PER_CHUNK
  /\ ~IsKnown(answer[cl])
  /\ feature_2_key_index' = [feature_2_key_index EXCEPT ![f] = SeedOf(c)]
  /\ \/ /\ inserted[cl] + 1 < SUPER_FEATURE_PER_CHUNK
        /\ inserted' = [inserted EXCEPT ![cl] = @ + 1]
        /\ UNCHANGED <<send_key, answer, own>>
     \/ /\ inserted[cl] + 1 = SUPER_FEATURE_PER_CHUNK
        /\ Answer(cl, SeedOf(c))
        /\ own' = own \cup {c}
  /\ UNCHANGED <<km, recv_req, overlap>>

(* ReceiveData of a batch; SendData of its seeds.                          *)
RecvBatch(cl, batch) ==
  /\ recv_req' = [recv_req EXCEPT ![cl] = batch]
  /\ UNCHANGED <<km, feature_2_key_index, send_key, answer, inserted, own, overlap>>

Replies(cl) == recv_req[cl] # <<>> /\ ~Pending(cl)

SendBatch(cl) ==
  /\ recv_req' = [recv_req EXCEPT ![cl] = <<>>]
  /\ send_key' = [send_key EXCEPT ![cl] = <<>>]
  /\ UNCHANGED <<km, feature_2_key_index, answer, inserted, own, overlap>>

KmExit ==
  /\ km' = "down"
  /\ recv_req' = [cl \in Client |-> <<>>]
  /\ send_key' = [cl \in Client |-> <<>>]
  /\ answer' = [cl \in Client |-> <<>>]
  /\ inserted' = [cl \in Client |-> 0]
  /\ UNCHANGED <<feature_2_key_index, own, overlap>>

KmThread(cl) == QueryFeature(cl) \/ SimilarSeed(cl) \/ InsertFeature(cl)

(* The key manager with clients of any kind, of which it knows only that   *)
(* each sends one batch at a time.                                         *)
RecvAnyBatch(cl) ==
  /\ recv_req[cl] = <<>> /\ recv_req'[cl] \in Seq(Chunk)
  /\ RecvBatch(cl, recv_req'[cl])

KmNext ==
  \E cl \in Client :
    \/ KmThread(cl) \/ RecvAnyBatch(cl)
    \/ Replies(cl) /\ (SendBatch(cl) \/ KmExit)

KmSpec == KmInit /\ [][KmNext]_kmVars

-----------------------------------------------------------------------------

(* The shape of the state: a thread asks the index for a chunk of its      *)
(* batch only, and inserts its features only when all have been queried.   *)
KmTypeOK ==
  /\ km \in {"up", "down"}
  /\ feature_2_key_index \in Index
  /\ recv_req \in [Client -> Seq(Chunk)] /\ send_key \in [Client -> Seq(Chunk)]
  /\ answer \in [Client -> Seq(Chunk \cup {NoBase})]
  /\ inserted \in [Client -> 0 .. SUPER_FEATURE_PER_CHUNK - 1]
  /\ \A cl \in Client :
       /\ Len(send_key[cl]) <= Len(recv_req[cl])
       /\ Len(answer[cl]) <= SUPER_FEATURE_PER_CHUNK
       /\ answer[cl] # <<>> => Pending(cl)
       /\ inserted[cl] # 0 => Len(answer[cl]) = SUPER_FEATURE_PER_CHUNK
  /\ own \subseteq Chunk /\ overlap \in BOOLEAN

(* A chunk whose own seed is in the index gets this seed whenever it is    *)
(* uploaded again, and so the same key: otherwise its copies would not be  *)
(* recognised as duplicates.  UpdateFeatureIndex overwrites, but only what *)
(* another thread has inserted since this one's queries.                   *)
BaseKeepsItsSeed ==
  ~overlap => \A cl \in Client : \A i \in 1 .. Len(send_key[cl]) :
    recv_req[cl][i] \in own => send_key[cl][i] = SeedOf(recv_req[cl][i])

(* Even when threads overwrite one another's features, a seed is always    *)
(* that of a chunk which shares a feature with the one that was asked for: *)
(* chunks get equal seeds only by similarity (basic_km.cc FindBaseChunk).  *)
SeedsOfSimilarChunks ==
  \A cl \in Client : \A i \in 1 .. Len(send_key[cl]) :
    Similar(recv_req[cl][i], send_key[cl][i])

-----------------------------------------------------------------------------
(* The inductive invariants of the proofs about the key manager.           *)

(* What the index has under a feature is a chunk with this feature, and so *)
(* is what it has answered.                                                *)
IndexKin ==
  \A f \in Known(feature_2_key_index) : f \in FeatureSet(feature_2_key_index[f])
AnswerKin ==
  \A cl \in Client : \A i \in 1 .. Len(answer[cl]) :
    answer[cl][i] # NoBase => Similar(Current(cl), answer[cl][i])
KinInv == IndexKin /\ AnswerKin /\ SeedsOfSimilarChunks

(* As long as no two threads are busy with similar chunks: what the index  *)
(* has answered still holds, but for what the thread itself has inserted;  *)
(* what it has inserted is still there; a chunk whose own seed was inserted*)
(* is found by all its features; and one that was given another chunk's    *)
(* seed has a feature that keeps it from being inserted.                   *)
BusyApart ==
  \A cl, other \in Client :
    cl # other /\ Busy(cl) /\ Busy(other) => ~Similar(Current(cl), Current(other))
AnswersHold ==
  \A cl \in Client : \A i \in 1 .. Len(answer[cl]) :
    LET seed == feature_2_key_index[FeaturesOf[Current(cl)][i]] IN
    IF answer[cl][i] = NoBase THEN seed \in {NoBase, SeedOf(Current(cl))}
                              ELSE seed = answer[cl][i]
InsertsHold ==
  \A cl \in Client : \A i \in 1 .. inserted[cl] :
    feature_2_key_index[FeaturesOf[Current(cl)][i]] = SeedOf(Current(cl))
OwnIndexed ==
  \A c \in own : \A f \in FeatureSet(c) : feature_2_key_index[f] = SeedOf(c)
OthersKnown ==
  \A cl \in Client : \A i \in 1 .. Len(send_key[cl]) :
    LET c == recv_req[cl][i] IN
    send_key[cl][i] # SeedOf(c) =>
      \E f \in FeatureSet(c) : feature_2_key_index[f] \notin {NoBase, SeedOf(c)}
SeedInv ==
  ~overlap => BusyApart /\ AnswersHold /\ InsertsHold /\ OwnIndexed /\ OthersKnown
=============================================================================
