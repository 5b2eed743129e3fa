------------------------- MODULE ClientUploadProofs -------------------------
(***************************************************************************)
(* The key manager, for every number of clients, every set of chunks with  *)
(* any features, and batches of any length.                                *)
(*                                                                         *)
(* Two things of ClientUpload, for any number of clients, whatever they    *)
(* upload, and however the program of any of them exits or dies.           *)
(*                                                                         *)
(* To the key manager, clients that run ClientUpload are clients that send *)
(* one batch at a time: it keeps its promises to them.                     *)
(*                                                                         *)
(* The chunks between KeyGenThd and the recipe, in the queues, the buffers *)
(* and the messages, are always those of consecutive places of the file    *)
(* (UploadInv of ClientUpload); so the recipe, the key recipe and the      *)
(* pairs of cached and compressed chunks fit together.                     *)
(***************************************************************************)
EXTENDS ClientUpload, SimilarPolicyProofs

-----------------------------------------------------------------------------
(* The key manager, whoever its clients are and whatever they send: the    *)
(* seeds it gives.                                                         *)

USE SimilarAssumption

(* The chunk that stands for all chunks with the same features.            *)
LEMMA SeedFacts ==
  ASSUME NEW c \in Chunk
  PROVE  SeedOf(c) \in Chunk /\ FeatureSet(SeedOf(c)) = FeatureSet(c)
<1>1. \E d \in Chunk : FeaturesOf[d] = FeaturesOf[c]
  OBVIOUS
<1>2. SeedOf(c) \in Chunk /\ FeaturesOf[SeedOf(c)] = FeaturesOf[c]
  BY <1>1 DEF SeedOf
<1>3. QED
  BY <1>2 DEF FeatureSet

(* The chunk that a thread is working on, and its features.                *)
LEMMA CurrentFacts ==
  ASSUME KmTypeOK, NEW cl \in Client, Pending(cl)
  PROVE  /\ Current(cl) \in Chunk
         /\ Len(send_key[cl]) + 1 \in 1 .. Len(recv_req[cl])
         /\ \A i \in Slot : /\ FeaturesOf[Current(cl)][i] \in Feature
                            /\ FeaturesOf[Current(cl)][i] \in FeatureSet(Current(cl))
<1>1. recv_req[cl] \in Seq(Chunk) /\ send_key[cl] \in Seq(Chunk)
  BY DEF KmTypeOK
<1>2. Len(send_key[cl]) + 1 \in 1 .. Len(recv_req[cl])
  BY <1>1 DEF Pending
<1>3. Current(cl) \in Chunk
  BY <1>1, <1>2 DEF Current
<1>4. QED
  BY <1>2, <1>3 DEF FeatureSet

(* What a complete answer of the index leads to is one of its bases.       *)
LEMMA AnswerFacts ==
  ASSUME KmTypeOK, NEW cl \in Client, Len(answer[cl]) = SUPER_FEATURE_PER_CHUNK,
         IsKnown(answer[cl])
  PROVE  \E i \in 1 .. Len(answer[cl]) :
           /\ answer[cl][i] = BaseOf(answer[cl]) /\ answer[cl][i] # NoBase
           /\ answer[cl][i] \in Chunk
<1>1. BaseOf(answer[cl]) \in Candidates(answer[cl])
  BY BaseOfAnswered DEF IsKnown
<1>2. PICK i \in Slot : answer[cl][i] = BaseOf(answer[cl]) /\ answer[cl][i] # NoBase
  BY <1>1 DEF Candidates, Matches
<1>3. answer[cl] \in Seq(Chunk \cup {NoBase})
  BY DEF KmTypeOK
<1>4. QED
  BY <1>2, <1>3 DEF Slot

(* A thread that inserts has been answered that nothing is known.          *)
LEMMA UnknownFacts ==
  ASSUME KmTypeOK, NEW cl \in Client, Len(answer[cl]) = SUPER_FEATURE_PER_CHUNK,
         ~IsKnown(answer[cl])
  PROVE  \A i \in Slot : answer[cl][i] = NoBase
BY DEF IsKnown, Matches

-----------------------------------------------------------------------------
(* Types (BasicKM::Run).                                                   *)
LEMMA KmTypeStep ==
  ASSUME KmTypeOK, [KmNext]_kmVars
  PROVE  KmTypeOK'
<1>1. ASSUME NEW cl \in Client, QueryFeature(cl)
      PROVE  KmTypeOK'
  <2> DEFINE f == FeaturesOf[Current(cl)][Len(answer[cl]) + 1]
  <2>1. answer[cl] \in Seq(Chunk \cup {NoBase})
    BY DEF KmTypeOK
  <2>2. Len(answer[cl]) + 1 \in Slot
    BY <1>1, <2>1 DEF QueryFeature, Slot
  <2>3. feature_2_key_index[f] \in Chunk \cup {NoBase}
    BY <1>1, <2>2, CurrentFacts DEF QueryFeature, KmTypeOK, Index
  <2>4. answer' = [answer EXCEPT ![cl] = Append(@, feature_2_key_index[f])]
    BY <1>1 DEF QueryFeature
  <2> HIDE DEF f
  <2>5. /\ answer' \in [Client -> Seq(Chunk \cup {NoBase})]
        /\ Len(answer'[cl]) = Len(answer[cl]) + 1
        /\ \A d \in Client \ {cl} : answer'[d] = answer[d]
    BY <2>1, <2>3, <2>4 DEF KmTypeOK
  <2>6. ASSUME NEW d \in Client
        PROVE  Len(answer'[d]) <= SUPER_FEATURE_PER_CHUNK
    <3>1. CASE d = cl
      BY <2>1, <2>2, <2>5, <3>1 DEF Slot
    <3>2. CASE d # cl
      BY <2>5, <3>2 DEF KmTypeOK
    <3>3. QED
      BY <3>1, <3>2
  <2>7. /\ overlap' \in BOOLEAN
        /\ UNCHANGED <<km, feature_2_key_index, recv_req, send_key, inserted, own>>
    BY <1>1 DEF QueryFeature, KmTypeOK
  <2>8. \A d \in Client : answer'[d] # <<>> => Pending(d)'
    BY <1>1, <2>5, <2>7 DEF KmTypeOK, Pending, QueryFeature
  <2>9. inserted[cl] = 0
    BY <1>1 DEF KmTypeOK, QueryFeature
  <2>10. \A d \in Client : inserted'[d] # 0 => Len(answer'[d]) = SUPER_FEATURE_PER_CHUNK
    BY <2>5, <2>7, <2>9 DEF KmTypeOK
  <2>11. QED
    BY <2>5, <2>6, <2>7, <2>8, <2>10 DEF KmTypeOK
<1>2. ASSUME NEW cl \in Client, NEW seed \in Chunk, Pending(cl), Answer(cl, seed),
             feature_2_key_index' \in Index, own' \subseteq Chunk,
             UNCHANGED <<km, recv_req, overlap>>
      PROVE  KmTypeOK'
  <2>1. send_key[cl] \in Seq(Chunk) /\ Len(send_key[cl]) < Len(recv_req[cl])
    BY <1>2 DEF KmTypeOK, Pending
  <2>2. /\ send_key' \in [Client -> Seq(Chunk)]
        /\ Len(send_key'[cl]) = Len(send_key[cl]) + 1
        /\ \A d \in Client \ {cl} : send_key'[d] = send_key[d]
    BY <1>2, <2>1 DEF KmTypeOK, Answer
  <2>3. /\ answer' \in [Client -> Seq(Chunk \cup {NoBase})]
        /\ inserted' \in [Client -> 0 .. SUPER_FEATURE_PER_CHUNK - 1]
        /\ answer'[cl] = <<>> /\ inserted'[cl] = 0
        /\ \A d \in Client \ {cl} : answer'[d] = answer[d] /\ inserted'[d] = inserted[d]
    BY <1>2 DEF KmTypeOK, Answer
  <2>4. recv_req[cl] \in Seq(Chunk)
    BY DEF KmTypeOK
  <2>5. ASSUME NEW d \in Client
        PROVE  /\ Len(send_key'[d]) <= Len(recv_req'[d])
               /\ Len(answer'[d]) <= SUPER_FEATURE_PER_CHUNK
               /\ answer'[d] # <<>> => Pending(d)'
               /\ inserted'[d] # 0 => Len(answer'[d]) = SUPER_FEATURE_PER_CHUNK
    <3>1. CASE d = cl
      <4>1. Len(answer'[cl]) = 0
        BY <2>3
      <4>2. Len(send_key'[cl]) <= Len(recv_req'[cl])
        BY <1>2, <2>1, <2>2, <2>4
      <4>3. QED
        BY <2>3, <3>1, <4>1, <4>2
    <3>2. CASE d # cl
      <4>1. /\ send_key'[d] = send_key[d] /\ answer'[d] = answer[d]
            /\ inserted'[d] = inserted[d] /\ recv_req'[d] = recv_req[d]
        BY <1>2, <2>2, <2>3, <3>2
      <4>2. QED
        BY <4>1 DEF KmTypeOK, Pending
    <3>3. QED
      BY <3>1, <3>2
  <2>6. QED
    BY <1>2, <2>2, <2>3, <2>5 DEF KmTypeOK
<1>3. ASSUME NEW cl \in Client, SimilarSeed(cl)
      PROVE  KmTypeOK'
  <2>1. BaseOf(answer[cl]) \in Chunk
    BY <1>3, AnswerFacts DEF SimilarSeed
  <2>2. feature_2_key_index' \in Index /\ own' \subseteq Chunk
    BY <1>3 DEF SimilarSeed, KmTypeOK
  <2>3. QED
    BY <1>2, <1>3, <2>1, <2>2 DEF SimilarSeed
<1>4. ASSUME NEW cl \in Client, InsertFeature(cl)
      PROVE  KmTypeOK'
  <2>1. Current(cl) \in Chunk /\ SeedOf(Current(cl)) \in Chunk
    BY <1>4, CurrentFacts, SeedFacts DEF InsertFeature
  <2>2. feature_2_key_index' \in Index
    BY <1>4, <2>1 DEF InsertFeature, KmTypeOK, Index
  <2>3. CASE inserted[cl] + 1 < SUPER_FEATURE_PER_CHUNK
    <3>1. inserted' = [inserted EXCEPT ![cl] = @ + 1]
      BY <1>4, <2>3 DEF InsertFeature, KmTypeOK
    <3>2. inserted' \in [Client -> 0 .. SUPER_FEATURE_PER_CHUNK - 1]
      BY <2>3, <3>1 DEF KmTypeOK
    <3>3. UNCHANGED <<km, recv_req, overlap, send_key, answer, own>>
      BY <1>4, <2>3 DEF InsertFeature, KmTypeOK
    <3>4. \A d \in Client :
            inserted'[d] # 0 => Len(answer'[d]) = SUPER_FEATURE_PER_CHUNK
      BY <1>4, <3>1, <3>3 DEF InsertFeature, KmTypeOK
    <3>5. QED
      BY <2>2, <3>2, <3>3, <3>4 DEF KmTypeOK, Pending
  <2>4. CASE ~(inserted[cl] + 1 < SUPER_FEATURE_PER_CHUNK)
    <3>1. Answer(cl, SeedOf(Current(cl))) /\ own' = own \cup {Current(cl)}
      BY <1>4, <2>4 DEF InsertFeature
    <3>2. own' \subseteq Chunk
      BY <2>1, <3>1 DEF KmTypeOK
    <3>3. QED
      BY <1>2, <1>4, <2>1, <2>2, <3>1, <3>2 DEF InsertFeature
  <2>5. QED
    BY <2>3, <2>4
<1>5. ASSUME NEW cl \in Client, RecvAnyBatch(cl)
      PROVE  KmTypeOK'
  <2>1. Len(send_key[cl]) = 0 /\ answer[cl] = <<>>
    BY <1>5 DEF RecvAnyBatch, KmTypeOK, Pending
  <2>2. recv_req' \in [Client -> Seq(Chunk)]
        /\ \A d \in Client \ {cl} : recv_req'[d] = recv_req[d]
    BY <1>5 DEF RecvAnyBatch, RecvBatch, KmTypeOK
  <2>3. UNCHANGED <<km, feature_2_key_index, send_key, answer, inserted, own, overlap>>
    BY <1>5 DEF RecvAnyBatch, RecvBatch
  <2>4. \A d \in Client : /\ Len(send_key'[d]) <= Len(recv_req'[d])
                          /\ answer'[d] # <<>> => Pending(d)'
    BY <2>1, <2>2, <2>3 DEF KmTypeOK, Pending
  <2>5. QED
    BY <2>2, <2>3, <2>4 DEF KmTypeOK
<1>6. ASSUME NEW cl \in Client, Replies(cl), SendBatch(cl)
      PROVE  KmTypeOK'
  <2>1. answer[cl] = <<>>
    BY <1>6 DEF Replies, KmTypeOK
  <2>2. /\ recv_req' \in [Client -> Seq(Chunk)] /\ send_key' \in [Client -> Seq(Chunk)]
        /\ recv_req'[cl] = <<>> /\ send_key'[cl] = <<>>
        /\ \A d \in Client \ {cl} : recv_req'[d] = recv_req[d] /\ send_key'[d] = send_key[d]
        /\ UNCHANGED <<km, feature_2_key_index, answer, inserted, own, overlap>>
    BY <1>6 DEF SendBatch, KmTypeOK
  <2>3. ASSUME NEW d \in Client
        PROVE  /\ Len(send_key'[d]) <= Len(recv_req'[d])
               /\ answer'[d] # <<>> => Pending(d)'
    <3>1. CASE d = cl
      BY <2>1, <2>2, <3>1
    <3>2. CASE d # cl
      BY <2>2, <3>2 DEF KmTypeOK, Pending
    <3>3. QED
      BY <3>1, <3>2
  <2>4. QED
    BY <2>2, <2>3 DEF KmTypeOK
<1>7. CASE KmExit
  BY <1>7 DEF KmExit, KmTypeOK, Pending
<1>8. CASE UNCHANGED kmVars
  BY <1>8 DEF kmVars, KmTypeOK, Pending
<1>9. QED
  BY <1>1, <1>3, <1>4, <1>5, <1>6, <1>7, <1>8 DEF KmNext, KmThread

LEMMA KmTypeInit ==
  ASSUME KmInit
  PROVE  KmTypeOK
<1>1. 0 \in 0 .. SUPER_FEATURE_PER_CHUNK - 1
  OBVIOUS
<1>2. feature_2_key_index \in Index
  BY DEF KmInit, EmptyIndex, Index
<1>3. \A cl \in Client : recv_req[cl] = <<>> /\ send_key[cl] = <<>>
                        /\ answer[cl] = <<>> /\ inserted[cl] = 0
  BY DEF KmInit
<1>4. /\ recv_req \in [Client -> Seq(Chunk)] /\ send_key \in [Client -> Seq(Chunk)]
      /\ answer \in [Client -> Seq(Chunk \cup {NoBase})]
      /\ inserted \in [Client -> 0 .. SUPER_FEATURE_PER_CHUNK - 1]
  BY <1>1 DEF KmInit
<1>5. \A cl \in Client : /\ Len(send_key[cl]) <= Len(recv_req[cl])
                        /\ Len(answer[cl]) <= SUPER_FEATURE_PER_CHUNK
  BY <1>3
<1>6. /\ km \in {"up", "down"} /\ own \subseteq Chunk /\ overlap \in BOOLEAN
  BY DEF KmInit
<1>7. QED
  BY <1>2, <1>3, <1>4, <1>5, <1>6 DEF KmTypeOK

(* The types of the key manager, in every behaviour of it.                 *)
THEOREM KmTypeCorrect == KmSpec => []KmTypeOK
BY KmTypeInit, KmTypeStep, PTL DEF KmSpec

-----------------------------------------------------------------------------
(* What the steps change.                                                  *)

SameThread(cl) ==
  /\ recv_req'[cl] = recv_req[cl] /\ send_key'[cl] = send_key[cl]
  /\ answer'[cl] = answer[cl] /\ inserted'[cl] = inserted[cl]
IdleThread(cl) ==
  send_key'[cl] = <<>> /\ answer'[cl] = <<>> /\ inserted'[cl] = 0

(* A query appends what the index has under the next feature.              *)
LEMMA QueryFacts ==
  ASSUME KmTypeOK, NEW cl \in Client, QueryFeature(cl)
  PROVE  LET n == Len(answer[cl]) + 1
             seed == feature_2_key_index[FeaturesOf[Current(cl)][n]]
         IN
         /\ n \in Slot /\ seed \in Chunk \cup {NoBase}
         /\ Len(answer'[cl]) = n /\ answer'[cl][n] = seed
         /\ \A i \in 1 .. n - 1 : answer'[cl][i] = answer[cl][i]
         /\ \A d \in Client \ {cl} : answer'[d] = answer[d]
<1>1. answer[cl] \in Seq(Chunk \cup {NoBase})
  BY DEF KmTypeOK
<1>2. Len(answer[cl]) + 1 \in Slot
  BY <1>1 DEF QueryFeature, Slot
<1>3. feature_2_key_index[FeaturesOf[Current(cl)][Len(answer[cl]) + 1]]
        \in Chunk \cup {NoBase}
  BY <1>2, CurrentFacts DEF QueryFeature, KmTypeOK, Index
<1> DEFINE seed == feature_2_key_index[FeaturesOf[Current(cl)][Len(answer[cl]) + 1]]
<1>4. /\ answer' = [answer EXCEPT ![cl] = Append(@, seed)]
      /\ answer \in [Client -> Seq(Chunk \cup {NoBase})]
  BY DEF QueryFeature, KmTypeOK
<1>5. seed \in Chunk \cup {NoBase}
  BY <1>3
<1> HIDE DEF seed
<1>6. /\ Len(answer'[cl]) = Len(answer[cl]) + 1
      /\ answer'[cl][Len(answer[cl]) + 1] = seed
      /\ \A i \in 1 .. Len(answer[cl]) : answer'[cl][i] = answer[cl][i]
      /\ \A d \in Client \ {cl} : answer'[d] = answer[d]
  BY <1>1, <1>4, <1>5
<1>7. Len(answer[cl]) + 1 - 1 = Len(answer[cl])
  BY <1>1
<1>8. QED
  BY <1>2, <1>5, <1>6, <1>7 DEF seed

(* An answer ends the work on a chunk.                                     *)
LEMMA AnswerChanges ==
  ASSUME KmTypeOK, NEW cl \in Client, NEW seed \in Chunk, Pending(cl), Answer(cl, seed),
         UNCHANGED recv_req
  PROVE  LET n == Len(send_key[cl]) + 1 IN
         /\ recv_req[cl][n] = Current(cl)
         /\ Len(send_key'[cl]) = n /\ send_key'[cl][n] = seed
         /\ \A i \in 1 .. n - 1 : send_key'[cl][i] = send_key[cl][i]
         /\ answer'[cl] = <<>> /\ inserted'[cl] = 0
         /\ \A d \in Client \ {cl} : SameThread(d)
<1>1. send_key[cl] \in Seq(Chunk)
  BY DEF KmTypeOK
<1>2. Len(send_key[cl]) + 1 - 1 = Len(send_key[cl])
  BY <1>1
<1>3. send_key' = [send_key EXCEPT ![cl] = Append(@, seed)]
  BY DEF Answer
<1>4. /\ Len(send_key'[cl]) = Len(send_key[cl]) + 1
      /\ send_key'[cl][Len(send_key[cl]) + 1] = seed
      /\ \A i \in 1 .. Len(send_key[cl]) : send_key'[cl][i] = send_key[cl][i]
      /\ \A d \in Client \ {cl} : send_key'[d] = send_key[d]
  BY <1>1, <1>3 DEF KmTypeOK
<1>5. /\ answer'[cl] = <<>> /\ inserted'[cl] = 0
      /\ \A d \in Client \ {cl} : answer'[d] = answer[d] /\ inserted'[d] = inserted[d]
  BY DEF Answer, KmTypeOK
<1>6. QED
  BY <1>2, <1>4, <1>5 DEF Current, SameThread

(* Receiving and sending leave a thread alone or without work done.        *)
Rest ==
  /\ UNCHANGED <<feature_2_key_index, own, overlap>>
  /\ \A cl \in Client : SameThread(cl) \/ IdleThread(cl)
LEMMA RestOfNext ==
  ASSUME KmTypeOK, [KmNext]_kmVars, \A cl \in Client : ~KmThread(cl)
  PROVE  Rest
<1>1. ASSUME NEW cl \in Client, RecvAnyBatch(cl)
      PROVE  Rest
  <2>1. send_key[cl] = <<>> /\ answer[cl] = <<>> /\ inserted[cl] = 0
    <3>1. recv_req[cl] = <<>> /\ send_key[cl] \in Seq(Chunk) /\ Len(send_key[cl]) <= 0
      BY <1>1 DEF RecvAnyBatch, KmTypeOK
    <3>2. send_key[cl] = <<>> /\ answer[cl] = <<>>
      BY <3>1 DEF KmTypeOK, Pending
    <3>3. Len(answer[cl]) # SUPER_FEATURE_PER_CHUNK
      BY <3>2
    <3>4. QED
      BY <3>2, <3>3 DEF KmTypeOK
  <2>2. \A d \in Client \ {cl} : recv_req'[d] = recv_req[d]
    BY <1>1 DEF RecvAnyBatch, RecvBatch, KmTypeOK
  <2>3. QED
    BY <1>1, <2>1, <2>2 DEF RecvAnyBatch, RecvBatch, Rest, SameThread, IdleThread
<1>2. ASSUME NEW cl \in Client, Replies(cl), SendBatch(cl)
      PROVE  Rest
  <2>1. answer[cl] = <<>>
    BY <1>2 DEF Replies, KmTypeOK
  <2>2. Len(answer[cl]) # SUPER_FEATURE_PER_CHUNK
    BY <2>1
  <2>3. inserted[cl] = 0
    BY <2>2 DEF KmTypeOK
  <2>4. /\ send_key'[cl] = <<>>
        /\ \A d \in Client \ {cl} : recv_req'[d] = recv_req[d] /\ send_key'[d] = send_key[d]
    BY <1>2 DEF SendBatch, KmTypeOK
  <2>5. QED
    BY <1>2, <2>1, <2>3, <2>4 DEF SendBatch, Rest, SameThread, IdleThread
<1>3. CASE KmExit
  BY <1>3 DEF KmExit, Rest, IdleThread
<1>4. CASE UNCHANGED kmVars
  BY <1>4 DEF kmVars, Rest, SameThread
<1>5. QED
  BY <1>1, <1>2, <1>3, <1>4 DEF KmNext

-----------------------------------------------------------------------------
(* Seeds of similar chunks only.                                           *)
LEMMA KinStep ==
  ASSUME KmTypeOK, KinInv, [KmNext]_kmVars
  PROVE  KinInv'
<1>1. ASSUME NEW cl \in Client, QueryFeature(cl)
      PROVE  KinInv'
  <2> DEFINE n == Len(answer[cl]) + 1
             f == FeaturesOf[Current(cl)][n]
             seed == feature_2_key_index[f]
  <2>1. UNCHANGED <<feature_2_key_index, recv_req, send_key>>
    BY <1>1 DEF QueryFeature
  <2>2. IndexKin' /\ SeedsOfSimilarChunks'
    BY <2>1 DEF KinInv, IndexKin, Known, SeedsOfSimilarChunks
  <2>3. n \in Slot /\ Current(cl) \in Chunk /\ f \in Feature /\ f \in FeatureSet(Current(cl))
    BY <1>1, QueryFacts, CurrentFacts DEF QueryFeature
  <2>4. seed # NoBase => Similar(Current(cl), seed)
    BY <2>3 DEF KinInv, IndexKin, Known, Similar
  <2>5. /\ Len(answer'[cl]) = n /\ answer'[cl][n] = seed
        /\ \A i \in 1 .. n - 1 : answer'[cl][i] = answer[cl][i]
        /\ \A d \in Client \ {cl} : answer'[d] = answer[d]
    BY <1>1, QueryFacts
  <2>6. \A d \in Client : Current(d)' = Current(d)
    BY <2>1 DEF Current
  <2>7. n \in Nat /\ n - 1 = Len(answer[cl])
    BY DEF KmTypeOK
  <2> HIDE DEF n, f, seed
  <2>8. \A i \in 1 .. n : i = n \/ i \in 1 .. Len(answer[cl])
    BY <2>7
  <2>9. ASSUME NEW d \in Client, NEW i \in 1 .. Len(answer'[d]), answer'[d][i] # NoBase
        PROVE  Similar(Current(d), answer'[d][i])
    <3>1. CASE d = cl
      BY <2>4, <2>5, <2>7, <2>8, <2>9, <3>1 DEF KinInv, AnswerKin
    <3>2. CASE d # cl
      BY <2>5, <2>9, <3>2 DEF KinInv, AnswerKin
    <3>3. QED
      BY <3>1, <3>2
  <2>10. AnswerKin'
    BY <2>6, <2>9 DEF AnswerKin, Similar
  <2>11. QED
    BY <2>2, <2>10 DEF KinInv
<1>2. ASSUME NEW cl \in Client, NEW seed \in Chunk, Pending(cl), Answer(cl, seed),
             UNCHANGED recv_req, IndexKin', Similar(Current(cl), seed)
      PROVE  KinInv'
  <2> DEFINE n == Len(send_key[cl]) + 1
  <2>1. /\ recv_req[cl][n] = Current(cl)
        /\ Len(send_key'[cl]) = n /\ send_key'[cl][n] = seed
        /\ \A i \in 1 .. n - 1 : send_key'[cl][i] = send_key[cl][i]
        /\ answer'[cl] = <<>>
        /\ \A d \in Client \ {cl} : SameThread(d)
    BY <1>2, AnswerChanges
  <2>2. n \in Nat /\ n - 1 = Len(send_key[cl])
    BY DEF KmTypeOK
  <2> HIDE DEF n
  <2>3. \A i \in 1 .. n : i = n \/ i \in 1 .. Len(send_key[cl])
    BY <2>2
  <2>4. ASSUME NEW d \in Client, NEW i \in 1 .. Len(send_key'[d])
        PROVE  Similar(recv_req'[d][i], send_key'[d][i])
    <3>1. CASE d = cl
      BY <1>2, <2>1, <2>2, <2>3, <2>4, <3>1 DEF KinInv, SeedsOfSimilarChunks
    <3>2. CASE d # cl
      BY <2>1, <2>4, <3>2 DEF KinInv, SeedsOfSimilarChunks, SameThread
    <3>3. QED
      BY <3>1, <3>2
  <2>5. ASSUME NEW d \in Client, NEW i \in 1 .. Len(answer'[d]), answer'[d][i] # NoBase
        PROVE  Similar(Current(d)', answer'[d][i])
    <3>1. CASE d = cl
      BY <2>1, <2>5, <3>1
    <3>2. CASE d # cl
      BY <2>1, <2>5, <3>2 DEF KinInv, AnswerKin, SameThread, Current
    <3>3. QED
      BY <3>1, <3>2
  <2>6. SeedsOfSimilarChunks' /\ AnswerKin'
    BY <2>4, <2>5 DEF SeedsOfSimilarChunks, AnswerKin, Similar
  <2>7. QED
    BY <1>2, <2>6 DEF KinInv
<1>3. ASSUME NEW cl \in Client, SimilarSeed(cl)
      PROVE  KinInv'
  <2>1. PICK i \in 1 .. Len(answer[cl]) :
          /\ answer[cl][i] = BaseOf(answer[cl]) /\ answer[cl][i] # NoBase
          /\ answer[cl][i] \in Chunk
    BY <1>3, AnswerFacts DEF SimilarSeed
  <2>2. Similar(Current(cl), BaseOf(answer[cl])) /\ BaseOf(answer[cl]) \in Chunk
    BY <2>1 DEF KinInv, AnswerKin
  <2>3. IndexKin'
    BY <1>3 DEF SimilarSeed, KinInv, IndexKin, Known
  <2>4. QED
    BY <1>2, <1>3, <2>2, <2>3 DEF SimilarSeed
<1>4. ASSUME NEW cl \in Client, InsertFeature(cl)
      PROVE  KinInv'
  <2> DEFINE c == Current(cl)
             f == FeaturesOf[c][inserted[cl] + 1]
  <2>1. c \in Chunk /\ SeedOf(c) \in Chunk /\ FeatureSet(SeedOf(c)) = FeatureSet(c)
    BY <1>4, CurrentFacts, SeedFacts DEF InsertFeature
  <2>2. inserted[cl] + 1 \in Slot
    BY DEF KmTypeOK, Slot
  <2>3. f \in Feature /\ f \in FeatureSet(c)
    BY <1>4, <2>2, CurrentFacts DEF InsertFeature
  <2>4. feature_2_key_index' = [feature_2_key_index EXCEPT ![f] = SeedOf(c)]
    BY <1>4 DEF InsertFeature
  <2> HIDE DEF f
  <2>5. IndexKin'
    BY <2>1, <2>3, <2>4 DEF KinInv, IndexKin, Known, KmTypeOK, Index
  <2>6. CASE inserted[cl] + 1 < SUPER_FEATURE_PER_CHUNK
    <3>1. UNCHANGED <<recv_req, send_key, answer>>
      BY <1>4, <2>6 DEF InsertFeature, KmTypeOK
    <3>2. QED
      BY <2>5, <3>1 DEF KinInv, AnswerKin, SeedsOfSimilarChunks, Current, Similar
  <2>7. CASE ~(inserted[cl] + 1 < SUPER_FEATURE_PER_CHUNK)
    <3>1. Answer(cl, SeedOf(c))
      BY <1>4, <2>7 DEF InsertFeature
    <3>2. Similar(c, SeedOf(c))
      BY <2>1, <2>3 DEF Similar
    <3>3. QED
      BY <1>2, <1>4, <2>1, <2>5, <3>1, <3>2 DEF InsertFeature
  <2>8. QED
    BY <2>6, <2>7
<1>5. CASE \A cl \in Client : ~KmThread(cl)
  <2>1. Rest
    BY <1>5, RestOfNext
  <2>2. IndexKin'
    BY <2>1 DEF Rest, KinInv, IndexKin, Known
  <2>3. ASSUME NEW d \in Client
        PROVE  /\ \A i \in 1 .. Len(answer'[d]) :
                    answer'[d][i] # NoBase => Similar(Current(d)', answer'[d][i])
               /\ \A i \in 1 .. Len(send_key'[d]) : Similar(recv_req'[d][i], send_key'[d][i])
    <3>1. CASE SameThread(d)
      BY <3>1 DEF SameThread, Current, KinInv, AnswerKin, SeedsOfSimilarChunks
    <3>2. CASE IdleThread(d)
      BY <3>2 DEF IdleThread
    <3>3. QED
      BY <2>1, <3>1, <3>2 DEF Rest
  <2>4. AnswerKin' /\ SeedsOfSimilarChunks'
    BY <2>3 DEF AnswerKin, SeedsOfSimilarChunks, Similar
  <2>5. QED
    BY <2>2, <2>4 DEF KinInv
<1>6. QED
  BY <1>1, <1>3, <1>4, <1>5 DEF KmThread

(* Two chunks are given equal seeds only because of a shared feature: a    *)
(* seed is always that of a chunk similar to the one asked for, even when  *)
(* threads overwrite each other's insertions (BasicKM::Run).               *)
THEOREM SimilarSeeds == KmSpec => []SeedsOfSimilarChunks
<1>1. KmInit => KinInv
  BY DEF KmInit, KinInv, IndexKin, AnswerKin, SeedsOfSimilarChunks, Known, EmptyIndex
<1>2. KmTypeOK /\ KinInv /\ [KmNext]_kmVars => KinInv'
  BY KinStep
<1>3. KinInv => SeedsOfSimilarChunks
  BY DEF KinInv
<1>4. QED
  BY <1>1, <1>2, <1>3, KmTypeCorrect, PTL DEF KmSpec

-----------------------------------------------------------------------------
(* A base keeps its seed as long as threads are not busy with similar      *)
(* chunks.  One lemma for each kind of step.                               *)

SeedFactsOf(cl, index) ==
  /\ \A i \in 1 .. Len(answer[cl]) :
       LET seed == index[FeaturesOf[Current(cl)][i]] IN
       IF answer[cl][i] = NoBase THEN seed \in {NoBase, SeedOf(Current(cl))}
                                 ELSE seed = answer[cl][i]
  /\ \A i \in 1 .. inserted[cl] :
       index[FeaturesOf[Current(cl)][i]] = SeedOf(Current(cl))
  /\ \A i \in 1 .. Len(send_key[cl]) :
       send_key[cl][i] # SeedOf(recv_req[cl][i]) =>
         \E f \in FeatureSet(recv_req[cl][i]) :
           index[f] \notin {NoBase, SeedOf(recv_req[cl][i])}

LEMMA SeedInvParts ==
  SeedInv <=> (~overlap => /\ BusyApart /\ OwnIndexed
                           /\ \A cl \in Client : SeedFactsOf(cl, feature_2_key_index))
BY DEF SeedInv, AnswersHold, InsertsHold, OthersKnown, SeedFactsOf

LEMMA QueryKeepsSeeds ==
  ASSUME KmTypeOK, SeedInv, NEW cl \in Client, QueryFeature(cl), ~overlap'
  PROVE  /\ BusyApart' /\ OwnIndexed'
         /\ \A d \in Client : SeedFactsOf(d, feature_2_key_index)'
<1> DEFINE n == Len(answer[cl]) + 1
           seed == feature_2_key_index[FeaturesOf[Current(cl)][n]]
<1>1. /\ ~overlap
      /\ \A d \in Client \ {cl} : Busy(d) => ~Similar(Current(d), Current(cl))
  BY DEF QueryFeature, KmTypeOK
<1>2. BusyApart /\ OwnIndexed /\ \A d \in Client : SeedFactsOf(d, feature_2_key_index)
  BY <1>1, SeedInvParts
<1>3. UNCHANGED <<feature_2_key_index, recv_req, send_key, inserted, own>>
  BY DEF QueryFeature
<1>4. OwnIndexed'
  BY <1>2, <1>3 DEF OwnIndexed
<1>5. /\ Len(answer'[cl]) = n /\ answer'[cl][n] = seed
      /\ \A i \in 1 .. n - 1 : answer'[cl][i] = answer[cl][i]
      /\ \A d \in Client \ {cl} : answer'[d] = answer[d]
  BY QueryFacts
<1>6. \A d \in Client : Current(d)' = Current(d) /\ Pending(d)' = Pending(d)
  BY <1>3 DEF Current, Pending
<1>7. \A d \in Client \ {cl} : Busy(d)' = Busy(d)
  BY <1>5, <1>6 DEF Busy
<1>8. BusyApart'
  BY <1>1, <1>2, <1>6, <1>7 DEF BusyApart, Similar
<1>9. n \in Nat /\ n - 1 = Len(answer[cl])
  BY DEF KmTypeOK
<1> HIDE DEF n
<1>10. \A i \in 1 .. n : i = n \/ i \in 1 .. Len(answer[cl])
  BY <1>9
<1>11. ASSUME NEW i \in 1 .. Len(answer'[cl])
       PROVE  IF answer'[cl][i] = NoBase
                THEN feature_2_key_index[FeaturesOf[Current(cl)][i]]
                       \in {NoBase, SeedOf(Current(cl))}
                ELSE feature_2_key_index[FeaturesOf[Current(cl)][i]] = answer'[cl][i]
  BY <1>2, <1>5, <1>9, <1>10 DEF SeedFactsOf
<1>12. SeedFactsOf(cl, feature_2_key_index)'
  BY <1>2, <1>3, <1>6, <1>11 DEF SeedFactsOf
<1>13. \A d \in Client \ {cl} : SeedFactsOf(d, feature_2_key_index)'
  BY <1>2, <1>3, <1>5, <1>6 DEF SeedFactsOf
<1>14. QED
  BY <1>4, <1>8, <1>12, <1>13

(* Steps that leave the index as it is, and each thread as it was or       *)
(* without work done.                                                      *)
LEMMA RestKeepsSeeds ==
  ASSUME KmTypeOK, SeedInv, Rest
  PROVE  SeedInv'
<1> SUFFICES ASSUME ~overlap'
             PROVE  /\ BusyApart' /\ OwnIndexed'
                    /\ \A d \in Client : SeedFactsOf(d, feature_2_key_index)'
  BY SeedInvParts DEF SeedInv, AnswersHold, InsertsHold, OthersKnown, SeedFactsOf
<1>1. BusyApart /\ OwnIndexed /\ \A d \in Client : SeedFactsOf(d, feature_2_key_index)
  BY SeedInvParts DEF Rest
<1>2. OwnIndexed'
  BY <1>1 DEF OwnIndexed, Rest
<1>3. ASSUME NEW d \in Client
      PROVE  /\ Busy(d)' => Busy(d) /\ Current(d)' = Current(d)
             /\ SeedFactsOf(d, feature_2_key_index)'
  <2>1. CASE SameThread(d)
    BY <1>1, <2>1 DEF Rest, SameThread, SeedFactsOf, Current, Busy, Pending
  <2>2. CASE IdleThread(d)
    BY <2>2 DEF IdleThread, SeedFactsOf, Busy
  <2>3. QED
    BY <2>1, <2>2 DEF Rest
<1>4. BusyApart'
  BY <1>1, <1>3 DEF BusyApart, Similar
<1>5. QED
  BY <1>2, <1>3, <1>4

(* What an insertion changes in the index was unknown, and is not what     *)
(* another thread is busy with.                                            *)
LEMMA InsertKeepsFacts ==
  ASSUME KmTypeOK, BusyApart, OwnIndexed,
         \A d \in Client : SeedFactsOf(d, feature_2_key_index),
         NEW cl \in Client, InsertFeature(cl)
  PROVE  LET c == Current(cl) IN
         /\ feature_2_key_index'[FeaturesOf[c][inserted[cl] + 1]] = SeedOf(c)
         /\ \A e \in own : \A f \in FeatureSet(e) : feature_2_key_index'[f] = SeedOf(e)
         /\ \A d \in Client : SeedFactsOf(d, feature_2_key_index')
<1> DEFINE c == Current(cl)
           g == FeaturesOf[c][inserted[cl] + 1]
<1>1. /\ Pending(cl) /\ Len(answer[cl]) = SUPER_FEATURE_PER_CHUNK /\ ~IsKnown(answer[cl])
      /\ feature_2_key_index' = [feature_2_key_index EXCEPT ![g] = SeedOf(c)]
  BY DEF InsertFeature
<1>2. c \in Chunk /\ SeedOf(c) \in Chunk
  BY <1>1, CurrentFacts, SeedFacts
<1>3. inserted[cl] + 1 \in Slot
  BY DEF KmTypeOK, Slot
<1>4. g \in Feature /\ g \in FeatureSet(c)
  BY <1>1, <1>3, CurrentFacts
<1>5. feature_2_key_index \in [Feature -> Chunk \cup {NoBase}]
  BY DEF KmTypeOK, Index
<1>6. feature_2_key_index[g] \in {NoBase, SeedOf(c)}
  BY <1>1, <1>3, UnknownFacts DEF SeedFactsOf, Slot
<1> HIDE DEF g
<1>7. /\ feature_2_key_index'[g] = SeedOf(c)
      /\ \A f \in Feature :
           /\ feature_2_key_index[f] # NoBase \/ f \notin FeatureSet(c)
                => feature_2_key_index'[f] = feature_2_key_index[f]
           /\ feature_2_key_index'[f] \in {feature_2_key_index[f], SeedOf(c)}
  BY <1>1, <1>4, <1>5, <1>6
<1>8. \A e \in Chunk : FeatureSet(e) \subseteq Feature /\ SeedOf(e) # NoBase
  BY SeedFacts, FeatureSetFacts
<1>9. ASSUME NEW e \in own, NEW f \in FeatureSet(e)
      PROVE  feature_2_key_index'[f] = SeedOf(e)
  <2>1. e \in Chunk
    BY DEF KmTypeOK
  <2>2. f \in Feature /\ feature_2_key_index[f] = SeedOf(e) /\ SeedOf(e) # NoBase
    BY <1>8, <1>9, <2>1 DEF OwnIndexed
  <2>3. QED
    BY <1>7, <2>2
<1>10. Busy(cl)
  <2>1. answer[cl] # <<>>
    BY <1>1, <1>3
  <2>2. QED
    BY <1>1, <2>1 DEF Busy
<1>11. ASSUME NEW d \in Client
       PROVE  SeedFactsOf(d, feature_2_key_index')
  <2>1. ASSUME NEW i \in 1 .. Len(answer[d])
        PROVE  /\ Busy(d) /\ i \in Slot
               /\ FeaturesOf[Current(d)][i] \in Feature
               /\ FeaturesOf[Current(d)][i] \in FeatureSet(Current(d))
    <3>1. answer[d] \in Seq(Chunk \cup {NoBase}) /\ Len(answer[d]) <= SUPER_FEATURE_PER_CHUNK
      BY DEF KmTypeOK
    <3>2. i \in Slot /\ answer[d] # <<>>
      BY <2>1, <3>1 DEF Slot
    <3>3. Pending(d)
      BY <3>2 DEF KmTypeOK
    <3>4. QED
      BY <3>2, <3>3, CurrentFacts DEF Busy
  <2>2. ASSUME NEW i \in 1 .. Len(answer[d])
        PROVE  IF answer[d][i] = NoBase
                 THEN feature_2_key_index'[FeaturesOf[Current(d)][i]]
                        \in {NoBase, SeedOf(Current(d))}
                 ELSE feature_2_key_index'[FeaturesOf[Current(d)][i]] = answer[d][i]
    <3> DEFINE h == FeaturesOf[Current(d)][i]
    <3>1. /\ IF answer[d][i] = NoBase
               THEN feature_2_key_index[h] \in {NoBase, SeedOf(Current(d))}
               ELSE feature_2_key_index[h] = answer[d][i]
          /\ h \in Feature /\ h \in FeatureSet(Current(d))
      BY <2>1, <2>2 DEF SeedFactsOf
    <3> SUFFICES IF answer[d][i] = NoBase
                   THEN feature_2_key_index'[h] \in {NoBase, SeedOf(Current(d))}
                   ELSE feature_2_key_index'[h] = answer[d][i]
      OBVIOUS
    <3> HIDE DEF h
    <3>2. CASE d = cl
      BY <1>7, <3>1, <3>2
    <3>3. CASE d # cl
      <4>1. h \notin FeatureSet(c)
        BY <1>10, <2>1, <3>1, <3>3 DEF BusyApart, Similar
      <4>2. feature_2_key_index'[h] = feature_2_key_index[h]
        BY <1>7, <3>1, <4>1
      <4>3. QED
        BY <3>1, <4>2
    <3>4. QED
      BY <3>2, <3>3
  <2>3. ASSUME NEW i \in 1 .. inserted[d]
        PROVE  feature_2_key_index'[FeaturesOf[Current(d)][i]] = SeedOf(Current(d))
    <3>1. inserted[d] # 0 /\ Len(answer[d]) = SUPER_FEATURE_PER_CHUNK
          /\ i \in 1 .. Len(answer[d])
      BY <2>3 DEF KmTypeOK
    <3>2. FeaturesOf[Current(d)][i] \in Feature /\ Current(d) \in Chunk
      BY <2>1, <3>1, CurrentFacts DEF Busy
    <3>3. feature_2_key_index[FeaturesOf[Current(d)][i]] = SeedOf(Current(d))
      BY <2>3 DEF SeedFactsOf
    <3>4. SeedOf(Current(d)) # NoBase
      BY <1>8, <3>2
    <3> HIDE DEF c
    <3>5. QED
      BY <1>7, <3>2, <3>3, <3>4
  <2>4. ASSUME NEW i \in 1 .. Len(send_key[d]), send_key[d][i] # SeedOf(recv_req[d][i])
        PROVE  \E f \in FeatureSet(recv_req[d][i]) :
                 feature_2_key_index'[f] \notin {NoBase, SeedOf(recv_req[d][i])}
    <3>1. recv_req[d][i] \in Chunk
      <4>1. /\ recv_req[d] \in Seq(Chunk) /\ send_key[d] \in Seq(Chunk)
            /\ Len(send_key[d]) <= Len(recv_req[d])
        BY DEF KmTypeOK
      <4>2. i \in 1 .. Len(recv_req[d])
        BY <2>4, <4>1
      <4>3. QED
        BY <4>1, <4>2
    <3>2. PICK f \in FeatureSet(recv_req[d][i]) :
            feature_2_key_index[f] \notin {NoBase, SeedOf(recv_req[d][i])}
      BY <2>4 DEF SeedFactsOf
    <3>3. f \in Feature /\ feature_2_key_index[f] # NoBase
      BY <1>8, <3>1, <3>2
    <3>4. feature_2_key_index'[f] = feature_2_key_index[f]
      BY <1>7, <3>3
    <3>5. QED
      BY <3>2, <3>4
  <2>5. QED
    BY <2>2, <2>3, <2>4 DEF SeedFactsOf
<1>12. QED
  BY <1>7, <1>9, <1>11 DEF g

(* The answer is the chunk's own seed, or there is another's under one of  *)
(* its features.                                                           *)
LEMMA AnswerKeepsSeeds ==
  ASSUME KmTypeOK, BusyApart, NEW cl \in Client, NEW seed \in Chunk,
         Pending(cl), Answer(cl, seed), UNCHANGED recv_req,
         \A d \in Client : SeedFactsOf(d, feature_2_key_index'),
         seed # SeedOf(Current(cl)) =>
           \E f \in FeatureSet(Current(cl)) :
             feature_2_key_index'[f] \notin {NoBase, SeedOf(Current(cl))}
  PROVE  /\ BusyApart'
         /\ \A d \in Client : SeedFactsOf(d, feature_2_key_index)'
<1> DEFINE n == Len(send_key[cl]) + 1
<1>1. /\ recv_req[cl][n] = Current(cl)
      /\ Len(send_key'[cl]) = n /\ send_key'[cl][n] = seed
      /\ \A i \in 1 .. n - 1 : send_key'[cl][i] = send_key[cl][i]
      /\ answer'[cl] = <<>> /\ inserted'[cl] = 0
      /\ \A d \in Client \ {cl} : SameThread(d)
  BY AnswerChanges
<1>2. n \in Nat /\ n - 1 = Len(send_key[cl])
  BY DEF KmTypeOK
<1> HIDE DEF n
<1>3. \A i \in 1 .. n : i = n \/ i \in 1 .. Len(send_key[cl])
  BY <1>2
<1>4. ~Busy(cl)' /\ \A d \in Client \ {cl} : Busy(d)' = Busy(d) /\ Current(d)' = Current(d)
  BY <1>1 DEF Busy, Pending, Current, SameThread
<1>5. BusyApart'
  BY <1>4 DEF BusyApart, Similar
<1>6. ASSUME NEW i \in 1 .. Len(send_key'[cl]),
             send_key'[cl][i] # SeedOf(recv_req[cl][i])
      PROVE  \E f \in FeatureSet(recv_req[cl][i]) :
               feature_2_key_index'[f] \notin {NoBase, SeedOf(recv_req[cl][i])}
  <2>1. CASE i = n
    BY <1>1, <1>6, <2>1
  <2>2. CASE i # n
    BY <1>1, <1>2, <1>3, <1>6, <2>2 DEF SeedFactsOf
  <2>3. QED
    BY <2>1, <2>2
<1>7. SeedFactsOf(cl, feature_2_key_index)'
  BY <1>1, <1>6 DEF SeedFactsOf
<1>8. \A d \in Client \ {cl} : SeedFactsOf(d, feature_2_key_index)'
  BY <1>1, <1>4 DEF SeedFactsOf, SameThread
<1>9. QED
  BY <1>5, <1>7, <1>8

LEMMA SeedStep ==
  ASSUME KmTypeOK, SeedInv, [KmNext]_kmVars
  PROVE  SeedInv'
<1>1. ASSUME NEW cl \in Client, QueryFeature(cl)
      PROVE  SeedInv'
  BY <1>1, QueryKeepsSeeds DEF SeedInv, AnswersHold, InsertsHold, OthersKnown, SeedFactsOf
<1>2. ASSUME NEW cl \in Client, SimilarSeed(cl), ~overlap'
      PROVE  /\ BusyApart' /\ OwnIndexed'
             /\ \A d \in Client : SeedFactsOf(d, feature_2_key_index)'
  <2>1. /\ Pending(cl) /\ Answer(cl, BaseOf(answer[cl])) /\ ~overlap
        /\ UNCHANGED <<feature_2_key_index, recv_req, own>>
    BY <1>2 DEF SimilarSeed
  <2>2. BusyApart /\ OwnIndexed /\ \A d \in Client : SeedFactsOf(d, feature_2_key_index)
    BY <2>1, SeedInvParts
  <2>3. PICK i \in 1 .. Len(answer[cl]) :
          /\ answer[cl][i] = BaseOf(answer[cl]) /\ answer[cl][i] # NoBase
          /\ answer[cl][i] \in Chunk
    BY <1>2, AnswerFacts DEF SimilarSeed
  <2>4. feature_2_key_index[FeaturesOf[Current(cl)][i]] = BaseOf(answer[cl])
    BY <2>2, <2>3 DEF SeedFactsOf
  <2>5. FeaturesOf[Current(cl)][i] \in FeatureSet(Current(cl))
    BY <1>2, <2>1, <2>3, CurrentFacts DEF SimilarSeed, Slot
  <2>6. OwnIndexed'
    BY <2>1, <2>2 DEF OwnIndexed
  <2>7. \A d \in Client : SeedFactsOf(d, feature_2_key_index')
    BY <2>1, <2>2
  <2>8. QED
    BY <2>1, <2>2, <2>3, <2>4, <2>5, <2>6, <2>7, AnswerKeepsSeeds
<1>3. ASSUME NEW cl \in Client, InsertFeature(cl), ~overlap'
      PROVE  /\ BusyApart' /\ OwnIndexed'
             /\ \A d \in Client : SeedFactsOf(d, feature_2_key_index)'
  <2> DEFINE c == Current(cl)
  <2>1. Pending(cl) /\ ~overlap /\ UNCHANGED recv_req
    BY <1>3 DEF InsertFeature
  <2>2. BusyApart /\ OwnIndexed /\ \A d \in Client : SeedFactsOf(d, feature_2_key_index)
    BY <2>1, SeedInvParts
  <2>3. /\ feature_2_key_index'[FeaturesOf[c][inserted[cl] + 1]] = SeedOf(c)
        /\ \A e \in own : \A f \in FeatureSet(e) : feature_2_key_index'[f] = SeedOf(e)
        /\ \A d \in Client : SeedFactsOf(d, feature_2_key_index')
    BY <1>3, <2>2, InsertKeepsFacts
  <2>4. c \in Chunk /\ SeedOf(c) \in Chunk
    BY <2>1, CurrentFacts, SeedFacts
  <2>5. \A i \in 1 .. inserted[cl] : feature_2_key_index'[FeaturesOf[c][i]] = SeedOf(c)
    BY <2>3 DEF SeedFactsOf
  <2>6. inserted \in [Client -> 0 .. SUPER_FEATURE_PER_CHUNK - 1]
    BY DEF KmTypeOK
  <2>7. \A i \in 1 .. inserted[cl] + 1 : feature_2_key_index'[FeaturesOf[c][i]] = SeedOf(c)
    <3>1. \A i \in 1 .. inserted[cl] + 1 : i = inserted[cl] + 1 \/ i \in 1 .. inserted[cl]
      <4>1. inserted[cl] \in Nat
        BY <2>6
      <4>2. QED
        BY <4>1
    <3>2. QED
      BY <2>3, <2>5, <3>1
  <2>8. CASE inserted[cl] + 1 < SUPER_FEATURE_PER_CHUNK
    <3>1. /\ inserted' = [inserted EXCEPT ![cl] = @ + 1]
          /\ UNCHANGED <<send_key, answer, own>>
      BY <1>3, <2>8 DEF InsertFeature, KmTypeOK
    <3>2. \A d \in Client : Current(d)' = Current(d) /\ Busy(d)' = Busy(d)
      BY <2>1, <3>1 DEF Current, Busy, Pending
    <3>3. BusyApart'
      BY <2>2, <3>2 DEF BusyApart, Similar
    <3>4. OwnIndexed'
      BY <2>3, <3>1 DEF OwnIndexed
    <3>5. inserted'[cl] = inserted[cl] + 1
          /\ \A d \in Client \ {cl} : inserted'[d] = inserted[d]
      BY <2>6, <3>1
    <3>6. SeedFactsOf(cl, feature_2_key_index)'
      BY <2>1, <2>3, <2>7, <3>1, <3>2, <3>5 DEF SeedFactsOf
    <3>7. \A d \in Client \ {cl} : SeedFactsOf(d, feature_2_key_index)'
      BY <2>1, <2>3, <3>1, <3>2, <3>5 DEF SeedFactsOf
    <3>8. QED
      BY <3>3, <3>4, <3>6, <3>7
  <2>9. CASE ~(inserted[cl] + 1 < SUPER_FEATURE_PER_CHUNK)
    <3>1. Answer(cl, SeedOf(c)) /\ own' = own \cup {c}
      BY <1>3, <2>9 DEF InsertFeature
    <3>2. Slot = 1 .. inserted[cl] + 1
      BY <2>6, <2>9 DEF Slot
    <3>3. \A f \in FeatureSet(c) : feature_2_key_index'[f] = SeedOf(c)
      BY <2>7, <3>2 DEF FeatureSet
    <3>4. OwnIndexed'
      BY <2>3, <3>1, <3>3 DEF OwnIndexed
    <3>5. QED
      BY <2>1, <2>2, <2>3, <2>4, <3>1, <3>4, AnswerKeepsSeeds
  <2>10. QED
    BY <2>8, <2>9
<1>4. CASE \A cl \in Client : ~KmThread(cl)
  BY <1>4, RestOfNext, RestKeepsSeeds
<1>5. ASSUME ~overlap' => /\ BusyApart' /\ OwnIndexed'
                         /\ \A d \in Client : SeedFactsOf(d, feature_2_key_index)'
      PROVE  SeedInv'
  BY <1>5 DEF SeedInv, AnswersHold, InsertsHold, OthersKnown, SeedFactsOf
<1>6. QED
  BY <1>1, <1>2, <1>3, <1>4, <1>5 DEF KmThread

(* As long as no two threads are busy with similar chunks at one time, a   *)
(* chunk whose own seed was inserted gets this seed for ever after, so that*)
(* its copies have equal keys (BasicKM::Run, UpdateFeatureIndex).          *)
THEOREM SeedsKept == KmSpec => []BaseKeepsItsSeed
<1>1. KmInit => SeedInv
  BY DEF KmInit, SeedInv, BusyApart, Busy, AnswersHold, InsertsHold, OwnIndexed, OthersKnown
<1>2. KmTypeOK /\ SeedInv /\ [KmNext]_kmVars => SeedInv'
  BY SeedStep
<1>3. SeedInv => BaseKeepsItsSeed
  <2> SUFFICES ASSUME SeedInv, ~overlap, NEW cl \in Client, NEW i \in 1 .. Len(send_key[cl]),
                      recv_req[cl][i] \in own
               PROVE  send_key[cl][i] = SeedOf(recv_req[cl][i])
    BY DEF BaseKeepsItsSeed
  <2>1. QED
    BY DEF SeedInv, OwnIndexed, OthersKnown
<1>4. QED
  BY <1>1, <1>2, <1>3, KmTypeCorrect, PTL DEF KmSpec

HIDE SimilarAssumption

-----------------------------------------------------------------------------

(* The key manager and its clients.                                        *)

(* KeyGenThd: a batch goes out only after the seeds of the last have come. *)
KeyGenInv ==
  /\ file \in [Client -> Seq(Chunk)] /\ next \in [Client -> Nat]
  /\ chunk_buf \in [Client -> Seq(Chunk)] /\ asked \in [Client -> BOOLEAN]
  /\ client \in [Client -> {"run", "sent", "closed", "gone"}]
  /\ recv_req \in [Client -> Seq(Chunk)]
  /\ \A cl \in Client : Running(cl) /\ ~asked[cl] => recv_req[cl] = <<>>

LEMMA KeyGenInit ==
  ASSUME Init
  PROVE  KeyGenInv
<1>1. file \in [Client -> Seq(Chunk)]
  <2>1. \A cl \in Client : file[cl] \in Files[cl] /\ Files[cl] \in SUBSET Seq(Chunk)
    BY ClientUploadAssumption DEF Init
  <2>2. \E S : file \in [Client -> S]
    BY DEF Init
  <2>3. QED
    BY <2>1, <2>2
<1>2. \A cl \in Client : recv_req[cl] = <<>>
  BY DEF Init, KmInit
<1>3. QED
  BY <1>1, <1>2 DEF Init, KmInit, KeyGenInv

(* The steps that concern KeyGenThd or the key manager: each keeps         *)
(* KeyGenInv, and to the key manager is a step of its own or none.         *)
LEMMA KeyGenStep ==
  ASSUME KeyGenInv, [Next]_vars
  PROVE  KeyGenInv' /\ [KmNext]_kmVars
<1>1. ASSUME UNCHANGED kmVars, UNCHANGED file, UNCHANGED <<next, chunk_buf, asked>>,
             client' \in [Client -> {"run", "sent", "closed", "gone"}],
             \A d \in Client : Running(d)' => Running(d)
      PROVE  KeyGenInv' /\ [KmNext]_kmVars
  BY <1>1 DEF KeyGenInv, kmVars
<1>2. ASSUME NEW cl \in Client, Gone(cl), UNCHANGED kmVars
      PROVE  KeyGenInv' /\ [KmNext]_kmVars
  <2>1. /\ client' = [client EXCEPT ![cl] = "gone"] /\ UNCHANGED file
        /\ next' = [next EXCEPT ![cl] = 0]
        /\ chunk_buf' = [chunk_buf EXCEPT ![cl] = <<>>]
        /\ asked' = [asked EXCEPT ![cl] = FALSE]
        /\ UNCHANGED recv_req
    BY <1>2 DEF Gone, fixedVars, kmVars
  <2>2. /\ next' \in [Client -> Nat] /\ chunk_buf' \in [Client -> Seq(Chunk)]
        /\ asked' \in [Client -> BOOLEAN]
        /\ client' \in [Client -> {"run", "sent", "closed", "gone"}]
    BY <2>1 DEF KeyGenInv
  <2>3. \A d \in Client : Running(d)' => d # cl
    BY <2>1 DEF KeyGenInv, Running
  <2>4. \A d \in Client \ {cl} : client'[d] = client[d] /\ asked'[d] = asked[d]
    BY <2>1 DEF KeyGenInv
  <2>5. QED
    BY <1>2, <2>1, <2>2, <2>3, <2>4 DEF KeyGenInv, Running
<1>3. ASSUME NEW cl \in Client, PopChunk(cl)
      PROVE  KeyGenInv' /\ [KmNext]_kmVars
  <2>1. /\ next' = [next EXCEPT ![cl] = @ + 1]
        /\ chunk_buf' = [chunk_buf EXCEPT ![cl] = Append(@, file[cl][next[cl] + 1])]
        /\ UNCHANGED <<kmVars, asked, file, client>>
    BY <1>3 DEF PopChunk, KeyGenRest, fixedVars
  <2>2. file[cl][next[cl] + 1] \in Chunk
    BY <1>3 DEF PopChunk, KeyGenInv
  <2>3. next' \in [Client -> Nat] /\ chunk_buf' \in [Client -> Seq(Chunk)]
    BY <2>1, <2>2 DEF KeyGenInv
  <2>4. QED
    BY <2>1, <2>3 DEF KeyGenInv, Running, kmVars
<1>4. ASSUME NEW cl \in Client, Running(cl), AskForSeeds(cl)
      PROVE  KeyGenInv' /\ [KmNext]_kmVars
  <2>1. /\ ~asked[cl] /\ asked' = [asked EXCEPT ![cl] = TRUE]
        /\ RecvBatch(cl, chunk_buf[cl])
        /\ UNCHANGED <<next, chunk_buf, file, client>>
    BY <1>4 DEF AskForSeeds, KeyGenRest, fixedVars
  <2>2. chunk_buf[cl] \in Seq(Chunk) /\ recv_req[cl] = <<>>
    BY <1>4, <2>1 DEF KeyGenInv
  <2>3. /\ recv_req' \in [Client -> Seq(Chunk)] /\ recv_req'[cl] = chunk_buf[cl]
        /\ asked' \in [Client -> BOOLEAN] /\ asked'[cl] = TRUE
        /\ \A d \in Client \ {cl} : recv_req'[d] = recv_req[d] /\ asked'[d] = asked[d]
    BY <2>1, <2>2 DEF KeyGenInv, RecvBatch
  <2>4. RecvAnyBatch(cl)
    BY <2>1, <2>2, <2>3 DEF RecvAnyBatch
  <2>5. KeyGenInv'
    BY <2>1, <2>3 DEF KeyGenInv, Running
  <2>6. QED
    BY <2>4, <2>5 DEF KmNext
<1>5. ASSUME NEW cl \in Client, GetSeeds(cl)
      PROVE  KeyGenInv' /\ [KmNext]_kmVars
  <2>1. /\ Replies(cl) /\ SendBatch(cl)
        /\ chunk_buf' = [chunk_buf EXCEPT ![cl] = <<>>]
        /\ asked' = [asked EXCEPT ![cl] = FALSE]
        /\ UNCHANGED <<next, file, client>>
    BY <1>5 DEF GetSeeds, KeyGenRest, fixedVars
  <2>2. /\ recv_req' \in [Client -> Seq(Chunk)] /\ recv_req'[cl] = <<>>
        /\ asked' \in [Client -> BOOLEAN] /\ chunk_buf' \in [Client -> Seq(Chunk)]
        /\ \A d \in Client \ {cl} : recv_req'[d] = recv_req[d] /\ asked'[d] = asked[d]
    BY <2>1 DEF KeyGenInv, SendBatch
  <2>3. KeyGenInv'
    BY <2>1, <2>2 DEF KeyGenInv, Running
  <2>4. QED
    BY <2>1, <2>3 DEF KmNext
<1>6. ASSUME NEW cl \in Client, PassRecipe(cl) \/ FinishKm(cl)
      PROVE  KeyGenInv' /\ [KmNext]_kmVars
  <2>1. /\ next' = [next EXCEPT ![cl] = @ + 1]
        /\ UNCHANGED <<kmVars, chunk_buf, asked, file, client>>
    BY <1>6 DEF PassRecipe, FinishKm, KeyGenRest, fixedVars
  <2>2. next' \in [Client -> Nat]
    BY <2>1 DEF KeyGenInv
  <2>3. QED
    BY <2>1, <2>2 DEF KeyGenInv, Running, kmVars
<1>7. ASSUME NEW cl \in Client, KmThread(cl), UNCHANGED <<clientVars>>
      PROVE  KeyGenInv' /\ [KmNext]_kmVars
  <2>1. UNCHANGED recv_req
    BY <1>7 DEF KmThread, QueryFeature, SimilarSeed, InsertFeature
  <2>2. UNCHANGED <<file, next, chunk_buf, asked, client>>
    BY <1>7 DEF clientVars, fixedVars, keyGenVars
  <2>3. QED
    BY <1>7, <2>1, <2>2 DEF KeyGenInv, Running, KmNext
<1>8. ASSUME NEW cl \in Client, Replies(cl), SendBatch(cl) \/ KmExit, UNCHANGED <<clientVars>>
      PROVE  KeyGenInv' /\ [KmNext]_kmVars
  <2>1. /\ recv_req' \in [Client -> Seq(Chunk)]
        /\ \A d \in Client : recv_req'[d] \in {recv_req[d], <<>>}
    <3>1. CASE SendBatch(cl)
      BY <3>1 DEF SendBatch, KeyGenInv
    <3>2. CASE KmExit
      BY <3>2 DEF KmExit, KeyGenInv
    <3>3. QED
      BY <1>8, <3>1, <3>2
  <2>2. UNCHANGED <<file, next, chunk_buf, asked, client>>
    BY <1>8 DEF clientVars, fixedVars, keyGenVars
  <2>3. KeyGenInv'
    BY <2>1, <2>2 DEF KeyGenInv, Running
  <2>4. QED
    BY <1>8, <2>3 DEF KmNext
<1>9. ASSUME NEW cl \in Client, KeyGen(cl), Running(cl)
      PROVE  KeyGenInv' /\ [KmNext]_kmVars
  BY <1>2, <1>3, <1>4, <1>5, <1>6, <1>9 DEF KeyGen, KeyGenFails
<1>10. ASSUME NEW cl \in Client, SelectComp(cl) \/ SendChunk(cl)
       PROVE  KeyGenInv' /\ [KmNext]_kmVars
  <2>1. UNCHANGED <<kmVars, file, client, next, chunk_buf, asked>>
    BY <1>10 DEF SelectComp, SendChunk, SenderRest, fixedVars, keyGenVars
  <2>2. QED
    BY <1>1, <2>1 DEF KeyGenInv, Running
<1>11. ASSUME NEW cl \in Client, Running(cl), SendRecipeEnd(cl) \/ CloseKeyRecipe(cl)
       PROVE  KeyGenInv' /\ [KmNext]_kmVars
  <2>1. /\ UNCHANGED <<kmVars, file, next, chunk_buf, asked>>
        /\ \E state \in {"sent", "closed"} : client' = [client EXCEPT ![cl] = state]
    BY <1>11 DEF SendRecipeEnd, CloseKeyRecipe, SenderRest, fixedVars, keyGenVars
  <2>2. /\ client' \in [Client -> {"run", "sent", "closed", "gone"}]
        /\ \A d \in Client \ {cl} : client'[d] = client[d]
    BY <2>1 DEF KeyGenInv
  <2>3. \A d \in Client : Running(d)' => Running(d)
    BY <1>11, <2>2 DEF Running
  <2>4. QED
    BY <1>1, <2>1, <2>2, <2>3
<1>12. ASSUME NEW cl \in Client, RecvThread(cl)
       PROVE  KeyGenInv' /\ [KmNext]_kmVars
  <2>1. UNCHANGED <<kmVars, file, client, next, chunk_buf, asked>>
    BY <1>12 DEF RecvThread, ProcessChunk, ProcessRecipeEnd, RecvRest, fixedVars, keyGenVars
  <2>2. QED
    BY <1>1, <2>1 DEF KeyGenInv, Running
<1>13. ASSUME NEW cl \in Client, KmThreads(cl)
       PROVE  KeyGenInv' /\ [KmNext]_kmVars
  BY <1>7, <1>8, <1>13 DEF KmThreads, DropSeeds, SendSeedsFails
<1>14. ASSUME NEW cl \in Client, Die(cl)
       PROVE  KeyGenInv' /\ [KmNext]_kmVars
  BY <1>2, <1>14 DEF Die
<1>15. CASE UNCHANGED vars
  <2>1. UNCHANGED <<kmVars, file, client, next, chunk_buf, asked>>
    BY <1>15 DEF vars, clientVars, fixedVars, keyGenVars
  <2>2. QED
    BY <1>1, <2>1 DEF KeyGenInv, Running
<1>16. QED
  BY <1>9, <1>10, <1>11, <1>12, <1>13, <1>14, <1>15 DEF Next, ClientThread

(* The clients and the key manager of an upload implement the key manager  *)
(* with clients of any kind (KeyGenThd::ProcessBatch, BasicKM::Run).       *)
THEOREM ImplementsKeyManager == Spec => KmSpec
<1>1. Init => KeyGenInv /\ KmInit
  BY KeyGenInit DEF Init
<1>2. KeyGenInv /\ [Next]_vars => KeyGenInv' /\ [KmNext]_kmVars
  BY KeyGenStep
<1>3. QED
  BY <1>1, <1>2, PTL DEF Spec, KmSpec

(* In every upload a seed is that of a similar chunk.                      *)
THEOREM UploadSimilarSeeds == Spec => []SeedsOfSimilarChunks
BY ImplementsKeyManager, SimilarSeeds, PTL

(* In every upload, as long as the key manager's threads are not busy with *)
(* similar chunks at one time, copies of a base get the same seed.         *)
THEOREM UploadSeedsKept == Spec => []BaseKeepsItsSeed
BY ImplementsKeyManager, SeedsKept, PTL

-----------------------------------------------------------------------------
(* Sequences.                                                              *)

(* Sequences whose elements are of no set in particular: messages and      *)
(* items are records of several kinds.                                     *)
ASeq(s) == \E S : s \in Seq(S)

(* A sequence has a length, and is empty just when that is 0.              *)
LEMMA SeqFacts ==
  ASSUME NEW s, ASeq(s)
  PROVE  /\ Len(s) \in Nat /\ (s = <<>> <=> Len(s) = 0)
         /\ \E S : s \in Seq(S) /\ \A i \in 1 .. Len(s) : s[i] \in S
<1>1. PICK S : s \in Seq(S)
  BY DEF ASeq
<1> QED BY <1>1

LEMMA EmptyASeq == ASeq(<<>>)
<1>1. <<>> \in Seq({})
  OBVIOUS
<1> QED BY <1>1 DEF ASeq

(* Append keeps what was there and puts the new element behind it.         *)
LEMMA AppendFacts ==
  ASSUME NEW s, ASeq(s), NEW x
  PROVE  /\ ASeq(Append(s, x)) /\ Len(Append(s, x)) = Len(s) + 1 /\ Append(s, x) # <<>>
         /\ Append(s, x)[Len(s) + 1] = x
         /\ \A i \in 1 .. Len(s) : Append(s, x)[i] = s[i]
<1>1. PICK S : s \in Seq(S)
  BY DEF ASeq
<1>2. s \in Seq(S \cup {x})
  BY <1>1
<1>3. Append(s, x) \in Seq(S \cup {x})
  BY <1>2
<1>4. /\ Len(Append(s, x)) = Len(s) + 1 /\ Append(s, x) # <<>>
      /\ Append(s, x)[Len(s) + 1] = x
      /\ \A i \in 1 .. Len(s) : Append(s, x)[i] = s[i]
  BY <1>2
<1> QED BY <1>3, <1>4 DEF ASeq

(* Head and Tail of a sequence that is not empty.                          *)
LEMMA TailFacts ==
  ASSUME NEW s, ASeq(s), s # <<>>
  PROVE  /\ ASeq(Tail(s)) /\ Len(s) > 0 /\ Len(Tail(s)) = Len(s) - 1
         /\ Head(s) = s[1]
         /\ \A i \in 1 .. Len(s) - 1 : Tail(s)[i] = s[i + 1]
<1>1. PICK S : s \in Seq(S)
  BY DEF ASeq
<1>2. Tail(s) \in Seq(S) /\ Len(s) > 0
  BY <1>1
<1>3. /\ Len(Tail(s)) = Len(s) - 1 /\ Head(s) = s[1]
      /\ \A i \in 1 .. Len(s) - 1 : Tail(s)[i] = s[i + 1]
  BY <1>1, <1>2
<1> QED BY <1>2, <1>3 DEF ASeq

(* The elements of a concatenation.                                        *)
LEMMA ConcatFacts ==
  ASSUME NEW s, ASeq(s), NEW t, ASeq(t)
  PROVE  /\ ASeq(s \o t) /\ Len(s \o t) = Len(s) + Len(t)
         /\ \A i \in 1 .. Len(s) : (s \o t)[i] = s[i]
         /\ \A i \in 1 .. Len(t) : (s \o t)[Len(s) + i] = t[i]
         /\ \A i \in Len(s) + 1 .. Len(s) + Len(t) : (s \o t)[i] = t[i - Len(s)]
<1>1. PICK S : s \in Seq(S)
  BY DEF ASeq
<1>2. PICK T : t \in Seq(T)
  BY DEF ASeq
<1>3. s \in Seq(S \cup T) /\ t \in Seq(S \cup T)
  BY <1>1, <1>2
<1>4. s \o t \in Seq(S \cup T) /\ Len(s \o t) = Len(s) + Len(t)
  BY <1>3
<1>5. \A i \in 1 .. Len(s) : (s \o t)[i] = s[i]
  BY <1>3
<1>6. \A i \in Len(s) + 1 .. Len(s) + Len(t) : (s \o t)[i] = t[i - Len(s)]
  BY <1>3
<1>7. \A i \in 1 .. Len(t) : (s \o t)[Len(s) + i] = t[i]
  <2> TAKE i \in 1 .. Len(t)
  <2>1. Len(s) + i \in Len(s) + 1 .. Len(s) + Len(t) /\ (Len(s) + i) - Len(s) = i
    BY <1>3
  <2> QED BY <1>6, <2>1
<1> QED BY <1>4, <1>5, <1>6, <1>7 DEF ASeq

(* Nothing is appended.                                                    *)
LEMMA ConcatEmpty ==
  ASSUME NEW s, ASeq(s)
  PROVE  s \o <<>> = s
BY DEF ASeq

(* The elements of a part of a sequence.                                   *)
LEMMA SubSeqFacts ==
  ASSUME NEW s, ASeq(s), NEW a \in 1 .. Len(s) + 1, NEW b \in 0 .. Len(s), a <= b + 1
  PROVE  /\ ASeq(SubSeq(s, a, b)) /\ Len(SubSeq(s, a, b)) = b - a + 1
         /\ \A i \in 1 .. b - a + 1 : SubSeq(s, a, b)[i] = s[a + i - 1]
<1>1. PICK S : s \in Seq(S)
  BY DEF ASeq
<1>2. SubSeq(s, a, b) \in Seq(S) /\ Len(SubSeq(s, a, b)) = b - a + 1
  BY <1>1
<1>3. \A i \in 1 .. b - a + 1 : SubSeq(s, a, b)[i] = s[a + i - 1]
  BY <1>1
<1> QED BY <1>2, <1>3 DEF ASeq

(* A sequence whose first element is another.                              *)
LEMMA FirstReplaced ==
  ASSUME NEW s, ASeq(s), s # <<>>, NEW x
  PROVE  LET t == [s EXCEPT ![1] = x] IN
         /\ ASeq(t) /\ Len(t) = Len(s) /\ t[1] = x
         /\ \A i \in 2 .. Len(s) : t[i] = s[i]
<1>1. PICK S : s \in Seq(S)
  BY DEF ASeq
<1>2. s \in Seq(S \cup {x}) /\ Len(s) > 0
  BY <1>1
<1>3. [s EXCEPT ![1] = x] \in Seq(S \cup {x}) /\ Len([s EXCEPT ![1] = x]) = Len(s)
  BY <1>2
<1>4. [s EXCEPT ![1] = x][1] = x /\ \A i \in 2 .. Len(s) : [s EXCEPT ![1] = x][i] = s[i]
  BY <1>2
<1> QED BY <1>3, <1>4 DEF ASeq

(* A function on 1 .. n is a sequence.                                     *)
LEMMA FunctionASeq ==
  ASSUME NEW n \in Nat, NEW s, s = [i \in 1 .. n |-> s[i]]
  PROVE  ASeq(s) /\ Len(s) = n
<1> DEFINE S == {s[i] : i \in 1 .. n}
<1>1. [i \in 1 .. n |-> s[i]] \in Seq(S) /\ Len([i \in 1 .. n |-> s[i]]) = n
  OBVIOUS
<1> QED BY <1>1, Zenon DEF ASeq

(* Sequences of one and of two elements.                                   *)
LEMMA PairASeq ==
  ASSUME NEW x, NEW y
  PROVE  /\ ASeq(<<x>>) /\ Len(<<x>>) = 1 /\ <<x>>[1] = x
         /\ ASeq(<<x, y>>) /\ Len(<<x, y>>) = 2 /\ <<x, y>>[1] = x /\ <<x, y>>[2] = y
<1>1. <<x>> \in Seq({x}) /\ <<x, y>> \in Seq({x, y})
  OBVIOUS
<1> QED BY <1>1 DEF ASeq

(* r is s followed by t; r is s followed by x.                             *)
IsConcat(s, t, r) ==
  /\ ASeq(r) /\ Len(r) = Len(s) + Len(t)
  /\ \A i \in 1 .. Len(s) : r[i] = s[i]
  /\ \A i \in 1 .. Len(t) : r[Len(s) + i] = t[i]
IsAppend(s, x, r) ==
  /\ ASeq(r) /\ Len(r) = Len(s) + 1 /\ r[Len(s) + 1] = x
  /\ \A i \in 1 .. Len(s) : r[i] = s[i]

LEMMA ConcatIs ==
  ASSUME NEW s, ASeq(s), NEW t, ASeq(t)
  PROVE  IsConcat(s, t, s \o t)
BY ConcatFacts DEF IsConcat

LEMMA AppendIs ==
  ASSUME NEW s, ASeq(s), NEW x
  PROVE  IsAppend(s, x, Append(s, x))
BY AppendFacts DEF IsAppend

LEMMA ConcatOne ==
  ASSUME NEW u, ASeq(u), NEW msg
  PROVE  IsAppend(u, msg, u \o <<msg>>)
<1>1. /\ ASeq(<<msg>>) /\ Len(<<msg>>) = 1 /\ <<msg>>[1] = msg
  BY PairASeq
<1>2. /\ ASeq(u \o <<msg>>) /\ Len(u \o <<msg>>) = Len(u) + Len(<<msg>>)
      /\ \A i \in 1 .. Len(u) : (u \o <<msg>>)[i] = u[i]
      /\ \A i \in 1 .. Len(<<msg>>) : (u \o <<msg>>)[Len(u) + i] = <<msg>>[i]
  BY <1>1, ConcatFacts
<1>3. 1 \in 1 .. Len(<<msg>>)
  BY <1>1
<1> QED BY <1>1, <1>2, <1>3 DEF IsAppend

(* Appending to the second part of a concatenation appends to the whole:   *)
(* how a full buffer behind what is already written is seen.               *)
LEMMA AppendToConcat ==
  ASSUME NEW s, ASeq(s), NEW t, ASeq(t), NEW x
  PROVE  IsAppend(s \o t, x, s \o Append(t, x))
<1>1. PICK S : s \in Seq(S)
  BY DEF ASeq
<1>2. PICK T : t \in Seq(T)
  BY DEF ASeq
<1> DEFINE U == S \cup T \cup {x}
<1>3. s \in Seq(U) /\ t \in Seq(U) /\ x \in U
  BY <1>1, <1>2
<1> HIDE DEF U
<1>4. s \o Append(t, x) = Append(s \o t, x)
  BY <1>3
<1>5. ASeq(s \o t)
  BY ConcatFacts
<1> QED BY <1>4, <1>5, AppendIs

(* What is left of a sequence whose end is lost.                           *)
LEMMA PrefixFacts ==
  ASSUME NEW s, ASeq(s), NEW kept \in Nat, NEW w \in Prefixes(s, kept)
  PROVE  /\ ASeq(w) /\ Len(w) \in kept .. Len(s)
         /\ \A i \in 1 .. Len(w) : w[i] = s[i]
<1>1. PICK n \in kept .. Len(s) : w = SubSeq(s, 1, n)
  BY DEF Prefixes
<1>0. Len(s) \in Nat
  BY SeqFacts
<1>2. Len(s) \in Nat /\ 1 \in 1 .. Len(s) + 1 /\ n \in 0 .. Len(s) /\ 1 <= n + 1
  BY <1>0
<1>3. /\ ASeq(SubSeq(s, 1, n)) /\ Len(SubSeq(s, 1, n)) = n - 1 + 1
      /\ \A i \in 1 .. n - 1 + 1 : SubSeq(s, 1, n)[i] = s[1 + i - 1]
  BY <1>2, SubSeqFacts
<1>4. Len(w) = n
  BY <1>1, <1>2, <1>3
<1>5. \A i \in 1 .. n : w[i] = s[i]
  BY <1>1, <1>2, <1>3
<1> QED BY <1>1, <1>3, <1>4, <1>5

(* k2 begins with the keys of k.                                           *)
Begins(k, k2) == Len(k) <= Len(k2) /\ \A p \in 1 .. Len(k) : k2[p] = k[p]

-----------------------------------------------------------------------------
(* What the operators of UploadInv say of a message or a queue that grows  *)
(* or shrinks.                                                             *)

(* A message stays one of the file when KeyGenThd gets more keys.          *)
LEMMA SendsMoreKeys ==
  ASSUME NEW f, NEW m, NEW k, NEW k2, NEW s, Len(k) \in Nat, Len(k2) \in Nat,
         Begins(k, k2), Sends(f, m, k, s)
  PROVE  Sends(f, m, k2, s)
<1>1. ASSUME NEW i \in 1 .. Len(s)
      PROVE  /\ s[i].place \in 1 .. Len(k2) /\ k2[s[i].place] = k[s[i].place]
  BY <1>1 DEF Sends, Begins
<1> QED BY <1>1 DEF Sends

(* An empty message.                                                       *)
LEMMA SendsNothing ==
  ASSUME NEW f, NEW m, NEW k
  PROVE  Sends(f, m, k, <<>>) /\ CountedIn(<<>>) = {} /\ Cardinality(CountedIn(<<>>)) = 0
<1>1. CountedIn(<<>>) = {}
  BY DEF CountedIn
<1> QED BY <1>1, FS_EmptySet DEF Sends, Ordered

(* A message that grows by the next chunk, or by the compressed form of    *)
(* the chunk whose cached form it ends with.                               *)
LEMMA SendsAppend ==
  ASSUME NEW f, NEW m, NEW k, Len(k) \in Nat, NEW s, ASeq(s), Sends(f, m, k, s), NEW x,
         x.place \in 1 .. Len(k), WireForm(m, f[x.place], k[x.place], x),
         s # <<>> => /\ x.place = LastOf(s).place + (IF IsCache(LastOf(s)) THEN 0 ELSE 1)
                     /\ IsCache(LastOf(s)) => x.type = "normal",
         m = "full_edr" /\ x.type = "normal" => s # <<>> /\ IsCache(LastOf(s))
  PROVE  Sends(f, m, k, Append(s, x))
<1> DEFINE t == Append(s, x)
<1>1. /\ Len(s) \in Nat /\ Len(t) = Len(s) + 1 /\ t[Len(s) + 1] = x
      /\ \A i \in 1 .. Len(s) : t[i] = s[i]
      /\ s = <<>> <=> Len(s) = 0
  BY AppendFacts, SeqFacts
<1> HIDE DEF t
<1>2. Ordered(t)
  <2> SUFFICES ASSUME NEW i \in 1 .. Len(t) - 1
               PROVE  t[i + 1].place = t[i].place + (IF IsCache(t[i]) THEN 0 ELSE 1)
    BY DEF Ordered
  <2>1. CASE i = Len(s)
    BY <1>1, <2>1 DEF LastOf
  <2>2. CASE i < Len(s)
    BY <1>1, <2>2 DEF Sends, Ordered
  <2> QED BY <1>1, <2>1, <2>2
<1>3. ASSUME NEW i \in 1 .. Len(t)
      PROVE  /\ t[i].place \in 1 .. Len(k)
             /\ WireForm(m, f[t[i].place], k[t[i].place], t[i])
             /\ m = "full_edr" /\ t[i].type = "normal" => i > 1 /\ IsCache(t[i - 1])
             /\ IsCache(t[i]) /\ i < Len(t) => t[i + 1].type = "normal"
  <2>1. CASE i = Len(s) + 1
    BY <1>1, <2>1 DEF LastOf
  <2>2. CASE i = Len(s)
    BY <1>1, <2>2 DEF Sends, LastOf
  <2>3. CASE i < Len(s)
    <3>1. i \in 1 .. Len(s) /\ t[i] = s[i] /\ t[i + 1] = s[i + 1]
      BY <1>1, <2>3
    <3>2. i > 1 => t[i - 1] = s[i - 1]
      BY <1>1, <2>3
    <3>3. /\ s[i].place \in 1 .. Len(k)
          /\ WireForm(m, f[s[i].place], k[s[i].place], s[i])
          /\ m = "full_edr" /\ s[i].type = "normal" => i > 1 /\ IsCache(s[i - 1])
          /\ IsCache(s[i]) => s[i + 1].type = "normal"
      BY <2>3, <3>1 DEF Sends
    <3> QED BY <3>1, <3>2, <3>3
  <2> QED BY <1>1, <2>1, <2>2, <2>3
<1> QED BY <1>2, <1>3 DEF Sends, t

(* What is left of a message when its first t items are taken: one, or a   *)
(* cached chunk with its compressed form.                                  *)
Dropped(f, m, k, s, t, rest) ==
  /\ t <= Len(s) /\ ASeq(rest) /\ Len(rest) = Len(s) - t /\ Sends(f, m, k, rest)
  /\ t = 2 => IsCache(s[1]) /\ s[2].type = "normal" /\ s[2].place = s[1].place
  /\ t = 1 => ~IsCache(s[1])
  /\ rest # <<>> => rest[1].place = s[1].place + 1 /\ LastOf(rest) = LastOf(s)
  /\ rest = <<>> => LastOf(s).place = s[1].place
  /\ \A i \in 1 .. Len(rest) : rest[i] = s[t + i]

(* What DataRecvThd takes first from a message: a chunk, or a cached chunk *)
(* with the next; the rest starts at the next place.                       *)
LEMMA SendsDrop ==
  ASSUME NEW f, NEW m, NEW k, Len(k) \in Nat, NEW s, ASeq(s), Sends(f, m, k, s), s # <<>>,
         ~IsCache(LastOf(s))
  PROVE  Dropped(f, m, k, s, Taken(s), SubSeq(s, Taken(s) + 1, Len(s)))
<1> DEFINE t == Taken(s)
           rest == SubSeq(s, t + 1, Len(s))
<1>1. Len(s) \in Nat /\ Len(s) > 0
  BY SeqFacts
<1>2. /\ t \in {1, 2} /\ (t = 2 <=> IsCache(s[1])) /\ t <= Len(s)
      /\ t = 2 => s[2].type = "normal" /\ s[2].place = s[1].place
      /\ t < Len(s) => s[t + 1].place = s[1].place + 1
      /\ t = Len(s) => LastOf(s).place = s[1].place
  <2>1. CASE IsCache(s[1])
    <3>1. t = 2 /\ Len(s) > 1
      BY <1>1, <2>1 DEF Taken, IsCache, LastOf
    <3>2. s[2].type = "normal" /\ s[2].place = s[1].place
      BY <1>1, <2>1, <3>1 DEF Sends, Ordered, IsCache
    <3>3. Len(s) > 2 => s[3].place = s[1].place + 1
      BY <1>1, <3>1, <3>2 DEF Sends, Ordered, IsCache
    <3> QED BY <1>1, <2>1, <3>1, <3>2, <3>3 DEF LastOf
  <2>2. CASE ~IsCache(s[1])
    BY <1>1, <2>2 DEF Taken, IsCache, LastOf, Sends, Ordered
  <2> QED BY <2>1, <2>2
<1> HIDE DEF t
<1>3. /\ ASeq(rest) /\ Len(rest) = Len(s) - t
      /\ \A i \in 1 .. Len(s) - t : rest[i] = s[t + i]
  <2>1. t + 1 \in 1 .. Len(s) + 1 /\ Len(s) \in 0 .. Len(s) /\ t + 1 <= Len(s) + 1
    BY <1>1, <1>2
  <2>2. /\ ASeq(rest) /\ Len(rest) = Len(s) - (t + 1) + 1
        /\ \A i \in 1 .. Len(s) - (t + 1) + 1 : rest[i] = s[t + 1 + i - 1]
    BY <2>1, SubSeqFacts
  <2>3. Len(s) - (t + 1) + 1 = Len(s) - t
    BY <1>1, <1>2
  <2>4. \A i \in 1 .. Len(s) - t : t + 1 + i - 1 = t + i
    BY <1>1, <1>2
  <2> HIDE DEF rest
  <2> QED BY <2>2, <2>3, <2>4
<1> HIDE DEF rest
<1>4. Ordered(rest)
  <2> SUFFICES ASSUME NEW i \in 1 .. Len(rest) - 1
               PROVE  rest[i + 1].place = rest[i].place + (IF IsCache(rest[i]) THEN 0 ELSE 1)
    BY DEF Ordered
  <2>1. t + i \in 1 .. Len(s) - 1 /\ rest[i] = s[t + i] /\ rest[i + 1] = s[(t + i) + 1]
    BY <1>1, <1>2, <1>3
  <2> QED BY <2>1 DEF Sends, Ordered
<1>5. ASSUME NEW i \in 1 .. Len(rest)
      PROVE  /\ rest[i].place \in 1 .. Len(k)
             /\ WireForm(m, f[rest[i].place], k[rest[i].place], rest[i])
             /\ m = "full_edr" /\ rest[i].type = "normal" => i > 1 /\ IsCache(rest[i - 1])
             /\ IsCache(rest[i]) /\ i < Len(rest) => rest[i + 1].type = "normal"
  <2>1. t + i \in 1 .. Len(s) /\ rest[i] = s[t + i]
    BY <1>1, <1>2, <1>3
  <2>2. i < Len(rest) => t + i < Len(s) /\ rest[i + 1] = s[(t + i) + 1]
    BY <1>1, <1>2, <1>3
  <2>3. m = "full_edr" /\ rest[i].type = "normal" => i > 1 /\ IsCache(rest[i - 1])
    <3> SUFFICES ASSUME m = "full_edr", rest[i].type = "normal"
                 PROVE  i > 1 /\ IsCache(rest[i - 1])
      OBVIOUS
    <3>1. IsCache(s[(t + i) - 1])
      BY <2>1 DEF Sends
    <3>2. i # 1
      BY <1>2, <3>1 DEF IsCache
    <3>3. rest[i - 1] = s[(t + i) - 1]
      BY <1>2, <1>3, <3>2
    <3> QED BY <3>1, <3>2, <3>3
  <2> QED BY <2>1, <2>2, <2>3 DEF Sends
<1>6. /\ rest = <<>> <=> t = Len(s)
      /\ rest # <<>> => rest[1] = s[t + 1] /\ LastOf(rest) = LastOf(s)
  BY <1>1, <1>2, <1>3, SeqFacts DEF LastOf
<1>7. Sends(f, m, k, rest)
  BY <1>4, <1>5 DEF Sends
<1>8. t = 1 => ~IsCache(s[1])
  BY <1>2
<1>9. /\ t <= Len(s) /\ ASeq(rest) /\ Len(rest) = Len(s) - t /\ Sends(f, m, k, rest)
      /\ t = 2 => IsCache(s[1]) /\ s[2].type = "normal" /\ s[2].place = s[1].place
      /\ t = 1 => ~IsCache(s[1])
      /\ rest # <<>> => rest[1].place = s[1].place + 1 /\ LastOf(rest) = LastOf(s)
      /\ rest = <<>> => LastOf(s).place = s[1].place
      /\ \A i \in 1 .. Len(rest) : rest[i] = s[t + i]
  <2>1. rest # <<>> => t < Len(s)
    BY <1>2, <1>6
  <2> QED BY <1>2, <1>3, <1>6, <1>7, <1>8, <2>1
<1>10. Dropped(f, m, k, s, t, rest)
  BY <1>9 DEF Dropped
<1> QED BY <1>10 DEF t, rest

LEMMA CountedFinite ==
  ASSUME NEW s, ASeq(s)
  PROVE  IsFiniteSet(CountedIn(s)) /\ Cardinality(CountedIn(s)) \in Nat
<1>1. Len(s) \in Nat
  BY SeqFacts
<1>2. IsFiniteSet(1 .. Len(s))
  BY <1>1, FS_Interval
<1>3. CountedIn(s) \subseteq 1 .. Len(s)
  BY DEF CountedIn
<1> QED BY <1>2, <1>3, FS_Subset, FS_CardinalityType

(* What a message counts grows by one unless the new item is a cached      *)
(* chunk.                                                                  *)
LEMMA CountedAppend ==
  ASSUME NEW s, ASeq(s), NEW x
  PROVE  Cardinality(CountedIn(Append(s, x)))
           = Cardinality(CountedIn(s)) + (IF IsCache(x) THEN 0 ELSE 1)
<1> DEFINE t == Append(s, x)
<1>1. /\ Len(s) \in Nat /\ Len(t) = Len(s) + 1 /\ t[Len(s) + 1] = x
      /\ \A i \in 1 .. Len(s) : t[i] = s[i]
  BY AppendFacts, SeqFacts
<1> HIDE DEF t
<1>2. CASE IsCache(x)
  <2>1. CountedIn(t) = CountedIn(s)
    BY <1>1, <1>2 DEF CountedIn, IsCache
  <2> QED BY <1>2, <2>1, CountedFinite DEF t
<1>3. CASE ~IsCache(x)
  <2>1. CountedIn(t) = CountedIn(s) \cup {Len(s) + 1} /\ Len(s) + 1 \notin CountedIn(s)
    BY <1>1, <1>3 DEF CountedIn, IsCache
  <2> QED BY <1>3, <2>1, CountedFinite, FS_AddElement DEF t
<1> QED BY <1>2, <1>3

(* What is taken counts for one; nothing is left when nothing is left to   *)
(* count.                                                                  *)
CountsOne(s, rest) ==
  /\ Cardinality(CountedIn(s)) = Cardinality(CountedIn(rest)) + 1
  /\ rest = <<>> <=> Cardinality(CountedIn(rest)) = 0

(* What DataRecvThd takes first counts for one, and nothing is left when   *)
(* nothing is left to count.                                               *)
LEMMA CountedDrop ==
  ASSUME NEW f, NEW m, NEW k, Len(k) \in Nat, NEW s, ASeq(s), Sends(f, m, k, s), s # <<>>,
         ~IsCache(LastOf(s))
  PROVE  CountsOne(s, SubSeq(s, Taken(s) + 1, Len(s)))
<1> DEFINE t == Taken(s)
           rest == SubSeq(s, t + 1, Len(s))
<1>0. Dropped(f, m, k, s, t, rest)
  BY SendsDrop
<1>01. t \in {1, 2}
  BY DEF Taken
<1> HIDE DEF rest, t
<1>1. /\ t <= Len(s) /\ ASeq(rest) /\ Len(rest) = Len(s) - t
      /\ t = 2 => IsCache(s[1]) /\ s[2].type = "normal"
      /\ t = 1 => ~IsCache(s[1])
      /\ rest # <<>> => LastOf(rest) = LastOf(s)
      /\ \A i \in 1 .. Len(rest) : rest[i] = s[t + i]
  BY <1>0 DEF Dropped
<1>2. t \in {1, 2} /\ Len(s) \in Nat /\ Len(rest) \in Nat /\ (rest = <<>> <=> Len(rest) = 0)
  BY <1>01, <1>1, SeqFacts
<1> DEFINE shift == [i \in CountedIn(rest) |-> t + i]
<1>3. CountedIn(s) = {t} \cup {t + i : i \in CountedIn(rest)}
  <2>1. t \in CountedIn(s)
    BY <1>1, <1>2 DEF CountedIn, IsCache
  <2>2. \A i \in CountedIn(s) : i # t => i > t
    BY <1>1, <1>2 DEF CountedIn, IsCache
  <2>3. \A i \in CountedIn(s) : i > t => i - t \in CountedIn(rest) /\ i = t + (i - t)
    <3> TAKE i \in CountedIn(s)
    <3> HAVE i > t
    <3>1. i \in 1 .. Len(s) /\ s[i].type # "cache"
      BY DEF CountedIn
    <3>2. i - t \in 1 .. Len(rest) /\ t + (i - t) = i
      BY <1>1, <1>2, <3>1
    <3>3. rest[i - t] = s[i]
      BY <1>1, <3>2
    <3> QED BY <3>1, <3>2, <3>3 DEF CountedIn
  <2>4. \A i \in CountedIn(rest) : t + i \in CountedIn(s)
    BY <1>1, <1>2 DEF CountedIn
  <2> QED BY <2>1, <2>2, <2>3, <2>4
<1>4. ExistsBijection(CountedIn(rest), {t + i : i \in CountedIn(rest)})
  <2>1. \A i \in CountedIn(rest) : i \in Nat
    BY <1>2 DEF CountedIn
  <2>2. shift \in Bijection(CountedIn(rest), {t + i : i \in CountedIn(rest)})
    BY <1>2, <2>1 DEF Bijection, Injection, Surjection, IsInjective
  <2> QED BY <2>2 DEF ExistsBijection
<1>5. IsFiniteSet(CountedIn(rest))
  BY <1>1, CountedFinite
<1>6. /\ IsFiniteSet({t + i : i \in CountedIn(rest)})
      /\ Cardinality({t + i : i \in CountedIn(rest)}) = Cardinality(CountedIn(rest))
  BY <1>4, <1>5, FS_Bijection, Zenon
<1>7. t \notin {t + i : i \in CountedIn(rest)}
  BY <1>2 DEF CountedIn
<1>8. Cardinality(CountedIn(s)) = Cardinality(CountedIn(rest)) + 1
  <2> DEFINE R == {t + i : i \in CountedIn(rest)}
  <2>1. CountedIn(s) = R \cup {t}
    BY <1>3
  <2> HIDE DEF R
  <2>2. Cardinality(R \cup {t}) = Cardinality(R) + 1
    BY <1>6, <1>7, FS_AddElement DEF R
  <2> QED BY <1>6, <2>1, <2>2 DEF R
<1>9. rest = <<>> => Cardinality(CountedIn(rest)) = 0
  BY SendsNothing
<1>10. rest # <<>> => CountedIn(rest) # {}
  BY <1>1, <1>2 DEF LastOf, CountedIn, IsCache
<1>11. Cardinality(CountedIn(rest)) = 0 => CountedIn(rest) = {}
  BY <1>5, FS_EmptySet
<1>12. CountsOne(s, rest)
  BY <1>8, <1>9, <1>10, <1>11 DEF CountsOne
<1> QED BY <1>12 DEF t, rest

(* So does what is in select_comp_mq.                                      *)
LEMMA SelectsMoreKeys ==
  ASSUME NEW f, NEW m, NEW k, NEW k2, NEW q, Len(k) \in Nat, Len(k2) \in Nat,
         Begins(k, k2), Selects(f, m, k, q)
  PROVE  Selects(f, m, k2, q)
<1>1. ASSUME NEW i \in 1 .. Len(q), q[i].place <= Len(f)
      PROVE  q[i].place <= Len(k2) /\ k2[q[i].place] = k[q[i].place]
  BY <1>1 DEF Selects, Begins
<1> QED BY <1>1 DEF Selects

(* An empty queue.                                                         *)
LEMMA SelectsNothing ==
  ASSUME NEW f, NEW m, NEW k
  PROVE  Selects(f, m, k, <<>>)
BY DEF Selects, Ordered

(* What is left of select_comp_mq when SenderThd takes the first item;     *)
(* nothing is behind the recipe chunk, and a cached chunk is followed by   *)
(* its compressed form.                                                    *)
LEMMA SelectsTail ==
  ASSUME NEW f, NEW m, NEW k, Len(f) \in Nat, Len(k) \in Nat, NEW q, ASeq(q),
         Selects(f, m, k, q), q # <<>>
  PROVE  LET rest == Tail(q) IN
         /\ ASeq(rest) /\ Selects(f, m, k, rest)
         /\ rest # <<>> => /\ rest[1].place = q[1].place + (IF IsCache(q[1]) THEN 0 ELSE 1)
                           /\ LastOf(rest) = LastOf(q)
                           /\ m = "full_edr" /\ rest[1].type = "compressed" => IsCache(q[1])
         /\ IsCache(q[1]) => rest # <<>> /\ rest[1].type = "compressed"
         /\ rest = <<>> => LastOf(q) = q[1]
         /\ q[1].type = "recipe" /\ m \in Method => rest = <<>>
<1> DEFINE rest == Tail(q)
<1>1. /\ ASeq(rest) /\ Len(q) \in Nat /\ Len(q) > 0 /\ Len(rest) = Len(q) - 1
      /\ \A i \in 1 .. Len(q) - 1 : rest[i] = q[i + 1]
  BY TailFacts, SeqFacts
<1> HIDE DEF rest
<1>0. rest = <<>> <=> Len(q) = 1
  BY <1>1, SeqFacts
<1>2. Ordered(rest)
  <2> SUFFICES ASSUME NEW i \in 1 .. Len(rest) - 1
               PROVE  rest[i + 1].place = rest[i].place + (IF IsCache(rest[i]) THEN 0 ELSE 1)
    BY DEF Ordered
  <2>1. i + 1 \in 1 .. Len(q) - 1 /\ rest[i] = q[i + 1] /\ rest[i + 1] = q[(i + 1) + 1]
    BY <1>1
  <2> QED BY <2>1 DEF Selects, Ordered
<1>3. ASSUME NEW i \in 1 .. Len(rest)
      PROVE  /\ rest[i].place \in 1 .. Len(f) + 1
             /\ rest[i].place <= Len(f) =>
                  /\ rest[i].place <= Len(k)
                  /\ SelectForm(m, f[rest[i].place], k[rest[i].place], rest[i])
             /\ rest[i].place > Len(f) => rest[i].type = "recipe"
             /\ IsCache(rest[i]) => i < Len(rest) /\ rest[i + 1].type = "compressed"
             /\ m = "full_edr" /\ rest[i].type = "compressed" /\ i > 1 => IsCache(rest[i - 1])
  <2>1. i + 1 \in 1 .. Len(q) /\ rest[i] = q[i + 1]
    BY <1>1
  <2>2. i > 1 => rest[i - 1] = q[i]
    BY <1>1
  <2>3. i < Len(rest) => rest[i + 1] = q[(i + 1) + 1]
    BY <1>1
  <2>4. IsCache(q[i + 1]) => i + 1 < Len(q)
    BY <2>1 DEF Selects
  <2> QED BY <1>1, <2>1, <2>2, <2>3, <2>4 DEF Selects
<1>4. IsCache(q[1]) => rest # <<>> /\ rest[1].type = "compressed"
  BY <1>0, <1>1 DEF Selects
<1>5. rest # <<>> => /\ rest[1].place = q[1].place + (IF IsCache(q[1]) THEN 0 ELSE 1)
                     /\ LastOf(rest) = LastOf(q)
                     /\ m = "full_edr" /\ rest[1].type = "compressed" => IsCache(q[1])
  BY <1>0, <1>1 DEF Selects, Ordered, LastOf
<1>6. rest = <<>> => LastOf(q) = q[1]
  BY <1>0, <1>1 DEF LastOf
<1>7. q[1].type = "recipe" /\ m \in Method => rest = <<>>
  <2>1. q[1].type = "recipe" /\ m \in Method => q[1].place = Len(f) + 1
    BY <1>1 DEF Selects, SelectForm, Method
  <2>2. rest # <<>> => rest[1].place <= Len(f) + 1
    BY <1>0, <1>1, <1>3
  <2>3. q[1].type = "recipe" => ~IsCache(q[1])
    BY DEF IsCache
  <2> QED BY <1>5, <2>1, <2>2, <2>3
<1> QED BY <1>1, <1>2, <1>3, <1>4, <1>5, <1>6, <1>7 DEF Selects, rest

(* An item of SelectCompThd is of the chunk at its place, or it is the     *)
(* recipe chunk.                                                           *)
Selectable(f, m, k, x) ==
  /\ x.place \in 1 .. Len(f) + 1
  /\ x.place <= Len(f) => x.place <= Len(k) /\ SelectForm(m, f[x.place], k[x.place], x)
  /\ x.place > Len(f) => x.type = "recipe"
Selection(f, m, k, t, first, last) ==
  Selects(f, m, k, t) /\ ASeq(t) /\ t # <<>> /\ t[1] = first /\ LastOf(t) = last

(* One item that is not a cached chunk.                                    *)
LEMMA OneSelected ==
  ASSUME NEW f, NEW m, NEW k, NEW x, Selectable(f, m, k, x), ~IsCache(x)
  PROVE  Selection(f, m, k, <<x>>, x, x)
<1> DEFINE t == <<x>>
<1>1. ASeq(t) /\ Len(t) = 1 /\ t[1] = x
  BY PairASeq
<1> HIDE DEF t
<1>2. Ordered(t)
  BY <1>1 DEF Ordered
<1>3. ASSUME NEW i \in 1 .. Len(t)
      PROVE  i = 1 /\ t[i] = x
  BY <1>1
<1>4. Selects(f, m, k, t)
  BY <1>2, <1>3 DEF Selects, Selectable
<1>5. t # <<>> /\ LastOf(t) = x
  BY <1>1, SeqFacts DEF LastOf
<1> QED BY <1>1, <1>4, <1>5 DEF t, Selection

(* A cached chunk and its compressed form.                                 *)
LEMMA TwoSelected ==
  ASSUME NEW f, NEW m, NEW k, NEW x, NEW y, Selectable(f, m, k, x), Selectable(f, m, k, y),
         y.place = x.place, IsCache(x), y.type = "compressed"
  PROVE  Selection(f, m, k, <<x, y>>, x, y)
<1> DEFINE t == <<x, y>>
<1>1. ASeq(t) /\ Len(t) = 2 /\ t[1] = x /\ t[2] = y
  BY PairASeq
<1> HIDE DEF t
<1>2. ~IsCache(y) /\ x.type # "compressed"
  BY DEF IsCache
<1>3. Ordered(t)
  <2>1. \A i \in 1 .. Len(t) - 1 : i = 1
    BY <1>1
  <2>2. x.place \in Int
    BY DEF Selectable
  <2>3. t[1 + 1].place = t[1].place + (IF IsCache(t[1]) THEN 0 ELSE 1)
    BY <1>1, <2>2
  <2> QED BY <2>1, <2>3 DEF Ordered
<1>4. ASSUME NEW i \in 1 .. Len(t)
      PROVE  /\ Selectable(f, m, k, t[i])
             /\ IsCache(t[i]) => i < Len(t) /\ t[i + 1].type = "compressed"
             /\ t[i].type = "compressed" /\ i > 1 => IsCache(t[i - 1])
  <2>1. CASE i = 1
    BY <1>1, <1>2, <2>1
  <2>2. CASE i = 2
    BY <1>1, <1>2, <2>2
  <2> QED BY <1>1, <2>1, <2>2
<1>5. Selects(f, m, k, t)
  BY <1>3, <1>4 DEF Selects, Selectable
<1>6. Len(t) # 0
  BY <1>1
<1>7. t # <<>>
  BY <1>1, <1>6, SeqFacts
<1>8. LastOf(t) = y
  BY <1>1 DEF LastOf
<1> QED BY <1>1, <1>5, <1>7, <1>8 DEF t, Selection

(* What SelectCompThd makes of a chunk, or of the recipe chunk, for each   *)
(* method.                                                                 *)
LEMMA SelectedFacts ==
  ASSUME NEW f, NEW m \in Method, NEW k, NEW e, NEW similar \in BOOLEAN, Len(f) \in Nat,
         e.place \in 1 .. Len(f) + 1,
         e.place <= Len(f) => /\ e.type = "normal" /\ e.c = f[e.place]
                              /\ e.key = k[e.place] /\ e.place <= Len(k),
         e.place > Len(f) => e.type = "recipe"
  PROVE  LET t == Selected(m, similar, e) IN
         /\ ASeq(t) /\ t # <<>> /\ Selects(f, m, k, t)
         /\ t[1].place = e.place /\ LastOf(t).place = e.place
         /\ m = "full_edr" => t[1].type # "compressed"
<1>1. CASE e.place > Len(f)
  <2> DEFINE x == Item("recipe", <<>>, e)
  <2>1. x.type = "recipe" /\ x.place = e.place
    BY DEF Item
  <2>2. Selected(m, similar, e) = <<x>>
    BY <1>1 DEF Selected
  <2> HIDE DEF x
  <2>3. ~IsCache(x) /\ x.place > Len(f) /\ ~(x.place <= Len(f)) /\ x.type # "compressed"
    BY <1>1, <2>1 DEF IsCache
  <2>4. Selection(f, m, k, <<x>>, x, x)
    BY <2>1, <2>3, OneSelected DEF Selectable
  <2> QED BY <2>1, <2>2, <2>3, <2>4 DEF Selection
<1>2. CASE e.place <= Len(f)
  <2>0. /\ e.type = "normal" /\ e.c = f[e.place] /\ e.key = k[e.place] /\ e.place <= Len(k)
        /\ ~(e.place > Len(f)) /\ e.place \in 1 .. Len(f)
    BY <1>2
  <2>1. CASE m = "only_enc"
    <3> DEFINE x == Item("normal", Enc(Raw(e.c), e.key), e)
    <3>1. Selected(m, similar, e) = <<x>>
      BY <2>0, <2>1 DEF Selected
    <3>2. x.type = "normal" /\ x.place = e.place /\ SelectForm(m, f[e.place], k[e.place], x)
      BY <2>0, <2>1 DEF Item, SelectForm
    <3> HIDE DEF x
    <3>3. ~IsCache(x)
      BY <3>2 DEF IsCache
    <3>9. Selectable(f, m, k, x)
      BY <2>0, <3>2 DEF Selectable
    <3>10. Selection(f, m, k, <<x>>, x, x)
      BY <3>3, <3>9, OneSelected
    <3> QED BY <2>1, <3>1, <3>2, <3>10 DEF Selection
  <2>2. CASE m = "enc_comp"
    <3> DEFINE x == Item("compressed", Compressed(e.c), e)
    <3>1. Selected(m, similar, e) = <<x>>
      BY <2>0, <2>2 DEF Selected
    <3>2. x.type = "compressed" /\ x.place = e.place /\ SelectForm(m, f[e.place], k[e.place], x)
      BY <2>0, <2>2 DEF Item, SelectForm
    <3> HIDE DEF x
    <3>3. ~IsCache(x)
      BY <3>2 DEF IsCache
    <3>9. Selectable(f, m, k, x)
      BY <2>0, <3>2 DEF Selectable
    <3>10. Selection(f, m, k, <<x>>, x, x)
      BY <3>3, <3>9, OneSelected
    <3> QED BY <2>2, <3>1, <3>2, <3>10 DEF Selection
  <2>3. CASE m = "full_edr" /\ similar
    <3> DEFINE x == UncompressItem(e)
    <3>1. Selected(m, similar, e) = <<x>>
      BY <2>0, <2>3 DEF Selected
    <3>2. x.type = "uncompress" /\ x.place = e.place /\ SelectForm(m, f[e.place], k[e.place], x)
      BY <2>0, <2>3 DEF Item, UncompressItem, SelectForm
    <3> HIDE DEF x
    <3>3. ~IsCache(x) /\ x.type # "compressed"
      BY <3>2 DEF IsCache
    <3>9. Selectable(f, m, k, x)
      BY <2>0, <3>2 DEF Selectable
    <3>10. Selection(f, m, k, <<x>>, x, x)
      BY <3>3, <3>9, OneSelected
    <3> QED BY <3>1, <3>2, <3>3, <3>10 DEF Selection
  <2>4. CASE m = "full_edr" /\ ~similar
    <3> DEFINE x == CacheItem(e)
               y == Item("compressed", Compressed(e.c), e)
    <3>1. Selected(m, similar, e) = <<x, y>>
      BY <2>0, <2>4 DEF Selected
    <3>2. x.type = "cache" /\ x.place = e.place /\ SelectForm(m, f[e.place], k[e.place], x)
      BY <2>0, <2>4 DEF Item, CacheItem, SelectForm
    <3>3. y.type = "compressed" /\ y.place = e.place /\ SelectForm(m, f[e.place], k[e.place], y)
      BY <2>0, <2>4 DEF Item, SelectForm
    <3> HIDE DEF x, y
    <3>4. IsCache(x) /\ x.type # "compressed"
      BY <3>2 DEF IsCache
    <3>9. Selectable(f, m, k, x) /\ Selectable(f, m, k, y)
      BY <2>0, <3>2, <3>3 DEF Selectable
    <3>10. Selection(f, m, k, <<x, y>>, x, y)
      BY <3>2, <3>3, <3>4, <3>9, TwoSelected
    <3> QED BY <3>1, <3>2, <3>3, <3>4, <3>10 DEF Selection
  <2> QED BY <2>1, <2>2, <2>3, <2>4 DEF Method
<1> QED BY <1>1, <1>2

(* select_comp_mq grows by what SelectCompThd makes of the next chunk.     *)
LEMMA SelectsConcat ==
  ASSUME NEW f, NEW m, NEW k, NEW s, ASeq(s), NEW t, ASeq(t), t # <<>>,
         Selects(f, m, k, s), Selects(f, m, k, t),
         s # <<>> => t[1].place = LastOf(s).place + 1,
         m = "full_edr" => t[1].type # "compressed"
  PROVE  LET r == s \o t IN
         /\ ASeq(r) /\ r # <<>> /\ Selects(f, m, k, r) /\ LastOf(r) = LastOf(t)
         /\ s # <<>> => r[1] = s[1]
         /\ s = <<>> => r[1] = t[1]
<1> DEFINE r == s \o t
           a == Len(s)
           b == Len(t)
<1>1. /\ ASeq(r) /\ Len(r) = a + b
      /\ \A i \in 1 .. a : r[i] = s[i]
      /\ \A i \in 1 .. b : r[a + i] = t[i]
      /\ a \in Nat /\ b \in Nat /\ b > 0 /\ (s = <<>> <=> a = 0)
  <2>1. /\ ASeq(r) /\ Len(r) = a + b
        /\ \A i \in 1 .. a : r[i] = s[i]
        /\ \A i \in 1 .. b : r[a + i] = t[i]
    BY ConcatFacts
  <2>2. a \in Nat /\ (s = <<>> <=> a = 0)
    BY SeqFacts
  <2>3. b \in Nat /\ b # 0
    BY SeqFacts
  <2> HIDE DEF r, a, b
  <2> QED BY <2>1, <2>2, <2>3
<1> HIDE DEF r
<1>2. s # <<>> => ~IsCache(LastOf(s))
  BY <1>1 DEF Selects, LastOf
<1>3. Ordered(s) /\ Ordered(t)
  BY DEF Selects
<1>4. ASSUME NEW i \in 1 .. a
      PROVE  /\ r[i] = s[i]
             /\ i < a => r[i + 1] = s[i + 1]
             /\ i > 1 => r[i - 1] = s[i - 1]
             /\ i = a => r[i + 1] = t[1]
  <2>1. r[i] = s[i]
    BY <1>1
  <2>2. i < a => i + 1 \in 1 .. a
    BY <1>1
  <2>3. i > 1 => i - 1 \in 1 .. a
    BY <1>1
  <2>4. 1 \in 1 .. b
    BY <1>1
  <2> QED BY <1>1, <2>1, <2>2, <2>3, <2>4
<1>5. ASSUME NEW i \in 1 .. b
      PROVE  /\ r[a + i] = t[i]
             /\ i < b => r[(a + i) + 1] = t[i + 1]
             /\ i > 1 => r[(a + i) - 1] = t[i - 1]
             /\ i = b => a + i = Len(r)
             /\ a + i \in 1 .. Len(r)
  <2>1. r[a + i] = t[i]
    BY <1>1
  <2>2. i < b => i + 1 \in 1 .. b /\ (a + i) + 1 = a + (i + 1)
    BY <1>1
  <2>3. i > 1 => i - 1 \in 1 .. b /\ (a + i) - 1 = a + (i - 1)
    BY <1>1
  <2>4. a + i \in 1 .. a + b /\ (i = b => a + i = a + b)
    <3>1. a \in Nat /\ b \in Nat
      BY <1>1
    <3> QED BY <3>1
  <2>5. \A j \in 1 .. b : r[a + j] = t[j]
    BY <1>1
  <2>6. i < b => r[(a + i) + 1] = t[i + 1]
    BY <2>2, <2>5
  <2>7. i > 1 => r[(a + i) - 1] = t[i - 1]
    BY <2>3, <2>5
  <2> QED BY <1>1, <2>1, <2>4, <2>6, <2>7
<1>6. ASSUME NEW i \in 1 .. Len(r), i \notin 1 .. a
      PROVE  i - a \in 1 .. b /\ i = a + (i - a)
  BY <1>1, <1>6
<1>7. Ordered(r)
  <2> SUFFICES ASSUME NEW i \in 1 .. Len(r) - 1
               PROVE  r[i + 1].place = r[i].place + (IF IsCache(r[i]) THEN 0 ELSE 1)
    BY DEF Ordered
  <2>1. CASE i \in 1 .. a /\ i < a
    BY <1>1, <1>3, <1>4, <2>1 DEF Ordered
  <2>2. CASE i = a /\ a > 0
    <3>1. s # <<>> /\ r[i] = LastOf(s) /\ r[i + 1] = t[1]
      BY <1>1, <1>4, <2>2 DEF LastOf
    <3> QED BY <1>2, <3>1
  <2>3. CASE i \notin 1 .. a
    <3> DEFINE j == i - a
    <3>1. j \in 1 .. b /\ i = a + j /\ j < b
      BY <1>1, <2>3
    <3> HIDE DEF j
    <3>2. r[i] = t[j] /\ r[i + 1] = t[j + 1] /\ j \in 1 .. b - 1
      BY <1>1, <1>5, <3>1
    <3> QED BY <1>3, <3>2 DEF Ordered
  <2> QED BY <1>1, <2>1, <2>2, <2>3
<1> DEFINE ok(q, i) ==
             /\ q[i].place \in 1 .. Len(f) + 1
             /\ q[i].place <= Len(f) =>
                  q[i].place <= Len(k) /\ SelectForm(m, f[q[i].place], k[q[i].place], q[i])
             /\ q[i].place > Len(f) => q[i].type = "recipe"
<1>8. ASSUME NEW i \in 1 .. Len(r)
      PROVE  /\ ok(r, i)
             /\ IsCache(r[i]) => i < Len(r) /\ r[i + 1].type = "compressed"
             /\ m = "full_edr" /\ r[i].type = "compressed" /\ i > 1 => IsCache(r[i - 1])
  <2>1. CASE i \in 1 .. a
    <3>1. /\ ok(s, i)
          /\ IsCache(s[i]) => i < a /\ s[i + 1].type = "compressed"
          /\ m = "full_edr" /\ s[i].type = "compressed" /\ i > 1 => IsCache(s[i - 1])
      BY <2>1 DEF Selects
    <3>2. ok(r, i)
      BY <1>4, <2>1, <3>1
    <3> HIDE DEF ok
    <3>3. IsCache(r[i]) => i < Len(r) /\ r[i + 1].type = "compressed"
      BY <1>1, <1>4, <2>1, <3>1
    <3> QED BY <1>4, <2>1, <3>1, <3>2, <3>3
  <2>2. CASE i \notin 1 .. a
    <3> DEFINE j == i - a
    <3>1. j \in 1 .. b /\ i = a + j
      BY <1>6, <2>2
    <3> HIDE DEF j
    <3>2. /\ ok(t, j)
          /\ IsCache(t[j]) => j < b /\ t[j + 1].type = "compressed"
          /\ m = "full_edr" /\ t[j].type = "compressed" /\ j > 1 => IsCache(t[j - 1])
      BY <3>1 DEF Selects
    <3>3. r[i] = t[j]
      BY <1>5, <3>1
    <3>4. ok(r, i)
      BY <3>2, <3>3
    <3> HIDE DEF ok
    <3>5. IsCache(r[i]) => i < Len(r) /\ r[i + 1].type = "compressed"
      BY <1>1, <1>5, <3>1, <3>2, <3>3
    <3>6. m = "full_edr" /\ r[i].type = "compressed" /\ i > 1 => IsCache(r[i - 1])
      <4>1. m = "full_edr" /\ t[j].type = "compressed" => j > 1
        BY <3>1
      <4>2. j > 1 => r[i - 1] = t[j - 1]
        BY <1>5, <3>1
      <4> QED BY <3>2, <3>3, <4>1, <4>2
    <3> QED BY <3>4, <3>5, <3>6
  <2> QED BY <2>1, <2>2
<1>9. Selects(f, m, k, r)
  BY <1>7, <1>8 DEF Selects
<1>10. r # <<>> /\ LastOf(r) = LastOf(t)
  BY <1>1, <1>5, SeqFacts DEF LastOf
<1>11. (s # <<>> => r[1] = s[1]) /\ (s = <<>> => r[1] = t[1])
  BY <1>1, <1>4, <1>5
<1> QED BY <1>1, <1>9, <1>10, <1>11 DEF r

(* SenderThd encrypts a compressed chunk and leaves the others as they     *)
(* are.                                                                    *)
LEMMA OnWireForm ==
  ASSUME NEW m \in Method, NEW c, NEW key, NEW item, SelectForm(m, c, key, item)
  PROVE  /\ WireForm(m, c, key, OnWire(item))
         /\ OnWire(item).place = item.place
         /\ IsCache(OnWire(item)) <=> IsCache(item)
         /\ item.type = "compressed" => OnWire(item).type = "normal"
         /\ m = "full_edr" /\ OnWire(item).type = "normal" => item.type = "compressed"
<1>1. item.key = key
  BY DEF SelectForm
<1>2. CASE item.type = "compressed"
  <2>1. OnWire(item) = [type |-> "normal", data |-> Enc(item.data, item.key),
                        compressed_fp |-> <<>>, place |-> item.place]
    BY <1>2 DEF OnWire
  <2>2. /\ OnWire(item).type = "normal" /\ OnWire(item).data = Enc(item.data, key)
        /\ OnWire(item).place = item.place
    BY <1>1, <2>1
  <2>3. item.data = Compressed(c) /\ m # "only_enc"
    BY <1>2 DEF SelectForm, Method
  <2> QED BY <1>2, <2>2, <2>3 DEF WireForm, IsCache
<1>3. CASE item.type # "compressed"
  <2>1. OnWire(item) = [type |-> item.type, data |-> item.data,
                        compressed_fp |-> item.compressed_fp, place |-> item.place]
    BY <1>3 DEF OnWire
  <2>2. /\ OnWire(item).type = item.type /\ OnWire(item).data = item.data
        /\ OnWire(item).compressed_fp = item.compressed_fp
        /\ OnWire(item).place = item.place
    BY <2>1
  <2>3. m # "enc_comp" /\ (m = "full_edr" => item.type # "normal")
    BY <1>3 DEF SelectForm
  <2> QED BY <1>3, <2>2, <2>3 DEF WireForm, SelectForm, IsCache
<1> QED BY <1>2, <1>3

(* The fingerprint of what DataRecvThd takes first is that of the chunk at *)
(* its place, under its key.                                               *)
LEMMA FirstFp ==
  ASSUME NEW f, NEW m \in Method, NEW k, NEW s, ASeq(s), Sends(f, m, k, s), s # <<>>,
         ~IsCache(LastOf(s))
  PROVE  /\ s[1].place \in 1 .. Len(k)
         /\ FpOfFirst(s) = Fingerprint(m, f[s[1].place], k[s[1].place])
<1> DEFINE p == s[1].place
           c == f[p]
           key == k[p]
<1>1. Len(s) \in Nat /\ Len(s) # 0
  BY SeqFacts
<1>2. 1 \in 1 .. Len(s)
  BY <1>1
<1>3. p \in 1 .. Len(k) /\ WireForm(m, c, key, s[1])
  BY <1>2 DEF Sends
<1>4. CASE m = "only_enc"
  <2>1. s[1].type = "normal" /\ s[1].data = Enc(Raw(c), key)
    BY <1>3, <1>4 DEF WireForm
  <2>2. FpOfFirst(s) = Hash(s[1].data)
    BY <2>1 DEF FpOfFirst
  <2>3. Fingerprint(m, c, key) = Hash(Enc(Raw(c), key))
    BY <1>4 DEF Fingerprint
  <2> QED BY <1>3, <2>1, <2>2, <2>3
<1>5. CASE m = "enc_comp"
  <2>1. s[1].type = "normal" /\ s[1].data = Enc(Compressed(c), key)
    BY <1>3, <1>5 DEF WireForm
  <2>2. FpOfFirst(s) = Hash(s[1].data)
    BY <2>1 DEF FpOfFirst
  <2>3. Fingerprint(m, c, key) = Hash(Enc(Compressed(c), key))
    BY <1>5 DEF Fingerprint
  <2> QED BY <1>3, <2>1, <2>2, <2>3
<1>6. CASE m = "full_edr"
  <2>1. Fingerprint(m, c, key) = DualFp(Hash(Enc(Raw(c), key)), Hash(Enc(Compressed(c), key)))
    BY <1>6 DEF Fingerprint
  <2>2. s[1].type # "normal"
    BY <1>2, <1>6 DEF Sends
  <2>3. CASE s[1].type = "uncompress"
    <3>1. s[1].data = Enc(Raw(c), key) /\ s[1].compressed_fp = Hash(Enc(Compressed(c), key))
      BY <1>3, <1>6, <2>3 DEF WireForm
    <3>2. FpOfFirst(s) = DualFp(Hash(s[1].data), s[1].compressed_fp)
      BY <2>3 DEF FpOfFirst
    <3> QED BY <1>3, <2>1, <3>1, <3>2
  <2>4. CASE s[1].type = "cache"
    <3>1. s[1].data = Enc(Raw(c), key)
      BY <1>3, <1>6, <2>4 DEF WireForm
    <3>2. Len(s) > 1
      BY <1>1, <2>4 DEF IsCache, LastOf
    <3>3. s[2].type = "normal" /\ 2 \in 1 .. Len(s)
      BY <1>1, <1>2, <2>4, <3>2 DEF Sends, IsCache
    <3>4. s[2].place = p
      <4>1. 1 \in 1 .. Len(s) - 1 /\ IsCache(s[1])
        BY <1>1, <2>4, <3>2 DEF IsCache
      <4>2. s[1 + 1].place = p + (IF IsCache(s[1]) THEN 0 ELSE 1)
        BY <4>1 DEF Sends, Ordered
      <4> QED BY <1>3, <4>1, <4>2
    <3>5. WireForm(m, c, key, s[2])
      BY <3>3, <3>4 DEF Sends
    <3>6. s[2].data = Enc(Compressed(c), key)
      BY <1>6, <3>3, <3>5 DEF WireForm
    <3>7. FpOfFirst(s) = DualFp(Hash(s[1].data), Hash(s[2].data))
      BY <2>4 DEF FpOfFirst
    <3> QED BY <1>3, <2>1, <3>1, <3>6, <3>7
  <2> QED BY <1>3, <1>6, <2>2, <2>3, <2>4 DEF WireForm
<1> QED BY <1>4, <1>5, <1>6 DEF Method

(* The batch that KeyGenThd hands on: the chunks of chunk_buf, each with   *)
(* the key of its seed and its place.                                      *)
LEMMA EncryptedFacts ==
  ASSUME NEW b, NEW seeds, NEW done \in Nat, Len(b) \in Nat
  PROVE  LET batch == Encrypted(b, seeds, done) IN
         /\ ASeq(batch) /\ Len(batch) = Len(b)
         /\ \A i \in 1 .. Len(b) :
              /\ batch[i].type = "normal" /\ batch[i].c = b[i]
              /\ batch[i].key = KeyOf(b[i], seeds[i]) /\ batch[i].place = done + i
<1> DEFINE batch == Encrypted(b, seeds, done)
<1>1. batch = [i \in 1 .. Len(b) |-> EncChunk(b[i], seeds[i], done + i)]
  BY DEF Encrypted
<1>2. batch = [i \in 1 .. Len(b) |-> batch[i]]
  BY <1>1
<1>3. ASeq(batch) /\ Len(batch) = Len(b)
  BY <1>2, FunctionASeq, Zenon
<1>4. \A i \in 1 .. Len(b) : batch[i] = EncChunk(b[i], seeds[i], done + i)
  BY <1>1
<1> HIDE DEF batch
<1>5. \A i \in 1 .. Len(b) :
        /\ batch[i].type = "normal" /\ batch[i].c = b[i]
        /\ batch[i].key = KeyOf(b[i], seeds[i]) /\ batch[i].place = done + i
  <2> SUFFICES ASSUME NEW i \in 1 .. Len(b)
               PROVE  /\ batch[i].type = "normal" /\ batch[i].c = b[i]
                      /\ batch[i].key = KeyOf(b[i], seeds[i]) /\ batch[i].place = done + i
    OBVIOUS
  <2>1. PICK p : p = done + i
    OBVIOUS
  <2>2. batch[i] = EncChunk(b[i], seeds[i], p)
    BY <1>4, <2>1
  <2>3. /\ batch[i].type = "normal" /\ batch[i].c = b[i]
        /\ batch[i].key = KeyOf(b[i], seeds[i]) /\ batch[i].place = p
    BY <2>2 DEF EncChunk
  <2> QED BY <2>1, <2>3
<1> QED BY <1>3, <1>5 DEF batch

LEMMA KeysOfBatch ==
  ASSUME NEW b, Len(b) \in Nat
  PROVE  LET new == [i \in 1 .. Len(b) |-> b[i].key] IN
         ASeq(new) /\ Len(new) = Len(b) /\ \A i \in 1 .. Len(b) : new[i] = b[i].key
<1> DEFINE new == [i \in 1 .. Len(b) |-> b[i].key]
<1>1. new = [i \in 1 .. Len(b) |-> new[i]] /\ \A i \in 1 .. Len(b) : new[i] = b[i].key
  OBVIOUS
<1>2. ASeq(new) /\ Len(new) = Len(b)
  BY <1>1, FunctionASeq, Zenon
<1> QED BY <1>1, <1>2

-----------------------------------------------------------------------------
(* The state of one client.                                                *)

(* Every variable has a value for each client.                             *)
Domains ==
  /\ DOMAIN file = Client /\ DOMAIN method = Client /\ DOMAIN client = Client
  /\ DOMAIN next = Client /\ DOMAIN chunk_buf = Client /\ DOMAIN asked = Client
  /\ DOMAIN key_gen_mq = Client /\ DOMAIN cached = Client /\ DOMAIN select_comp_mq = Client
  /\ DOMAIN send_buf = Client /\ DOMAIN key_buf = Client /\ DOMAIN key_recipe = Client
  /\ DOMAIN wire = Client /\ DOMAIN cur_chunk_num = Client /\ DOMAIN recipe_batch = Client
  /\ DOMAIN recipe = Client /\ DOMAIN keys = Client /\ DOMAIN recv_req = Client

(* The shape of the state: what is not in UploadInv because it does not    *)
(* concern places.                                                         *)
Message(msg) ==
  /\ msg = [type |-> msg.type, items |-> msg.items, cur_item_num |-> msg.cur_item_num]
  /\ ASeq(msg.items) /\ msg.cur_item_num \in Nat
ThreadShape(cl) ==
  /\ file[cl] \in Seq(Chunk) /\ chunk_buf[cl] \in Seq(Chunk) /\ next[cl] \in Nat
  /\ asked[cl] \in BOOLEAN /\ client[cl] \in {"run", "sent", "closed", "gone"}
KeyGenShape(cl) ==
  /\ method[cl] \in Method /\ ASeq(keys[cl]) /\ ASeq(key_gen_mq[cl])
SenderShape(cl) ==
  /\ ASeq(select_comp_mq[cl]) /\ ASeq(key_buf[cl]) /\ ASeq(key_recipe[cl])
  /\ ASeq(send_buf[cl].items) /\ send_buf[cl].cur_item_num \in Nat
WireShape(cl) ==
  ASeq(wire[cl]) /\ \A m \in 1 .. Len(wire[cl]) : Message(wire[cl][m])
RecvShape(cl) ==
  /\ cur_chunk_num[cl] \in Nat /\ ASeq(recipe_batch[cl]) /\ ASeq(recipe[cl].fps)
  /\ recipe[cl] = [head |-> recipe[cl].head, fps |-> recipe[cl].fps]
  /\ recipe[cl].head \in Nat \cup {NoHead}
Shape(cl) ==
  /\ ThreadShape(cl) /\ KeyGenShape(cl) /\ SenderShape(cl) /\ WireShape(cl) /\ RecvShape(cl)

LEMMA FileSeq ==
  ASSUME NEW d, ThreadShape(d)
  PROVE  ASeq(file[d]) /\ ASeq(chunk_buf[d])
BY DEF ThreadShape, ASeq

LEMMA Lens ==
  ASSUME NEW d, Shape(d)
  PROVE  /\ Len(file[d]) \in Nat /\ Len(chunk_buf[d]) \in Nat /\ Len(keys[d]) \in Nat
         /\ Len(key_gen_mq[d]) \in Nat /\ Len(select_comp_mq[d]) \in Nat
         /\ Len(key_buf[d]) \in Nat /\ Len(key_recipe[d]) \in Nat
         /\ Len(send_buf[d].items) \in Nat /\ Len(wire[d]) \in Nat
         /\ Len(recipe_batch[d]) \in Nat /\ Len(recipe[d].fps) \in Nat
<1>1. ASeq(file[d]) /\ ASeq(chunk_buf[d])
  BY FileSeq DEF Shape
<1>2. /\ ASeq(keys[d]) /\ ASeq(key_gen_mq[d]) /\ ASeq(select_comp_mq[d]) /\ ASeq(key_buf[d])
      /\ ASeq(key_recipe[d]) /\ ASeq(send_buf[d].items) /\ ASeq(wire[d])
      /\ ASeq(recipe_batch[d]) /\ ASeq(recipe[d].fps)
  BY DEF Shape, KeyGenShape, SenderShape, WireShape, RecvShape
<1> QED BY <1>1, <1>2, SeqFacts

LEMMA KeysFacts ==
  ASSUME NEW d, Shape(d)
  PROVE  /\ ASeq(Keys(d)) /\ Len(Keys(d)) = Len(key_recipe[d]) + Len(key_buf[d])
         /\ Len(Keys(d)) \in Nat
<1>1. ASeq(key_recipe[d]) /\ ASeq(key_buf[d])
  BY DEF Shape, SenderShape
<1>2. Len(key_recipe[d]) \in Nat /\ Len(key_buf[d]) \in Nat
  BY Lens
<1>3. /\ ASeq(key_recipe[d] \o key_buf[d])
      /\ Len(key_recipe[d] \o key_buf[d]) = Len(key_recipe[d]) + Len(key_buf[d])
  BY <1>1, ConcatFacts
<1>4. Keys(d) = key_recipe[d] \o key_buf[d]
  BY DEF Keys
<1>5. ASeq(Keys(d)) /\ Len(Keys(d)) = Len(key_recipe[d]) + Len(key_buf[d])
  BY <1>3, <1>4, Zenon
<1>6. Len(Keys(d)) \in Nat
  BY <1>5, SeqFacts, Zenon
<1> QED BY <1>5, <1>6, Zenon

LEMMA ReceivedFacts ==
  ASSUME NEW d, Shape(d)
  PROVE  ASeq(Received(d)) /\ Len(Received(d)) \in Nat
<1>1. ASeq(recipe[d].fps) /\ ASeq(recipe_batch[d])
  BY DEF Shape, RecvShape
<1>2. ASeq(recipe[d].fps \o recipe_batch[d])
  BY <1>1, ConcatFacts
<1>3. ASeq(Received(d))
  BY <1>1, <1>2 DEF Received
<1> QED BY <1>3, SeqFacts

LEMMA BeginsSame ==
  ASSUME NEW k, NEW k2, Len(k) \in Nat, k2 = k
  PROVE  Begins(k, k2)
BY DEF Begins

(* Messages of chunks only, one after the other from place r + 1.          *)
EndOf(r, u, i) == IF i = 0 THEN r ELSE LastOf(u[i].items).place
ChunksFrom(f, m, k, r, cur, u) ==
  /\ ASeq(u)
  /\ \A i \in 1 .. Len(u) :
       /\ u[i].type = "chunks" /\ Message(u[i])
       /\ u[i].items # <<>> /\ ~IsCache(LastOf(u[i].items)) /\ Sends(f, m, k, u[i].items)
       /\ u[i].items[1].place = EndOf(r, u, i - 1) + 1
       /\ Cardinality(CountedIn(u[i].items)) + (IF i = 1 THEN cur ELSE 0) = u[i].cur_item_num
  /\ cur # 0 => u # <<>>
NextChunks(f, m, k, end, msg) ==
  /\ Message(msg) /\ msg.type = "chunks" /\ msg.items # <<>>
  /\ ~IsCache(LastOf(msg.items)) /\ Sends(f, m, k, msg.items)
  /\ msg.items[1].place = end + 1
  /\ Cardinality(CountedIn(msg.items)) = msg.cur_item_num

(* One more message, which starts where these end.                         *)
LEMMA ChunksFromAppend ==
  ASSUME NEW f, NEW m, NEW k, NEW r, NEW cur \in Nat, NEW u, ChunksFrom(f, m, k, r, cur, u),
         NEW msg, NextChunks(f, m, k, EndOf(r, u, Len(u)), msg),
         NEW v, IsAppend(u, msg, v)
  PROVE  ChunksFrom(f, m, k, r, cur, v) /\ EndOf(r, v, Len(v)) = LastOf(msg.items).place
<1>0. /\ Message(msg) /\ msg.type = "chunks" /\ msg.items # <<>>
      /\ ~IsCache(LastOf(msg.items)) /\ Sends(f, m, k, msg.items)
      /\ msg.items[1].place = EndOf(r, u, Len(u)) + 1
      /\ Cardinality(CountedIn(msg.items)) = msg.cur_item_num
  BY DEF NextChunks
<1>1. ASeq(u) /\ Len(u) \in Nat
  BY SeqFacts DEF ChunksFrom
<1>2. /\ ASeq(v) /\ Len(v) = Len(u) + 1 /\ \A i \in 1 .. Len(u) : v[i] = u[i]
      /\ v[Len(u) + 1] = msg
  BY DEF IsAppend
<1>3. v # <<>>
  BY <1>1, <1>2, SeqFacts
<1>4. ASSUME NEW i \in 0 .. Len(u) PROVE EndOf(r, v, i) = EndOf(r, u, i)
  <2>1. i = 0 \/ i \in 1 .. Len(u)
    BY <1>1
  <2> QED BY <1>2, <2>1 DEF EndOf
<1>5. ASSUME NEW i \in 1 .. Len(v)
      PROVE  /\ v[i].type = "chunks" /\ Message(v[i])
             /\ v[i].items # <<>> /\ ~IsCache(LastOf(v[i].items)) /\ Sends(f, m, k, v[i].items)
             /\ v[i].items[1].place = EndOf(r, v, i - 1) + 1
             /\ Cardinality(CountedIn(v[i].items)) + (IF i = 1 THEN cur ELSE 0) = v[i].cur_item_num
  <2>1. i - 1 \in 0 .. Len(u) /\ (i \in 1 .. Len(u) \/ i = Len(u) + 1)
    BY <1>1, <1>2
  <2>2. EndOf(r, v, i - 1) = EndOf(r, u, i - 1)
    BY <1>4, <2>1
  <2>3. CASE i \in 1 .. Len(u)
    BY <1>2, <2>2, <2>3 DEF ChunksFrom
  <2>4. CASE i = Len(u) + 1
    <3>1. v[i] = msg /\ i - 1 = Len(u)
      BY <1>1, <1>2, <2>4
    <3>2. i = 1 => cur = 0
      <4>1. i = 1 => u = <<>>
        BY <1>1, <2>4, SeqFacts
      <4> QED BY <4>1 DEF ChunksFrom
    <3>3. msg.cur_item_num \in Nat
      BY <1>0 DEF Message
    <3>4. Cardinality(CountedIn(msg.items)) + (IF i = 1 THEN cur ELSE 0) = msg.cur_item_num
      BY <1>0, <3>2, <3>3
    <3> QED BY <1>0, <2>2, <3>1, <3>4
  <2> QED BY <2>1, <2>3, <2>4
<1>6. EndOf(r, v, Len(v)) = LastOf(msg.items).place
  BY <1>1, <1>2 DEF EndOf
<1> QED BY <1>2, <1>3, <1>5, <1>6 DEF ChunksFrom

(* What each part of UploadInv depends on: it holds on when this does not  *)
(* change.                                                                 *)
LEMMA BatchFrame ==
  ASSUME NEW d, BatchInv(d), Running(d)' => Running(d), file'[d] = file[d],
         keys'[d] = keys[d], next'[d] = next[d], chunk_buf'[d] = chunk_buf[d]
  PROVE  BatchInv(d)'
BY DEF BatchInv

LEMMA PassedFrame ==
  ASSUME NEW d, file'[d] = file[d], keys'[d] = keys[d], next'[d] = next[d]
  PROVE  Passed(d)' = Passed(d)
BY DEF Passed

LEMMA KeyGenMqFrame ==
  ASSUME NEW d, KeyGenMqInv(d), Passed(d)' = Passed(d), file'[d] = file[d],
         keys'[d] = keys[d], key_gen_mq'[d] = key_gen_mq[d]
  PROVE  KeyGenMqInv(d)' /\ SelEnd(d)' = SelEnd(d)
BY DEF KeyGenMqInv, SelEnd

LEMMA SelectFrame ==
  ASSUME NEW d, SelectInv(d), Shape(d), Shape(d)', Open(d)' <=> Open(d), Running(d)' => Running(d),
         Sent(d)' = Sent(d), SelEnd(d)' = SelEnd(d), Begins(keys[d], keys'[d]),
         file'[d] = file[d], method'[d] = method[d], select_comp_mq'[d] = select_comp_mq[d]
  PROVE  SelectInv(d)'
<1>1. Selects(file[d], method[d], keys[d], select_comp_mq[d])
  BY DEF SelectInv
<1>2. Len(keys[d]) \in Nat /\ Len(keys'[d]) \in Nat
  BY Lens DEF Shape, KeyGenShape
<1>3. Selects(file[d], method[d], keys'[d], select_comp_mq[d])
  BY <1>1, <1>2, SelectsMoreKeys
<1> QED BY <1>3 DEF SelectInv

LEMMA WireFrame ==
  ASSUME NEW d, WireInv(d), Shape(d), Shape(d)', Received(d)' = Received(d),
         client[d] # "run" => client'[d] # "run", Begins(keys[d], keys'[d]),
         file'[d] = file[d], method'[d] = method[d], wire'[d] = wire[d],
         cur_chunk_num'[d] = cur_chunk_num[d]
  PROVE  /\ WireInv(d)'
         /\ End(d, Len(wire[d]))' = End(d, Len(wire[d]))
<1>1. Len(keys[d]) \in Nat /\ Len(keys'[d]) \in Nat
  BY Lens
<1>2. ASSUME NEW m PROVE End(d, m)' = End(d, m)
  BY DEF End
<1>3. ASSUME NEW m, ChunksInv(d, m) PROVE ChunksInv(d, m)'
  <2>1. Sends(file[d], method[d], keys'[d], wire[d][m].items)
    BY <1>1, <1>3, SendsMoreKeys DEF ChunksInv
  <2>2. End(d, m - 1)' = End(d, m - 1)
    BY DEF End
  <2> QED BY <1>3, <2>1, <2>2 DEF ChunksInv
<1>4. ASSUME NEW m, RecipeEndInv(d, m) PROVE RecipeEndInv(d, m)'
  <2>2. End(d, m - 1)' = End(d, m - 1)
    BY DEF End
  <2> QED BY <1>4, <2>2 DEF RecipeEndInv
<1>5. WireInv(d)'
  BY <1>3, <1>4 DEF WireInv
<1> QED BY <1>5 DEF End

LEMMA SendBufFrame ==
  ASSUME NEW d, SendBufInv(d), Shape(d), Shape(d)',
         End(d, Len(wire[d]))' = End(d, Len(wire[d])), Keys(d)' = Keys(d),
         client'[d] = "run" <=> client[d] = "run", Begins(keys[d], keys'[d]),
         file'[d] = file[d], method'[d] = method[d], send_buf'[d] = send_buf[d]
  PROVE  SendBufInv(d)' /\ (Open(d)' <=> Open(d))
<1>1. Len(keys[d]) \in Nat /\ Len(keys'[d]) \in Nat
  BY Lens
<1>2. Sends(file[d], method[d], keys'[d], send_buf[d].items)
  BY <1>1, SendsMoreKeys DEF SendBufInv
<1>3. Open(d)' <=> Open(d)
  BY DEF Open
<1> QED BY <1>2, <1>3 DEF SendBufInv

LEMMA KeyRecipeFrame ==
  ASSUME NEW d, KeyRecipeInv(d), Shape(d), Shape(d)', Begins(keys[d], keys'[d]),
         client'[d] \in {"sent", "closed"} => client[d] \in {"sent", "closed"},
         client'[d] # "run" => key_gen_mq'[d] = <<>> /\ select_comp_mq'[d] = <<>>,
         file'[d] = file[d], key_buf'[d] = key_buf[d], key_recipe'[d] = key_recipe[d]
  PROVE  KeyRecipeInv(d)' /\ Keys(d)' = Keys(d)
<1>1. Len(keys[d]) \in Nat /\ Len(keys'[d]) \in Nat
  BY Lens
<1>2. Keys(d)' = Keys(d) /\ Len(Keys(d)) \in Nat
  BY KeysFacts DEF Keys
<1>3. \A i \in 1 .. Len(Keys(d)) : Keys(d)[i] = keys'[d][i]
  BY <1>1, <1>2 DEF KeyRecipeInv, Begins
<1>4. Len(Keys(d)) <= Len(keys'[d])
  BY <1>1, <1>2 DEF KeyRecipeInv, Begins
<1> QED BY <1>2, <1>3, <1>4 DEF KeyRecipeInv

LEMMA RecipeFrame ==
  ASSUME NEW d, RecipeInv(d), Shape(d), Shape(d)', Begins(keys[d], keys'[d]),
         client[d] # "run" =>
           client'[d] # "run" /\ (wire[d] = <<>> => wire'[d] = <<>>),
         file'[d] = file[d], method'[d] = method[d],
         recipe'[d] = recipe[d], recipe_batch'[d] = recipe_batch[d]
  PROVE  RecipeInv(d)' /\ Received(d)' = Received(d)
<1>1. Len(keys[d]) \in Nat /\ Len(keys'[d]) \in Nat
  BY Lens
<1>2. Received(d)' = Received(d) /\ Len(Received(d)) \in Nat
  BY ReceivedFacts DEF Received
<1>3. ASSUME NEW i \in 1 .. Len(Received(d))
      PROVE  i <= Len(keys'[d]) /\ keys'[d][i] = keys[d][i]
  BY <1>1, <1>2 DEF RecipeInv, Begins
<1> QED BY <1>2, <1>3 DEF RecipeInv

(* What a step leaves as it is for a client: of the key manager, it may    *)
(* only learn less.                                                        *)
FixedStill(d) == file'[d] = file[d] /\ method'[d] = method[d] /\ client'[d] = client[d]
KeyGenStill(d) ==
  /\ next'[d] = next[d] /\ chunk_buf'[d] = chunk_buf[d] /\ asked'[d] = asked[d]
  /\ keys'[d] = keys[d] /\ key_gen_mq'[d] = key_gen_mq[d]
SenderStill(d) ==
  /\ select_comp_mq'[d] = select_comp_mq[d] /\ send_buf'[d] = send_buf[d]
  /\ key_buf'[d] = key_buf[d] /\ key_recipe'[d] = key_recipe[d]
RecvStill(d) ==
  /\ cur_chunk_num'[d] = cur_chunk_num[d] /\ recipe_batch'[d] = recipe_batch[d]
  /\ recipe'[d] = recipe[d]
KmStill(d) ==
  \/ km' = km /\ recv_req'[d] = recv_req[d]
  \/ km' = "down" /\ recv_req'[d] = <<>>
  \/ km' = km /\ recv_req'[d] = <<>> /\ ~Running(d)
Still(d) ==
  /\ FixedStill(d) /\ KeyGenStill(d) /\ SenderStill(d) /\ wire'[d] = wire[d]
  /\ RecvStill(d) /\ KmStill(d)

(* What is proved of every step of a client cl.                            *)
Keeps(cl) ==
  /\ Domains' /\ Shape(cl)' /\ PlacesInv(cl)'
  /\ \A d \in Client \ {cl} : Still(d)

LEMMA Parts ==
  ASSUME NEW d, PlacesInv(d)
  PROVE  /\ BatchInv(d) /\ AskInv(d) /\ KeyGenMqInv(d) /\ SelectInv(d)
         /\ WireInv(d) /\ SendBufInv(d) /\ KeyRecipeInv(d) /\ RecipeInv(d)
BY DEF PlacesInv

LEMMA AskFrame ==
  ASSUME NEW d, AskInv(d), KmStill(d), FixedStill(d), KeyGenStill(d)
  PROVE  AskInv(d)'
<1>1. CASE km' = km /\ recv_req'[d] = recv_req[d]
  BY <1>1 DEF AskInv, Running, FixedStill, KeyGenStill
<1>2. CASE km' = "down" /\ recv_req'[d] = <<>>
  BY <1>2 DEF AskInv, Running, FixedStill, KeyGenStill
<1>3. CASE km' = km /\ recv_req'[d] = <<>> /\ ~Running(d)
  BY <1>3 DEF AskInv, Running, FixedStill, KeyGenStill
<1> QED BY <1>1, <1>2, <1>3 DEF KmStill

(* What KeyGenThd does leaves the rest of the client and the server alone. *)
LEMMA RestShape ==
  ASSUME NEW d, Shape(d), SenderStill(d), wire'[d] = wire[d], RecvStill(d)
  PROVE  SenderShape(d)' /\ WireShape(d)' /\ RecvShape(d)'
BY DEF Shape, SenderShape, WireShape, RecvShape, SenderStill, RecvStill, Message

(* As long as KeyGenThd only adds keys and SelEnd stays, the invariants of *)
(* the threads behind it hold on.                                          *)
LEMMA RestKeeps ==
  ASSUME NEW d, Shape(d), Shape(d)', PlacesInv(d), FixedStill(d), SenderStill(d),
         wire'[d] = wire[d], RecvStill(d), Begins(keys[d], keys'[d]),
         SelEnd(d)' = SelEnd(d), client[d] # "run" => key_gen_mq'[d] = <<>>
  PROVE  /\ SelectInv(d)' /\ WireInv(d)' /\ SendBufInv(d)' /\ KeyRecipeInv(d)'
         /\ RecipeInv(d)'
<1>1. Running(d)' <=> Running(d)
  BY DEF Running, FixedStill
<1>2. client[d] # "run" => select_comp_mq[d] = <<>>
  BY Parts DEF KeyRecipeInv
<1>3. KeyRecipeInv(d)' /\ Keys(d)' = Keys(d)
  BY <1>2, Parts, KeyRecipeFrame DEF FixedStill, SenderStill
<1>4. RecipeInv(d)' /\ Received(d)' = Received(d)
  BY Parts, RecipeFrame DEF FixedStill, RecvStill
<1>5. WireInv(d)' /\ End(d, Len(wire[d]))' = End(d, Len(wire[d]))
  BY <1>4, Parts, WireFrame DEF FixedStill, RecvStill
<1>6. SendBufInv(d)' /\ (Open(d)' <=> Open(d))
  BY <1>3, <1>5, Parts, SendBufFrame DEF FixedStill, SenderStill
<1>7. Sent(d)' = Sent(d)
  BY <1>3 DEF Sent, FixedStill
<1>8. SelectInv(d)'
  BY <1>1, <1>6, <1>7, Parts, SelectFrame DEF FixedStill, SenderStill
<1> QED BY <1>3, <1>4, <1>5, <1>6, <1>8

(* A step that leaves a client as it is keeps its part of the invariant.   *)
LEMMA StillKeeps ==
  ASSUME NEW d, Shape(d), PlacesInv(d), Still(d)
  PROVE  Shape(d)' /\ PlacesInv(d)'
<1>1. /\ FixedStill(d) /\ KeyGenStill(d) /\ SenderStill(d) /\ wire'[d] = wire[d]
      /\ RecvStill(d) /\ KmStill(d)
  BY DEF Still
<1>2. ThreadShape(d)' /\ KeyGenShape(d)'
  BY <1>1 DEF Shape, ThreadShape, KeyGenShape, FixedStill, KeyGenStill
<1>3. Shape(d)'
  BY <1>1, <1>2, RestShape DEF Shape
<1>4. Running(d)' <=> Running(d)
  BY <1>1 DEF Running, FixedStill
<1>5. Begins(keys[d], keys'[d])
  BY <1>1, Lens, BeginsSame DEF KeyGenStill
<1>6. BatchInv(d)' /\ AskInv(d)'
  BY <1>1, <1>4, Parts, BatchFrame, AskFrame DEF FixedStill, KeyGenStill
<1>7. KeyGenMqInv(d)' /\ SelEnd(d)' = SelEnd(d)
  BY <1>1, Parts, PassedFrame, KeyGenMqFrame DEF FixedStill, KeyGenStill
<1>8. client[d] # "run" => key_gen_mq'[d] = <<>>
  BY <1>1, Parts DEF KeyRecipeInv, KeyGenStill
<1> QED BY <1>1, <1>3, <1>5, <1>6, <1>7, <1>8, RestKeeps DEF PlacesInv

LEMMA SentNat ==
  ASSUME NEW cl \in Client, Shape(cl)
  PROVE  Sent(cl) \in Nat
<1>1. Len(Keys(cl)) \in Nat
  BY KeysFacts
<1> QED BY <1>1 DEF Sent

(* SenderThd is not done before KeyGenThd has passed the recipe chunk.     *)
LEMMA StillSending ==
  ASSUME NEW cl \in Client, Domains, Shape(cl), PlacesInv(cl), Running(cl),
         next[cl] <= Len(file[cl])
  PROVE  client[cl] = "run"
<1> SUFFICES ASSUME client[cl] = "sent"
             PROVE  FALSE
  BY DEF Running
<1>1. BatchInv(cl) /\ KeyRecipeInv(cl) /\ SelectInv(cl)
  BY Parts
<1>2. /\ Len(keys[cl]) \in Nat /\ Len(file[cl]) \in Nat /\ next[cl] \in Nat
      /\ Len(key_gen_mq[cl]) \in Nat
  BY Lens DEF Shape, ThreadShape
<1>3. /\ key_buf[cl] = <<>> /\ Len(key_recipe[cl]) = Len(file[cl])
      /\ key_gen_mq[cl] = <<>> /\ select_comp_mq[cl] = <<>>
  BY <1>1 DEF KeyRecipeInv
<1>4. Sent(cl) = SelEnd(cl)
  BY <1>1, <1>3 DEF SelectInv
<1>5. Len(Keys(cl)) = Len(file[cl])
  BY <1>2, <1>3, KeysFacts DEF Domains
<1>6. Sent(cl) = Len(file[cl]) + 1
  BY <1>5 DEF Sent
<1>7. Passed(cl) = Len(keys[cl])
  BY <1>2 DEF Passed, Domains
<1>8. SelEnd(cl) = Len(keys[cl])
  BY <1>2, <1>3, <1>7 DEF SelEnd, Domains
<1>9. Len(keys[cl]) <= Len(file[cl])
  BY <1>1 DEF BatchInv
<1>10. Len(keys[cl]) = Len(file[cl]) + 1
  BY <1>4, <1>6, <1>8
<1> QED BY <1>2, <1>9, <1>10 DEF Domains

LEMMA SelEndNat ==
  ASSUME NEW cl \in Client, Domains, Shape(cl), PlacesInv(cl), Running(cl)
  PROVE  SelEnd(cl) \in Nat
<1> DEFINE q == select_comp_mq[cl]
<1>1. SelectInv(cl)
  BY Parts
<1>2. Len(q) \in Nat /\ ASeq(q) /\ Len(file[cl]) \in Nat
  BY Lens DEF Shape, SenderShape
<1>3. CASE q = <<>>
  BY <1>1, <1>3, SentNat DEF SelectInv
<1>4. CASE q # <<>>
  <2>1. Len(q) \in 1 .. Len(q)
    BY <1>2, <1>4, SeqFacts DEF Domains
  <2>2. LastOf(q).place \in Nat
    BY <1>1, <1>2, <2>1 DEF SelectInv, Selects, LastOf
  <2> QED BY <1>1, <1>4, <2>2 DEF SelectInv
<1> QED BY <1>3, <1>4

-----------------------------------------------------------------------------
(* KeyGenThd and the key manager.                                          *)

LEMMA KeyGenRestStill ==
  ASSUME KeyGenRest, NEW d
  PROVE  FixedStill(d) /\ SenderStill(d) /\ wire'[d] = wire[d] /\ RecvStill(d)
BY DEF KeyGenRest, FixedStill, SenderStill, RecvStill, fixedVars, senderVars, recvVars

LEMMA KeyGenRestDomains ==
  ASSUME Domains, KeyGenRest, DOMAIN next' = Client, DOMAIN chunk_buf' = Client,
         DOMAIN asked' = Client, DOMAIN key_gen_mq' = Client, DOMAIN keys' = Client,
         DOMAIN recv_req' = Client
  PROVE  Domains'
BY DEF Domains, KeyGenRest, fixedVars, senderVars, recvVars

(* A step of KeyGenThd has to be shown to keep KeyGenThd's own part.       *)
LEMMA KeyGenKeeps ==
  ASSUME NEW cl \in Client, Domains', Shape(cl), PlacesInv(cl), Running(cl),
         ThreadShape(cl)', KeyGenRest, ASeq(keys'[cl]), ASeq(key_gen_mq'[cl]),
         Begins(keys[cl], keys'[cl]), SelEnd(cl)' = SelEnd(cl),
         client[cl] # "run" => key_gen_mq'[cl] = <<>>,
         BatchInv(cl)', AskInv(cl)', KeyGenMqInv(cl)',
         \A d \in Client \ {cl} : KeyGenStill(d) /\ KmStill(d)
  PROVE  Keeps(cl)
<1>1. FixedStill(cl) /\ SenderStill(cl) /\ wire'[cl] = wire[cl] /\ RecvStill(cl)
  BY KeyGenRestStill
<1>2. KeyGenShape(cl)'
  BY <1>1 DEF Shape, KeyGenShape, FixedStill
<1>3. Shape(cl)'
  BY <1>1, <1>2, RestShape DEF Shape
<1>4. PlacesInv(cl)'
  BY <1>1, <1>3, RestKeeps DEF PlacesInv
<1>5. \A d \in Client \ {cl} : Still(d)
  BY KeyGenRestStill DEF Still
<1> QED BY <1>3, <1>4, <1>5 DEF Keeps

(* PopChunk: the next chunk of the file is added to the batch.             *)
LEMMA PopKeeps ==
  ASSUME NEW cl \in Client, Domains, Shape(cl), PlacesInv(cl), Running(cl),
         ThreadShape(cl)', PopChunk(cl)
  PROVE  Keeps(cl)
<1> DEFINE x == file[cl][next[cl] + 1]
           t == Append(chunk_buf[cl], x)
<1>1. /\ ~asked[cl] /\ next[cl] < Len(file[cl]) /\ Len(chunk_buf[cl]) < ChunkBatch
      /\ next' = [next EXCEPT ![cl] = @ + 1] /\ chunk_buf' = [chunk_buf EXCEPT ![cl] = t]
      /\ UNCHANGED <<km, recv_req, asked, key_gen_mq, keys>> /\ KeyGenRest
  BY DEF PopChunk, kmVars
<1>2. /\ next'[cl] = next[cl] + 1 /\ chunk_buf'[cl] = t
      /\ \A d \in Client \ {cl} : KeyGenStill(d) /\ KmStill(d)
  BY <1>1 DEF Domains, KeyGenStill, KmStill
<1>3. Domains'
  BY <1>1, KeyGenRestDomains DEF Domains
<1>4. /\ Len(file[cl]) \in Nat /\ Len(keys[cl]) \in Nat /\ Len(chunk_buf[cl]) \in Nat
      /\ next[cl] \in Nat /\ ASeq(chunk_buf[cl])
  BY Lens, FileSeq DEF Shape, ThreadShape
<1>5. /\ Len(t) = Len(chunk_buf[cl]) + 1 /\ t[Len(chunk_buf[cl]) + 1] = x /\ t # <<>>
      /\ \A i \in 1 .. Len(chunk_buf[cl]) : t[i] = chunk_buf[cl][i]
  BY <1>4, AppendFacts
<1> HIDE DEF t
<1>6. file'[cl] = file[cl] /\ client'[cl] = client[cl] /\ keys'[cl] = keys[cl]
  BY <1>1, KeyGenRestStill DEF FixedStill
<1>7. BatchInv(cl)'
  <2>1. BatchInv(cl)
    BY Parts
  <2>2. Len(keys[cl]) + Len(chunk_buf[cl]) = next[cl]
    <3>1. next[cl] <= Len(file[cl])
      BY <1>1, <1>4
    <3> QED BY <2>1, <3>1 DEF BatchInv
  <2>3. \A i \in 1 .. Len(chunk_buf[cl]) : chunk_buf[cl][i] = file[cl][Len(keys[cl]) + i]
    BY <2>1 DEF BatchInv
  <2>4. \A i \in 1 .. Len(t) : t[i] = file[cl][Len(keys[cl]) + i]
    <3>1. ASSUME NEW i \in 1 .. Len(t) PROVE t[i] = file[cl][Len(keys[cl]) + i]
      <4>1. CASE i \in 1 .. Len(chunk_buf[cl])
        BY <1>5, <2>3, <4>1
      <4>2. CASE i = Len(chunk_buf[cl]) + 1
        <5>1. Len(keys[cl]) + i = next[cl] + 1
          BY <1>4, <2>2, <4>2 DEF Domains
        <5> QED BY <1>5, <4>2, <5>1
      <4> QED BY <1>4, <1>5, <4>1, <4>2
    <3> QED BY <3>1
  <2>5. next[cl] + 1 <= Len(file[cl]) /\ Len(keys[cl]) + Len(t) = next[cl] + 1
    <3>1. Len(keys[cl]) + Len(t) = (Len(keys[cl]) + Len(chunk_buf[cl])) + 1
      BY <1>4, <1>5 DEF Domains
    <3> QED BY <1>1, <1>4, <2>2, <3>1 DEF Domains
  <2>6. /\ Len(keys[cl]) <= Len(file[cl])
        /\ \A p \in 1 .. Len(keys[cl]) :
             \E seed \in Chunk : keys[cl][p] = KeyOf(file[cl][p], seed)
    BY <2>1 DEF BatchInv
  <2> QED BY <1>2, <1>4, <1>6, <2>4, <2>5, <2>6 DEF BatchInv
<1>8. AskInv(cl)'
  <2>1. AskInv(cl)
    BY Parts
  <2>2. Len(t) <= ChunkBatch /\ next[cl] + 1 <= Len(file[cl]) + 2
    BY <1>1, <1>4, <1>5, ClientUploadAssumption DEF Domains
  <2>3. ~asked'[cl] /\ km' = km /\ recv_req'[cl] = recv_req[cl]
    BY <1>1
  <2>4. km = "down" => recv_req[cl] = <<>>
    BY <2>1 DEF AskInv
  <2> QED BY <1>2, <1>6, <2>2, <2>3, <2>4 DEF AskInv
<1>9. Passed(cl)' = Passed(cl)
  BY <1>1, <1>2, <1>4, <1>6 DEF Passed
<1>10. KeyGenMqInv(cl)' /\ SelEnd(cl)' = SelEnd(cl)
  BY <1>1, <1>6, <1>9, Parts, KeyGenMqFrame
<1>11. ASeq(keys'[cl]) /\ ASeq(key_gen_mq'[cl]) /\ Begins(keys[cl], keys'[cl])
  BY <1>1, <1>4, BeginsSame DEF Shape, KeyGenShape
<1>12. client[cl] # "run" => key_gen_mq'[cl] = <<>>
  BY <1>1, Parts DEF KeyRecipeInv
<1> QED BY <1>1, <1>2, <1>3, <1>7, <1>8, <1>10, <1>11, <1>12, KeyGenKeeps

(* AskForSeeds: the key manager gets the batch.                            *)
LEMMA AskKeeps ==
  ASSUME NEW cl \in Client, Domains, Shape(cl), PlacesInv(cl), Running(cl),
         ThreadShape(cl)', AskForSeeds(cl)
  PROVE  Keeps(cl)
<1>1. /\ BatchReady(cl) /\ km = "up"
      /\ asked' = [asked EXCEPT ![cl] = TRUE]
      /\ recv_req' = [recv_req EXCEPT ![cl] = chunk_buf[cl]]
      /\ UNCHANGED <<km, next, chunk_buf, key_gen_mq, keys>> /\ KeyGenRest
  BY DEF AskForSeeds, RecvBatch
<1>2. /\ asked'[cl] = TRUE /\ recv_req'[cl] = chunk_buf[cl]
      /\ \A d \in Client \ {cl} : KeyGenStill(d) /\ KmStill(d)
  BY <1>1 DEF Domains, KeyGenStill, KmStill
<1>3. Domains'
  BY <1>1, KeyGenRestDomains DEF Domains
<1>4. Len(keys[cl]) \in Nat /\ ASeq(keys[cl]) /\ ASeq(key_gen_mq[cl])
  BY Lens DEF Shape, KeyGenShape
<1>5. file'[cl] = file[cl] /\ client'[cl] = client[cl] /\ Running(cl)'
  BY <1>1, KeyGenRestStill DEF FixedStill, Running
<1>6. BatchInv(cl)'
  BY <1>1, <1>5, Parts, BatchFrame
<1>7. chunk_buf[cl] # <<>>
  BY <1>1, ClientUploadAssumption DEF BatchReady
<1>8. AskInv(cl)'
  <2>1. AskInv(cl)
    BY Parts
  <2> QED BY <1>1, <1>2, <1>5, <1>7, <2>1 DEF AskInv
<1>9. KeyGenMqInv(cl)' /\ SelEnd(cl)' = SelEnd(cl)
  BY <1>1, <1>5, Parts, PassedFrame, KeyGenMqFrame
<1>10. ASeq(keys'[cl]) /\ ASeq(key_gen_mq'[cl]) /\ Begins(keys[cl], keys'[cl])
  BY <1>1, <1>4, BeginsSame
<1>11. client[cl] # "run" => key_gen_mq'[cl] = <<>>
  BY <1>1, Parts DEF KeyRecipeInv
<1> QED BY <1>1, <1>2, <1>3, <1>6, <1>8, <1>9, <1>10, <1>11, KeyGenKeeps

(* FinishKm: nothing more is sent to the key manager.                      *)
LEMMA FinishKeeps ==
  ASSUME NEW cl \in Client, Domains, Shape(cl), PlacesInv(cl), Running(cl),
         ThreadShape(cl)', FinishKm(cl)
  PROVE  Keeps(cl)
<1>1. /\ next[cl] = Len(file[cl]) + 1 /\ next' = [next EXCEPT ![cl] = @ + 1]
      /\ UNCHANGED <<km, recv_req, chunk_buf, asked, key_gen_mq, keys>> /\ KeyGenRest
  BY DEF FinishKm, Finishing, kmVars
<1>2. /\ next'[cl] = next[cl] + 1
      /\ \A d \in Client \ {cl} : KeyGenStill(d) /\ KmStill(d)
  BY <1>1 DEF Domains, KeyGenStill, KmStill
<1>3. Domains'
  BY <1>1, KeyGenRestDomains DEF Domains
<1>4. Len(keys[cl]) \in Nat /\ Len(file[cl]) \in Nat /\ ASeq(keys[cl]) /\ ASeq(key_gen_mq[cl])
  BY Lens DEF Shape, KeyGenShape
<1>5. file'[cl] = file[cl] /\ client'[cl] = client[cl] /\ (Running(cl)' <=> Running(cl))
  BY <1>1, KeyGenRestStill DEF FixedStill, Running
<1>6. BatchInv(cl)'
  <2>1. BatchInv(cl)
    BY Parts
  <2>2. next[cl] > Len(file[cl]) /\ next'[cl] > Len(file[cl])
    BY <1>1, <1>2, <1>4
  <2>3. ~(next'[cl] <= Len(file[cl]))
    BY <1>4, <1>1, <1>2
  <2>4. Len(keys[cl]) = Len(file[cl]) /\ chunk_buf[cl] = <<>>
    BY <2>1, <2>2 DEF BatchInv
  <2>5. /\ Len(keys[cl]) <= Len(file[cl])
        /\ \A p \in 1 .. Len(keys[cl]) :
             \E seed \in Chunk : keys[cl][p] = KeyOf(file[cl][p], seed)
        /\ \A i \in 1 .. Len(chunk_buf[cl]) : chunk_buf[cl][i] = file[cl][Len(keys[cl]) + i]
    BY <2>1, <2>4 DEF BatchInv
  <2> QED BY <1>1, <1>5, <2>3, <2>4, <2>5 DEF BatchInv
<1>7. AskInv(cl)'
  <2>1. AskInv(cl)
    BY Parts
  <2> QED BY <1>1, <1>2, <1>4, <1>5, <2>1 DEF AskInv
<1>8. Passed(cl)' = Passed(cl)
  BY <1>1, <1>2, <1>4, <1>5 DEF Passed
<1>9. KeyGenMqInv(cl)' /\ SelEnd(cl)' = SelEnd(cl)
  BY <1>1, <1>5, <1>8, Parts, KeyGenMqFrame
<1>10. ASeq(keys'[cl]) /\ ASeq(key_gen_mq'[cl]) /\ Begins(keys[cl], keys'[cl])
  BY <1>1, <1>4, BeginsSame
<1>11. client[cl] # "run" => key_gen_mq'[cl] = <<>>
  BY <1>1, Parts DEF KeyRecipeInv
<1> QED BY <1>1, <1>2, <1>3, <1>6, <1>7, <1>9, <1>10, <1>11, KeyGenKeeps

(* PassRecipe: the recipe chunk comes right after the last chunk.          *)
LEMMA PassKeeps ==
  ASSUME NEW cl \in Client, Domains, Shape(cl), PlacesInv(cl), Running(cl),
         ThreadShape(cl)', PassRecipe(cl)
  PROVE  Keeps(cl)
<1> DEFINE q == key_gen_mq[cl]
           t == Append(q, RecipeChunk(cl))
<1>1. /\ ~asked[cl] /\ next[cl] = Len(file[cl]) /\ ~BatchReady(cl)
      /\ next' = [next EXCEPT ![cl] = @ + 1] /\ key_gen_mq' = [key_gen_mq EXCEPT ![cl] = t]
      /\ UNCHANGED <<km, recv_req, chunk_buf, asked, keys>> /\ KeyGenRest
  BY DEF PassRecipe, kmVars
<1>2. /\ next'[cl] = next[cl] + 1 /\ key_gen_mq'[cl] = t
      /\ \A d \in Client \ {cl} : KeyGenStill(d) /\ KmStill(d)
  BY <1>1 DEF Domains, KeyGenStill, KmStill
<1>3. Domains'
  BY <1>1, KeyGenRestDomains DEF Domains
<1>4. /\ Len(file[cl]) \in Nat /\ Len(keys[cl]) \in Nat /\ Len(q) \in Nat /\ ASeq(q)
      /\ ASeq(keys[cl])
  BY Lens DEF Shape, KeyGenShape
<1>5. /\ Len(t) = Len(q) + 1 /\ t[Len(q) + 1] = RecipeChunk(cl) /\ ASeq(t)
      /\ \A i \in 1 .. Len(q) : t[i] = q[i]
  BY <1>4, AppendFacts
<1> HIDE DEF t
<1>6. file'[cl] = file[cl] /\ client'[cl] = client[cl] /\ (Running(cl)' <=> Running(cl))
  BY <1>1, KeyGenRestStill DEF FixedStill, Running
<1>7. BatchInv(cl) /\ AskInv(cl) /\ KeyGenMqInv(cl)
  BY Parts
<1>8. chunk_buf[cl] = <<>> /\ Len(keys[cl]) = Len(file[cl])
  <2>1. chunk_buf[cl] = <<>>
    BY <1>1 DEF BatchReady
  <2> QED BY <1>1, <1>4, <1>7, <2>1 DEF BatchInv
<1>9. BatchInv(cl)'
  BY <1>1, <1>2, <1>4, <1>6, <1>7, <1>8 DEF BatchInv
<1>10. AskInv(cl)'
  BY <1>1, <1>2, <1>4, <1>6, <1>7 DEF AskInv
<1>11. Passed(cl) = Len(file[cl]) /\ Passed(cl)' = Len(file[cl]) + 1
  BY <1>1, <1>2, <1>4, <1>6, <1>8 DEF Passed
<1>12. SelEnd(cl)' = SelEnd(cl) /\ SelEnd(cl) = Len(file[cl]) - Len(q)
  BY <1>2, <1>4, <1>5, <1>11 DEF SelEnd
<1>13. KeyGenMqInv(cl)'
  <2>1. ASSUME NEW i \in 1 .. Len(t)
        PROVE  /\ t[i].place = SelEnd(cl) + i
               /\ t[i].place <= Len(file[cl]) =>
                    /\ t[i].type = "normal" /\ t[i].c = file[cl][t[i].place]
                    /\ t[i].key = keys[cl][t[i].place]
               /\ t[i].place > Len(file[cl]) => t[i].type = "recipe"
    <3>1. CASE i = Len(q) + 1
      <4>1. t[i].place = Len(file[cl]) + 1 /\ t[i].type = "recipe"
        BY <1>5, <3>1 DEF RecipeChunk
      <4>2. SelEnd(cl) + i = Len(file[cl]) + 1
        BY <1>4, <1>12, <3>1 DEF Domains
      <4> QED BY <1>4, <4>1, <4>2
    <3>2. CASE i \in 1 .. Len(q)
      BY <1>5, <1>7, <3>2 DEF KeyGenMqInv
    <3> QED BY <1>4, <1>5, <3>1, <3>2
  <2> QED BY <1>1, <1>2, <1>6, <1>12, <2>1 DEF KeyGenMqInv
<1>14. Begins(keys[cl], keys'[cl])
  BY <1>1, <1>4, BeginsSame
<1>15. client[cl] = "run"
  <2>1. next[cl] <= Len(file[cl])
    BY <1>1, <1>4
  <2> QED BY <2>1, StillSending
<1> QED BY <1>1, <1>2, <1>3, <1>4, <1>5, <1>9, <1>10, <1>12, <1>13, <1>14, <1>15, KeyGenKeeps

(* GetSeeds: the batch leaves, with its keys, for the queue and the        *)
(* history.                                                                *)
LEMMA GetKeeps ==
  ASSUME NEW cl \in Client, Domains, KmTypeOK, Shape(cl), PlacesInv(cl), Running(cl),
         ThreadShape(cl)', GetSeeds(cl)
  PROVE  Keeps(cl)
<1> DEFINE n == Len(chunk_buf[cl])
           k == keys[cl]
           done == Len(k)
           q == key_gen_mq[cl]
           batch == Encrypted(chunk_buf[cl], send_key[cl], done)
           new == [i \in 1 .. Len(batch) |-> batch[i].key]
           k2 == k \o new
           q2 == q \o batch
<1>1. /\ asked[cl] /\ Replies(cl)
      /\ recv_req' = [recv_req EXCEPT ![cl] = <<>>]
      /\ key_gen_mq' = [key_gen_mq EXCEPT ![cl] = q2]
      /\ keys' = [keys EXCEPT ![cl] = k2]
      /\ chunk_buf' = [chunk_buf EXCEPT ![cl] = <<>>]
      /\ asked' = [asked EXCEPT ![cl] = FALSE]
      /\ UNCHANGED <<km, next>> /\ KeyGenRest
  BY DEF GetSeeds, SendBatch
<1>2. /\ recv_req'[cl] = <<>> /\ key_gen_mq'[cl] = q2 /\ keys'[cl] = k2
      /\ chunk_buf'[cl] = <<>> /\ asked'[cl] = FALSE /\ next'[cl] = next[cl]
  BY <1>1 DEF Domains
<1>3. \A d \in Client \ {cl} : KeyGenStill(d) /\ KmStill(d)
  BY <1>1 DEF Domains, KeyGenStill, KmStill
<1>4. Domains'
  BY <1>1, KeyGenRestDomains DEF Domains
<1>5. file'[cl] = file[cl] /\ client'[cl] = client[cl] /\ (Running(cl)' <=> Running(cl))
  BY <1>1, KeyGenRestStill DEF FixedStill, Running
<1>6. BatchInv(cl) /\ AskInv(cl) /\ KeyGenMqInv(cl)
  BY Parts
<1>7. chunk_buf[cl] # <<>> /\ recv_req[cl] = chunk_buf[cl]
  BY <1>1, <1>6 DEF KmTypeOK, AskInv, Replies
<1>8. /\ Len(file[cl]) \in Nat /\ done \in Nat /\ n \in Nat /\ Len(q) \in Nat
      /\ ASeq(k) /\ ASeq(q) /\ next[cl] \in Nat
  BY Lens DEF Shape, ThreadShape, KeyGenShape
<1>9. \A i \in 1 .. n : send_key[cl][i] \in Chunk
  <2>1. send_key[cl] \in Seq(Chunk) /\ Len(send_key[cl]) = n
    BY <1>1, <1>7 DEF KmTypeOK, Replies, Pending
  <2> QED BY <2>1
<1>10. /\ ASeq(batch) /\ Len(batch) = n
       /\ \A i \in 1 .. n :
            /\ batch[i].type = "normal" /\ batch[i].c = chunk_buf[cl][i]
            /\ batch[i].key = KeyOf(chunk_buf[cl][i], send_key[cl][i])
            /\ batch[i].place = done + i
  BY <1>8, EncryptedFacts DEF Domains
<1> HIDE DEF batch
<1>11. /\ ASeq(new) /\ Len(new) = n
       /\ \A i \in 1 .. n : new[i] = batch[i].key
  BY <1>8, <1>10, KeysOfBatch DEF Domains
<1> HIDE DEF new
<1>12. IsConcat(k, new, k2) /\ IsConcat(q, batch, q2)
  BY <1>8, <1>10, <1>11, ConcatIs
<1>13. /\ ASeq(k2) /\ Len(k2) = done + n
       /\ \A i \in 1 .. done : k2[i] = k[i]
       /\ \A i \in 1 .. n : k2[done + i] = new[i]
       /\ ASeq(q2) /\ Len(q2) = Len(q) + n
       /\ \A i \in 1 .. Len(q) : q2[i] = q[i]
       /\ \A i \in 1 .. n : q2[Len(q) + i] = batch[i]
  BY <1>10, <1>11, <1>12 DEF IsConcat, Domains
<1> HIDE DEF k2, q2
<1>14. next[cl] <= Len(file[cl])
  <2>1. ~(next[cl] > Len(file[cl]))
    BY <1>6, <1>7 DEF BatchInv
  <2> QED BY <1>8, <2>1 DEF Domains
<1>15. /\ done + n = next[cl]
       /\ \A i \in 1 .. n : chunk_buf[cl][i] = file[cl][done + i]
  BY <1>6, <1>14 DEF BatchInv
<1>16. Begins(k, k2)
  BY <1>8, <1>13 DEF Begins, Domains
<1>17. Len(k2) = next[cl] /\ Len(k2) <= Len(file[cl])
  <2>1. Len(k2) = done + n /\ done + n = next[cl]
    BY <1>13, <1>15
  <2> HIDE DEF done, n
  <2> QED BY <1>14, <2>1
<1>18. BatchInv(cl)'
  <2>1. ASSUME NEW p \in 1 .. Len(k2)
        PROVE  \E seed \in Chunk : k2[p] = KeyOf(file[cl][p], seed)
    <3>1. CASE p \in 1 .. done
      BY <1>6, <1>13, <3>1 DEF BatchInv
    <3>2. CASE p \notin 1 .. done
      <4> DEFINE i == p - done
      <4>1. i \in 1 .. n /\ p = done + i
        BY <1>8, <1>13, <3>2 DEF Domains
      <4> HIDE DEF i
      <4>2. k2[p] = KeyOf(file[cl][p], send_key[cl][i])
        <5>1. k2[p] = new[i] /\ new[i] = batch[i].key
          BY <1>11, <1>13, <4>1, Zenon
        <5>2. chunk_buf[cl][i] = file[cl][p]
          BY <1>15, <4>1, Zenon
        <5>3. batch[i].key = KeyOf(chunk_buf[cl][i], send_key[cl][i])
          BY <1>10, <4>1, Zenon
        <5> QED BY <5>1, <5>2, <5>3, Zenon
      <4> QED BY <1>9, <4>1, <4>2
    <3> QED BY <3>1, <3>2
  <2>2. Len(k2) + Len(<<>>) = next[cl]
    BY <1>8, <1>17 DEF Domains
  <2> QED BY <1>2, <1>5, <1>8, <1>14, <1>17, <2>1, <2>2 DEF BatchInv, Domains
<1>19. AskInv(cl)'
  BY <1>1, <1>2, <1>5, <1>6, <1>7, ClientUploadAssumption DEF AskInv
<1>20. Passed(cl) = done /\ Passed(cl)' = Len(k2)
  BY <1>2, <1>5, <1>8, <1>14 DEF Passed, Domains
<1>21. SelEnd(cl)' = SelEnd(cl) /\ SelEnd(cl) = done - Len(q)
  BY <1>2, <1>8, <1>13, <1>20 DEF SelEnd, Domains
<1>22. KeyGenMqInv(cl)'
  <2>1. ASSUME NEW i \in 1 .. Len(q2)
        PROVE  /\ q2[i].place = SelEnd(cl) + i
               /\ q2[i].place <= Len(file[cl]) =>
                    /\ q2[i].type = "normal" /\ q2[i].c = file[cl][q2[i].place]
                    /\ q2[i].key = k2[q2[i].place]
               /\ q2[i].place > Len(file[cl]) => q2[i].type = "recipe"
    <3>1. CASE i \in 1 .. Len(q)
      <4>1. q2[i] = q[i] /\ q[i].place = SelEnd(cl) + i
        BY <1>6, <1>13, <3>1 DEF KeyGenMqInv
      <4>2. SelEnd(cl) + i <= done
        BY <1>8, <1>21, <3>1 DEF Domains
      <4>3. SelEnd(cl) + i \in 1 .. done
        BY <1>8, <3>1, <4>2, SelEndNat DEF Domains
      <4>4. k2[q[i].place] = k[q[i].place]
        BY <1>13, <4>1, <4>3
      <4> QED BY <1>6, <3>1, <4>1, <4>4 DEF KeyGenMqInv
    <3>2. CASE i \notin 1 .. Len(q)
      <4> DEFINE j == i - Len(q)
      <4>1. j \in 1 .. n /\ i = Len(q) + j /\ i \in Len(q) + 1 .. Len(q) + n
        BY <1>8, <1>13, <3>2 DEF Domains
      <4>2. q2[i] = batch[j]
        BY <1>13, <4>1
      <4> HIDE DEF j
      <4>3. /\ q2[i].type = "normal" /\ q2[i].place = done + j /\ q2[i].c = chunk_buf[cl][j]
            /\ q2[i].key = new[j]
        BY <1>10, <1>11, <4>1, <4>2 DEF EncChunk, Domains
      <4>4. done + j = SelEnd(cl) + i /\ done + j <= Len(file[cl])
        BY <1>8, <1>13, <1>17, <1>21, <4>1 DEF Domains
      <4>5. ~(done + j > Len(file[cl]))
        BY <1>8, <4>1, <4>4
      <4> QED BY <1>13, <1>15, <4>1, <4>3, <4>4, <4>5
    <3> QED BY <3>1, <3>2
  <2> QED BY <1>2, <1>5, <1>21, <2>1 DEF KeyGenMqInv
<1>23. client[cl] = "run"
  BY <1>14, StillSending
<1> QED BY <1>1, <1>2, <1>3, <1>4, <1>13, <1>16, <1>18, <1>19, <1>21, <1>22, <1>23, KeyGenKeeps

(* The key manager's threads leave the clients alone.                      *)
LEMMA KmKeeps ==
  ASSUME NEW cl \in Client, Domains, KmThreads(cl)
  PROVE  Domains' /\ \A d \in Client : Still(d)
<1>1. UNCHANGED <<clientVars>>
  BY DEF KmThreads, DropSeeds, SendSeedsFails
<1>2. ASSUME NEW d
      PROVE  /\ FixedStill(d) /\ KeyGenStill(d) /\ SenderStill(d) /\ wire'[d] = wire[d]
             /\ RecvStill(d)
  BY <1>1 DEF clientVars, fixedVars, keyGenVars, senderVars, recvVars, FixedStill,
              KeyGenStill, SenderStill, RecvStill
<1>3. DOMAIN recv_req' = Client /\ \A d \in Client : KmStill(d)
  <2>1. CASE KmThread(cl)
    BY <2>1 DEF KmThread, QueryFeature, SimilarSeed, InsertFeature, Domains, KmStill
  <2>2. CASE SendBatch(cl) /\ client[cl] = "gone"
    <3>1. km' = km /\ recv_req' = [recv_req EXCEPT ![cl] = <<>>] /\ ~Running(cl)
      BY <2>2 DEF SendBatch, Running
    <3> QED BY <3>1 DEF Domains, KmStill
  <2>3. CASE KmExit
    BY <2>3 DEF KmExit, Domains, KmStill
  <2> QED BY <2>1, <2>2, <2>3 DEF KmThreads, DropSeeds, SendSeedsFails
<1>4. Domains'
  BY <1>1, <1>3 DEF clientVars, fixedVars, keyGenVars, senderVars, recvVars, Domains
<1> QED BY <1>2, <1>3, <1>4 DEF Still

-----------------------------------------------------------------------------
(* A program that exits or dies, and one that ends.                        *)

(* Gone: whatever is lost of the wire and the key recipe, what is left is  *)
(* from the beginning, and a message that is being read stays.             *)
LEMMA GoneKeeps ==
  ASSUME NEW cl \in Client, Domains, Shape(cl), PlacesInv(cl), Running(cl),
         ThreadShape(cl)', Gone(cl), UNCHANGED kmVars
  PROVE  Keeps(cl)
<1>1. PICK w \in Prefixes(wire[cl], Opened(cl)), k \in Prefixes(key_recipe[cl], 0) :
        wire' = [wire EXCEPT ![cl] = w] /\ key_recipe' = [key_recipe EXCEPT ![cl] = k]
  BY DEF Gone
<1>2. /\ client' = [client EXCEPT ![cl] = "gone"]
      /\ next' = [next EXCEPT ![cl] = 0]
      /\ chunk_buf' = [chunk_buf EXCEPT ![cl] = <<>>]
      /\ asked' = [asked EXCEPT ![cl] = FALSE]
      /\ key_gen_mq' = [key_gen_mq EXCEPT ![cl] = <<>>]
      /\ cached' = [cached EXCEPT ![cl] = {}]
      /\ select_comp_mq' = [select_comp_mq EXCEPT ![cl] = <<>>]
      /\ send_buf' = [send_buf EXCEPT ![cl] = EmptyMsg]
      /\ key_buf' = [key_buf EXCEPT ![cl] = <<>>]
      /\ UNCHANGED <<km, recv_req, file, method, cur_chunk_num, recipe_batch, recipe, keys>>
  BY DEF Gone, fixedVars, recvVars, kmVars
<1>3. /\ client'[cl] = "gone" /\ next'[cl] = 0 /\ chunk_buf'[cl] = <<>> /\ asked'[cl] = FALSE
      /\ key_gen_mq'[cl] = <<>> /\ select_comp_mq'[cl] = <<>> /\ key_buf'[cl] = <<>>
      /\ send_buf'[cl] = EmptyMsg
  BY <1>2 DEF Domains
<1>4. wire'[cl] = w /\ key_recipe'[cl] = k
  BY <1>1 DEF Domains
<1>5. /\ file'[cl] = file[cl] /\ method'[cl] = method[cl] /\ keys'[cl] = keys[cl]
      /\ cur_chunk_num'[cl] = cur_chunk_num[cl] /\ recipe_batch'[cl] = recipe_batch[cl]
      /\ recipe'[cl] = recipe[cl] /\ km' = km /\ recv_req'[cl] = recv_req[cl]
  BY <1>2
<1>6. \A d \in Client \ {cl} : Still(d)
  <2> SUFFICES ASSUME NEW d \in Client \ {cl}
               PROVE  Still(d)
    OBVIOUS
  <2>1. FixedStill(d) /\ KeyGenStill(d) /\ RecvStill(d) /\ KmStill(d)
    BY <1>2 DEF Domains, FixedStill, KeyGenStill, RecvStill, KmStill
  <2>2. SenderStill(d) /\ wire'[d] = wire[d]
    BY <1>1, <1>2 DEF Domains, SenderStill
  <2> QED BY <2>1, <2>2 DEF Still
<1>7. Domains'
  BY <1>1, <1>2 DEF Domains
<1>8. Opened(cl) \in Nat /\ (cur_chunk_num[cl] # 0 => Opened(cl) = 1)
  BY DEF Opened
<1>9. /\ ASeq(w) /\ Len(w) \in Opened(cl) .. Len(wire[cl])
      /\ \A i \in 1 .. Len(w) : w[i] = wire[cl][i]
      /\ ASeq(k) /\ Len(k) \in 0 .. Len(key_recipe[cl])
      /\ \A i \in 1 .. Len(k) : k[i] = key_recipe[cl][i]
  <2>1. ASeq(wire[cl]) /\ ASeq(key_recipe[cl])
    BY DEF Shape, WireShape, SenderShape
  <2> QED BY <1>8, <2>1, PrefixFacts
<1>10. Len(wire[cl]) \in Nat /\ Len(key_recipe[cl]) \in Nat
  BY Lens
<1>11. EmptyMsg.items = <<>> /\ EmptyMsg.cur_item_num = 0
  BY DEF EmptyMsg
<1>12. Shape(cl)'
  <2>1. KeyGenShape(cl)'
    BY <1>3, <1>5, EmptyASeq DEF Shape, KeyGenShape
  <2>2. SenderShape(cl)'
    BY <1>3, <1>4, <1>9, <1>11, EmptyASeq DEF SenderShape
  <2>3. \A m \in 1 .. Len(w) : Message(w[m])
    BY <1>8, <1>9, <1>10 DEF Shape, WireShape
  <2>4. WireShape(cl)'
    BY <1>4, <1>9, <2>3 DEF WireShape, Message
  <2>5. RecvShape(cl)'
    BY <1>5 DEF Shape, RecvShape
  <2> QED BY <2>1, <2>2, <2>4, <2>5 DEF Shape
<1>13. ~Running(cl)'
  BY <1>3 DEF Running
<1>14. BatchInv(cl)'
  <2>1. /\ Len(keys[cl]) <= Len(file[cl])
        /\ \A p \in 1 .. Len(keys[cl]) :
             \E seed \in Chunk : keys[cl][p] = KeyOf(file[cl][p], seed)
    BY Parts DEF BatchInv
  <2> QED BY <1>5, <1>13, <2>1 DEF BatchInv
<1>15. AskInv(cl)'
  <2>1. km = "down" => recv_req[cl] = <<>>
    BY Parts DEF AskInv
  <2>2. Len(file[cl]) \in Nat
    BY Lens
  <2> QED BY <1>3, <1>5, <2>1, <2>2, ClientUploadAssumption DEF AskInv, Domains
<1>16. KeyGenMqInv(cl)'
  BY <1>3 DEF KeyGenMqInv
<1>17. SelectInv(cl)'
  <2>1. ~Open(cl)'
    BY <1>3, <1>11 DEF Open
  <2> QED BY <1>3, <1>13, <2>1, SelectsNothing DEF SelectInv
<1>18. WireInv(cl)'
  <2>1. WireInv(cl) /\ Received(cl)' = Received(cl)
    BY <1>5, Parts DEF Received
  <2>2. ASSUME NEW m \in 1 .. Len(w)
        PROVE  m \in 1 .. Len(wire[cl]) /\ wire'[cl][m] = wire[cl][m]
    BY <1>4, <1>8, <1>9, <1>10
  <2>3. ASSUME NEW m \in 1 .. Len(w)
        PROVE  End(cl, m - 1)' = End(cl, m - 1)
    <3>1. CASE m = 1
      BY <2>1, <3>1 DEF End
    <3>2. CASE m # 1
      <4>1. m - 1 \in 1 .. Len(w) /\ m - 1 # 0
        BY <3>2
      <4> QED BY <2>2, <4>1 DEF End
    <3> QED BY <3>1, <3>2
  <2>4. ASSUME NEW m \in 1 .. Len(w), ChunksInv(cl, m)
        PROVE  ChunksInv(cl, m)'
    BY <1>5, <2>2, <2>3, <2>4 DEF ChunksInv
  <2>5. ASSUME NEW m \in 1 .. Len(w), RecipeEndInv(cl, m)
        PROVE  RecipeEndInv(cl, m)'
    <3>1. m = Len(w)
      BY <1>8, <1>9, <1>10, <2>5 DEF RecipeEndInv
    <3> QED BY <1>3, <1>4, <1>5, <2>2, <2>3, <2>5, <3>1 DEF RecipeEndInv
  <2>6. cur_chunk_num[cl] # 0 => w # <<>> /\ w[1].type = "chunks"
    <3> SUFFICES ASSUME cur_chunk_num[cl] # 0
                 PROVE  w # <<>> /\ w[1].type = "chunks"
      OBVIOUS
    <3>1. Len(w) >= 1 /\ 1 \in 1 .. Len(w)
      BY <1>8, <1>9, <1>10
    <3>2. w # <<>>
      BY <1>9, <3>1, SeqFacts
    <3> QED BY <1>9, <2>1, <3>1, <3>2 DEF WireInv
  <2>7. \A m \in 1 .. Len(w) :
          \/ w[m].type = "chunks" /\ ChunksInv(cl, m)'
          \/ w[m].type = "recipe_end" /\ RecipeEndInv(cl, m)'
    BY <2>1, <2>2, <2>4, <2>5, <1>9 DEF WireInv
  <2> QED BY <1>4, <1>5, <2>6, <2>7 DEF WireInv
<1>19. SendBufInv(cl)'
  <2>1. ~Open(cl)'
    BY <1>3, <1>11 DEF Open
  <2> QED BY <1>3, <1>11, <2>1, SendsNothing, ClientUploadAssumption DEF SendBufInv
<1>20. KeyRecipeInv(cl)'
  <2>1. Keys(cl)' = k
    BY <1>3, <1>4, <1>9, ConcatEmpty DEF Keys
  <2>2. Keys(cl) = key_recipe[cl] \o key_buf[cl] /\ IsConcat(key_recipe[cl], key_buf[cl], Keys(cl))
    BY ConcatIs DEF Shape, SenderShape, Keys
  <2>3. Len(Keys(cl)) = Len(key_recipe[cl]) + Len(key_buf[cl]) /\ Len(key_buf[cl]) \in Nat
    BY KeysFacts, Lens
  <2>4. \A i \in 1 .. Len(k) : i \in 1 .. Len(Keys(cl)) /\ k[i] = Keys(cl)[i]
    BY <1>9, <1>10, <2>2, <2>3 DEF IsConcat, Domains
  <2>5. KeyRecipeInv(cl) /\ Len(keys[cl]) \in Nat
    BY Parts, Lens
  <2>6. Len(k) <= Len(keys[cl])
    BY <1>9, <1>10, <2>3, <2>5 DEF KeyRecipeInv, Domains
  <2> QED BY <1>3, <1>5, <2>1, <2>4, <2>5, <2>6, ClientUploadAssumption DEF KeyRecipeInv
<1>21. RecipeInv(cl)'
  <2>1. Received(cl)' = Received(cl) /\ RecipeInv(cl)
    BY <1>5, Parts DEF Received
  <2>2. wire[cl] = <<>> => w = <<>>
    BY <1>8, <1>9, <1>10, SeqFacts DEF Domains
  <2> QED BY <1>3, <1>4, <1>5, <2>1, <2>2 DEF RecipeInv
<1> QED BY <1>6, <1>7, <1>12, <1>14, <1>15, <1>16, <1>17, <1>18, <1>19, <1>20, <1>21
        DEF Keeps, PlacesInv

(* CloseKeyRecipe: the key recipe has a key for each chunk.                *)
LEMMA CloseKeeps ==
  ASSUME NEW cl \in Client, Domains, Shape(cl), PlacesInv(cl), Running(cl),
         ThreadShape(cl)', CloseKeyRecipe(cl)
  PROVE  Keeps(cl)
<1>1. /\ client[cl] = "sent" /\ next[cl] = Len(file[cl]) + 2
      /\ client' = [client EXCEPT ![cl] = "closed"]
      /\ UNCHANGED <<km, recv_req, file, method, next, chunk_buf, asked, key_gen_mq, cached,
                     select_comp_mq, send_buf, key_buf, key_recipe, wire, cur_chunk_num,
                     recipe_batch, recipe, keys>>
  BY DEF CloseKeyRecipe, SenderRest, kmVars, fixedVars, keyGenVars, senderVars, recvVars
<1>2. client'[cl] = "closed" /\ ~Running(cl)'
  BY <1>1 DEF Domains, Running
<1>3. Domains' /\ \A d \in Client \ {cl} : FixedStill(d)
  BY <1>1 DEF Domains, FixedStill
<1>4. \A d : KeyGenStill(d) /\ SenderStill(d) /\ wire'[d] = wire[d] /\ RecvStill(d) /\ KmStill(d)
  BY <1>1 DEF KeyGenStill, SenderStill, RecvStill, KmStill
<1>5. Shape(cl)'
  <2>1. KeyGenShape(cl)'
    BY <1>1 DEF Shape, KeyGenShape
  <2> QED BY <1>4, <2>1, RestShape DEF Shape
<1>6. Begins(keys[cl], keys'[cl]) /\ file'[cl] = file[cl] /\ method'[cl] = method[cl]
  BY <1>1, Lens, BeginsSame
<1>7. BatchInv(cl)'
  BY <1>1, <1>2, Parts, BatchFrame
<1>8. AskInv(cl)'
  <2>1. Len(file[cl]) \in Nat /\ BatchInv(cl) /\ AskInv(cl)
    BY Lens, Parts
  <2>2. chunk_buf[cl] = <<>>
    BY <1>1, <2>1 DEF BatchInv, Domains
  <2> QED BY <1>1, <2>1, <2>2 DEF AskInv
<1>9. KeyGenMqInv(cl)' /\ SelEnd(cl)' = SelEnd(cl)
  BY <1>1, Parts, PassedFrame, KeyGenMqFrame
<1>10. KeyRecipeInv(cl)' /\ Keys(cl)' = Keys(cl)
  <2>1. key_gen_mq[cl] = <<>> /\ select_comp_mq[cl] = <<>>
    BY <1>1, Parts DEF KeyRecipeInv
  <2> QED BY <1>1, <1>5, <1>6, <2>1, Parts, KeyRecipeFrame
<1>11. RecipeInv(cl)' /\ Received(cl)' = Received(cl)
  BY <1>1, <1>2, <1>5, <1>6, Parts, RecipeFrame
<1>12. WireInv(cl)' /\ End(cl, Len(wire[cl]))' = End(cl, Len(wire[cl]))
  BY <1>1, <1>2, <1>5, <1>6, <1>11, Parts, WireFrame
<1>13. SendBufInv(cl)' /\ (Open(cl)' <=> Open(cl))
  BY <1>1, <1>2, <1>5, <1>6, <1>10, <1>12, Parts, SendBufFrame
<1>14. Sent(cl)' = Sent(cl)
  BY <1>1, <1>2, <1>10 DEF Sent
<1>15. SelectInv(cl)'
  BY <1>1, <1>2, <1>5, <1>6, <1>9, <1>13, <1>14, Parts, SelectFrame
<1> QED BY <1>3, <1>4, <1>5, <1>7, <1>8, <1>9, <1>10, <1>11, <1>12, <1>13, <1>15
        DEF Keeps, PlacesInv, Still

-----------------------------------------------------------------------------
(* SelectCompThd.                                                          *)

(* SelectComp: the next chunk goes from key_gen_mq to select_comp_mq.      *)
LEMMA SelectKeeps ==
  ASSUME NEW cl \in Client, Domains, Shape(cl), PlacesInv(cl), Running(cl),
         ThreadShape(cl)', SelectComp(cl)
  PROVE  Keeps(cl)
<1> DEFINE q == key_gen_mq[cl]
           e == Head(q)
           s == select_comp_mq[cl]
           f == file[cl]
           m == method[cl]
           k == keys[cl]
           full == e.type = "normal" /\ m = "full_edr"
           sim == full /\ CipherFeatures(e.c, e.key) \cap cached[cl] # {}
           sel == Selected(m, sim, e)
           s2 == s \o sel
<1>1. /\ q # <<>>
      /\ key_gen_mq' = [key_gen_mq EXCEPT ![cl] = Tail(@)]
      /\ select_comp_mq' = [select_comp_mq EXCEPT ![cl] = s2]
      /\ UNCHANGED <<km, recv_req, file, method, client, next, chunk_buf, asked, send_buf,
                     key_buf, key_recipe, wire, cur_chunk_num, recipe_batch, recipe, keys>>
  BY DEF SelectComp, kmVars, fixedVars, keyGenVars, senderVars, recvVars
<1>2. DOMAIN cached' = Client
  BY DEF SelectComp, Domains
<1>3. key_gen_mq'[cl] = Tail(q) /\ select_comp_mq'[cl] = s2
  BY <1>1 DEF Domains
<1>4. \A d \in Client \ {cl} : Still(d)
  BY <1>1 DEF Domains, Still, FixedStill, KeyGenStill, SenderStill, RecvStill, KmStill
<1>5. Domains'
  BY <1>1, <1>2 DEF Domains
<1>6. BatchInv(cl) /\ KeyGenMqInv(cl) /\ SelectInv(cl) /\ KeyRecipeInv(cl)
  BY Parts
<1>7. client[cl] = "run"
  BY <1>1, <1>6 DEF KeyRecipeInv
<1>8. /\ ASeq(q) /\ ASeq(s) /\ m \in Method /\ Len(q) \in Nat /\ Len(f) \in Nat /\ Len(k) \in Nat
      /\ next[cl] \in Nat
  BY Lens DEF Shape, ThreadShape, KeyGenShape, SenderShape
<1>9. /\ ASeq(Tail(q)) /\ Len(q) > 0 /\ Len(Tail(q)) = Len(q) - 1 /\ e = q[1]
      /\ \A i \in 1 .. Len(q) - 1 : Tail(q)[i] = q[i + 1]
  BY <1>1, <1>8, TailFacts DEF Domains
<1>10. SelEnd(cl) = Passed(cl) - Len(q) /\ Passed(cl)' = Passed(cl)
  BY <1>1, PassedFrame DEF SelEnd
<1>11. Passed(cl) \in Nat /\ Passed(cl) <= Len(f) + 1 /\ (Passed(cl) <= Len(f) => Passed(cl) = Len(k))
       /\ (Passed(cl) > Len(f) => Len(k) = Len(f) /\ Passed(cl) = Len(f) + 1)
  BY <1>6, <1>8 DEF Passed, BatchInv, Domains
<1>12. SelEnd(cl) \in Nat
  BY SelEndNat
<1>13. SelEnd(cl)' = SelEnd(cl) + 1
  <2>1. SelEnd(cl)' = Passed(cl) - (Len(q) - 1)
    BY <1>3, <1>9, <1>10 DEF SelEnd
  <2> QED BY <1>8, <1>10, <1>11, <2>1 DEF Domains
<1>14. /\ e.place = SelEnd(cl) + 1
       /\ e.place <= Len(f) => e.type = "normal" /\ e.c = f[e.place] /\ e.key = k[e.place]
       /\ e.place > Len(f) => e.type = "recipe"
  <2>1. 1 \in 1 .. Len(q)
    BY <1>8, <1>9 DEF Domains
  <2>2. /\ q[1].place = SelEnd(cl) + 1
        /\ q[1].place <= Len(f) => q[1].type = "normal" /\ q[1].c = f[q[1].place] /\ q[1].key = k[q[1].place]
        /\ q[1].place > Len(f) => q[1].type = "recipe"
    BY <1>6, <2>1 DEF KeyGenMqInv
  <2> QED BY <1>9, <2>2
<1>15. e.place \in 1 .. Len(f) + 1 /\ (e.place <= Len(f) => e.place <= Len(k))
  <2>1. SelEnd(cl) + 1 <= Passed(cl)
    BY <1>8, <1>9, <1>10, <1>11 DEF Domains
  <2> QED BY <1>8, <1>11, <1>12, <1>14, <2>1 DEF Domains
<1>16. /\ ASeq(sel) /\ sel # <<>> /\ Selects(f, m, k, sel)
       /\ sel[1].place = e.place /\ LastOf(sel).place = e.place
       /\ m = "full_edr" => sel[1].type # "compressed"
  <2>1. sim \in BOOLEAN
    OBVIOUS
  <2> HIDE DEF sim, e
  <2>2. /\ Len(f) \in Nat /\ e.place \in 1 .. Len(f) + 1 /\ m \in Method
        /\ e.place <= Len(f) => /\ e.type = "normal" /\ e.c = f[e.place]
                                /\ e.key = k[e.place] /\ e.place <= Len(k)
        /\ e.place > Len(f) => e.type = "recipe"
    BY <1>8, <1>14, <1>15
  <2> HIDE DEF f, m, k
  <2> QED BY <2>1, <2>2, SelectedFacts
<1> HIDE DEF sel
<1>17. /\ Selects(f, m, k, s) /\ (s # <<>> => LastOf(s).place = SelEnd(cl) /\ s[1].place = Sent(cl) + 1)
       /\ (s = <<>> => Sent(cl) = SelEnd(cl))
  BY <1>6 DEF SelectInv
<1>18. s # <<>> => sel[1].place = LastOf(s).place + 1
  BY <1>14, <1>16, <1>17
<1>19. /\ ASeq(s2) /\ s2 # <<>> /\ Selects(f, m, k, s2) /\ LastOf(s2) = LastOf(sel)
       /\ s # <<>> => s2[1] = s[1]
       /\ s = <<>> => s2[1] = sel[1]
  <2> HIDE DEF f, m, k, s
  <2> QED BY <1>8, <1>16, <1>17, <1>18, SelectsConcat
<1> HIDE DEF s2
<1>20. Shape(cl)'
  <2>1. KeyGenShape(cl)'
    BY <1>1, <1>3, <1>9 DEF Shape, KeyGenShape
  <2>2. SenderShape(cl)'
    BY <1>1, <1>3, <1>19 DEF Shape, SenderShape
  <2>3. WireShape(cl)' /\ RecvShape(cl)'
    BY <1>1 DEF Shape, WireShape, RecvShape, Message
  <2> QED BY <2>1, <2>2, <2>3 DEF Shape
<1>21. Begins(keys[cl], keys'[cl]) /\ (Running(cl)' <=> Running(cl)) /\ client'[cl] = "run"
  BY <1>1, <1>7, <1>8, BeginsSame DEF Running
<1>22. BatchInv(cl)' /\ AskInv(cl)'
  <2>1. AskInv(cl)'
    <3>1. AskInv(cl)
      BY Parts
    <3> QED BY <1>1, <1>21, <3>1 DEF AskInv
  <2> QED BY <1>1, <1>6, <1>21, <2>1, BatchFrame
<1>23. KeyGenMqInv(cl)'
  <2> DEFINE t == Tail(q)
  <2>1. ASSUME NEW i \in 1 .. Len(t)
        PROVE  /\ t[i].place = (SelEnd(cl) + 1) + i
               /\ t[i].place <= Len(f) =>
                    /\ t[i].type = "normal" /\ t[i].c = f[t[i].place]
                    /\ t[i].key = k[t[i].place]
               /\ t[i].place > Len(f) => t[i].type = "recipe"
    <3>1. i + 1 \in 1 .. Len(q) /\ t[i] = q[i + 1]
      BY <1>8, <1>9 DEF Domains
    <3>2. /\ q[i + 1].place = SelEnd(cl) + (i + 1)
          /\ q[i + 1].place <= Len(f) =>
               /\ q[i + 1].type = "normal" /\ q[i + 1].c = f[q[i + 1].place]
               /\ q[i + 1].key = k[q[i + 1].place]
          /\ q[i + 1].place > Len(f) => q[i + 1].type = "recipe"
      BY <1>6, <3>1 DEF KeyGenMqInv
    <3>3. SelEnd(cl) + (i + 1) = (SelEnd(cl) + 1) + i
      BY <1>12
    <3> QED BY <3>1, <3>2, <3>3, Zenon
  <2> HIDE DEF t
  <2>2. key_gen_mq'[cl] = t
    BY <1>3 DEF t
  <2>3. file'[cl] = f /\ keys'[cl] = k
    BY <1>1
  <2> HIDE DEF f, k
  <2> QED BY <1>13, <2>1, <2>2, <2>3 DEF KeyGenMqInv
<1>24. KeyRecipeInv(cl)' /\ Keys(cl)' = Keys(cl)
  BY <1>1, <1>6, <1>20, <1>21, <1>7, KeyRecipeFrame
<1>25. RecipeInv(cl)' /\ Received(cl)' = Received(cl)
  BY <1>1, <1>20, <1>21, <1>7, Parts, RecipeFrame
<1>26. WireInv(cl)' /\ End(cl, Len(wire[cl]))' = End(cl, Len(wire[cl]))
  BY <1>1, <1>20, <1>21, <1>25, <1>7, Parts, WireFrame
<1>27. SendBufInv(cl)' /\ (Open(cl)' <=> Open(cl))
  BY <1>1, <1>20, <1>21, <1>24, <1>26, Parts, SendBufFrame
<1>28. Sent(cl)' = Sent(cl)
  BY <1>1, <1>24 DEF Sent
<1>29. SelectInv(cl)'
  <2>1. Selects(file[cl], method[cl], keys[cl], select_comp_mq[cl])'
    BY <1>1, <1>3, <1>19
  <2>2. method[cl] = "full_edr" /\ s2[1].type = "compressed" => Open(cl)
    BY <1>6, <1>16, <1>19 DEF SelectInv
  <2>3. Open(cl) => s2[1].type = "compressed"
    BY <1>6, <1>19 DEF SelectInv
  <2>4. s2[1].place = Sent(cl) + 1 /\ LastOf(s2).place = SelEnd(cl) + 1
    BY <1>14, <1>16, <1>17, <1>19
  <2> QED BY <1>1, <1>3, <1>13, <1>19, <1>27, <1>28, <2>1, <2>2, <2>3, <2>4 DEF SelectInv
<1> QED BY <1>4, <1>5, <1>20, <1>22, <1>23, <1>24, <1>25, <1>26, <1>27, <1>29
        DEF Keeps, PlacesInv

-----------------------------------------------------------------------------
(* SenderThd.                                                              *)

(* StoreKeyRecipe appends to the keys, in the file or in the buffer.       *)
LEMMA StoreKeyFacts ==
  ASSUME NEW cl \in Client, Domains, Shape(cl), Len(key_buf[cl]) < RecipeBatch,
         NEW key, StoreKeyRecipe(cl, key)
  PROVE  /\ DOMAIN key_buf' = Client /\ DOMAIN key_recipe' = Client
         /\ \A d \in Client \ {cl} : key_buf'[d] = key_buf[d] /\ key_recipe'[d] = key_recipe[d]
         /\ ASeq(key_buf'[cl]) /\ ASeq(key_recipe'[cl]) /\ Len(key_buf'[cl]) < RecipeBatch
         /\ IsAppend(Keys(cl), key, Keys(cl)')
<1> DEFINE a == key_recipe[cl]
           b == key_buf[cl]
           t == Append(b, key)
           full == Len(t) = RecipeBatch
<1>1. /\ key_buf' = [key_buf EXCEPT ![cl] = IF full THEN <<>> ELSE t]
      /\ key_recipe' = [key_recipe EXCEPT ![cl] = IF full THEN @ \o t ELSE @]
  BY DEF StoreKeyRecipe
<1>2. ASeq(a) /\ ASeq(b) /\ Len(b) \in Nat /\ Len(b) < RecipeBatch
  BY Lens DEF Shape, SenderShape
<1>3. ASeq(t) /\ Len(t) = Len(b) + 1
  BY <1>2, AppendFacts DEF Domains
<1>4. ASeq(a \o t) /\ IsAppend(a \o b, key, a \o t)
  BY <1>2, <1>3, AppendToConcat, ConcatFacts
<1>5. Keys(cl) = a \o b
  BY DEF Keys
<1> HIDE DEF t
<1>6. /\ DOMAIN key_buf' = Client /\ DOMAIN key_recipe' = Client
      /\ \A d \in Client \ {cl} : key_buf'[d] = key_buf[d] /\ key_recipe'[d] = key_recipe[d]
  BY <1>1 DEF Domains
<1>7. CASE full
  <2>1. key_buf'[cl] = <<>> /\ key_recipe'[cl] = a \o t
    BY <1>1, <1>7 DEF Domains
  <2>2. Keys(cl)' = (a \o t) \o <<>>
    BY <2>1 DEF Keys
  <2>3. Keys(cl)' = a \o t
    BY <1>4, <2>2, ConcatEmpty
  <2> QED BY <1>4, <1>5, <1>6, <2>1, <2>3, EmptyASeq, ClientUploadAssumption
<1>8. CASE ~full
  <2>1. key_buf'[cl] = t /\ key_recipe'[cl] = a
    BY <1>1, <1>8 DEF Domains
  <2>2. Keys(cl)' = a \o t
    BY <2>1 DEF Keys
  <2>3. Len(t) < RecipeBatch
    <3>1. RecipeBatch \in Nat
      BY ClientUploadAssumption
    <3> QED BY <1>2, <1>3, <1>8, <3>1 DEF Domains
  <2> QED BY <1>2, <1>3, <1>4, <1>5, <1>6, <2>1, <2>2, <2>3
<1> QED BY <1>7, <1>8

(* What SenderThd does leaves KeyGenThd and the server alone.              *)
LEMMA SenderKeeps ==
  ASSUME NEW cl \in Client, Domains, Shape(cl), PlacesInv(cl), Running(cl), Running(cl)',
         SenderRest, Domains', ThreadShape(cl)', SenderShape(cl)', WireShape(cl)', SelectInv(cl)',
         WireInv(cl)', SendBufInv(cl)', KeyRecipeInv(cl)',
         client'[cl] # "run" \/ client'[cl] = client[cl],
         recipe[cl].head # NoHead => wire'[cl] = <<>>,
         \A d \in Client \ {cl} :
           SenderStill(d) /\ wire'[d] = wire[d] /\ client'[d] = client[d]
  PROVE  Keeps(cl)
<1>1. /\ \A d : file'[d] = file[d] /\ method'[d] = method[d] /\ KeyGenStill(d)
                 /\ RecvStill(d) /\ KmStill(d)
      /\ recv_req' = recv_req /\ km' = km
  BY DEF SenderRest, kmVars, fixedVars, keyGenVars, recvVars, KeyGenStill, RecvStill, KmStill
<1>2. Shape(cl)'
  BY <1>1 DEF Shape, KeyGenShape, RecvShape, KeyGenStill, RecvStill
<1>3. Begins(keys[cl], keys'[cl])
  BY <1>1, Lens, BeginsSame DEF KeyGenStill
<1>4. BatchInv(cl)'
  BY <1>1, Parts, BatchFrame DEF KeyGenStill
<1>5. AskInv(cl)'
  BY <1>1, Parts DEF AskInv, KeyGenStill
<1>6. KeyGenMqInv(cl)'
  BY <1>1, Parts, PassedFrame, KeyGenMqFrame DEF KeyGenStill
<1>7. RecipeInv(cl)'
  <2>1. RecipeInv(cl) /\ Received(cl)' = Received(cl)
    BY <1>1, Parts DEF Received, RecvStill
  <2>2. recipe[cl].head # NoHead => client'[cl] # "run"
    BY <2>1 DEF RecipeInv
  <2> QED BY <1>1, <2>1, <2>2 DEF RecipeInv, KeyGenStill, RecvStill
<1>8. \A d \in Client \ {cl} : Still(d)
  BY <1>1 DEF Still, FixedStill
<1> QED BY <1>2, <1>4, <1>5, <1>6, <1>7, <1>8 DEF Keeps, PlacesInv

(* The message SenderThd fills, with the next item of the queue.           *)
LEMMA FilledFacts ==
  ASSUME NEW cl \in Client, Domains, Shape(cl), PlacesInv(cl), Running(cl), SendChunk(cl)
  PROVE  LET q == select_comp_mq[cl]
             items == send_buf[cl].items
             s2 == Append(items, OnWire(q[1]))
             p == q[1].place
         IN
         /\ client[cl] = "run" /\ q # <<>>
         /\ p = Len(Keys(cl)) + 1 /\ p \in 1 .. Len(keys[cl]) /\ q[1].key = keys[cl][p]
         /\ Sends(file[cl], method[cl], keys[cl], s2)
         /\ ASeq(s2) /\ Len(s2) = Len(items) + 1 /\ s2 # <<>>
         /\ LastOf(s2).place = p /\ (IsCache(LastOf(s2)) <=> IsCache(q[1]))
         /\ s2[1].place = End(cl, Len(wire[cl])) + 1
         /\ Cardinality(CountedIn(s2)) = send_buf[cl].cur_item_num + (IF IsCache(q[1]) THEN 0 ELSE 1)
         /\ IsCache(q[1]) => ~Open(cl)
<1> DEFINE q == select_comp_mq[cl]
           items == send_buf[cl].items
           item == q[1]
           x == OnWire(item)
           s2 == Append(items, x)
           p == item.place
           f == file[cl]
           m == method[cl]
           k == keys[cl]
           K == Keys(cl)
           end == End(cl, Len(wire[cl]))
<1>1. /\ ASeq(q) /\ ASeq(items) /\ m \in Method /\ Len(k) \in Nat /\ Len(f) \in Nat
      /\ Len(K) \in Nat /\ Len(items) \in Nat
  BY Lens, KeysFacts DEF Shape, SenderShape, KeyGenShape
<1>2. SelectInv(cl) /\ SendBufInv(cl) /\ KeyRecipeInv(cl)
  BY Parts
<1>3. q # <<>> /\ Head(q) = item /\ item.type # "recipe" /\ Len(q) \in Nat /\ 1 \in 1 .. Len(q)
  <2>1. q # <<>>
    BY DEF SendChunk
  <2>2. Head(q) = item /\ Len(q) \in Nat /\ Len(q) # 0
    BY <1>1, <2>1, TailFacts, SeqFacts DEF Domains
  <2> QED BY <2>1, <2>2 DEF SendChunk, Domains
<1>4. client[cl] = "run"
  BY <1>2, <1>3 DEF KeyRecipeInv
<1>5. p = Len(K) + 1
  BY <1>2, <1>3, <1>4 DEF SelectInv, Sent, Domains
<1>6. /\ p \in 1 .. Len(f) + 1
      /\ p <= Len(f) => p <= Len(k) /\ SelectForm(m, f[p], k[p], item)
      /\ p > Len(f) => item.type = "recipe"
  BY <1>2, <1>3 DEF SelectInv, Selects
<1>7. p \in 1 .. Len(k) /\ SelectForm(m, f[p], k[p], item)
  <2>1. p <= Len(f)
    BY <1>1, <1>3, <1>6 DEF Domains
  <2> QED BY <1>1, <1>6, <2>1 DEF Domains
<1>8. item.key = k[p]
  BY <1>7 DEF SelectForm
<1>9. /\ WireForm(m, f[p], k[p], x) /\ x.place = p /\ (IsCache(x) <=> IsCache(item))
      /\ item.type = "compressed" => x.type = "normal"
      /\ m = "full_edr" /\ x.type = "normal" => item.type = "compressed"
  BY <1>1, <1>7, OnWireForm
<1>10. /\ m = "full_edr" /\ item.type = "compressed" => Open(cl)
       /\ Open(cl) => item.type = "compressed"
  BY <1>2, <1>3 DEF SelectInv
<1>11. IsCache(item) => ~Open(cl)
  BY <1>10 DEF IsCache
<1>12. /\ Sends(f, m, k, items)
       /\ Cardinality(CountedIn(items)) = send_buf[cl].cur_item_num
       /\ items = <<>> => end = Len(K)
       /\ items # <<>> => /\ items[1].place = end + 1
                          /\ LastOf(items).place = Len(K) + (IF Open(cl) THEN 1 ELSE 0)
  BY <1>2, <1>4 DEF SendBufInv
<1>13. items # <<>> => /\ x.place = LastOf(items).place + (IF IsCache(LastOf(items)) THEN 0 ELSE 1)
                       /\ IsCache(LastOf(items)) => x.type = "normal"
  BY <1>1, <1>5, <1>9, <1>10, <1>12 DEF Open, Domains
<1>14. m = "full_edr" /\ x.type = "normal" => items # <<>> /\ IsCache(LastOf(items))
  BY <1>9, <1>10 DEF Open
<1>15. /\ ASeq(s2) /\ Len(s2) = Len(items) + 1 /\ s2 # <<>> /\ s2[Len(items) + 1] = x
       /\ \A i \in 1 .. Len(items) : s2[i] = items[i]
  BY <1>1, AppendFacts
<1>16. Sends(f, m, k, s2)
  <2> HIDE DEF q, items, x, f, m, k
  <2>1. x.place \in 1 .. Len(k) /\ WireForm(m, f[x.place], k[x.place], x)
    BY <1>7, <1>9
  <2> QED BY <1>1, <1>12, <1>13, <1>14, <2>1, SendsAppend
<1>17. Cardinality(CountedIn(s2)) = send_buf[cl].cur_item_num + (IF IsCache(item) THEN 0 ELSE 1)
  BY <1>1, <1>9, <1>12, CountedAppend
<1> HIDE DEF s2
<1>18. LastOf(s2) = x
  BY <1>15 DEF LastOf
<1>19. s2[1].place = end + 1
  <2>1. CASE items = <<>>
    <3>1. s2[1] = x
      BY <1>15, <2>1
    <3> QED BY <1>5, <1>9, <1>12, <2>1, <3>1
  <2>2. CASE items # <<>>
    <3>1. 1 \in 1 .. Len(items)
      BY <1>1, <2>2, SeqFacts DEF Domains
    <3> QED BY <1>12, <1>15, <2>2, <3>1
  <2> QED BY <2>1, <2>2
<1> QED BY <1>3, <1>4, <1>5, <1>7, <1>8, <1>9, <1>11, <1>15, <1>16, <1>17, <1>18, <1>19 DEF s2

(* SendChunk: the item goes to the message and its key to the key recipe;  *)
(* the message goes to the wire when it is full.                           *)
LEMMA SendChunkKeeps ==
  ASSUME NEW cl \in Client, Domains, Shape(cl), PlacesInv(cl), Running(cl),
         ThreadShape(cl)', SendChunk(cl)
  PROVE  Keeps(cl)
<1> DEFINE q == select_comp_mq[cl]
           item == q[1]
           p == item.place
           f == file[cl]
           m == method[cl]
           k == keys[cl]
           K == Keys(cl)
           K2 == Keys(cl)'
           w == wire[cl]
           items == send_buf[cl].items
           s2 == Append(items, OnWire(item))
           n == send_buf[cl].cur_item_num
           n2 == n + (IF IsCache(item) THEN 0 ELSE 1)
           buf == [items |-> s2, cur_item_num |-> n2]
           full == ~IsCache(item) /\ n2 % ChunkBatch = 0
<1>1. /\ client[cl] = "run" /\ q # <<>> /\ p = Len(K) + 1 /\ p \in 1 .. Len(k) /\ item.key = k[p]
      /\ Sends(f, m, k, s2) /\ ASeq(s2) /\ Len(s2) = Len(items) + 1 /\ s2 # <<>>
      /\ LastOf(s2).place = p /\ (IsCache(LastOf(s2)) <=> IsCache(item))
      /\ s2[1].place = End(cl, Len(w)) + 1
      /\ Cardinality(CountedIn(s2)) = n2
      /\ IsCache(item) => ~Open(cl)
  BY FilledFacts
<1>2. /\ ASeq(q) /\ ASeq(w) /\ ASeq(items) /\ m \in Method /\ Len(k) \in Nat /\ Len(f) \in Nat
      /\ Len(K) \in Nat /\ Len(items) \in Nat /\ n \in Nat /\ Len(w) \in Nat /\ ASeq(K)
  BY Lens, KeysFacts DEF Shape, SenderShape, KeyGenShape, WireShape
<1>3. Head(q) = item
  BY <1>1, <1>2, TailFacts
<1>4. SelectInv(cl) /\ WireInv(cl) /\ SendBufInv(cl) /\ KeyRecipeInv(cl) /\ RecipeInv(cl)
  BY Parts
<1>5. /\ SenderRest /\ client' = client
      /\ select_comp_mq' = [select_comp_mq EXCEPT ![cl] = Tail(@)]
      /\ send_buf' = [send_buf EXCEPT ![cl] = IF full THEN EmptyMsg ELSE buf]
      /\ wire' = [wire EXCEPT ![cl] = IF full THEN Append(@, ChunkMsg(buf)) ELSE @]
      /\ ~IsCache(item) => StoreKeyRecipe(cl, item.key)
      /\ IsCache(item) => UNCHANGED <<key_buf, key_recipe>>
  BY <1>3 DEF SendChunk, Counted, IsCache
<1> HIDE DEF s2, n2
<1>6. n2 \in Nat /\ n2 = n + (IF IsCache(item) THEN 0 ELSE 1)
  BY <1>2 DEF n2, Domains
<1>7. recipe[cl].head = NoHead
  BY <1>1, <1>4 DEF RecipeInv
<1>8. /\ DOMAIN key_buf' = Client /\ DOMAIN key_recipe' = Client
      /\ \A d \in Client \ {cl} : key_buf'[d] = key_buf[d] /\ key_recipe'[d] = key_recipe[d]
      /\ ASeq(key_buf'[cl]) /\ ASeq(key_recipe'[cl]) /\ Len(key_buf'[cl]) < RecipeBatch
      /\ IsCache(item) => K2 = K
      /\ ~IsCache(item) => IsAppend(K, k[p], K2)
  <2>1. CASE IsCache(item)
    BY <1>4, <1>5, <2>1 DEF Domains, Shape, SenderShape, KeyRecipeInv, Keys
  <2>2. CASE ~IsCache(item)
    <3>1. StoreKeyRecipe(cl, item.key) /\ Len(key_buf[cl]) < RecipeBatch
      BY <1>4, <1>5, <2>2 DEF KeyRecipeInv
    <3> QED BY <1>1, <2>2, <3>1, StoreKeyFacts
  <2> QED BY <2>1, <2>2
<1> HIDE DEF K2
<1>9. /\ Len(K2) \in Nat /\ Len(K2) <= Len(k) /\ \A i \in 1 .. Len(K2) : K2[i] = k[i]
      /\ Len(K2) = p - (IF IsCache(item) THEN 1 ELSE 0)
  <2>1. Len(K) <= Len(k) /\ \A i \in 1 .. Len(K) : K[i] = k[i]
    BY <1>4 DEF KeyRecipeInv
  <2>2. CASE IsCache(item)
    BY <1>1, <1>2, <1>8, <2>1, <2>2 DEF Domains
  <2>3. CASE ~IsCache(item)
    <3>1. Len(K2) = Len(K) + 1 /\ K2[Len(K) + 1] = k[p] /\ \A i \in 1 .. Len(K) : K2[i] = K[i]
      BY <1>8, <2>3 DEF IsAppend
    <3> HIDE DEF K, k
    <3>2. ASSUME NEW i \in 1 .. Len(K2) PROVE K2[i] = k[i]
      <4>1. i \in 1 .. Len(K) \/ i = Len(K) + 1
        BY <1>2, <3>1
      <4> QED BY <1>1, <2>1, <3>1, <4>1
    <3>3. Len(K2) \in Nat /\ Len(K2) = p /\ Len(K2) <= Len(k)
      BY <1>1, <1>2, <3>1
    <3> QED BY <2>3, <3>2, <3>3
  <2> QED BY <2>2, <2>3
<1>10. /\ file'[cl] = f /\ method'[cl] = m /\ keys'[cl] = k /\ client'[cl] = "run"
       /\ key_gen_mq'[cl] = key_gen_mq[cl] /\ cur_chunk_num'[cl] = cur_chunk_num[cl]
       /\ next'[cl] = next[cl] /\ Received(cl)' = Received(cl)
  BY <1>1, <1>5 DEF SenderRest, fixedVars, keyGenVars, recvVars, Received
<1>11. /\ select_comp_mq'[cl] = Tail(q)
       /\ send_buf'[cl] = IF full THEN EmptyMsg ELSE buf
       /\ wire'[cl] = IF full THEN Append(w, ChunkMsg(buf)) ELSE w
  BY <1>5 DEF Domains
<1>12. /\ Domains'
       /\ \A d \in Client \ {cl} :
            SenderStill(d) /\ wire'[d] = wire[d] /\ client'[d] = client[d]
  <2>1. DOMAIN select_comp_mq' = Client /\ DOMAIN send_buf' = Client /\ DOMAIN wire' = Client
    BY <1>5 DEF Domains
  <2>2. Domains'
    BY <1>5, <1>8, <2>1 DEF SenderRest, kmVars, fixedVars, keyGenVars, recvVars, Domains
  <2>3. \A d \in Client \ {cl} :
          /\ select_comp_mq'[d] = select_comp_mq[d] /\ send_buf'[d] = send_buf[d]
          /\ wire'[d] = wire[d]
    BY <1>5 DEF Domains
  <2> QED BY <1>5, <1>8, <2>2, <2>3 DEF SenderStill
<1>13. KeyRecipeInv(cl)'
  BY <1>8, <1>9, <1>10 DEF KeyRecipeInv, K2
<1>14. Running(cl)'
  BY <1>10 DEF Running
<1>15. Open(cl)' <=> IsCache(item)
  <2>1. CASE full
    BY <1>11, <2>1 DEF Open, EmptyMsg
  <2>2. CASE ~full
    BY <1>1, <1>11, <2>2 DEF Open
  <2> QED BY <2>1, <2>2
<1>16. SelectInv(cl)' /\ ASeq(select_comp_mq'[cl])
  <2> DEFINE q2 == Tail(q)
  <2>1. /\ ASeq(q2) /\ Selects(f, m, k, q2)
        /\ q2 # <<>> => /\ q2[1].place = p + (IF IsCache(item) THEN 0 ELSE 1)
                        /\ LastOf(q2) = LastOf(q)
                        /\ m = "full_edr" /\ q2[1].type = "compressed" => IsCache(item)
        /\ IsCache(item) => q2 # <<>> /\ q2[1].type = "compressed"
        /\ q2 = <<>> => LastOf(q) = item
    <3>1. Selects(f, m, k, q)
      BY <1>4 DEF SelectInv
    <3> HIDE DEF q, f, m, k
    <3> QED BY <1>1, <1>2, <3>1, SelectsTail DEF item, p
  <2>2. SelEnd(cl)' = SelEnd(cl)
    BY <1>10 DEF SelEnd, Passed
  <2>3. LastOf(q).place = SelEnd(cl)
    BY <1>1, <1>4 DEF SelectInv
  <2>4. Sent(cl)' = Len(K2)
    <3>1. Sent(cl)' = Len(K2) + 0
      BY <1>10 DEF Sent, K2
    <3> QED BY <1>9, <3>1
  <2> HIDE DEF q2
  <2>5. q2 = <<>> => Len(K2) = SelEnd(cl)
    BY <1>2, <1>1, <1>9, <2>1, <2>3
  <2>6. q2 # <<>> => q2[1].place = Len(K2) + 1 /\ LastOf(q2).place = SelEnd(cl)
    <3> HIDE DEF p, k
    <3> QED BY <1>1, <1>9, <2>1, <2>3
  <2>7. select_comp_mq'[cl] = q2
    BY <1>11 DEF q2
  <2> QED BY <1>10, <1>15, <2>1, <2>2, <2>4, <2>5, <2>6, <2>7 DEF SelectInv
<1>17. /\ n < ChunkBatch /\ ChunkBatch \in Nat \ {0}
       /\ Len(items) <= 2 * n + (IF Open(cl) THEN 1 ELSE 0)
  BY <1>4, ClientUploadAssumption DEF SendBufInv
<1>18. ASSUME NEW i PROVE i # Len(w) + 1 /\ wire'[cl][i] = w[i] => End(cl, i)' = End(cl, i)
  BY <1>10 DEF End
<1>19. /\ cur_chunk_num[cl] # 0 => w # <<>> /\ w[1].type = "chunks"
       /\ \A i \in 1 .. Len(w) : w[i].type = "chunks" /\ ChunksInv(cl, i)
  BY <1>1, <1>4 DEF WireInv, RecipeEndInv
<1>20. CASE ~full
  <2>1. send_buf'[cl] = buf /\ wire'[cl] = w
    BY <1>11, <1>20
  <2>2. \A i : End(cl, i)' = End(cl, i)
    BY <1>10, <2>1 DEF End
  <2>3. WireInv(cl)' /\ WireShape(cl)'
    <3>1. \A i \in 1 .. Len(w) : ChunksInv(cl, i)'
      BY <1>10, <1>19, <2>1, <2>2 DEF ChunksInv
    <3> QED BY <1>10, <1>19, <2>1, <3>1 DEF WireInv, WireShape, Shape, Message
  <2>4. n2 < ChunkBatch
    BY <1>2, <1>6, <1>17, <1>20
  <2>5. Len(s2) <= 2 * n2 + (IF IsCache(item) THEN 1 ELSE 0)
    <3> DEFINE a == Len(items)
               b == Len(s2)
    <3>1. a \in Nat /\ n \in Nat /\ b = a + 1 /\ a <= 2 * n + (IF Open(cl) THEN 1 ELSE 0)
      BY <1>1, <1>2, <1>17
    <3>2. IsCache(item) => ~Open(cl) /\ n2 = n
      BY <1>1, <1>2, <1>6
    <3>3. ~IsCache(item) => n2 = n + 1
      BY <1>6
    <3> HIDE DEF a, b, n, item
    <3>4. b <= 2 * n2 + (IF IsCache(item) THEN 1 ELSE 0)
      BY <3>1, <3>2, <3>3
    <3> QED BY <3>4 DEF b
  <2>6. p = Len(K2) + (IF IsCache(item) THEN 1 ELSE 0)
    BY <1>1, <1>9 DEF Domains
  <2>7. SendBufInv(cl)'
    <3>1. /\ send_buf'[cl].items = s2 /\ send_buf'[cl].cur_item_num = n2
          /\ End(cl, Len(wire[cl]))' = End(cl, Len(w)) /\ Len(Keys(cl)') = Len(K2)
      BY <2>1, <2>2 DEF K2
    <3> QED BY <1>1, <1>10, <1>15, <2>4, <2>5, <2>6, <3>1 DEF SendBufInv
  <2>8. SenderShape(cl)'
    BY <1>1, <1>6, <1>8, <1>16, <2>1 DEF SenderShape
  <2> QED BY <1>5, <1>7, <1>10, <1>12, <1>13, <1>14, <1>16, <2>3, <2>7, <2>8, SenderKeeps
<1>21. CASE full
  <2> DEFINE msg == [type |-> "chunks", items |-> s2, cur_item_num |-> n2]
             w2 == Append(w, msg)
  <2>1. send_buf'[cl] = EmptyMsg /\ wire'[cl] = w2
    BY <1>11, <1>21 DEF ChunkMsg
  <2>2. /\ ASeq(w2) /\ Len(w2) = Len(w) + 1 /\ w2 # <<>> /\ w2[Len(w) + 1] = msg
        /\ \A i \in 1 .. Len(w) : w2[i] = w[i]
    BY <1>2, AppendFacts
  <2> HIDE DEF w2
  <2>3. ASSUME NEW i \in 0 .. Len(w) PROVE End(cl, i)' = End(cl, i)
    <3>1. CASE i = 0
      BY <1>10, <3>1 DEF End
    <3>2. CASE i # 0
      <4>1. i \in 1 .. Len(w)
        BY <1>2, <3>2
      <4> QED BY <1>10, <2>1, <2>2, <4>1 DEF End
    <3> QED BY <3>1, <3>2
  <2>4. ASSUME NEW i \in 1 .. Len(w) PROVE w2[i].type = "chunks" /\ ChunksInv(cl, i)'
    <3>1. w2[i] = w[i] /\ ChunksInv(cl, i) /\ w[i].type = "chunks"
      BY <1>19, <2>2
    <3>2. End(cl, i - 1)' = End(cl, i - 1)
      <4>1. i - 1 \in 0 .. Len(w)
        BY <1>2
      <4> QED BY <2>3, <4>1
    <3> QED BY <1>10, <2>1, <3>1, <3>2 DEF ChunksInv
  <2>5. PICK l : l = Len(w) + 1
    OBVIOUS
  <2>6. End(cl, l - 1)' = End(cl, Len(w)) /\ l \in Nat
    <3>1. l - 1 = Len(w) /\ Len(w) \in 0 .. Len(w) /\ l \in Nat
      BY <1>2, <2>5
    <3> QED BY <2>3, <3>1
  <2>7. ChunksInv(cl, l)'
    <3>1. n2 + (IF l = 1 THEN cur_chunk_num[cl] ELSE 0) = n2
      <4>1. l = 1 => w = <<>>
        BY <1>2, <2>5, SeqFacts
      <4>2. l = 1 => cur_chunk_num[cl] = 0
        BY <1>19, <4>1
      <4> QED BY <1>6, <4>2
    <3>2. w2[l] = msg
      BY <2>2, <2>5
    <3>3. wire'[cl][l].items = s2 /\ wire'[cl][l].cur_item_num = n2
      BY <2>1, <3>2
    <3> QED BY <1>1, <1>10, <1>21, <2>6, <3>1, <3>3 DEF ChunksInv
  <2>8. WireInv(cl)'
    <3>1. ASSUME NEW i \in 1 .. Len(w2) PROVE w2[i].type = "chunks" /\ ChunksInv(cl, i)'
      <4>1. i \in 1 .. Len(w) \/ i = l
        BY <1>2, <2>2, <2>5
      <4>2. w2[l].type = "chunks"
        BY <2>2, <2>5
      <4> QED BY <2>4, <2>7, <4>1, <4>2
    <3>2. cur_chunk_num[cl] # 0 => w2 # <<>> /\ w2[1].type = "chunks"
      <4>1. 1 \in 1 .. Len(w2)
        BY <1>2, <2>2
      <4> QED BY <2>2, <3>1, <4>1
    <3> QED BY <1>10, <2>1, <3>1, <3>2 DEF WireInv
  <2>9. WireShape(cl)'
    <3>1. Message(msg)
      BY <1>1, <1>6 DEF Message
    <3>2. \A i \in 1 .. Len(w) : Message(w[i])
      BY DEF Shape, WireShape
    <3>3. ASSUME NEW i \in 1 .. Len(w2) PROVE Message(w2[i])
      <4>1. i \in 1 .. Len(w) \/ i = Len(w) + 1
        BY <1>2, <2>2
      <4> QED BY <2>2, <3>1, <3>2, <4>1
    <3> QED BY <2>1, <2>2, <3>3 DEF WireShape, Message
  <2>10. SendBufInv(cl)'
    <3>1. /\ send_buf'[cl].items = <<>> /\ send_buf'[cl].cur_item_num = 0
          /\ Sends(f, m, k, <<>>) /\ Cardinality(CountedIn(<<>>)) = 0
      BY <2>1, SendsNothing DEF EmptyMsg
    <3>2. End(cl, Len(wire[cl]))' = Len(K2)
      <4>1. Len(wire'[cl]) = l /\ l # 0
        BY <1>2, <2>1, <2>2, <2>5
      <4>2. wire'[cl][l].items = s2
        BY <2>1, <2>2, <2>5
      <4>3. End(cl, Len(wire[cl]))' = p
        BY <1>1, <4>1, <4>2 DEF End
      <4>4. p = Len(K2)
        BY <1>1, <1>9, <1>21
      <4> QED BY <4>3, <4>4
    <3> QED BY <1>10, <1>15, <1>17, <1>21, <3>1, <3>2 DEF SendBufInv, K2
  <2>11. SenderShape(cl)'
    BY <1>8, <1>16, <2>1, EmptyASeq DEF SenderShape, EmptyMsg
  <2> QED BY <1>5, <1>7, <1>10, <1>12, <1>13, <1>14, <1>16, <2>8, <2>9, <2>10, <2>11, SenderKeeps
<1> QED BY <1>20, <1>21

(* What SenderThd knows when it takes the recipe chunk: all chunks are in  *)
(* front of it.                                                            *)
LEMMA RecipeChunkFacts ==
  ASSUME NEW cl \in Client, Domains, Shape(cl), PlacesInv(cl), Running(cl), SendRecipeEnd(cl)
  PROVE  /\ client[cl] = "run" /\ Len(Keys(cl)) = Len(file[cl]) /\ ~Open(cl)
         /\ Tail(select_comp_mq[cl]) = <<>> /\ key_gen_mq[cl] = <<>>
         /\ SelEnd(cl) = Len(file[cl]) + 1
<1> DEFINE q == select_comp_mq[cl]
           item == q[1]
           p == item.place
           f == file[cl]
           m == method[cl]
           k == keys[cl]
<1>1. /\ ASeq(q) /\ m \in Method /\ Len(k) \in Nat /\ Len(f) \in Nat
      /\ Len(Keys(cl)) \in Nat /\ Len(key_gen_mq[cl]) \in Nat /\ ASeq(key_gen_mq[cl])
  BY Lens, KeysFacts DEF Shape, SenderShape, KeyGenShape
<1>2. SelectInv(cl) /\ KeyRecipeInv(cl) /\ BatchInv(cl)
  BY Parts
<1>3. q # <<>> /\ item.type = "recipe" /\ Len(q) \in Nat /\ 1 \in 1 .. Len(q)
  <2>1. q # <<>>
    BY DEF SendRecipeEnd
  <2>2. Head(q) = item /\ Len(q) \in Nat /\ Len(q) # 0
    BY <1>1, <2>1, TailFacts, SeqFacts DEF Domains
  <2> QED BY <2>1, <2>2 DEF SendRecipeEnd, Domains
<1>4. client[cl] = "run"
  BY <1>2, <1>3 DEF KeyRecipeInv
<1>5. p = Len(Keys(cl)) + 1 /\ LastOf(q).place = SelEnd(cl)
  BY <1>2, <1>3, <1>4 DEF SelectInv, Sent, Domains
<1>6. /\ p \in 1 .. Len(f) + 1
      /\ p <= Len(f) => SelectForm(m, f[p], k[p], item)
  BY <1>2, <1>3 DEF SelectInv, Selects
<1>7. ~(p <= Len(f))
  BY <1>1, <1>3, <1>6 DEF SelectForm, Method
<1>8. p = Len(f) + 1
  BY <1>1, <1>6, <1>7 DEF Domains
<1>9. Tail(q) = <<>> /\ LastOf(q) = item
  <2>1. Selects(f, m, k, q)
    BY <1>2 DEF SelectInv
  <2> HIDE DEF q, f, m, k
  <2>2. Tail(q) = <<>>
    BY <1>1, <1>3, <2>1, SelectsTail DEF item
  <2> QED BY <1>1, <1>3, <2>1, <2>2, SelectsTail DEF item
<1>10. SelEnd(cl) = Len(f) + 1
  BY <1>5, <1>8, <1>9
<1>11. key_gen_mq[cl] = <<>>
  <2> DEFINE n == Len(key_gen_mq[cl])
             P == Passed(cl)
  <2>1. P \in Nat /\ P <= Len(f) + 1
    BY <1>1, <1>2 DEF Passed, BatchInv, Domains
  <2>2. P - n = Len(f) + 1
    BY <1>10 DEF SelEnd
  <2>3. n = 0
    <3>1. n \in Nat /\ Len(f) \in Nat
      BY <1>1
    <3> DEFINE L == Len(f)
    <3> HIDE DEF n, P, L
    <3>2. P - n = L + 1 /\ P <= L + 1 /\ L \in Nat
      BY <1>1, <2>1, <2>2 DEF L
    <3> QED BY <2>1, <3>1, <3>2
  <2> QED BY <1>1, <2>3, SeqFacts
<1>12. ~Open(cl)
  BY <1>2, <1>3 DEF SelectInv
<1> QED BY <1>1, <1>4, <1>5, <1>8, <1>9, <1>10, <1>11, <1>12 DEF Domains

(* SendRecipeEnd: the last message of chunks, if any, the last keys and    *)
(* the end of the recipe.                                                  *)
LEMMA SendRecipeEndKeeps ==
  ASSUME NEW cl \in Client, Domains, Shape(cl), PlacesInv(cl), Running(cl),
         ThreadShape(cl)', SendRecipeEnd(cl)
  PROVE  Keeps(cl)
<1> DEFINE f == file[cl]
           m == method[cl]
           k == keys[cl]
           r == Len(Received(cl))
           cur == cur_chunk_num[cl]
           K == Keys(cl)
           w == wire[cl]
           buf == send_buf[cl]
           items == buf.items
           n == buf.cur_item_num
           u == w \o Tails(buf)
           e == RecipeEndMsg(Len(f))
           w2 == u \o <<e>>
<1>1. /\ client[cl] = "run" /\ Len(K) = Len(f) /\ ~Open(cl)
      /\ Tail(select_comp_mq[cl]) = <<>> /\ key_gen_mq[cl] = <<>>
      /\ SelEnd(cl) = Len(f) + 1
  BY RecipeChunkFacts
<1>2. /\ ASeq(w) /\ ASeq(items) /\ Len(k) \in Nat /\ Len(f) \in Nat /\ r \in Nat /\ cur \in Nat
      /\ Len(K) \in Nat /\ Len(items) \in Nat /\ n \in Nat /\ Len(w) \in Nat /\ ASeq(K)
      /\ \A i \in 1 .. Len(w) : Message(w[i])
  BY Lens, KeysFacts, ReceivedFacts DEF Shape, SenderShape, RecvShape, WireShape
<1>3. /\ SelectInv(cl) /\ WireInv(cl) /\ SendBufInv(cl) /\ KeyRecipeInv(cl) /\ RecipeInv(cl)
      /\ BatchInv(cl)
  BY Parts
<1>4. /\ SenderRest
      /\ select_comp_mq' = [select_comp_mq EXCEPT ![cl] = Tail(@)]
      /\ send_buf' = [send_buf EXCEPT ![cl] = EmptyMsg]
      /\ wire' = [wire EXCEPT ![cl] = @ \o Tails(buf) \o <<e>>]
      /\ key_recipe' = [key_recipe EXCEPT ![cl] = @ \o key_buf[cl]]
      /\ key_buf' = [key_buf EXCEPT ![cl] = <<>>]
      /\ client' = [client EXCEPT ![cl] = "sent"]
  BY DEF SendRecipeEnd, KeyTail
<1>5. /\ select_comp_mq'[cl] = <<>> /\ send_buf'[cl] = EmptyMsg /\ wire'[cl] = w2
      /\ key_recipe'[cl] = K /\ key_buf'[cl] = <<>> /\ client'[cl] = "sent"
  BY <1>1, <1>4 DEF Domains, Keys
<1>6. /\ Domains'
      /\ \A d \in Client \ {cl} :
           SenderStill(d) /\ wire'[d] = wire[d] /\ client'[d] = client[d]
  <2>1. /\ DOMAIN select_comp_mq' = Client /\ DOMAIN send_buf' = Client /\ DOMAIN wire' = Client
        /\ DOMAIN key_recipe' = Client /\ DOMAIN key_buf' = Client /\ DOMAIN client' = Client
    BY <1>4 DEF Domains
  <2>2. Domains'
    BY <1>4, <2>1 DEF SenderRest, kmVars, fixedVars, keyGenVars, recvVars, Domains
  <2>3. \A d \in Client \ {cl} :
          /\ select_comp_mq'[d] = select_comp_mq[d] /\ send_buf'[d] = send_buf[d]
          /\ wire'[d] = wire[d]
    BY <1>4 DEF Domains
  <2>4. \A d \in Client \ {cl} :
          /\ key_recipe'[d] = key_recipe[d] /\ key_buf'[d] = key_buf[d]
          /\ client'[d] = client[d]
    BY <1>4 DEF Domains
  <2> QED BY <2>2, <2>3, <2>4 DEF SenderStill
<1>7. /\ file'[cl] = f /\ method'[cl] = m /\ keys'[cl] = k
      /\ key_gen_mq'[cl] = <<>> /\ cur_chunk_num'[cl] = cur
      /\ next'[cl] = next[cl] /\ Received(cl)' = Received(cl) /\ SelEnd(cl)' = SelEnd(cl)
  BY <1>1, <1>4 DEF SenderRest, fixedVars, keyGenVars, recvVars, Received, SelEnd, Passed
<1>8. Keys(cl)' = K
  <2>1. Keys(cl)' = K \o <<>>
    BY <1>5 DEF Keys
  <2> QED BY <1>2, <2>1, ConcatEmpty
<1>9. Running(cl)' /\ recipe[cl].head = NoHead
  BY <1>1, <1>3, <1>5 DEF Running, RecipeInv
<1>10. KeyRecipeInv(cl)'
  <2>1. Len(<<>>) < RecipeBatch
    BY ClientUploadAssumption
  <2> QED BY <1>1, <1>3, <1>5, <1>7, <1>8, <2>1 DEF KeyRecipeInv
<1>11. SenderShape(cl)'
  BY <1>2, <1>5, EmptyASeq DEF SenderShape, EmptyMsg
<1>12. ~Open(cl)'
  BY <1>5 DEF Open, EmptyMsg
<1>13. SelectInv(cl)'
  <2>1. Sent(cl)' = Len(f) + 1
    BY <1>1, <1>5, <1>8 DEF Sent
  <2> QED BY <1>1, <1>5, <1>7, <1>12, <2>1, SelectsNothing DEF SelectInv
<1>14. SendBufInv(cl)'
  <2>1. /\ send_buf'[cl].items = <<>> /\ send_buf'[cl].cur_item_num = 0
        /\ Sends(f, m, k, <<>>) /\ Cardinality(CountedIn(<<>>)) = 0
    BY <1>5, SendsNothing DEF EmptyMsg
  <2>2. 0 < ChunkBatch
    BY ClientUploadAssumption
  <2> QED BY <1>5, <1>7, <1>12, <2>1, <2>2 DEF SendBufInv
<1>15. ChunksFrom(f, m, k, r, cur, w)
  <2>1. ASSUME NEW i \in 1 .. Len(w) PROVE w[i].type = "chunks" /\ ChunksInv(cl, i)
    BY <1>1, <1>3 DEF WireInv, RecipeEndInv
  <2>2. cur # 0 => w # <<>>
    BY <1>3 DEF WireInv
  <2>3. \A i : End(cl, i) = EndOf(r, w, i)
    BY DEF End, EndOf
  <2> QED BY <1>2, <2>1, <2>2, <2>3 DEF ChunksFrom, ChunksInv
<1>16. ChunksFrom(f, m, k, r, cur, u) /\ EndOf(r, u, Len(u)) = Len(f)
  <2>1. /\ Sends(f, m, k, items) /\ Cardinality(CountedIn(items)) = n
        /\ Len(items) <= 2 * n
        /\ items = <<>> => EndOf(r, w, Len(w)) = Len(f)
        /\ items # <<>> => /\ items[1].place = EndOf(r, w, Len(w)) + 1
                           /\ LastOf(items).place = Len(f)
    <3>1. EndOf(r, w, Len(w)) = End(cl, Len(w))
      BY DEF End, EndOf
    <3>2. Len(items) <= 2 * n + 0 /\ (items # <<>> => LastOf(items).place = Len(K) + 0)
      BY <1>1, <1>3 DEF SendBufInv
    <3>3. 2 * n + 0 = 2 * n /\ Len(K) + 0 = Len(f)
      BY <1>1, <1>2 DEF Domains
    <3> QED BY <1>1, <1>3, <3>1, <3>2, <3>3 DEF SendBufInv
  <2>2. n = 0 <=> items = <<>>
    <3>1. items = <<>> => n = 0
      BY <2>1, SendsNothing
    <3>2. n = 0 => Len(items) = 0
      BY <1>2, <2>1 DEF Domains
    <3> QED BY <1>2, <3>1, <3>2, SeqFacts
  <2>3. CASE items = <<>>
    <3>1. u = w
      BY <1>2, <2>2, <2>3, ConcatEmpty DEF Tails
    <3> QED BY <1>15, <2>1, <2>3, <3>1
  <2>4. CASE items # <<>>
    <3> DEFINE msg == [type |-> "chunks", items |-> items, cur_item_num |-> n]
    <3>1. u = w \o <<msg>>
      BY <2>2, <2>4 DEF Tails, ChunkMsg
    <3>2. Message(msg) /\ msg.type = "chunks" /\ msg.items = items /\ msg.cur_item_num = n
      BY <1>2 DEF Message
    <3>3. ~IsCache(LastOf(items))
      BY <1>1, <2>4 DEF Open
    <3> HIDE DEF f, m, k, r, cur, w, u, items, n, msg
    <3>4. NextChunks(f, m, k, EndOf(r, w, Len(w)), msg)
      BY <2>1, <2>4, <3>2, <3>3 DEF NextChunks
    <3>5. cur \in Nat
      BY <1>2
    <3>6. IsAppend(w, msg, u)
      BY <1>2, <3>1, ConcatOne
    <3>7. ChunksFrom(f, m, k, r, cur, u) /\ EndOf(r, u, Len(u)) = LastOf(msg.items).place
      BY <1>15, <3>4, <3>5, <3>6, ChunksFromAppend
    <3> QED BY <2>1, <2>4, <3>2, <3>7
  <2> QED BY <2>3, <2>4
<1> HIDE DEF u
<1>17. /\ ASeq(u) /\ Len(u) \in Nat /\ ASeq(w2) /\ Len(w2) = Len(u) + 1 /\ w2 # <<>>
       /\ w2[Len(u) + 1] = e /\ \A i \in 1 .. Len(u) : w2[i] = u[i]
  <2>1. ASeq(u) /\ Len(u) \in Nat
    BY <1>16, SeqFacts DEF ChunksFrom
  <2>2. IsAppend(u, e, w2)
    BY <2>1, ConcatOne
  <2>3. /\ ASeq(w2) /\ Len(w2) = Len(u) + 1 /\ w2[Len(u) + 1] = e
        /\ \A i \in 1 .. Len(u) : w2[i] = u[i]
    BY <2>2 DEF IsAppend
  <2> HIDE DEF w2
  <2>4. w2 # <<>>
    BY <2>1, <2>3, SeqFacts
  <2> QED BY <2>1, <2>3, <2>4
<1> HIDE DEF w2
<1>18. ASSUME NEW i \in 0 .. Len(u) PROVE End(cl, i)' = EndOf(r, u, i)
  <2>1. i = 0 \/ i \in 1 .. Len(u)
    BY <1>17
  <2> QED BY <1>5, <1>7, <1>17, <2>1 DEF End, EndOf
<1>19. /\ e.type = "recipe_end" /\ e.cur_item_num = Len(f) /\ Message(e)
  BY <1>2, EmptyASeq DEF RecipeEndMsg, Message
<1>20. ASSUME NEW i \in 1 .. Len(w2)
       PROVE  /\ Message(w2[i])
              /\ \/ w2[i].type = "chunks" /\ ChunksInv(cl, i)'
                 \/ w2[i].type = "recipe_end" /\ RecipeEndInv(cl, i)'
  <2>1. i \in 1 .. Len(u) \/ i = Len(u) + 1
    BY <1>17
  <2>2. i - 1 \in 0 .. Len(u)
    BY <1>17
  <2>3. End(cl, i - 1)' = EndOf(r, u, i - 1)
    BY <1>18, <2>2
  <2>4. CASE i \in 1 .. Len(u)
    <3>1. w2[i] = u[i] /\ Message(w2[i]) /\ w2[i].type = "chunks"
      BY <1>16, <1>17, <2>4 DEF ChunksFrom
    <3>2. ChunksInv(cl, i)'
      BY <1>5, <1>7, <1>16, <2>3, <2>4, <3>1 DEF ChunksFrom, ChunksInv
    <3> QED BY <3>1, <3>2
  <2>5. CASE i = Len(u) + 1
    <3>1. w2[i] = e /\ i = Len(w2) /\ i - 1 = Len(u)
      BY <1>17, <2>5
    <3>2. RecipeEndInv(cl, i)'
      BY <1>5, <1>7, <1>16, <1>19, <2>3, <3>1 DEF RecipeEndInv
    <3> QED BY <1>19, <3>1, <3>2
  <2> QED BY <2>1, <2>4, <2>5
<1>21. WireShape(cl)'
  BY <1>5, <1>17, <1>20 DEF WireShape, Message
<1>22. WireInv(cl)'
  <2>1. cur # 0 => w2[1].type = "chunks"
    <3>1. cur # 0 => u # <<>>
      BY <1>16 DEF ChunksFrom
    <3>2. cur # 0 => 1 \in 1 .. Len(u)
      BY <1>17, <3>1, SeqFacts
    <3> QED BY <1>16, <1>17, <3>2 DEF ChunksFrom
  <2> QED BY <1>5, <1>7, <1>17, <1>20, <2>1 DEF WireInv
<1> QED BY <1>4, <1>5, <1>6, <1>9, <1>10, <1>11, <1>13, <1>14, <1>21, <1>22, SenderKeeps

-----------------------------------------------------------------------------
(* DataRecvThd.                                                            *)

(* What DataRecvThd does leaves the client alone.                          *)
LEMMA RecvKeeps ==
  ASSUME NEW cl \in Client, Domains, Shape(cl), PlacesInv(cl), RecvRest, Domains',
         WireShape(cl)', RecvShape(cl)', WireInv(cl)', SendBufInv(cl)', RecipeInv(cl)',
         \A d \in Client \ {cl} : wire'[d] = wire[d] /\ RecvStill(d)
  PROVE  Keeps(cl)
<1>1. \A d : FixedStill(d) /\ KeyGenStill(d) /\ SenderStill(d) /\ KmStill(d)
  BY DEF RecvRest, kmVars, fixedVars, keyGenVars, senderVars, FixedStill, KeyGenStill,
         SenderStill, KmStill
<1>2. Shape(cl)'
  <2>1. ThreadShape(cl)' /\ KeyGenShape(cl)'
    BY <1>1 DEF Shape, ThreadShape, KeyGenShape, FixedStill, KeyGenStill
  <2>2. SenderShape(cl)'
    BY <1>1 DEF Shape, SenderShape, SenderStill
  <2> QED BY <2>1, <2>2 DEF Shape
<1>3. Running(cl)' <=> Running(cl)
  BY <1>1 DEF Running, FixedStill
<1>4. Begins(keys[cl], keys'[cl])
  BY <1>1, Lens, BeginsSame DEF KeyGenStill
<1>5. BatchInv(cl)' /\ AskInv(cl)'
  BY <1>1, <1>3, Parts, BatchFrame, AskFrame DEF FixedStill, KeyGenStill
<1>6. KeyGenMqInv(cl)' /\ SelEnd(cl)' = SelEnd(cl)
  BY <1>1, Parts, PassedFrame, KeyGenMqFrame DEF FixedStill, KeyGenStill
<1>7. client[cl] # "run" => key_gen_mq[cl] = <<>> /\ select_comp_mq[cl] = <<>>
  BY Parts DEF KeyRecipeInv
<1>8. KeyRecipeInv(cl)' /\ Keys(cl)' = Keys(cl)
  BY <1>1, <1>2, <1>4, <1>7, Parts, KeyRecipeFrame DEF FixedStill, KeyGenStill, SenderStill
<1>9. Sent(cl)' = Sent(cl) /\ (Open(cl)' <=> Open(cl))
  BY <1>1, <1>8 DEF Sent, Open, FixedStill, SenderStill
<1>10. SelectInv(cl)'
  BY <1>1, <1>2, <1>3, <1>4, <1>6, <1>9, Parts, SelectFrame DEF FixedStill, SenderStill
<1>11. \A d \in Client \ {cl} : Still(d)
  BY <1>1 DEF Still
<1> QED BY <1>2, <1>5, <1>6, <1>8, <1>10, <1>11 DEF Keeps, PlacesInv

(* ProcessRecipe appends to the fingerprints, in the file or in the batch. *)
LEMMA ProcessRecipeFacts ==
  ASSUME NEW cl \in Client, Domains, Shape(cl), RecipeInv(cl), recipe[cl].head = NoHead,
         NEW fp, ProcessRecipe(cl, fp)
  PROVE  /\ DOMAIN recipe' = Client /\ DOMAIN recipe_batch' = Client
         /\ \A d \in Client \ {cl} : recipe'[d] = recipe[d] /\ recipe_batch'[d] = recipe_batch[d]
         /\ recipe'[cl] = [head |-> recipe'[cl].head, fps |-> recipe'[cl].fps]
         /\ recipe'[cl].head = NoHead /\ ASeq(recipe'[cl].fps) /\ ASeq(recipe_batch'[cl])
         /\ Len(recipe_batch'[cl]) < RecipeBatch
         /\ IsAppend(Received(cl), fp, Received(cl)')
<1> DEFINE a == recipe[cl].fps
           b == recipe_batch[cl]
           t == Append(b, fp)
           full == Len(t) % RecipeBatch = 0
<1>1. /\ recipe_batch' = [recipe_batch EXCEPT ![cl] = IF full THEN <<>> ELSE t]
      /\ recipe' = [recipe EXCEPT ![cl].fps = IF full THEN @ \o t ELSE @]
  BY DEF ProcessRecipe
<1>2. /\ recipe[cl] = [head |-> NoHead, fps |-> a] /\ ASeq(a) /\ ASeq(b) /\ Len(b) \in Nat
      /\ Len(b) < RecipeBatch
  BY Lens DEF Shape, RecvShape, RecipeInv
<1>3. ASeq(t) /\ Len(t) = Len(b) + 1
  BY <1>2, AppendFacts DEF Domains
<1>4. ASeq(a \o t) /\ IsAppend(a \o b, fp, a \o t)
  BY <1>2, <1>3, AppendToConcat, ConcatFacts
<1>5. Received(cl) = a \o b
  BY DEF Received
<1> HIDE DEF t
<1>6. /\ DOMAIN recipe' = Client /\ DOMAIN recipe_batch' = Client
      /\ \A d \in Client \ {cl} : recipe'[d] = recipe[d] /\ recipe_batch'[d] = recipe_batch[d]
  BY <1>1 DEF Domains
<1>7. CASE full
  <2>1. recipe_batch'[cl] = <<>>
    BY <1>1, <1>7 DEF Domains
  <2>2. recipe' = [recipe EXCEPT ![cl].fps = a \o t]
    BY <1>1, <1>7
  <2>3. recipe'[cl] = [head |-> NoHead, fps |-> a \o t]
    BY <1>2, <2>2 DEF Domains
  <2>4. Received(cl)' = (a \o t) \o <<>>
    BY <2>1, <2>3 DEF Received
  <2>5. Received(cl)' = a \o t
    BY <1>4, <2>4, ConcatEmpty
  <2> QED BY <1>4, <1>5, <1>6, <2>1, <2>3, <2>5, EmptyASeq, ClientUploadAssumption
<1>8. CASE ~full
  <2>1. recipe_batch'[cl] = t
    BY <1>1, <1>8 DEF Domains
  <2>2. recipe' = [recipe EXCEPT ![cl].fps = @]
    BY <1>1, <1>8
  <2>3. recipe'[cl] = [head |-> NoHead, fps |-> a]
    BY <1>2, <2>2 DEF Domains
  <2>4. Received(cl)' = a \o t
    BY <2>1, <2>3 DEF Received
  <2>5. Len(t) < RecipeBatch
    <3>1. RecipeBatch \in Nat \ {0}
      BY ClientUploadAssumption
    <3>2. Len(t) # RecipeBatch
      BY <1>8, <3>1
    <3> QED BY <1>2, <1>3, <3>1, <3>2 DEF Domains
  <2> QED BY <1>2, <1>3, <1>4, <1>5, <1>6, <2>1, <2>3, <2>4, <2>5
<1> QED BY <1>7, <1>8

(* ProcessChunk: what is taken of the first message becomes the next       *)
(* fingerprint, and what is left starts at the next place.                 *)
LEMMA ChunkKeeps ==
  ASSUME NEW cl \in Client, Domains, Shape(cl), PlacesInv(cl), ProcessChunk(cl)
  PROVE  Keeps(cl)
<1> DEFINE w == wire[cl]
           msg == w[1]
           items == msg.items
           f == file[cl]
           m == method[cl]
           k == keys[cl]
           taken == Taken(items)
           rest == SubSeq(items, taken + 1, Len(items))
           cur == cur_chunk_num[cl]
           done == cur + 1 = msg.cur_item_num
           fp == FpOfFirst(items)
           R == Received(cl)
           p == items[1].place
<1>1. ASeq(w) /\ \A i \in 1 .. Len(w) : Message(w[i])
  BY DEF Shape, WireShape
<1>2. w # <<>> /\ Len(w) \in Nat /\ Len(w) # 0 /\ 1 \in 1 .. Len(w)
  <2>1. w # <<>>
    BY DEF ProcessChunk
  <2>2. Len(w) \in Nat /\ Len(w) # 0
    BY <1>1, <2>1, SeqFacts
  <2> QED BY <2>1, <2>2 DEF Domains
<1>3. Head(w) = msg /\ ASeq(Tail(w)) /\ Len(Tail(w)) = Len(w) - 1
      /\ \A i \in 1 .. Len(w) - 1 : Tail(w)[i] = w[i + 1]
  BY <1>1, <1>2, TailFacts DEF Domains
<1>4. /\ msg.type = "chunks" /\ ProcessRecipe(cl, fp) /\ RecvRest
      /\ cur_chunk_num' = [cur_chunk_num EXCEPT ![cl] = IF done THEN 0 ELSE @ + 1]
      /\ wire' = [wire EXCEPT ![cl] = IF done THEN Tail(@) ELSE [@ EXCEPT ![1].items = rest]]
  BY <1>3 DEF ProcessChunk
<1>5. RecipeInv(cl) /\ WireInv(cl) /\ SendBufInv(cl)
  BY Parts
<1>6. ChunksInv(cl, 1)
  BY <1>2, <1>4, <1>5 DEF WireInv
<1>7. /\ Sends(f, m, k, items) /\ items # <<>> /\ ~IsCache(LastOf(items)) /\ ASeq(items)
      /\ msg.cur_item_num \in Nat
      /\ msg = [type |-> msg.type, items |-> items, cur_item_num |-> msg.cur_item_num]
  BY <1>1, <1>2, <1>6 DEF ChunksInv, Message
<1>8. p = Len(R) + 1
  BY <1>6 DEF ChunksInv, End
<1>9. Cardinality(CountedIn(items)) + cur = msg.cur_item_num
  BY <1>6 DEF ChunksInv
<1>10. /\ Len(k) \in Nat /\ Len(f) \in Nat /\ Len(R) \in Nat /\ cur \in Nat /\ ASeq(R)
       /\ m \in Method
  BY Lens, ReceivedFacts DEF Shape, RecvShape, KeyGenShape
<1>11. recipe[cl].head = NoHead
  BY <1>2, <1>5 DEF RecipeInv
<1>12. /\ DOMAIN recipe' = Client /\ DOMAIN recipe_batch' = Client
       /\ \A d \in Client \ {cl} : recipe'[d] = recipe[d] /\ recipe_batch'[d] = recipe_batch[d]
       /\ recipe'[cl] = [head |-> recipe'[cl].head, fps |-> recipe'[cl].fps]
       /\ recipe'[cl].head = NoHead /\ ASeq(recipe'[cl].fps) /\ ASeq(recipe_batch'[cl])
       /\ Len(recipe_batch'[cl]) < RecipeBatch
       /\ IsAppend(R, fp, Received(cl)')
  BY <1>4, <1>5, <1>11, ProcessRecipeFacts
<1> DEFINE R2 == Received(cl)'
<1>13. /\ ASeq(R2) /\ Len(R2) = p /\ Len(R2) \in Nat
       /\ R2[p] = fp /\ \A i \in 1 .. Len(R) : R2[i] = R[i]
  BY <1>8, <1>10, <1>12 DEF IsAppend
<1>14. /\ p \in 1 .. Len(k) /\ p <= Len(k)
       /\ fp = Fingerprint(m, f[p], k[p])
  <2> HIDE DEF items, m, f, k
  <2>1. p \in 1 .. Len(k) /\ fp = Fingerprint(m, f[p], k[p])
    BY <1>7, <1>10, FirstFp
  <2> HIDE DEF p
  <2> QED BY <1>10, <2>1
<1>15. /\ taken <= Len(items) /\ ASeq(rest) /\ Len(rest) = Len(items) - taken
       /\ Sends(f, m, k, rest)
       /\ rest # <<>> => rest[1].place = p + 1 /\ LastOf(rest) = LastOf(items)
       /\ rest = <<>> => LastOf(items).place = p
       /\ Cardinality(CountedIn(items)) = Cardinality(CountedIn(rest)) + 1
       /\ rest = <<>> <=> Cardinality(CountedIn(rest)) = 0
       /\ Cardinality(CountedIn(rest)) \in Nat
  <2> HIDE DEF items, m, f, k
  <2>1. Len(k) \in Nat /\ ASeq(items) /\ Sends(f, m, k, items) /\ items # <<>>
        /\ ~IsCache(LastOf(items))
    BY <1>7, <1>10
  <2>2. Dropped(f, m, k, items, taken, rest)
    BY <2>1, SendsDrop
  <2>3. CountsOne(items, rest)
    BY <2>1, CountedDrop
  <2> HIDE DEF taken, rest
  <2>4. /\ taken <= Len(items) /\ ASeq(rest) /\ Len(rest) = Len(items) - taken
        /\ Sends(f, m, k, rest)
        /\ rest # <<>> => rest[1].place = p + 1 /\ LastOf(rest) = LastOf(items)
        /\ rest = <<>> => LastOf(items).place = p
    BY <2>2 DEF Dropped
  <2>5. Cardinality(CountedIn(rest)) \in Nat
    BY <2>4, CountedFinite
  <2> QED BY <2>3, <2>4, <2>5 DEF CountsOne
<1> HIDE DEF rest, taken, fp
<1>16. done <=> rest = <<>>
  BY <1>7, <1>9, <1>10, <1>15 DEF Domains
<1>17. /\ file'[cl] = f /\ method'[cl] = m /\ keys'[cl] = k /\ client'[cl] = client[cl]
       /\ send_buf'[cl] = send_buf[cl] /\ key_buf'[cl] = key_buf[cl]
       /\ key_recipe'[cl] = key_recipe[cl]
  BY <1>4 DEF RecvRest, fixedVars, keyGenVars, senderVars
<1>18. Keys(cl)' = Keys(cl)
  BY <1>17 DEF Keys
<1>19. /\ Domains'
       /\ \A d \in Client \ {cl} : wire'[d] = wire[d] /\ RecvStill(d)
  <2>1. DOMAIN cur_chunk_num' = Client /\ DOMAIN wire' = Client
    BY <1>4 DEF Domains
  <2>2. \A d \in Client \ {cl} : cur_chunk_num'[d] = cur_chunk_num[d] /\ wire'[d] = wire[d]
    BY <1>4 DEF Domains
  <2>3. Domains'
    <3>1. DOMAIN recipe' = Client /\ DOMAIN recipe_batch' = Client
      BY <1>12
    <3>2. RecvRest
      BY <1>4
    <3> QED BY <2>1, <3>1, <3>2 DEF RecvRest, kmVars, fixedVars, keyGenVars, senderVars, Domains
  <2> QED BY <1>12, <2>2, <2>3 DEF RecvStill
<1>20. RecipeInv(cl)'
  <2>1. ASSUME NEW i \in 1 .. Len(R2)
        PROVE  i <= Len(k) /\ R2[i] = Fingerprint(m, f[i], k[i])
    <3>1. CASE i = p
      <4>1. p <= Len(k)
        BY <1>14
      <4> QED BY <1>13, <1>14, <3>1, <4>1
    <3>2. CASE i # p
      <4>1. i \in 1 .. Len(R)
        BY <1>8, <1>10, <1>13, <3>2
      <4>2. i <= Len(k) /\ R[i] = Fingerprint(m, f[i], k[i])
        BY <1>5, <4>1 DEF RecipeInv
      <4> QED BY <1>13, <4>1, <4>2
    <3> QED BY <3>1, <3>2
  <2> QED BY <1>12, <1>17, <2>1 DEF RecipeInv
<1>21. ASSUME NEW v, NEW c, wire'[cl] = v, cur_chunk_num'[cl] = c, c \in Nat, ASeq(v),
              \A i \in 1 .. Len(v) : Message(v[i])
       PROVE  WireShape(cl)' /\ RecvShape(cl)'
  <2>1. WireShape(cl)'
    BY <1>21 DEF WireShape, Message
  <2>2. RecvShape(cl)'
    BY <1>12, <1>21 DEF RecvShape
  <2> QED BY <2>1, <2>2
<1> HIDE DEF R2
<1>22. ASSUME NEW i, NEW j, wire'[cl][i] = w[j], End(cl, i - 1)' = End(cl, j - 1), j # 1,
              i = 1 => cur_chunk_num'[cl] = 0
       PROVE  /\ ChunksInv(cl, j) => ChunksInv(cl, i)'
              /\ RecipeEndInv(cl, j) /\ i = Len(wire'[cl]) => RecipeEndInv(cl, i)'
  BY <1>17, <1>22 DEF ChunksInv, RecipeEndInv
<1>23. End(cl, 0)' = p
  BY <1>13 DEF End, R2
<1>24. ASSUME WireShape(cl)', RecvShape(cl)', WireInv(cl)',
              End(cl, Len(wire[cl]))' = End(cl, Len(wire[cl]))
       PROVE  Keeps(cl)
  <2>1. Shape(cl)'
    BY <1>4, <1>17, <1>24 DEF Shape, ThreadShape, KeyGenShape, SenderShape, RecvRest, fixedVars,
       keyGenVars, senderVars
  <2>2. SendBufInv(cl)'
    BY <1>5, <1>10, <1>17, <1>18, <1>24, <2>1, BeginsSame, SendBufFrame
  <2> QED BY <1>4, <1>19, <1>20, <1>24, <2>2, RecvKeeps
<1>25. CASE done
  <2> DEFINE v == Tail(w)
  <2>1. wire'[cl] = v /\ cur_chunk_num'[cl] = 0
    BY <1>4, <1>25 DEF Domains
  <2>2. rest = <<>>
    BY <1>16, <1>25
  <2> HIDE DEF v
  <2>3. ASeq(v) /\ Len(v) = Len(w) - 1 /\ Len(v) \in Nat
    BY <1>2, <1>3 DEF v, Domains
  <2>4. \A i \in 1 .. Len(v) : v[i] = w[i + 1] /\ i + 1 \in 2 .. Len(w)
    BY <1>2, <1>3, <2>3 DEF v, Domains
  <2>5. End(cl, 0)' = End(cl, 1)
    BY <1>15, <1>23, <2>2 DEF End
  <2>6. ASSUME NEW i \in 1 .. Len(v) PROVE End(cl, i)' = End(cl, i + 1)
    BY <2>1, <2>3, <2>4 DEF End
  <2>7. ASSUME NEW i \in 1 .. Len(v) PROVE End(cl, i - 1)' = End(cl, i)
    <3>1. CASE i = 1
      BY <2>5, <3>1
    <3>2. CASE i # 1
      <4>1. i - 1 \in 1 .. Len(v) /\ (i - 1) + 1 = i
        BY <2>3, <3>2
      <4>2. End(cl, i - 1)' = End(cl, (i - 1) + 1)
        BY <2>6, <4>1
      <4> QED BY <4>1, <4>2
    <3> QED BY <3>1, <3>2
  <2>8. WireShape(cl)' /\ RecvShape(cl)'
    <3>1. \A i \in 1 .. Len(v) : Message(v[i])
      BY <1>1, <1>2, <2>4 DEF Domains
    <3> QED BY <1>21, <2>1, <2>3, <3>1
  <2>9. ASSUME NEW i \in 1 .. Len(v)
        PROVE  \/ v[i].type = "chunks" /\ ChunksInv(cl, i)'
               \/ v[i].type = "recipe_end" /\ RecipeEndInv(cl, i)'
    <3>1. /\ i + 1 \in 1 .. Len(w) /\ i + 1 # 1 /\ (i + 1) - 1 = i /\ v[i] = w[i + 1]
      BY <2>3, <2>4
    <3>2. \/ w[i + 1].type = "chunks" /\ ChunksInv(cl, i + 1)
          \/ w[i + 1].type = "recipe_end" /\ RecipeEndInv(cl, i + 1)
      BY <1>5, <3>1 DEF WireInv
    <3>3. End(cl, i - 1)' = End(cl, (i + 1) - 1)
      BY <2>7, <3>1
    <3>4. RecipeEndInv(cl, i + 1) => i = Len(v)
      <4>1. RecipeEndInv(cl, i + 1) => i + 1 = Len(w)
        BY DEF RecipeEndInv
      <4> QED BY <1>2, <2>3, <4>1 DEF Domains
    <3>5. /\ ChunksInv(cl, i + 1) => ChunksInv(cl, i)'
          /\ RecipeEndInv(cl, i + 1) /\ i = Len(wire'[cl]) => RecipeEndInv(cl, i)'
      BY <1>22, <2>1, <3>1, <3>3
    <3> QED BY <2>1, <3>1, <3>2, <3>4, <3>5
  <2>10. WireInv(cl)'
    BY <2>1, <2>9 DEF WireInv
  <2>11. End(cl, Len(wire[cl]))' = End(cl, Len(wire[cl]))
    <3>1. PICK n \in Nat : n = Len(v)
      BY <2>3
    <3>2. Len(wire'[cl]) = n /\ Len(wire[cl]) = n + 1
      BY <1>2, <2>1, <2>3, <3>1 DEF Domains
    <3>3. End(cl, n)' = End(cl, n + 1)
      <4>1. CASE n = 0
        BY <2>5, <4>1
      <4>2. CASE n # 0
        <5>1. n \in 1 .. n
          BY <3>1, <4>2
        <5> QED BY <2>6, <3>1, <5>1
      <4> QED BY <4>1, <4>2
    <3> QED BY <3>2, <3>3
  <2> QED BY <1>24, <2>8, <2>10, <2>11
<1>26. CASE ~done
  <2> DEFINE msg2 == [type |-> msg.type, items |-> rest, cur_item_num |-> msg.cur_item_num]
             v == [w EXCEPT ![1] = msg2]
  <2>1. wire'[cl] = v /\ cur_chunk_num'[cl] = cur + 1
    <3>1. wire'[cl] = [w EXCEPT ![1].items = rest] /\ cur_chunk_num'[cl] = cur + 1
      BY <1>4, <1>26 DEF Domains
    <3>2. [msg EXCEPT !.items = rest] = msg2
      BY <1>7
    <3> QED BY <3>1, <3>2
  <2>2. rest # <<>>
    BY <1>16, <1>26
  <2>3. ASeq(v) /\ Len(v) = Len(w) /\ v[1] = msg2 /\ \A i \in 2 .. Len(w) : v[i] = w[i]
    BY <1>1, <1>2, FirstReplaced
  <2> HIDE DEF v
  <2>4. End(cl, 1)' = End(cl, 1)
    BY <1>15, <2>1, <2>2, <2>3 DEF End
  <2>5. ASSUME NEW i \in 1 .. Len(w) PROVE End(cl, i)' = End(cl, i)
    <3>1. CASE i = 1
      BY <2>4, <3>1
    <3>2. CASE i # 1
      <4>1. i \in 2 .. Len(w)
        BY <1>2, <3>2 DEF Domains
      <4> QED BY <2>1, <2>3, <4>1 DEF End
    <3> QED BY <3>1, <3>2
  <2>6. WireShape(cl)' /\ RecvShape(cl)'
    <3>1. Message(msg2)
      BY <1>7, <1>15 DEF Message
    <3>2. ASSUME NEW i \in 1 .. Len(v) PROVE Message(v[i])
      <4>1. i = 1 \/ i \in 2 .. Len(w)
        BY <1>2, <2>3 DEF Domains
      <4>2. i \in 1 .. Len(w)
        BY <2>3
      <4> QED BY <1>1, <2>3, <3>1, <4>1, <4>2
    <3>3. cur + 1 \in Nat
      BY <1>10 DEF Domains
    <3> QED BY <1>21, <2>1, <2>3, <3>2, <3>3
  <2>7. ChunksInv(cl, 1)'
    <3>1. Cardinality(CountedIn(rest)) + (cur + 1) = msg.cur_item_num
      BY <1>7, <1>9, <1>10, <1>15 DEF Domains
    <3>2. End(cl, 1 - 1)' = p
      BY <1>23
    <3>3. rest[1].place = p + 1 /\ ~IsCache(LastOf(rest)) /\ Sends(f, m, k, rest)
      BY <1>7, <1>15, <2>2
    <3> QED BY <1>17, <2>1, <2>2, <2>3, <3>1, <3>2, <3>3 DEF ChunksInv
  <2>8. ASSUME NEW i \in 1 .. Len(v)
        PROVE  \/ v[i].type = "chunks" /\ ChunksInv(cl, i)'
               \/ v[i].type = "recipe_end" /\ RecipeEndInv(cl, i)'
    <3>1. CASE i = 1
      BY <1>4, <2>3, <2>7, <3>1
    <3>2. CASE i # 1
      <4>1. i \in 2 .. Len(w) /\ i \in 1 .. Len(w) /\ i - 1 \in 1 .. Len(w)
        BY <1>2, <2>3, <3>2 DEF Domains
      <4>2. \/ w[i].type = "chunks" /\ ChunksInv(cl, i)
            \/ w[i].type = "recipe_end" /\ RecipeEndInv(cl, i)
        BY <1>5, <4>1 DEF WireInv
      <4>3. End(cl, i - 1)' = End(cl, i - 1)
        BY <2>5, <4>1
      <4>4. RecipeEndInv(cl, i) => i = Len(wire'[cl])
        BY <2>1, <2>3 DEF RecipeEndInv
      <4>5. /\ ChunksInv(cl, i) => ChunksInv(cl, i)'
            /\ RecipeEndInv(cl, i) /\ i = Len(wire'[cl]) => RecipeEndInv(cl, i)'
        BY <1>22, <2>1, <2>3, <3>2, <4>1, <4>3
      <4> QED BY <2>3, <4>1, <4>2, <4>4, <4>5
    <3> QED BY <3>1, <3>2
  <2>9. WireInv(cl)'
    <3>1. v # <<>>
      BY <1>2, <2>3, SeqFacts DEF Domains
    <3> QED BY <1>4, <2>1, <2>3, <2>8, <3>1 DEF WireInv
  <2>10. End(cl, Len(wire[cl]))' = End(cl, Len(wire[cl]))
    <3>1. Len(w) \in 1 .. Len(w) /\ Len(wire'[cl]) = Len(w)
      BY <1>2, <2>1, <2>3 DEF Domains
    <3>2. End(cl, Len(w))' = LastOf(wire'[cl][Len(w)'].items).place
      BY <3>1 DEF End
    <3> QED BY <2>5, <3>1 DEF End
  <2> QED BY <1>24, <2>6, <2>9, <2>10
<1> QED BY <1>25, <1>26

(* ProcessRecipeEnd: the head of the recipe is written when nothing is     *)
(* left on the wire.                                                       *)
LEMMA RecipeEndKeeps ==
  ASSUME NEW cl \in Client, Domains, Shape(cl), PlacesInv(cl), ProcessRecipeEnd(cl)
  PROVE  Keeps(cl)
<1> DEFINE w == wire[cl]
           msg == w[1]
           n == msg.cur_item_num
           fps2 == recipe[cl].fps \o recipe_batch[cl]
<1>1. ASeq(w) /\ \A i \in 1 .. Len(w) : Message(w[i])
  BY DEF Shape, WireShape
<1>2. w # <<>> /\ Len(w) \in Nat /\ Len(w) # 0 /\ 1 \in 1 .. Len(w)
  <2>1. w # <<>>
    BY DEF ProcessRecipeEnd
  <2>2. Len(w) \in Nat /\ Len(w) # 0
    BY <1>1, <2>1, SeqFacts
  <2> QED BY <2>1, <2>2 DEF Domains
<1>3. Head(w) = msg /\ ASeq(Tail(w)) /\ Len(Tail(w)) = Len(w) - 1
  BY <1>1, <1>2, TailFacts DEF Domains
<1>4. /\ msg.type = "recipe_end" /\ RecvRest
      /\ wire' = [wire EXCEPT ![cl] = Tail(@)]
      /\ recipe' = [recipe EXCEPT ![cl] = [head |-> n, fps |-> @.fps \o recipe_batch[cl]]]
      /\ UNCHANGED <<cur_chunk_num, recipe_batch>>
  BY <1>3 DEF ProcessRecipeEnd
<1>5. RecipeInv(cl) /\ WireInv(cl) /\ SendBufInv(cl)
  BY Parts
<1>6. RecipeEndInv(cl, 1) /\ cur_chunk_num[cl] = 0
  BY <1>2, <1>4, <1>5 DEF WireInv
<1>7. /\ Len(w) = 1 /\ client[cl] # "run" /\ n = Len(file[cl])
      /\ Len(Received(cl)) = Len(file[cl])
  BY <1>6 DEF RecipeEndInv, End
<1>8. recipe[cl].head = NoHead
  BY <1>2, <1>5 DEF RecipeInv
<1>9. wire'[cl] = <<>>
  <2>1. wire'[cl] = Tail(w)
    BY <1>4 DEF Domains
  <2>2. Len(Tail(w)) = 0
    BY <1>3, <1>7
  <2> QED BY <1>3, <2>1, <2>2, SeqFacts
<1>10. /\ recipe'[cl] = [head |-> n, fps |-> fps2] /\ ASeq(fps2) /\ Received(cl) = fps2
       /\ ASeq(recipe_batch[cl]) /\ n \in Nat /\ n # NoHead
  <2>1. ASeq(recipe[cl].fps) /\ ASeq(recipe_batch[cl])
    BY DEF Shape, RecvShape
  <2>2. ASeq(fps2)
    BY <2>1, ConcatFacts
  <2>3. n \in Nat
    BY <1>1, <1>2 DEF Message
  <2>4. n # NoHead
    BY <2>3 DEF NoHead
  <2> QED BY <1>4, <1>8, <2>1, <2>2, <2>3, <2>4 DEF Received, Domains
<1> HIDE DEF fps2
<1>11. Received(cl)' = Received(cl)
  <2>1. recipe'[cl].head = n /\ recipe'[cl].fps = fps2
    BY <1>10
  <2>2. Received(cl)' = recipe'[cl].fps
    BY <1>10, <2>1 DEF Received
  <2> QED BY <1>10, <2>1, <2>2
<1>12. /\ file'[cl] = file[cl] /\ method'[cl] = method[cl] /\ keys'[cl] = keys[cl]
       /\ client'[cl] = client[cl] /\ send_buf'[cl] = send_buf[cl]
       /\ key_buf'[cl] = key_buf[cl] /\ key_recipe'[cl] = key_recipe[cl]
       /\ cur_chunk_num'[cl] = cur_chunk_num[cl] /\ recipe_batch'[cl] = recipe_batch[cl]
  BY <1>4 DEF RecvRest, fixedVars, keyGenVars, senderVars
<1>13. Domains' /\ \A d \in Client \ {cl} : wire'[d] = wire[d] /\ RecvStill(d)
  <2>1. DOMAIN recipe' = Client /\ DOMAIN wire' = Client
    BY <1>4 DEF Domains
  <2>2. Domains'
    BY <1>4, <2>1 DEF RecvRest, kmVars, fixedVars, keyGenVars, senderVars, Domains
  <2>3. \A d \in Client \ {cl} : wire'[d] = wire[d] /\ recipe'[d] = recipe[d]
    BY <1>4 DEF Domains
  <2> QED BY <1>4, <2>2, <2>3 DEF RecvStill
<1>14. WireShape(cl)' /\ RecvShape(cl)'
  <2>1. WireShape(cl)'
    BY <1>9, EmptyASeq DEF WireShape
  <2>2. RecvShape(cl)'
    BY <1>6, <1>10, <1>12 DEF RecvShape
  <2> QED BY <2>1, <2>2
<1>15. WireInv(cl)'
  BY <1>6, <1>9, <1>12 DEF WireInv
<1>16. SendBufInv(cl)'
  <2>1. send_buf[cl].items = <<>>
    BY <1>5, <1>7 DEF SendBufInv
  <2>2. Open(cl)' <=> Open(cl)
    BY <1>12 DEF Open
  <2> QED BY <1>5, <1>7, <1>12, <2>1, <2>2 DEF SendBufInv
<1>17. RecipeInv(cl)'
  <2>1. Len(recipe[cl].fps) \in Nat /\ recipe'[cl].head = Len(file[cl])
        /\ Len(recipe'[cl].fps) = Len(file[cl])
    BY <1>7, <1>10, Lens
  <2> QED BY <1>5, <1>7, <1>9, <1>11, <1>12, <2>1 DEF RecipeInv
<1> QED BY <1>4, <1>13, <1>14, <1>15, <1>16, <1>17, RecvKeeps

-----------------------------------------------------------------------------
(* All steps, and what follows.                                            *)

(* The inductive invariant: the two above, the shape of the state and      *)
(* UploadInv, client by client.                                            *)
IInv ==
  /\ KeyGenInv /\ KmTypeOK /\ Domains /\ exited \subseteq Client
  /\ \A cl \in Client : Shape(cl) /\ PlacesInv(cl)

(* Nothing has been read of the file.                                      *)
LEMMA PlacesInit ==
  ASSUME Init, NEW cl \in Client
  PROVE  Shape(cl) /\ PlacesInv(cl)
<1>1. /\ next[cl] = 0 /\ chunk_buf[cl] = <<>> /\ asked[cl] = FALSE /\ client[cl] = "run"
      /\ key_gen_mq[cl] = <<>> /\ select_comp_mq[cl] = <<>> /\ send_buf[cl] = EmptyMsg
      /\ key_buf[cl] = <<>> /\ key_recipe[cl] = <<>> /\ wire[cl] = <<>>
      /\ cur_chunk_num[cl] = 0 /\ recipe_batch[cl] = <<>> /\ keys[cl] = <<>>
      /\ recipe[cl] = [head |-> NoHead, fps |-> <<>>] /\ km = "up"
  BY DEF Init, KmInit
<1>2. file[cl] \in Seq(Chunk) /\ Len(file[cl]) \in Nat /\ method[cl] \in Method
  <2>1. file[cl] \in Seq(Chunk)
    BY KeyGenInit DEF KeyGenInv
  <2>2. method \in [Client -> Method]
    BY DEF Init
  <2> QED BY <2>1, <2>2
<1>3. send_buf[cl].items = <<>> /\ send_buf[cl].cur_item_num = 0
  BY <1>1 DEF EmptyMsg
<1>4. ASeq(<<>>) /\ Len(<<>>) = 0
  BY EmptyASeq
<1>5. <<>> \o <<>> = <<>>
  BY EmptyASeq, ConcatEmpty
<1>6. Received(cl) = <<>> /\ Keys(cl) = <<>>
  BY <1>1, <1>5 DEF Received, Keys
<1>7. Shape(cl)
  <2>1. ThreadShape(cl) /\ KeyGenShape(cl)
    <3>1. asked[cl] \in BOOLEAN
      BY <1>1
    <3>2. chunk_buf[cl] \in Seq(Chunk) /\ next[cl] \in Nat
      BY <1>1
    <3> QED BY <1>1, <1>2, <1>4, <3>1, <3>2 DEF ThreadShape, KeyGenShape
  <2>2. SenderShape(cl) /\ WireShape(cl)
    BY <1>1, <1>3, <1>4 DEF SenderShape, WireShape
  <2>3. recipe[cl].fps = <<>> /\ recipe[cl].head = NoHead
        /\ recipe[cl] = [head |-> recipe[cl].head, fps |-> recipe[cl].fps]
    BY <1>1
  <2>4. RecvShape(cl)
    BY <1>1, <1>4, <2>3 DEF RecvShape
  <2> QED BY <2>1, <2>2, <2>4 DEF Shape
<1>8. Passed(cl) = 0 /\ SelEnd(cl) = 0 /\ Sent(cl) = 0 /\ ~Open(cl)
  BY <1>1, <1>2, <1>3, <1>6 DEF Passed, SelEnd, Sent, Open
<1>9. BatchInv(cl) /\ KeyGenMqInv(cl)
  BY <1>1, <1>2 DEF BatchInv, KeyGenMqInv
<1>10. AskInv(cl)
  BY <1>1, <1>2, ClientUploadAssumption DEF AskInv
<1>11. SelectInv(cl)
  BY <1>1, <1>8, SelectsNothing DEF SelectInv
<1>12. WireInv(cl)
  BY <1>1 DEF WireInv
<1>13. SendBufInv(cl)
  <2>1. End(cl, Len(wire[cl])) = 0
    BY <1>1, <1>6 DEF End
  <2> QED BY <1>1, <1>3, <1>6, <1>8, <2>1, SendsNothing, ClientUploadAssumption DEF SendBufInv
<1>14. KeyRecipeInv(cl) /\ RecipeInv(cl)
  BY <1>1, <1>2, <1>6, ClientUploadAssumption DEF KeyRecipeInv, RecipeInv
<1> QED BY <1>7, <1>9, <1>10, <1>11, <1>12, <1>13, <1>14 DEF PlacesInv

(* One lemma above for each action.                                        *)
LEMMA PlacesStep ==
  ASSUME IInv, NEW cl \in Client, ThreadShape(cl)',
         \/ Running(cl) /\ ClientThread(cl)
         \/ KmThreads(cl) \/ RecvThread(cl) \/ Die(cl)
  PROVE  Domains' /\ \A d \in Client : Shape(d)' /\ PlacesInv(d)'
<1>1. Domains /\ KmTypeOK /\ Shape(cl) /\ PlacesInv(cl)
      /\ \A d \in Client : Shape(d) /\ PlacesInv(d)
  BY DEF IInv
<1>2. ASSUME Keeps(cl) PROVE Domains' /\ \A d \in Client : Shape(d)' /\ PlacesInv(d)'
  <2>1. \A d \in Client \ {cl} : Shape(d)' /\ PlacesInv(d)'
    BY <1>1, <1>2, StillKeeps DEF Keeps
  <2> QED BY <1>2, <2>1 DEF Keeps
<1>3. CASE Running(cl) /\ KeyGen(cl)
  <2>1. CASE PopChunk(cl)
    BY <1>1, <1>2, <1>3, <2>1, PopKeeps
  <2>2. CASE AskForSeeds(cl)
    BY <1>1, <1>2, <1>3, <2>2, AskKeeps
  <2>3. CASE KeyGenFails(cl)
    BY <1>1, <1>2, <1>3, <2>3, GoneKeeps DEF KeyGenFails
  <2>4. CASE GetSeeds(cl)
    BY <1>1, <1>2, <1>3, <2>4, GetKeeps
  <2>5. CASE PassRecipe(cl)
    BY <1>1, <1>2, <1>3, <2>5, PassKeeps
  <2>6. CASE FinishKm(cl)
    BY <1>1, <1>2, <1>3, <2>6, FinishKeeps
  <2> QED BY <1>3, <2>1, <2>2, <2>3, <2>4, <2>5, <2>6 DEF KeyGen
<1>4. CASE Running(cl) /\ SelectComp(cl)
  BY <1>1, <1>2, <1>4, SelectKeeps
<1>5. CASE Running(cl) /\ SendChunk(cl)
  BY <1>1, <1>2, <1>5, SendChunkKeeps
<1>6. CASE Running(cl) /\ SendRecipeEnd(cl)
  BY <1>1, <1>2, <1>6, SendRecipeEndKeeps
<1>7. CASE Running(cl) /\ CloseKeyRecipe(cl)
  BY <1>1, <1>2, <1>7, CloseKeeps
<1>8. CASE KmThreads(cl)
  BY <1>1, <1>8, KmKeeps, StillKeeps
<1>9. CASE RecvThread(cl)
  BY <1>1, <1>2, <1>9, ChunkKeeps, RecipeEndKeeps DEF RecvThread
<1>10. CASE Die(cl)
  BY <1>1, <1>2, <1>10, GoneKeeps DEF Die
<1> QED BY <1>3, <1>4, <1>5, <1>6, <1>7, <1>8, <1>9, <1>10 DEF ClientThread

(* Only programs of clients exit.                                          *)
LEMMA ExitedStep ==
  ASSUME exited \subseteq Client, [Next]_vars
  PROVE  exited' \subseteq Client
<1>1. CASE UNCHANGED vars
  BY <1>1 DEF vars, clientVars
<1>2. ASSUME NEW cl \in Client, ClientThread(cl) PROVE exited' \subseteq Client
  <2>1. CASE KeyGen(cl)
    BY <2>1 DEF KeyGen, PopChunk, AskForSeeds, KeyGenFails, GetSeeds, PassRecipe, FinishKm,
       KeyGenRest
  <2>2. CASE SelectComp(cl) \/ SendChunk(cl) \/ SendRecipeEnd(cl) \/ CloseKeyRecipe(cl)
    BY <2>2 DEF SelectComp, SendChunk, SendRecipeEnd, CloseKeyRecipe, SenderRest
  <2> QED BY <1>2, <2>1, <2>2 DEF ClientThread
<1>3. ASSUME NEW cl \in Client, KmThreads(cl) \/ RecvThread(cl) \/ Die(cl)
      PROVE  exited' \subseteq Client
  BY <1>3 DEF KmThreads, DropSeeds, SendSeedsFails, clientVars, RecvThread, ProcessChunk,
     ProcessRecipeEnd, RecvRest, Die
<1> QED BY <1>1, <1>2, <1>3 DEF Next

LEMMA IInvStep ==
  ASSUME IInv, [Next]_vars
  PROVE  IInv'
<1>1. KeyGenInv' /\ KmTypeOK'
  BY KeyGenStep, KmTypeStep DEF IInv
<1>2. \A cl \in Client : ThreadShape(cl)'
  BY <1>1 DEF KeyGenInv, ThreadShape
<1>3. exited' \subseteq Client
  BY ExitedStep DEF IInv
<1>4. Domains' /\ \A d \in Client : Shape(d)' /\ PlacesInv(d)'
  <2>1. CASE UNCHANGED vars
    <3>1. \A d \in Client : Still(d)
      BY <2>1 DEF vars, kmVars, clientVars, fixedVars, keyGenVars, senderVars, recvVars, Still,
         FixedStill, KeyGenStill, SenderStill, RecvStill, KmStill
    <3>2. Domains'
      BY <2>1 DEF IInv, Domains, vars, kmVars, clientVars, fixedVars, keyGenVars, senderVars,
         recvVars
    <3> QED BY <3>1, <3>2, StillKeeps DEF IInv
  <2>2. CASE Next
    BY <1>2, <2>2, PlacesStep DEF Next
  <2> QED BY <2>1, <2>2
<1> QED BY <1>1, <1>3, <1>4 DEF IInv

(* The inductive invariant holds in every behaviour of the uploading       *)
(* clients, the key manager and DataRecvThd.                               *)
THEOREM PlacesFollow == Spec => []IInv
<1>1. Init => IInv
  <2> SUFFICES ASSUME Init PROVE IInv
    OBVIOUS
  <2>1. KeyGenInv
    BY KeyGenInit
  <2>2. KmInit => KmTypeOK
    BY KmTypeInit
  <2>3. Domains /\ exited \subseteq Client
    <3>1. DOMAIN file = Client
      BY <2>1 DEF KeyGenInv
    <3> QED BY <3>1 DEF Init, KmInit, Domains
  <2> QED BY <2>1, <2>2, <2>3, PlacesInit DEF IInv, Init
<1>2. IInv /\ [Next]_vars => IInv'
  BY IInvStep
<1> QED BY <1>1, <1>2, PTL DEF Spec

(* The chunks of a file keep their places between KeyGenThd::Run and the   *)
(* recipe that DataRecvThd::ProcessRecipe writes, through the queues,      *)
(* buffers and messages, and each stage starts where the one behind it     *)
(* ends.                                                                   *)
THEOREM UploadPlaces == Spec => []UploadInv
<1>1. IInv => UploadInv
  BY DEF IInv, UploadInv
<1> QED BY <1>1, PlacesFollow, PTL

(* SenderThd never fills more than the room for twice the chunks of a      *)
(* batch (sender_thd.cc:31): each cached chunk of the message but the last *)
(* is followed by one that counts.                                         *)
LEMMA BuffersBounded ==
  ASSUME NEW cl \in Client, Domains, Shape(cl), PlacesInv(cl)
  PROVE  Len(send_buf[cl].items) < 2 * ChunkBatch /\ send_buf[cl].cur_item_num < ChunkBatch
<1> DEFINE l == Len(send_buf[cl].items)
           n == send_buf[cl].cur_item_num
<1>1. n < ChunkBatch /\ l <= 2 * n + (IF Open(cl) THEN 1 ELSE 0)
  BY Parts DEF SendBufInv
<1>2. l \in Nat /\ n \in Nat /\ ChunkBatch \in Nat
  BY Lens, ClientUploadAssumption DEF Shape, SenderShape
<1> HIDE DEF l, n
<1>3. l < 2 * ChunkBatch
  BY <1>1, <1>2
<1> QED BY <1>1, <1>3 DEF l, n

(* The shape of the state of an upload, and the bounds of the buffers of   *)
(* KeyGenThd, SenderThd and DataRecvThd (KeyGenThd::AddChunkToBuf,         *)
(* SenderThd::SendChunk, SenderThd::StoreKeyRecipe,                        *)
(* DataRecvThd::ProcessRecipe).                                            *)
THEOREM UploadTypes == Spec => []TypeOK
<1>1. ASSUME IInv, NEW cl \in Client
      PROVE  /\ client[cl] \in {"run", "sent", "closed", "gone"}
             /\ next[cl] \in 0 .. Len(file[cl]) + 2
             /\ Len(chunk_buf[cl]) <= ChunkBatch
             /\ asked[cl] => chunk_buf[cl] # <<>>
             /\ asked[cl] /\ km = "up" => recv_req[cl] = chunk_buf[cl]
             /\ Len(send_buf[cl].items) < 2 * ChunkBatch
             /\ send_buf[cl].cur_item_num < ChunkBatch
             /\ Len(key_buf[cl]) < RecipeBatch
             /\ Len(recipe_batch[cl]) < RecipeBatch
             /\ recipe[cl].head \in Nat \cup {NoHead}
  <2>1. Domains /\ Shape(cl) /\ PlacesInv(cl)
    BY <1>1 DEF IInv
  <2>2. AskInv(cl) /\ KeyRecipeInv(cl) /\ RecipeInv(cl)
    BY <2>1, Parts
  <2>3. next[cl] \in 0 .. Len(file[cl]) + 2
    <3>1. next[cl] \in Nat /\ Len(file[cl]) \in Nat /\ next[cl] <= Len(file[cl]) + 2
      BY <2>1, <2>2, Lens DEF Shape, ThreadShape, AskInv
    <3> QED BY <2>1, <3>1 DEF Domains
  <2>4. Len(send_buf[cl].items) < 2 * ChunkBatch /\ send_buf[cl].cur_item_num < ChunkBatch
    BY <2>1, BuffersBounded
  <2>5. client[cl] \in {"run", "sent", "closed", "gone"} /\ recipe[cl].head \in Nat \cup {NoHead}
    BY <2>1 DEF Shape, ThreadShape, RecvShape
  <2>6. /\ Len(chunk_buf[cl]) <= ChunkBatch
        /\ asked[cl] => chunk_buf[cl] # <<>>
        /\ asked[cl] /\ km = "up" => recv_req[cl] = chunk_buf[cl]
        /\ Len(key_buf[cl]) < RecipeBatch /\ Len(recipe_batch[cl]) < RecipeBatch
    BY <2>2 DEF AskInv, KeyRecipeInv, RecipeInv
  <2> QED BY <2>3, <2>4, <2>5, <2>6
<1>2. IInv => TypeOK
  <2>1. IInv => KmTypeOK /\ exited \subseteq Client
    BY DEF IInv
  <2> QED BY <1>1, <2>1 DEF TypeOK
<1> QED BY <1>2, PlacesFollow, PTL

(* Behind each cached chunk of a message is the compressed form of the     *)
(* same chunk, under the same key.                                         *)
LEMMA PairsWhole ==
  ASSUME NEW cl \in Client, Shape(cl), PlacesInv(cl), NEW s, ASeq(s),
         Sends(file[cl], method[cl], keys[cl], s), s # <<>>, ~IsCache(LastOf(s)),
         NEW i \in 1 .. Len(s), s[i].type = "cache"
  PROVE  i < Len(s) /\ PairOf(s[i], s[i + 1])
<1> DEFINE f == file[cl]
           m == method[cl]
           k == keys[cl]
           p == s[i].place
<1>1. /\ Len(s) \in Nat /\ Len(f) \in Nat /\ Len(k) \in Nat /\ m \in Method
      /\ f \in Seq(Chunk) /\ Len(k) <= Len(f)
      /\ \A j \in 1 .. Len(k) : \E seed \in Chunk : k[j] = KeyOf(f[j], seed)
  BY SeqFacts, Lens, Parts DEF Shape, KeyGenShape, ThreadShape, BatchInv
<1> HIDE DEF f, m, k
<1>2. IsCache(s[i]) /\ i # Len(s)
  BY DEF IsCache, LastOf
<1>3. i < Len(s) /\ i \in 1 .. Len(s) - 1 /\ i + 1 \in 1 .. Len(s)
  BY <1>1, <1>2
<1>4. Sends(f, m, k, s)
  BY DEF f, m, k
<1>5. s[i + 1].place = p /\ s[i + 1].type = "normal"
  <2>1. p \in 1 .. Len(k) /\ s[i + 1].place = p + (IF IsCache(s[i]) THEN 0 ELSE 1)
    BY <1>3, <1>4 DEF Sends, Ordered
  <2> QED BY <1>2, <1>3, <1>4, <2>1 DEF Sends
<1>6. /\ p \in 1 .. Len(k) /\ WireForm(m, f[p], k[p], s[i]) /\ WireForm(m, f[p], k[p], s[i + 1])
  BY <1>3, <1>4, <1>5 DEF Sends
<1>7. m = "full_edr"
  BY <1>1, <1>6 DEF WireForm, Method
<1>8. s[i].data = Enc(Raw(f[p]), k[p]) /\ s[i + 1].data = Enc(Compressed(f[p]), k[p])
  BY <1>5, <1>6, <1>7 DEF WireForm
<1>9. f[p] \in Chunk
  <2>1. p \in 1 .. Len(f)
    BY <1>1, <1>6
  <2> QED BY <1>1, <2>1
<1>10. PICK seed \in Chunk : k[p] = KeyOf(f[p], seed)
  BY <1>1, <1>6
<1> QED BY <1>3, <1>5, <1>8, <1>9, <1>10 DEF PairOf

(* DataRecvThd::ProcessChunks finds in each message the cur_item_num       *)
(* chunks it reads, each cached chunk together with its compressed form.   *)
THEOREM UploadPairs == Spec => []WholePairs
<1>1. ASSUME IInv, NEW cl \in Client, NEW j \in 1 .. Len(wire[cl]), wire[cl][j].type = "chunks"
      PROVE  LET items == wire[cl][j].items IN
             /\ Cardinality({i \in 1 .. Len(items) : items[i].type # "cache"})
                  + (IF j = 1 THEN cur_chunk_num[cl] ELSE 0) = wire[cl][j].cur_item_num
             /\ \A i \in 1 .. Len(items) : items[i].type = "cache" =>
                  i < Len(items) /\ PairOf(items[i], items[i + 1])
  <2>1. Shape(cl) /\ PlacesInv(cl) /\ WireInv(cl)
    BY <1>1, Parts DEF IInv
  <2>2. ChunksInv(cl, j) /\ ASeq(wire[cl][j].items)
    BY <1>1, <2>1 DEF WireInv, Shape, WireShape, Message
  <2> QED BY <2>1, <2>2, PairsWhole DEF ChunksInv, CountedIn
<1>2. IInv => WholePairs
  BY <1>1 DEF WholePairs
<1> QED BY <1>2, PlacesFollow, PTL

(* The i-th fingerprint that DataRecvThd::ProcessRecipe records is that of *)
(* the i-th chunk of the file under the i-th key that                      *)
(* SenderThd::StoreKeyRecipe keeps.                                        *)
THEOREM UploadRecipe == Spec => []RecipeMatchesKeys
<1>1. ASSUME IInv, NEW cl \in Client
      PROVE  /\ Len(Received(cl)) <= Len(file[cl])
             /\ \A i \in 1 .. Len(Received(cl)) \cap 1 .. Len(Keys(cl)) :
                  Received(cl)[i] = Fingerprint(method[cl], file[cl][i], Keys(cl)[i])
  <2>1. Domains /\ Shape(cl) /\ RecipeInv(cl) /\ KeyRecipeInv(cl) /\ BatchInv(cl)
    BY <1>1, Parts DEF IInv
  <2>2. Len(Received(cl)) <= Len(file[cl])
    <3> DEFINE a == Len(Received(cl))
               b == Len(keys[cl])
               c == Len(file[cl])
    <3>1. a \in Nat /\ b \in Nat /\ c \in Nat /\ b <= c /\ \A i \in 1 .. a : i <= b
      BY <2>1, ReceivedFacts, Lens DEF BatchInv, RecipeInv
    <3> HIDE DEF a, b, c
    <3>2. a <= c
      BY <3>1
    <3> QED BY <3>2 DEF a, c
  <2>3. ASSUME NEW i \in 1 .. Len(Received(cl)) \cap 1 .. Len(Keys(cl))
        PROVE  Received(cl)[i] = Fingerprint(method[cl], file[cl][i], Keys(cl)[i])
    BY <2>1, <2>3 DEF RecipeInv, KeyRecipeInv
  <2> QED BY <2>2, <2>3
<1>2. IInv => RecipeMatchesKeys
  BY <1>1 DEF RecipeMatchesKeys
<1> QED BY <1>2, PlacesFollow, PTL

(* A recipe that has its head has a fingerprint for every chunk of the     *)
(* file, and the key recipe a key for every chunk unless the client died   *)
(* before it closed it (DataRecvThd::ProcessRecipeEnd, SenderThd::Run).    *)
THEOREM UploadComplete == Spec => []CompleteTogether
<1>1. ASSUME IInv, NEW cl \in Client
      PROVE  /\ recipe[cl].head # NoHead =>
                  /\ recipe[cl].head = Len(file[cl])
                  /\ Len(recipe[cl].fps) = Len(file[cl])
                  /\ client[cl] = "gone" \/ Len(key_recipe[cl]) = Len(file[cl])
             /\ client[cl] = "closed" => Len(key_recipe[cl]) = Len(file[cl])
  <2>1. Shape(cl) /\ RecipeInv(cl) /\ KeyRecipeInv(cl)
    BY <1>1, Parts DEF IInv
  <2> QED BY <2>1 DEF RecipeInv, KeyRecipeInv, Shape, ThreadShape
<1>2. IInv => CompleteTogether
  BY <1>1 DEF CompleteTogether
<1> QED BY <1>2, PlacesFollow, PTL
=============================================================================
