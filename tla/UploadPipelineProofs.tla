------------------------ MODULE UploadPipelineProofs ------------------------
(***************************************************************************)
(* The server's upload path for any number of sessions at once, of any     *)
(* method, over any chunks and features: nothing a recipe names is lost,   *)
(* every address leads to its chunk, and sessions of method FULL_EDR stop  *)
(* no thread.  And for any number of sessions one after the other: no      *)
(* chunk is stored twice, what has ended is in files and can be restored.  *)
(***************************************************************************)
EXTENDS UploadPipeline, SimilarPolicyProofs

(* What a queue holds, whatever the order.                                 *)
Holds(cl, q) == {mq[cl][q][i] : i \in 1 .. Len(mq[cl][q])}

(* What a thread has in its hands, by where it is.                         *)
HandsInv ==
  \A cl \in Client :
    /\ recv[cl] = "insert" => recv_hand[cl] \in Chunk
    /\ recv[cl] # "insert" => recv_hand[cl] = NoBase
    /\ dual[cl] = "insert" => dual_hand[cl] \in Item
    /\ writer[cl] = "pop" => writer_hand[cl] = EmptyHand
    /\ writer[cl] \notin {"pop", "tail", "end"} =>
         /\ writer_hand[cl].chunk \in Chunk
         /\ IsReal(writer_hand[cl].addr)
    /\ writer[cl] = "query" => writer_hand[cl].addr.base_fp \in Chunk

(* A thread has left its loop only after the one before it, and has        *)
(* emptied its queue.                                                      *)
EndsInv ==
  \A cl \in Client :
    /\ dual[cl] = "end" => recv[cl] = "end" /\ Holds(cl, "recv_2_dual") = {}
    /\ comp[cl] = "end" => dual[cl] = "end" /\ Holds(cl, "dual_2_comp") = {}
    /\ writer[cl] \in {"tail", "end"} =>
         comp[cl] = "end" /\ Holds(cl, "comp_2_writer") = {}

(* A real address, and one that is about to be published, leads home.      *)
AddrHome(addr, c) ==
  LET at == addr.container_id IN
  /\ at \in ContainerId
  /\ at[2] \in DOMAIN Containers(at[1])
  /\ addr.offset \in DOMAIN Containers(at[1])[at[2]]
  /\ Containers(at[1])[at[2]][addr.offset].chunk = c
  /\ Containers(at[1])[at[2]][addr.offset].stat = addr.stat
HomeInv ==
  /\ \A c \in RealChunks : AddrHome(fp_2_addr[c], c)
  /\ \A cl \in Client : writer[cl] \in {"index", "addr"} =>
       AddrHome(writer_hand[cl].addr, writer_hand[cl].chunk)

(* An address is filled in, claimed, or not there.                         *)
InIndex(c) == fp_2_addr[c] # NoAddr
AddrInv ==
  \A c \in Chunk : InIndex(c) => fp_2_addr[c].stat = "virtual" \/ IsReal(fp_2_addr[c])

(* What is past DetectDuplicate has been claimed in the fp index, and so   *)
(* have the bases that features lead to.                                   *)
ClaimedInv ==
  /\ \A cl \in Client :
       /\ \A q \in {"dual_2_comp", "comp_2_writer"} :
            \A e \in Holds(cl, q) : InIndex(e.chunk)
       /\ writer[cl] \notin {"pop", "tail", "end"} => InIndex(writer_hand[cl].chunk)
       /\ writer[cl] = "query" => InIndex(writer_hand[cl].addr.base_fp)
  /\ \A f \in Known(feature_2_fp) : InIndex(feature_2_fp[f])

(* Sessions of method FULL_EDR do not bring what DualDedupThd exits on.    *)
NoNormal ==
  \A cl \in Client :
    /\ recv[cl] # "insert"
    /\ \A e \in Holds(cl, "recv_2_dual") : e.stat # "UNIQUE_CHUNK"

(* A chunk that some session still has to store, and one that a session    *)
(* has claimed and still has to store.                                     *)
Claims(cl, c) ==
  \/ \E e \in Holds(cl, "recv_2_dual") : e.stat = "UNIQUE_CHUNK" /\ e.chunk = c
  \/ \E q \in {"dual_2_comp", "comp_2_writer"} : \E e \in Holds(cl, q) : e.chunk = c
  \/ writer_hand[cl].chunk = c
Carries(cl, c) ==
  \/ \E q \in Queue : \E e \in Holds(cl, q) : e.chunk = c
  \/ recv_hand[cl] = c
  \/ dual[cl] = "insert" /\ dual_hand[cl].chunk = c
  \/ writer_hand[cl].chunk = c
FlightInv ==
  server = "up" => \A c \in Chunk :
    /\ fp_2_addr[c].stat = "virtual" => \E cl \in Client : Claims(cl, c)
    /\ (\E cl \in Client : c \in recipe[cl]) =>
         IsReal(fp_2_addr[c]) \/ \E cl \in Client : Carries(cl, c)

ExitInv == (\A cl \in Client : Method[cl] = "FULL_EDR") => NoNormal /\ NoExit

IInv ==
  /\ TypeOK /\ HandsInv /\ EndsInv /\ HomeInv
  /\ AddrInv /\ ClaimedInv /\ ExitInv /\ FlightInv

USE SimilarAssumption, ContainerAssumption, PipelineAssumption

-----------------------------------------------------------------------------
(* Queues                                                                  *)

LEMMA SeqItems ==
  ASSUME NEW S, NEW s \in Seq(S)
  PROVE  /\ \A e \in S : {Append(s, e)[i] : i \in 1 .. Len(Append(s, e))}
                           = {s[i] : i \in 1 .. Len(s)} \cup {e}
         /\ s # <<>> => /\ Head(s) \in S /\ Tail(s) \in Seq(S)
                        /\ {s[i] : i \in 1 .. Len(s)}
                             = {Tail(s)[i] : i \in 1 .. Len(Tail(s))} \cup {Head(s)}
<1>1. ASSUME NEW e \in S
      PROVE  {Append(s, e)[i] : i \in 1 .. Len(Append(s, e))}
               = {s[i] : i \in 1 .. Len(s)} \cup {e}
  <2>1. /\ Len(Append(s, e)) = Len(s) + 1 /\ Append(s, e)[Len(s) + 1] = e
        /\ \A i \in 1 .. Len(s) : Append(s, e)[i] = s[i]
    OBVIOUS
  <2>2. \A i \in 1 .. Len(s) + 1 : i = Len(s) + 1 \/ i \in 1 .. Len(s)
    OBVIOUS
  <2>3. Len(s) \in Nat
    OBVIOUS
  <2>4. QED
    BY <2>1, <2>2, <2>3
<1>2. ASSUME s # <<>>
      PROVE  /\ Head(s) \in S /\ Tail(s) \in Seq(S)
             /\ {s[i] : i \in 1 .. Len(s)}
                  = {Tail(s)[i] : i \in 1 .. Len(Tail(s))} \cup {Head(s)}
  <2>1. /\ Head(s) \in S /\ Tail(s) \in Seq(S) /\ Head(s) = s[1]
        /\ Len(Tail(s)) = Len(s) - 1 /\ Len(s) \in Nat /\ Len(s) >= 1
        /\ \A i \in 1 .. Len(s) - 1 : Tail(s)[i] = s[i + 1]
    BY <1>2
  <2>2. ASSUME NEW i \in 1 .. Len(s)
        PROVE  i = 1 \/ (i - 1 \in 1 .. Len(Tail(s)) /\ Tail(s)[i - 1] = s[i])
    BY <2>1
  <2>3. ASSUME NEW i \in 1 .. Len(Tail(s))
        PROVE  i + 1 \in 1 .. Len(s) /\ Tail(s)[i] = s[i + 1]
    BY <2>1
  <2>4. ASSUME NEW e \in {s[i] : i \in 1 .. Len(s)}
        PROVE  e \in {Tail(s)[i] : i \in 1 .. Len(Tail(s))} \cup {Head(s)}
    <3>1. PICK i \in 1 .. Len(s) : e = s[i]
      OBVIOUS
    <3>2. QED
      BY <2>1, <2>2, <3>1
  <2>5. ASSUME NEW e \in {Tail(s)[i] : i \in 1 .. Len(Tail(s))} \cup {Head(s)}
        PROVE  e \in {s[i] : i \in 1 .. Len(s)}
    <3>1. 1 \in 1 .. Len(s)
      BY <2>1
    <3>2. CASE e = Head(s)
      BY <2>1, <3>1, <3>2
    <3>3. CASE e # Head(s)
      <4>1. PICK i \in 1 .. Len(Tail(s)) : e = Tail(s)[i]
        BY <3>3
      <4>2. QED
        BY <2>3, <4>1
    <3>4. QED
      BY <3>2, <3>3
  <2>6. QED
    BY <2>1, <2>4, <2>5
<1>3. QED
  BY <1>1, <1>2

QueueType == [Client -> [Queue -> Seq(Item)]]

LEMMA PushFacts ==
  ASSUME mq \in QueueType, NEW cl \in Client, NEW q \in Queue, NEW e \in Item, Push(cl, q, e)
  PROVE  /\ mq' \in QueueType
         /\ Holds(cl, q)' = Holds(cl, q) \cup {e}
         /\ \A d \in Client, r \in Queue : d # cl \/ r # q => Holds(d, r)' = Holds(d, r)
<1>1. /\ mq' \in QueueType /\ mq'[cl][q] = Append(mq[cl][q], e)
      /\ \A d \in Client, r \in Queue : d # cl \/ r # q => mq'[d][r] = mq[d][r]
  BY DEF Push, QueueType
<1>2. mq[cl][q] \in Seq(Item)
  BY DEF QueueType
<1>3. {Append(mq[cl][q], e)[i] : i \in 1 .. Len(Append(mq[cl][q], e))}
        = {mq[cl][q][i] : i \in 1 .. Len(mq[cl][q])} \cup {e}
  BY <1>2, SeqItems
<1>4. Holds(cl, q)' = Holds(cl, q) \cup {e}
  BY <1>1, <1>3 DEF Holds
<1>5. \A d \in Client, r \in Queue : d # cl \/ r # q => Holds(d, r)' = Holds(d, r)
  BY <1>1 DEF Holds
<1>6. QED
  BY <1>1, <1>4, <1>5

LEMMA PopFacts ==
  ASSUME mq \in QueueType, NEW cl \in Client, NEW q \in Queue, mq[cl][q] # <<>>, Pop(cl, q)
  PROVE  /\ mq' \in QueueType
         /\ Head(mq[cl][q]) \in Item
         /\ Holds(cl, q) = Holds(cl, q)' \cup {Head(mq[cl][q])}
         /\ \A d \in Client, r \in Queue : d # cl \/ r # q => Holds(d, r)' = Holds(d, r)
<1> DEFINE s == mq[cl][q]
<1>1. s \in Seq(Item) /\ s # <<>>
  BY DEF QueueType
<1> HIDE DEF s
<1>2. /\ Head(s) \in Item /\ Tail(s) \in Seq(Item)
      /\ {s[i] : i \in 1 .. Len(s)} = {Tail(s)[i] : i \in 1 .. Len(Tail(s))} \cup {Head(s)}
  BY <1>1, SeqItems
<1>3. /\ mq' \in QueueType /\ mq'[cl][q] = Tail(s)
      /\ \A d \in Client, r \in Queue : d # cl \/ r # q => mq'[d][r] = mq[d][r]
  BY <1>2 DEF Pop, QueueType, s
<1>4. /\ Holds(cl, q) = {s[i] : i \in 1 .. Len(s)}
      /\ Holds(cl, q)' = {Tail(s)[i] : i \in 1 .. Len(Tail(s))}
  BY <1>3 DEF Holds, s
<1>5. \A d \in Client, r \in Queue : d # cl \/ r # q => Holds(d, r)' = Holds(d, r)
  BY <1>3 DEF Holds
<1>6. QED
  BY <1>2, <1>3, <1>4, <1>5 DEF s

LEMMA ForwardFacts ==
  ASSUME mq \in QueueType, NEW cl \in Client, NEW q \in Queue, NEW to \in Queue \ {q},
         NEW e \in Item, mq[cl][q] # <<>>, Forward(cl, q, to, e)
  PROVE  /\ mq' \in QueueType
         /\ Head(mq[cl][q]) \in Item
         /\ Holds(cl, q) = Holds(cl, q)' \cup {Head(mq[cl][q])}
         /\ Holds(cl, to)' = Holds(cl, to) \cup {e}
         /\ \A d \in Client, r \in Queue : d # cl \/ r \notin {q, to} => Holds(d, r)' = Holds(d, r)
<1> DEFINE s == mq[cl][q] t == mq[cl][to]
<1>1. s \in Seq(Item) /\ s # <<>> /\ t \in Seq(Item)
  BY DEF QueueType
<1> HIDE DEF s, t
<1>2. /\ Head(s) \in Item /\ Tail(s) \in Seq(Item)
      /\ {s[i] : i \in 1 .. Len(s)} = {Tail(s)[i] : i \in 1 .. Len(Tail(s))} \cup {Head(s)}
  BY <1>1, SeqItems
<1>3. {Append(t, e)[i] : i \in 1 .. Len(Append(t, e))} = {t[i] : i \in 1 .. Len(t)} \cup {e}
  BY <1>1, SeqItems
<1>4. /\ mq' \in QueueType /\ mq'[cl][q] = Tail(s) /\ mq'[cl][to] = Append(t, e)
      /\ \A d \in Client, r \in Queue : d # cl \/ r \notin {q, to} => mq'[d][r] = mq[d][r]
  BY <1>1, <1>2 DEF Forward, QueueType, s, t
<1>5. /\ Holds(cl, q) = {s[i] : i \in 1 .. Len(s)}
      /\ Holds(cl, q)' = {Tail(s)[i] : i \in 1 .. Len(Tail(s))}
      /\ Holds(cl, to) = {t[i] : i \in 1 .. Len(t)}
      /\ Holds(cl, to)' = {Append(t, e)[i] : i \in 1 .. Len(Append(t, e))}
  BY <1>4 DEF Holds, s, t
<1>6. \A d \in Client, r \in Queue : d # cl \/ r \notin {q, to} => Holds(d, r)' = Holds(d, r)
  BY <1>4 DEF Holds
<1>7. QED
  BY <1>2, <1>3, <1>4, <1>5, <1>6 DEF s

(* An item of a queue with a given stat is its head.                       *)
LEMMA HeadFacts ==
  ASSUME mq \in QueueType, NEW cl \in Client, NEW q \in Queue, NEW stat, HasItem(cl, q, stat)
  PROVE  /\ mq[cl][q] # <<>> /\ Head(mq[cl][q]) \in Item
         /\ Head(mq[cl][q]) \in Holds(cl, q) /\ Head(mq[cl][q]).stat = stat
<1>1. mq[cl][q] \in Seq(Item) /\ mq[cl][q] # <<>>
  BY DEF QueueType, HasItem
<1>2. /\ Head(mq[cl][q]) \in Item
      /\ {mq[cl][q][i] : i \in 1 .. Len(mq[cl][q])}
           = {Tail(mq[cl][q])[i] : i \in 1 .. Len(Tail(mq[cl][q]))} \cup {Head(mq[cl][q])}
  BY <1>1, SeqItems
<1>3. Head(mq[cl][q]) \in Holds(cl, q)
  BY <1>2 DEF Holds
<1>4. QED
  BY <1>1, <1>2, <1>3 DEF HasItem

-----------------------------------------------------------------------------
(* Types and what is in the threads' hands.                                *)

LEMMA AddrFacts ==
  /\ NoAddr \in Addr /\ Virtual \in Addr /\ EmptyHand \in Hand
  /\ Virtual # NoAddr /\ Virtual.stat = "virtual" /\ NoAddr.stat = "none"
  /\ \A c \in Chunk, stat \in Stat, b \in Chunk \cup {NoBase} :
       /\ HandOf(c, stat, b) \in Hand /\ HandOf(c, stat, b).chunk = c
       /\ HandOf(c, stat, b).addr.stat = stat /\ HandOf(c, stat, b).addr.base_fp = b
<1>1. /\ NoAddr \in Addr /\ Virtual \in Addr /\ EmptyHand \in Hand
      /\ Virtual # NoAddr /\ Virtual.stat = "virtual" /\ NoAddr.stat = "none"
  BY DEF NoAddr, Virtual, EmptyHand, Addr, Hand, Stat, Read
<1>2. ASSUME NEW c \in Chunk, NEW stat \in Stat, NEW b \in Chunk \cup {NoBase}
      PROVE  /\ HandOf(c, stat, b) \in Hand /\ HandOf(c, stat, b).chunk = c
             /\ HandOf(c, stat, b).addr.stat = stat /\ HandOf(c, stat, b).addr.base_fp = b
  <2> DEFINE addr == [NoAddr EXCEPT !.stat = stat, !.base_fp = b]
  <2>1. addr \in Addr /\ addr.stat = stat /\ addr.base_fp = b
    BY DEF NoAddr, Addr
  <2>2. HandOf(c, stat, b) = [EmptyHand EXCEPT !.chunk = c, !.addr = addr]
    BY DEF HandOf
  <2> HIDE DEF addr
  <2>3. QED
    BY <1>1, <2>1, <2>2 DEF Hand
<1>3. QED
  BY <1>1, <1>2

(* The steps of DataRecvThd.                                               *)
LEMMA RecvType ==
  ASSUME TypeOK, HandsInv, NEW cl \in Client, SessionStart(cl) \/ RecvNext(cl)
  PROVE  TypeOK' /\ HandsInv'
<1>1. CASE SessionStart(cl) \/ RecvEnd(cl)
  <2>1. /\ recv' \in [Client -> {"off", "recv", "insert", "end"}]
        /\ \A d \in Client : recv'[d] = "insert" => recv[d] = "insert"
        /\ \A d \in Client : recv[d] = "insert" => recv'[d] = "insert"
        /\ UNCHANGED <<fp_2_addr, feature_2_fp, containerVars, clientVars, mq, recv_hand,
                       dualVars, comp, writerVars, server>>
    BY <1>1 DEF SessionStart, RecvEnd, TypeOK
  <2>2. TypeOK'
    BY <2>1 DEF TypeOK, ContainerTypeOK, containerVars, clientVars, dualVars, writerVars
  <2>3. HandsInv'
    BY <2>1 DEF HandsInv, dualVars, writerVars
  <2>4. QED
    BY <2>2, <2>3
<1>2. ASSUME NEW c \in Chunk, RecvFullEDR(cl, c)
      PROVE  TypeOK' /\ HandsInv'
  <2>1. mq' \in QueueType
    <3>1. \A b \in cached[cl] : Msg("SINGLE_CHUNK", c, b) \in Item
      BY DEF TypeOK, Msg, Item
    <3>2. Msg("CHUNK_PAIR", c, NoBase) \in Item
      BY DEF Msg, Item
    <3>3. "recv_2_dual" \in Queue /\ mq \in QueueType
      BY DEF Queue, TypeOK, QueueType
    <3>4. QED
      BY <1>2, <3>1, <3>2, <3>3, PushFacts DEF RecvFullEDR
  <2>2. /\ recipe' \in [Client -> SUBSET Chunk] /\ n_chunk' \in Nat
        /\ cached' \in [Client -> SUBSET Chunk]
    <3>1. /\ recipe' = [recipe EXCEPT ![cl] = @ \cup {c}] /\ n_chunk' = n_chunk + 1
          /\ cached' = [cached EXCEPT ![cl] = @ \cup {c}] \/ cached' = cached
      BY <1>2 DEF RecvFullEDR
    <3>2. recipe' \in [Client -> SUBSET Chunk] /\ n_chunk' \in Nat
      BY <3>1 DEF TypeOK
    <3>3. cached' \in [Client -> SUBSET Chunk]
      <4>1. CASE cached' = [cached EXCEPT ![cl] = @ \cup {c}]
        BY <4>1 DEF TypeOK
      <4>2. CASE cached' = cached
        BY <4>2 DEF TypeOK
      <4>3. QED
        BY <3>1, <4>1, <4>2
    <3>4. QED
      BY <3>2, <3>3
  <2>3. UNCHANGED <<fp_2_addr, feature_2_fp, containerVars, recvVars, dualVars, comp,
                    writerVars, server>>
    BY <1>2 DEF RecvFullEDR
  <2>4. TypeOK'
    BY <2>1, <2>2, <2>3 DEF TypeOK, ContainerTypeOK, containerVars, recvVars, dualVars,
                            writerVars, QueueType
  <2>5. HandsInv'
    BY <2>3 DEF HandsInv, recvVars, dualVars, writerVars
  <2>6. QED
    BY <2>4, <2>5
<1>3. ASSUME NEW c \in Chunk, RecvNormal(cl, c)
      PROVE  TypeOK' /\ HandsInv'
  <2>1. /\ recipe' \in [Client -> SUBSET Chunk] /\ n_chunk' \in Nat
        /\ recv' \in [Client -> {"off", "recv", "insert", "end"}]
        /\ recv_hand' \in [Client -> Chunk \cup {NoBase}]
        /\ \A d \in Client : /\ recv'[d] = "insert" => recv_hand'[d] \in Chunk
                             /\ recv'[d] # "insert" => recv_hand'[d] = NoBase
    <3>1. n_chunk' = n_chunk + 1
      BY <1>3 DEF RecvNormal
    <3>2. CASE /\ recv' = [recv EXCEPT ![cl] = "insert"]
               /\ recv_hand' = [recv_hand EXCEPT ![cl] = c]
               /\ UNCHANGED recipe
      BY <3>1, <3>2 DEF TypeOK, HandsInv
    <3>3. CASE /\ recipe' = [recipe EXCEPT ![cl] = @ \cup {c}]
               /\ UNCHANGED <<recv, recv_hand>>
      BY <3>1, <3>3 DEF TypeOK, HandsInv
    <3>4. QED
      BY <1>3, <3>2, <3>3 DEF RecvNormal, recvVars
  <2>2. UNCHANGED <<fp_2_addr, feature_2_fp, containerVars, cached, mq, dualVars,
                    comp, writerVars, server>>
    BY <1>3 DEF RecvNormal
  <2>3. TypeOK'
    BY <2>1, <2>2 DEF TypeOK, ContainerTypeOK, containerVars, dualVars, writerVars
  <2>4. HandsInv'
    BY <2>1, <2>2 DEF HandsInv, dualVars, writerVars
  <2>5. QED
    BY <2>3, <2>4
<1>4. CASE RecvInsert(cl)
  <2>1. recv_hand[cl] \in Chunk
    BY <1>4 DEF RecvInsert, HandsInv
  <2>2. mq' \in QueueType
    <3>1. Msg("UNIQUE_CHUNK", recv_hand[cl], NoBase) \in Item
      BY <2>1 DEF Msg, Item
    <3>2. "recv_2_dual" \in Queue /\ mq \in QueueType
      BY DEF Queue, TypeOK, QueueType
    <3>3. QED
      BY <1>4, <3>1, <3>2, PushFacts DEF RecvInsert
  <2>3. /\ fp_2_addr' \in [Chunk -> Addr] /\ recipe' \in [Client -> SUBSET Chunk]
        /\ recv' \in [Client -> {"off", "recv", "insert", "end"}]
        /\ recv_hand' \in [Client -> Chunk \cup {NoBase}]
    BY <1>4, <2>1, AddrFacts DEF RecvInsert, TypeOK
  <2>4. UNCHANGED <<feature_2_fp, containerVars, cached, n_chunk, dualVars, comp,
                    writerVars, server>>
    BY <1>4 DEF RecvInsert
  <2>5. TypeOK'
    BY <2>2, <2>3, <2>4 DEF TypeOK, ContainerTypeOK, containerVars, dualVars, writerVars,
                            QueueType
  <2>6. \A d \in Client : /\ recv'[d] = "insert" => recv_hand'[d] \in Chunk
                          /\ recv'[d] # "insert" => recv_hand'[d] = NoBase
    BY <1>4 DEF RecvInsert, TypeOK, HandsInv
  <2>7. HandsInv'
    BY <2>4, <2>6 DEF HandsInv, dualVars, writerVars
  <2>8. QED
    BY <2>5, <2>7
<1>5. QED
  BY <1>1, <1>2, <1>3, <1>4 DEF RecvNext

(* The steps of DualDedupThd and CacheCompThd.                             *)
LEMMA DedupType ==
  ASSUME TypeOK, HandsInv, NEW cl \in Client, DualNext(cl) \/ CompNext(cl)
  PROVE  TypeOK' /\ HandsInv'
<1>1. mq \in QueueType /\ Queue = {"recv_2_dual", "dual_2_comp", "comp_2_writer"}
  BY DEF TypeOK, QueueType, Queue
<1>2. ASSUME UNCHANGED <<feature_2_fp, containerVars, clientVars, recvVars, writerVars>>,
             fp_2_addr' \in [Chunk -> Addr], mq' \in QueueType, server' \in {"up", "exit"},
             dual' \in [Client -> {"pop", "insert", "end"}],
             comp' \in [Client -> {"pop", "end"}],
             dual_hand' \in [Client -> Item \cup {NoBase}],
             \A d \in Client : dual'[d] = "insert" => dual_hand'[d] \in Item
      PROVE  TypeOK' /\ HandsInv'
  <2>1. TypeOK'
    BY <1>2 DEF TypeOK, ContainerTypeOK, containerVars, clientVars, recvVars, writerVars,
                QueueType
  <2>2. HandsInv'
    BY <1>2 DEF HandsInv, recvVars, writerVars
  <2>3. QED
    BY <2>1, <2>2
<1>3. CASE DualPop(cl)
  <2>1. mq[cl]["recv_2_dual"] # <<>> /\ Pop(cl, "recv_2_dual")
    BY <1>3 DEF DualPop, HasItem
  <2>2. mq' \in QueueType /\ Head(mq[cl]["recv_2_dual"]) \in Item
    BY <1>1, <2>1, PopFacts
  <2>3. /\ dual' \in [Client -> {"pop", "insert", "end"}]
        /\ dual_hand' \in [Client -> Item \cup {NoBase}]
        /\ \A d \in Client : dual'[d] = "insert" => dual_hand'[d] \in Item
    <3>1. CASE UNCHANGED dualVars
      BY <3>1 DEF TypeOK, HandsInv, dualVars
    <3>2. CASE /\ dual' = [dual EXCEPT ![cl] = "insert"]
               /\ dual_hand' = [dual_hand EXCEPT ![cl] = Head(mq[cl]["recv_2_dual"])]
      BY <2>2, <3>2 DEF TypeOK, HandsInv
    <3>3. QED
      BY <1>3, <3>1, <3>2 DEF DualPop
  <2>4. UNCHANGED <<fp_2_addr, feature_2_fp, containerVars, clientVars, recvVars, comp,
                    writerVars, server>>
    BY <1>3 DEF DualPop
  <2>5. QED
    BY <1>2, <2>2, <2>3, <2>4 DEF TypeOK
<1>4. CASE DualInsert(cl)
  <2>1. dual_hand[cl] \in Item /\ dual_hand[cl].chunk \in Chunk
    BY <1>4 DEF DualInsert, HandsInv, Item
  <2>2. ForComp(dual_hand[cl]) \in Item
    BY <2>1 DEF ForComp, Item
  <2>3. mq' \in QueueType
    BY <1>1, <1>4, <2>2, PushFacts DEF DualInsert
  <2>4. /\ fp_2_addr' \in [Chunk -> Addr] /\ dual' \in [Client -> {"pop", "insert", "end"}]
        /\ dual_hand' \in [Client -> Item \cup {NoBase}]
        /\ \A d \in Client : dual'[d] = "insert" => dual_hand'[d] \in Item
    BY <1>4, <2>1, AddrFacts DEF DualInsert, TypeOK, HandsInv
  <2>5. UNCHANGED <<feature_2_fp, containerVars, clientVars, recvVars, comp, writerVars,
                    server>>
    BY <1>4 DEF DualInsert
  <2>6. QED
    BY <1>2, <2>3, <2>4, <2>5 DEF TypeOK
<1>5. CASE DualExit(cl)
  <2>1. mq[cl]["recv_2_dual"] # <<>> /\ Pop(cl, "recv_2_dual")
    BY <1>5 DEF DualExit, HasItem
  <2>2. mq' \in QueueType
    BY <1>1, <2>1, PopFacts
  <2>3. UNCHANGED <<fp_2_addr, feature_2_fp, containerVars, clientVars, recvVars, dualVars,
                    comp, writerVars>>
    BY <1>5 DEF DualExit
  <2>4. server' = "exit"
    BY <1>5 DEF DualExit
  <2>5. QED
    BY <1>2, <2>2, <2>3, <2>4 DEF TypeOK, HandsInv, dualVars
<1>6. CASE DualEnd(cl)
  <2>1. /\ dual' \in [Client -> {"pop", "insert", "end"}]
        /\ \A d \in Client : dual'[d] = "insert" => dual[d] = "insert"
        /\ UNCHANGED <<fp_2_addr, feature_2_fp, containerVars, clientVars, mq, recvVars,
                       dual_hand, comp, writerVars, server>>
    BY <1>6 DEF DualEnd, TypeOK
  <2>2. QED
    BY <1>1, <1>2, <2>1 DEF TypeOK, HandsInv
<1>7. ASSUME NEW stat \in {"UNIQUE_CHUNK", "CACHE_DELTA_CHUNK"}, mq[cl]["dual_2_comp"] # <<>>,
             Forward(cl, "dual_2_comp", "comp_2_writer",
                     [Head(mq[cl]["dual_2_comp"]) EXCEPT !.stat = stat]),
             UNCHANGED <<fp_2_addr, feature_2_fp, containerVars, clientVars, recvVars,
                         dualVars, comp, writerVars, server>>
      PROVE  TypeOK' /\ HandsInv'
  <2>1. Head(mq[cl]["dual_2_comp"]) \in Item
    BY <1>1, <1>7, SeqItems DEF QueueType
  <2>2. [Head(mq[cl]["dual_2_comp"]) EXCEPT !.stat = stat] \in Item
    BY <2>1 DEF Item
  <2>3. mq' \in QueueType
    BY <1>1, <1>7, <2>2, ForwardFacts
  <2>4. QED
    BY <1>2, <1>7, <2>3 DEF TypeOK, HandsInv, dualVars
<1>8. CASE CompAfterCache(cl) \/ CompUnique(cl)
  BY <1>7, <1>8 DEF CompAfterCache, CompUnique, HasItem
<1>9. CASE CompEnd(cl)
  <2>1. /\ comp' \in [Client -> {"pop", "end"}]
        /\ UNCHANGED <<fp_2_addr, feature_2_fp, containerVars, clientVars, mq, recvVars,
                       dualVars, writerVars, server>>
    BY <1>9 DEF CompEnd, TypeOK
  <2>2. QED
    BY <1>1, <1>2, <2>1 DEF TypeOK, HandsInv, dualVars
<1>10. QED
  BY <1>3, <1>4, <1>5, <1>6, <1>8, <1>9 DEF DualNext, CompNext

(* The steps of DataWriterThd.  Step is where the thread goes, hand what   *)
(* it then has in its hands.                                               *)
WriterAt == {"pop", "query", "read", "direct", "write", "index", "addr", "tail", "end"}
HandOK(step, hand) ==
  /\ step = "pop" => hand = EmptyHand
  /\ step \notin {"pop", "tail", "end"} => hand.chunk \in Chunk /\ IsReal(hand.addr)
  /\ step = "query" => hand.addr.base_fp \in Chunk

LEMMA WriterMoves ==
  ASSUME TypeOK, HandsInv, NEW cl \in Client, NEW step \in WriterAt, NEW hand \in Hand,
         HandOK(step, hand),
         writer' = [writer EXCEPT ![cl] = step],
         writer_hand' = [writer_hand EXCEPT ![cl] = hand],
         UNCHANGED <<clientVars, recvVars, dualVars, comp>>,
         fp_2_addr' \in [Chunk -> Addr], feature_2_fp' \in Index, ContainerTypeOK(Stored)',
         mq' \in QueueType, server' \in {"up", "exit"},
         torn_cached' \in [Client -> SUBSET ContainerId]
  PROVE  TypeOK' /\ HandsInv'
<1>1. /\ writer' \in [Client -> WriterAt] /\ writer_hand' \in [Client -> Hand]
      /\ writer'[cl] = step /\ writer_hand'[cl] = hand
      /\ \A d \in Client \ {cl} : writer'[d] = writer[d] /\ writer_hand'[d] = writer_hand[d]
  BY DEF TypeOK, WriterAt
<1>2. TypeOK'
  BY <1>1 DEF TypeOK, WriterAt, QueueType, clientVars, recvVars, dualVars
<1>3. HandsInv'
  <2>1. \A d \in Client : HandOK(writer'[d], writer_hand'[d])
    BY <1>1 DEF HandsInv, HandOK
  <2>2. QED
    BY <2>1 DEF HandsInv, HandOK, recvVars, dualVars
<1>4. QED
  BY <1>2, <1>3

(* The writer's own hand, before and after filling in an address.          *)
LEMMA WriterHand ==
  ASSUME TypeOK, HandsInv, NEW cl \in Client
  PROVE  /\ writer[cl] \in WriterAt /\ writer_hand[cl] \in Hand
         /\ HandOK(writer[cl], writer_hand[cl])
         /\ writer_hand[cl].addr \in Addr
BY DEF TypeOK, HandsInv, HandOK, WriterAt, Hand

LEMMA WriteChunkFacts ==
  ASSUME TypeOK, HandsInv, NEW cl \in Client, writer[cl] \in {"direct", "write"},
         NEW stat \in Stat, WriteChunk(cl, stat)
  PROVE  LET hand == [writer_hand[cl] EXCEPT !.addr =
                        [@ EXCEPT !.container_id = CurId(cl), !.offset = NextOffset(cl)]]
             item == [chunk |-> writer_hand[cl].chunk, stat |-> stat,
                      read |-> writer_hand[cl].read]
         IN
         /\ hand \in Hand /\ hand.chunk = writer_hand[cl].chunk
         /\ hand.addr.stat = writer_hand[cl].addr.stat
         /\ hand.addr.container_id = CurId(cl) /\ hand.addr.offset = NextOffset(cl)
         /\ CurId(cl) \in ContainerId /\ NextOffset(cl) \in Nat \ {0}
         /\ writer_hand' = [writer_hand EXCEPT ![cl] = hand]
         /\ item \in Stored /\ AddItem(cl, item)
         /\ ContainerTypeOK(Stored)'
<1>1. /\ writer_hand[cl].chunk \in Chunk /\ writer_hand[cl].read \in Read
      /\ writer_hand[cl].addr \in Addr /\ writer_hand[cl] \in Hand
  BY WriterHand DEF HandOK, Hand
<1>2. CurId(cl) \in ContainerId /\ NextOffset(cl) \in Nat \ {0}
  BY DEF CurId, ContainerId, NextOffset, TypeOK, ContainerTypeOK
<1> DEFINE addr == [writer_hand[cl].addr EXCEPT !.container_id = CurId(cl),
                                                !.offset = NextOffset(cl)]
           item == [chunk |-> writer_hand[cl].chunk, stat |-> stat,
                    read |-> writer_hand[cl].read]
<1>3. /\ addr \in Addr /\ addr.stat = writer_hand[cl].addr.stat
      /\ addr.container_id = CurId(cl) /\ addr.offset = NextOffset(cl)
  BY <1>1, <1>2 DEF Addr
<1>4. writer_hand' = [writer_hand EXCEPT ![cl] = [@ EXCEPT !.addr = addr]]
  BY <1>1 DEF WriteChunk, TypeOK, Hand, Addr
<1>5. item \in Stored /\ AddItem(cl, item)
  BY <1>1 DEF Stored, WriteChunk
<1> HIDE DEF item
<1>6. ContainerTypeOK(Stored)'
  <2>1. /\ cur' = [cur EXCEPT ![cl] = Append(@, item)] /\ UNCHANGED <<saved, opened>>
        /\ Len(cur[cl]) < ContainerSize
    BY <1>5 DEF AddItem, HasRoom
  <2>2. cur \in [Client -> Seq(Stored)] /\ \A d \in Client : Len(cur[d]) <= ContainerSize
    BY DEF TypeOK, ContainerTypeOK
  <2>3. /\ cur' \in [Client -> Seq(Stored)] /\ Len(cur'[cl]) = Len(cur[cl]) + 1
        /\ \A d \in Client \ {cl} : cur'[d] = cur[d]
    BY <1>5, <2>1, <2>2
  <2>4. Len(cur'[cl]) <= ContainerSize
    BY <2>1, <2>2, <2>3
  <2>5. QED
    BY <2>1, <2>2, <2>3, <2>4 DEF TypeOK, ContainerTypeOK
<1>7. QED
  BY <1>1, <1>2, <1>3, <1>4, <1>5, <1>6 DEF Hand, item

(* Only reading a base changes what the client's container cache holds.    *)
LEMMA CacheStays ==
  ASSUME NEW cl \in Client, WriterNext(cl), ~ ReadBase(cl)
  PROVE  torn_cached' = torn_cached
<1>1. CASE PopCacheDelta(cl) \/ PopUnique(cl) \/ QueryBaseAddr(cl)
  BY <1>1 DEF PopCacheDelta, PopUnique, QueryBaseAddr, writerVars
<1>2. CASE SaveOpen(cl) \/ SaveClose(cl) \/ WriteDirect(cl) \/ Write(cl)
  BY <1>2 DEF SaveOpen, SaveClose, WriteDirect, Write, writerVars
<1>3. CASE PublishFeatures(cl) \/ PublishAddr(cl) \/ WriterTail(cl) \/ WriterEnd(cl)
  BY <1>3 DEF PublishFeatures, PublishAddr, WriterTail, WriterEnd
<1>4. QED
  BY <1>1, <1>2, <1>3 DEF WriterNext

LEMMA CacheType ==
  ASSUME TypeOK, NEW cl \in Client, WriterNext(cl)
  PROVE  torn_cached' \in [Client -> SUBSET ContainerId]
<1>1. torn_cached \in [Client -> SUBSET ContainerId]
  BY DEF TypeOK
<1>2. CASE ReadBase(cl)
  BY <1>1, <1>2 DEF ReadBase, CacheContainer
<1>3. CASE ~ ReadBase(cl)
  BY <1>1, <1>3, CacheStays
<1>4. QED
  BY <1>2, <1>3

LEMMA WriterType ==
  ASSUME TypeOK, HandsInv, NEW cl \in Client, WriterNext(cl)
  PROVE  TypeOK' /\ HandsInv'
<1>1. /\ mq \in QueueType /\ "comp_2_writer" \in Queue
      /\ writer[cl] \in WriterAt /\ writer_hand[cl] \in Hand
      /\ HandOK(writer[cl], writer_hand[cl])
      /\ torn_cached' \in [Client -> SUBSET ContainerId]
  BY WriterHand, CacheType DEF TypeOK, QueueType, Queue
<1> DEFINE item == Head(mq[cl]["comp_2_writer"])
<1>2. CASE PopCacheDelta(cl)
  <2>1. /\ mq[cl]["comp_2_writer"] # <<>> /\ Pop(cl, "comp_2_writer")
        /\ writer_hand' = [writer_hand EXCEPT ![cl] = HandOf(item.chunk, "CACHE_DELTA", item.base)]
        /\ writer' = [writer EXCEPT ![cl] = "write"]
        /\ UNCHANGED <<fp_2_addr, feature_2_fp, containerVars, clientVars, recvVars,
                       dualVars, comp, server>>
    BY <1>2 DEF PopCacheDelta, HasItem, WriterGo
  <2>2. mq' \in QueueType /\ item.chunk \in Chunk /\ item.base \in Chunk \cup {NoBase}
    BY <1>1, <2>1, PopFacts DEF Item
  <2> HIDE DEF item
  <2>3. /\ HandOf(item.chunk, "CACHE_DELTA", item.base) \in Hand
        /\ HandOK("write", HandOf(item.chunk, "CACHE_DELTA", item.base))
    BY <2>2, AddrFacts DEF HandOK, IsReal, Stat
  <2>4. QED
    BY <1>1, <2>1, <2>2, <2>3, WriterMoves DEF WriterAt, TypeOK, ContainerTypeOK, containerVars
<1>3. CASE PopUnique(cl)
  <2>1. /\ mq[cl]["comp_2_writer"] # <<>> /\ Pop(cl, "comp_2_writer")
        /\ UNCHANGED <<fp_2_addr, feature_2_fp, containerVars, clientVars, recvVars,
                       dualVars, comp, server>>
    BY <1>3 DEF PopUnique, HasItem
  <2>2. mq' \in QueueType /\ item.chunk \in Chunk
    BY <1>1, <2>1, PopFacts DEF Item
  <2>3. \/ /\ IsSimilar(feature_2_fp, item.chunk)
           /\ writer_hand' = [writer_hand EXCEPT ![cl] =
                HandOf(item.chunk, "COMP_DELTA", FindBaseChunk(feature_2_fp, item.chunk))]
           /\ writer' = [writer EXCEPT ![cl] = "query"]
        \/ /\ writer_hand' = [writer_hand EXCEPT ![cl] = HandOf(item.chunk, "COMP_BASE", NoBase)]
           /\ writer' = [writer EXCEPT ![cl] = "write"]
    BY <1>3 DEF PopUnique, WriterGo
  <2> HIDE DEF item
  <2>4. CASE /\ IsSimilar(feature_2_fp, item.chunk)
             /\ writer_hand' = [writer_hand EXCEPT ![cl] =
                  HandOf(item.chunk, "COMP_DELTA", FindBaseChunk(feature_2_fp, item.chunk))]
             /\ writer' = [writer EXCEPT ![cl] = "query"]
    <3>1. FindBaseChunk(feature_2_fp, item.chunk) \in Chunk
      <4>1. feature_2_fp \in Index
        BY DEF TypeOK
      <4>2. PICK f \in FeatureSet(item.chunk) \cap Known(feature_2_fp) :
              FindBaseChunk(feature_2_fp, item.chunk) = feature_2_fp[f]
        BY <2>2, <2>4, <4>1, FindBaseChunkIndexed
      <4>3. QED
        BY <4>1, <4>2 DEF Known, Index
    <3> DEFINE base == FindBaseChunk(feature_2_fp, item.chunk)
    <3>2. base \in Chunk
      BY <3>1
    <3> HIDE DEF base
    <3>3. /\ HandOf(item.chunk, "COMP_DELTA", base) \in Hand
          /\ HandOK("query", HandOf(item.chunk, "COMP_DELTA", base))
      BY <2>2, <3>2, AddrFacts DEF HandOK, IsReal, Stat
    <3>4. QED
      BY <1>1, <2>1, <2>2, <2>4, <3>3, WriterMoves
      DEF WriterAt, TypeOK, ContainerTypeOK, containerVars, base
  <2>5. CASE /\ writer_hand' = [writer_hand EXCEPT ![cl] = HandOf(item.chunk, "COMP_BASE", NoBase)]
             /\ writer' = [writer EXCEPT ![cl] = "write"]
    <3>1. /\ HandOf(item.chunk, "COMP_BASE", NoBase) \in Hand
          /\ HandOK("write", HandOf(item.chunk, "COMP_BASE", NoBase))
      BY <2>2, AddrFacts DEF HandOK, IsReal, Stat
    <3>2. QED
      BY <1>1, <2>1, <2>2, <2>5, <3>1, WriterMoves
      DEF WriterAt, TypeOK, ContainerTypeOK, containerVars
  <2>6. QED
    BY <2>3, <2>4, <2>5
<1>4. CASE QueryBaseAddr(cl)
  <2>1. UNCHANGED <<fp_2_addr, feature_2_fp, containerVars, clientVars, mq, recvVars,
                    dualVars, comp>>
    BY <1>4 DEF QueryBaseAddr
  <2>2. writer[cl] = "query" /\ writer_hand[cl].addr.base_fp \in Chunk
    BY <1>1, <1>4 DEF QueryBaseAddr, HandOK
  <2> DEFINE base_addr == fp_2_addr[writer_hand[cl].addr.base_fp]
             hand == [writer_hand[cl] EXCEPT !.base_addr = base_addr]
  <2>3. base_addr \in Addr
    BY <2>2 DEF TypeOK
  <2>4. CASE server' = "exit" /\ UNCHANGED writerVars
    BY <2>1, <2>4 DEF TypeOK, HandsInv, ContainerTypeOK, containerVars, clientVars, recvVars,
                      dualVars, writerVars
  <2>5. CASE /\ writer_hand' = [writer_hand EXCEPT ![cl].base_addr = base_addr]
             /\ writer' = [writer EXCEPT ![cl] = "read"]
             /\ UNCHANGED server
    <3>1. writer_hand' = [writer_hand EXCEPT ![cl] = hand]
      BY <2>5 DEF TypeOK
    <3>2. hand \in Hand /\ hand.chunk = writer_hand[cl].chunk /\ hand.addr = writer_hand[cl].addr
      BY <1>1, <2>3 DEF Hand
    <3> HIDE DEF hand
    <3>3. HandOK("read", hand)
      BY <1>1, <2>2, <3>2 DEF HandOK
    <3>4. QED
      BY <2>1, <2>5, <3>1, <3>2, <3>3, <1>1, WriterMoves
      DEF WriterAt, TypeOK, ContainerTypeOK, containerVars
  <2>6. QED
    BY <1>4, <2>4, <2>5 DEF QueryBaseAddr, WriterGo
<1>5. CASE ReadBase(cl)
  <2>1. PICK r \in ReadChunk(cl, writer_hand[cl].base_addr) :
          /\ writer_hand' = [writer_hand EXCEPT ![cl].read = r, ![cl].base_addr = NoAddr]
          /\ writer' = [writer EXCEPT ![cl] = IF r = "nothing" THEN "direct" ELSE "write"]
    BY <1>5 DEF ReadBase, WriterGo
  <2>2. r \in Read
    BY DEF ReadChunk, Read
  <2>3. /\ writer[cl] = "read"
        /\ UNCHANGED <<fp_2_addr, feature_2_fp, containerVars, clientVars, mq, recvVars,
                       dualVars, comp, server>>
    BY <1>5 DEF ReadBase
  <2> DEFINE hand == [writer_hand[cl] EXCEPT !.read = r, !.base_addr = NoAddr]
             step == IF r = "nothing" THEN "direct" ELSE "write"
  <2>4. writer_hand' = [writer_hand EXCEPT ![cl] = hand]
    BY <2>1 DEF TypeOK
  <2>5. hand \in Hand /\ hand.chunk = writer_hand[cl].chunk /\ hand.addr = writer_hand[cl].addr
    BY <1>1, <2>2, AddrFacts DEF Hand
  <2>6. step \in {"direct", "write"} /\ writer' = [writer EXCEPT ![cl] = step]
    BY <2>1
  <2> HIDE DEF hand, step
  <2>7. HandOK(step, hand)
    BY <1>1, <2>3, <2>5, <2>6 DEF HandOK
  <2>8. /\ step \in WriterAt /\ fp_2_addr' \in [Chunk -> Addr] /\ feature_2_fp' \in Index
        /\ ContainerTypeOK(Stored)' /\ mq' \in QueueType /\ server' \in {"up", "exit"}
    BY <1>1, <2>3, <2>6 DEF WriterAt, TypeOK, ContainerTypeOK, containerVars
  <2>9. QED
    BY <1>1, <2>3, <2>4, <2>5, <2>6, <2>7, <2>8, WriterMoves
<1>6. CASE SaveOpen(cl) \/ SaveClose(cl)
  <2>1. UNCHANGED <<fp_2_addr, feature_2_fp, clientVars, mq, recvVars, dualVars, comp,
                    writerVars, server>>
    BY <1>6 DEF SaveOpen, SaveClose
  <2>2. ContainerTypeOK(Stored)'
    <3>1. CASE SaveOpen(cl)
      BY <3>1 DEF SaveOpen, OpenFile, TypeOK, ContainerTypeOK
    <3>2. CASE SaveClose(cl)
      <4>1. /\ saved' = [saved EXCEPT ![cl] = Append(@, cur[cl])]
            /\ cur' = [cur EXCEPT ![cl] = <<>>] /\ opened' = [opened EXCEPT ![cl] = FALSE]
        BY <3>2 DEF SaveClose, CloseFile
      <4>2. saved' \in [Client -> Seq(Seq(Stored))] /\ opened' \in [Client -> BOOLEAN]
        BY <4>1 DEF TypeOK, ContainerTypeOK
      <4>3. cur' \in [Client -> Seq(Stored)] /\ \A d \in Client : cur'[d] \in {cur[d], <<>>}
        BY <4>1 DEF TypeOK, ContainerTypeOK
      <4>4. \A d \in Client : Len(cur'[d]) <= ContainerSize
        BY <4>3 DEF TypeOK, ContainerTypeOK
      <4>5. QED
        BY <4>2, <4>3, <4>4 DEF ContainerTypeOK
    <3>3. QED
      BY <1>6, <3>1, <3>2
  <2>3. TypeOK'
    BY <2>1, <2>2 DEF TypeOK, clientVars, recvVars, dualVars, writerVars
  <2>4. HandsInv'
    BY <2>1 DEF HandsInv, recvVars, dualVars, writerVars
  <2>5. QED
    BY <2>3, <2>4
<1>7. ASSUME writer[cl] \in {"direct", "write"}, NEW stat \in Stat, WriteChunk(cl, stat),
             NEW step \in {"write", "index", "addr"}, writer' = [writer EXCEPT ![cl] = step],
             UNCHANGED <<fp_2_addr, feature_2_fp, clientVars, mq, recvVars,
                         dualVars, comp, server>>
      PROVE  TypeOK' /\ HandsInv'
  <2>1. PICK hand \in Hand : /\ hand.chunk = writer_hand[cl].chunk
                             /\ hand.addr.stat = writer_hand[cl].addr.stat
                             /\ writer_hand' = [writer_hand EXCEPT ![cl] = hand]
    BY <1>7, WriteChunkFacts
  <2>2. ContainerTypeOK(Stored)'
    BY <1>7, WriteChunkFacts
  <2>3. HandOK(step, hand)
    BY <1>1, <1>7, <2>1 DEF HandOK, IsReal
  <2>4. /\ step \in WriterAt /\ fp_2_addr' \in [Chunk -> Addr] /\ feature_2_fp' \in Index
        /\ mq' \in QueueType /\ server' \in {"up", "exit"}
    BY <1>1, <1>7 DEF WriterAt, TypeOK
  <2>5. QED
    BY <1>1, <1>7, <2>1, <2>2, <2>3, <2>4, WriterMoves
<1>8. CASE WriteDirect(cl)
  BY <1>7, <1>8 DEF WriteDirect, Stat, WriterGo
<1>9. CASE Write(cl)
  <2>1. writer_hand[cl].addr.stat \in Stat
    BY WriterHand DEF Addr
  <2>2. QED
    BY <1>7, <1>9, <2>1 DEF Write, WriterGo
<1>10. CASE PublishFeatures(cl)
  <2>1. writer_hand[cl].chunk \in Chunk /\ HandOK("addr", writer_hand[cl])
    BY <1>1, <1>10 DEF PublishFeatures, HandOK
  <2>2. feature_2_fp' \in Index
    BY <1>10, <2>1, UpdateFeatureIndexFacts DEF PublishFeatures, TypeOK
  <2>3. writer_hand' = [writer_hand EXCEPT ![cl] = writer_hand[cl]]
    BY <1>10 DEF PublishFeatures, TypeOK
  <2>4. QED
    BY <1>1, <1>10, <2>1, <2>2, <2>3, WriterMoves
    DEF PublishFeatures, WriterGo, WriterAt, TypeOK, ContainerTypeOK, containerVars
<1>11. CASE PublishAddr(cl)
  <2>1. writer_hand[cl].chunk \in Chunk /\ writer_hand[cl].addr \in Addr
    BY <1>1, <1>11, WriterHand DEF PublishAddr, HandOK
  <2>2. fp_2_addr' \in [Chunk -> Addr]
    BY <1>11, <2>1 DEF PublishAddr, TypeOK
  <2>3. EmptyHand \in Hand /\ HandOK("pop", EmptyHand)
    BY AddrFacts DEF HandOK
  <2>4. QED
    BY <1>1, <1>11, <2>2, <2>3, WriterMoves
    DEF PublishAddr, WriterGo, WriterAt, TypeOK, ContainerTypeOK, containerVars
<1>12. CASE WriterTail(cl) \/ WriterEnd(cl)
  <2>1. PICK step \in {"tail", "end"} : writer' = [writer EXCEPT ![cl] = step]
    BY <1>12 DEF WriterTail, WriterEnd, WriterGo
  <2>2. UNCHANGED <<fp_2_addr, feature_2_fp, containerVars, clientVars, mq, recvVars,
                    dualVars, comp, writer_hand, server>>
    BY <1>12 DEF WriterTail, WriterEnd
  <2>3. writer_hand' = [writer_hand EXCEPT ![cl] = writer_hand[cl]] /\ HandOK(step, writer_hand[cl])
    BY <2>1, <2>2 DEF TypeOK, HandOK
  <2>4. /\ step \in WriterAt /\ fp_2_addr' \in [Chunk -> Addr] /\ feature_2_fp' \in Index
        /\ ContainerTypeOK(Stored)' /\ mq' \in QueueType /\ server' \in {"up", "exit"}
    BY <1>1, <2>1, <2>2 DEF WriterAt, TypeOK, ContainerTypeOK, containerVars
  <2>5. QED
    BY <1>1, <2>1, <2>2, <2>3, <2>4, WriterMoves
<1>13. QED
  BY <1>2, <1>3, <1>4, <1>5, <1>6, <1>8, <1>9, <1>10, <1>11, <1>12 DEF WriterNext

-----------------------------------------------------------------------------
(* What the steps do to the queues.                                        *)

Elsewhere(cl, touched) ==
  \A d \in Client, r \in Queue : d # cl \/ r \notin touched => Holds(d, r)' = Holds(d, r)

LEMMA QueuesStay ==
  ASSUME UNCHANGED mq
  PROVE  \A d \in Client, r \in Queue : Holds(d, r)' = Holds(d, r)
BY DEF Holds

LEMMA RecvEffect ==
  ASSUME TypeOK, NEW cl \in Client, NEW c \in Chunk, RecvFullEDR(cl, c)
  PROVE  \E e \in Item :
           /\ e.chunk = c /\ e.stat # "UNIQUE_CHUNK"
           /\ Holds(cl, "recv_2_dual")' = Holds(cl, "recv_2_dual") \cup {e}
           /\ Elsewhere(cl, {"recv_2_dual"})
<1>1. mq \in QueueType /\ "recv_2_dual" \in Queue
  BY DEF TypeOK, QueueType, Queue
<1>2. PICK b \in Chunk \cup {NoBase}, stat \in {"CHUNK_PAIR", "SINGLE_CHUNK"} :
        Push(cl, "recv_2_dual", Msg(stat, c, b))
  BY DEF RecvFullEDR, TypeOK
<1>3. /\ Msg(stat, c, b) \in Item /\ Msg(stat, c, b).chunk = c
      /\ Msg(stat, c, b).stat # "UNIQUE_CHUNK"
  BY DEF Msg, Item
<1>4. QED
  BY <1>1, <1>2, <1>3, PushFacts DEF Elsewhere

LEMMA RecvInsertEffect ==
  ASSUME TypeOK, HandsInv, NEW cl \in Client, RecvInsert(cl)
  PROVE  /\ recv_hand[cl] \in Chunk
         /\ Holds(cl, "recv_2_dual")'
              = Holds(cl, "recv_2_dual") \cup {Msg("UNIQUE_CHUNK", recv_hand[cl], NoBase)}
         /\ Elsewhere(cl, {"recv_2_dual"})
<1>1. mq \in QueueType /\ "recv_2_dual" \in Queue
  BY DEF TypeOK, QueueType, Queue
<1>2. recv_hand[cl] \in Chunk
  BY DEF RecvInsert, HandsInv
<1>3. Msg("UNIQUE_CHUNK", recv_hand[cl], NoBase) \in Item
  BY <1>2 DEF Msg, Item
<1>4. Push(cl, "recv_2_dual", Msg("UNIQUE_CHUNK", recv_hand[cl], NoBase))
  BY DEF RecvInsert
<1>5. QED
  BY <1>1, <1>2, <1>3, <1>4, PushFacts DEF Elsewhere

LEMMA DualPopEffect ==
  ASSUME TypeOK, NEW cl \in Client, DualPop(cl)
  PROVE  \E e \in Item :
           /\ e.stat # "UNIQUE_CHUNK"
           /\ Holds(cl, "recv_2_dual") = Holds(cl, "recv_2_dual")' \cup {e}
           /\ Elsewhere(cl, {"recv_2_dual"})
           /\ \/ fp_2_addr[e.chunk] # NoAddr /\ UNCHANGED dualVars
              \/ /\ dual' = [dual EXCEPT ![cl] = "insert"]
                 /\ dual_hand' = [dual_hand EXCEPT ![cl] = e]
<1>1. mq \in QueueType /\ "recv_2_dual" \in Queue
  BY DEF TypeOK, QueueType, Queue
<1>2. /\ mq[cl]["recv_2_dual"] # <<>> /\ Pop(cl, "recv_2_dual")
      /\ Head(mq[cl]["recv_2_dual"]).stat \in {"CHUNK_PAIR", "SINGLE_CHUNK"}
  BY DEF DualPop, HasItem
<1>3. /\ Head(mq[cl]["recv_2_dual"]) \in Item
      /\ Holds(cl, "recv_2_dual")
           = Holds(cl, "recv_2_dual")' \cup {Head(mq[cl]["recv_2_dual"])}
      /\ Elsewhere(cl, {"recv_2_dual"})
  BY <1>1, <1>2, PopFacts DEF Elsewhere
<1>4. LET e == Head(mq[cl]["recv_2_dual"]) IN
      \/ fp_2_addr[e.chunk] # NoAddr /\ UNCHANGED dualVars
      \/ /\ dual' = [dual EXCEPT ![cl] = "insert"]
         /\ dual_hand' = [dual_hand EXCEPT ![cl] = e]
  BY DEF DualPop
<1>5. QED
  BY <1>2, <1>3, <1>4

LEMMA DualInsertEffect ==
  ASSUME TypeOK, HandsInv, NEW cl \in Client, DualInsert(cl)
  PROVE  /\ dual_hand[cl] \in Item /\ dual_hand[cl].chunk \in Chunk
         /\ ForComp(dual_hand[cl]) \in Item
         /\ ForComp(dual_hand[cl]).chunk = dual_hand[cl].chunk
         /\ Holds(cl, "dual_2_comp")'
              = Holds(cl, "dual_2_comp") \cup {ForComp(dual_hand[cl])}
         /\ Elsewhere(cl, {"dual_2_comp"})
<1>1. mq \in QueueType /\ "dual_2_comp" \in Queue
  BY DEF TypeOK, QueueType, Queue
<1>2. dual_hand[cl] \in Item /\ dual_hand[cl].chunk \in Chunk
  BY DEF DualInsert, HandsInv, Item
<1>3. ForComp(dual_hand[cl]) \in Item /\ ForComp(dual_hand[cl]).chunk = dual_hand[cl].chunk
  BY <1>2 DEF ForComp, Item
<1>4. Push(cl, "dual_2_comp", ForComp(dual_hand[cl]))
  BY DEF DualInsert
<1>5. QED
  BY <1>1, <1>2, <1>3, <1>4, PushFacts DEF Elsewhere

LEMMA CompEffect ==
  ASSUME TypeOK, NEW cl \in Client, CompAfterCache(cl) \/ CompUnique(cl)
  PROVE  \E e, g \in Item :
           /\ g.chunk = e.chunk
           /\ Holds(cl, "dual_2_comp") = Holds(cl, "dual_2_comp")' \cup {e}
           /\ Holds(cl, "comp_2_writer")' = Holds(cl, "comp_2_writer") \cup {g}
           /\ Elsewhere(cl, {"dual_2_comp", "comp_2_writer"})
<1>1. /\ mq \in QueueType /\ "dual_2_comp" \in Queue
      /\ "comp_2_writer" \in Queue \ {"dual_2_comp"}
  BY DEF TypeOK, QueueType, Queue
<1>2. mq[cl]["dual_2_comp"] # <<>>
  BY DEF CompAfterCache, CompUnique, HasItem
<1> DEFINE e == Head(mq[cl]["dual_2_comp"])
<1>3. PICK stat \in {"UNIQUE_CHUNK", "CACHE_DELTA_CHUNK"} :
        Forward(cl, "dual_2_comp", "comp_2_writer", [e EXCEPT !.stat = stat])
  BY DEF CompAfterCache, CompUnique
<1>4. e \in Item
  BY <1>1, <1>2, SeqItems DEF QueueType
<1>5. [e EXCEPT !.stat = stat] \in Item /\ [e EXCEPT !.stat = stat].chunk = e.chunk
  BY <1>4 DEF Item
<1> DEFINE g == [e EXCEPT !.stat = stat]
<1>6. g \in Item /\ Forward(cl, "dual_2_comp", "comp_2_writer", g) /\ g.chunk = e.chunk
  BY <1>3, <1>5
<1> HIDE DEF g
<1>7. /\ Holds(cl, "dual_2_comp") = Holds(cl, "dual_2_comp")' \cup {e}
      /\ Holds(cl, "comp_2_writer")' = Holds(cl, "comp_2_writer") \cup {g}
      /\ Elsewhere(cl, {"dual_2_comp", "comp_2_writer"})
  BY <1>1, <1>2, <1>6, ForwardFacts DEF Elsewhere
<1>8. QED
  BY <1>4, <1>6, <1>7

(* A popped chunk is in the writer's hand; one that is to be a delta of a  *)
(* stored chunk has a base that a feature led to.                          *)
LEMMA WriterPopEffect ==
  ASSUME TypeOK, NEW cl \in Client, PopCacheDelta(cl) \/ PopUnique(cl)
  PROVE  \E e \in Item :
           /\ Holds(cl, "comp_2_writer") = Holds(cl, "comp_2_writer")' \cup {e}
           /\ Elsewhere(cl, {"comp_2_writer"})
           /\ writer_hand'[cl].chunk = e.chunk
           /\ writer'[cl] \in {"query", "write"}
           /\ writer'[cl] = "query" =>
                \E f \in Known(feature_2_fp) : writer_hand'[cl].addr.base_fp = feature_2_fp[f]
<1>1. mq \in QueueType /\ "comp_2_writer" \in Queue
  BY DEF TypeOK, QueueType, Queue
<1>2. mq[cl]["comp_2_writer"] # <<>> /\ Pop(cl, "comp_2_writer")
  BY DEF PopCacheDelta, PopUnique, HasItem
<1> DEFINE e == Head(mq[cl]["comp_2_writer"])
<1>3. /\ e \in Item /\ e.chunk \in Chunk /\ e.base \in Chunk \cup {NoBase}
      /\ Holds(cl, "comp_2_writer") = Holds(cl, "comp_2_writer")' \cup {e}
      /\ Elsewhere(cl, {"comp_2_writer"})
  BY <1>1, <1>2, PopFacts DEF Elsewhere, Item
<1>4. CASE PopCacheDelta(cl)
  <2>1. /\ writer_hand'[cl] = HandOf(e.chunk, "CACHE_DELTA", e.base)
        /\ writer'[cl] = "write"
    BY <1>4 DEF PopCacheDelta, WriterGo, TypeOK
  <2>2. writer_hand'[cl].chunk = e.chunk
    BY <1>3, <2>1, AddrFacts DEF Stat
  <2>3. QED
    BY <1>3, <2>1, <2>2
<1>5. CASE PopUnique(cl)
  <2>1. CASE /\ IsSimilar(feature_2_fp, e.chunk)
             /\ writer_hand'[cl] =
                  HandOf(e.chunk, "COMP_DELTA", FindBaseChunk(feature_2_fp, e.chunk))
             /\ writer'[cl] = "query"
    <3>1. feature_2_fp \in Index
      BY DEF TypeOK
    <3>2. PICK f \in FeatureSet(e.chunk) \cap Known(feature_2_fp) :
            FindBaseChunk(feature_2_fp, e.chunk) = feature_2_fp[f]
      BY <1>3, <2>1, <3>1, FindBaseChunkIndexed
    <3>3. f \in Known(feature_2_fp) /\ feature_2_fp[f] \in Chunk
      BY <3>1, <3>2 DEF Known, Index
    <3>4. /\ writer_hand'[cl].chunk = e.chunk
          /\ writer_hand'[cl].addr.base_fp = feature_2_fp[f]
      BY <1>3, <2>1, <3>2, <3>3, AddrFacts DEF Stat
    <3>5. QED
      BY <1>3, <2>1, <3>3, <3>4
  <2>2. CASE writer_hand'[cl] = HandOf(e.chunk, "COMP_BASE", NoBase) /\ writer'[cl] = "write"
    <3>1. writer_hand'[cl].chunk = e.chunk
      BY <1>3, <2>2, AddrFacts DEF Stat
    <3>2. QED
      BY <1>3, <2>2, <3>1
  <2>3. QED
    BY <1>5, <2>1, <2>2 DEF PopUnique, WriterGo, TypeOK
<1>6. QED
  BY <1>4, <1>5

-----------------------------------------------------------------------------
(* A thread of one session touches nothing of the other sessions.          *)

Step(cl) == SessionStart(cl) \/ RecvNext(cl) \/ DualNext(cl) \/ CompNext(cl) \/ WriterNext(cl)

LEMMA ThreadFrames ==
  ASSUME NEW cl \in Client
  PROVE  /\ SessionStart(cl) \/ RecvNext(cl) =>
              UNCHANGED <<feature_2_fp, containerVars, dualVars, comp, writerVars, server>>
         /\ DualNext(cl) =>
              UNCHANGED <<feature_2_fp, containerVars, clientVars, recvVars, comp, writerVars>>
         /\ CompNext(cl) =>
              UNCHANGED <<fp_2_addr, feature_2_fp, containerVars, clientVars, recvVars,
                          dualVars, writerVars, server>>
         /\ WriterNext(cl) => UNCHANGED <<clientVars, recvVars, dualVars, comp>>
<1>1. ASSUME SessionStart(cl) \/ RecvNext(cl)
      PROVE  UNCHANGED <<feature_2_fp, containerVars, dualVars, comp, writerVars, server>>
  BY <1>1 DEF SessionStart, RecvNext, RecvFullEDR, RecvNormal, RecvInsert, RecvEnd
<1>2. ASSUME DualNext(cl)
      PROVE  UNCHANGED <<feature_2_fp, containerVars, clientVars, recvVars, comp, writerVars>>
  BY <1>2 DEF DualNext, DualPop, DualInsert, DualExit, DualEnd
<1>3. ASSUME CompNext(cl)
      PROVE  UNCHANGED <<fp_2_addr, feature_2_fp, containerVars, clientVars, recvVars,
                         dualVars, writerVars, server>>
  BY <1>3 DEF CompNext, CompAfterCache, CompUnique, CompEnd
<1>4. ASSUME WriterNext(cl)
      PROVE  UNCHANGED <<clientVars, recvVars, dualVars, comp>>
  <2>1. CASE PopCacheDelta(cl) \/ PopUnique(cl) \/ QueryBaseAddr(cl) \/ ReadBase(cl)
    BY <2>1 DEF PopCacheDelta, PopUnique, QueryBaseAddr, ReadBase
  <2>2. CASE SaveOpen(cl) \/ SaveClose(cl) \/ WriteDirect(cl) \/ Write(cl)
    BY <2>2 DEF SaveOpen, SaveClose, WriteDirect, Write
  <2>3. CASE PublishFeatures(cl) \/ PublishAddr(cl) \/ WriterTail(cl) \/ WriterEnd(cl)
    BY <2>3 DEF PublishFeatures, PublishAddr, WriterTail, WriterEnd
  <2>4. QED
    BY <1>4, <2>1, <2>2, <2>3 DEF WriterNext
<1>5. QED
  BY <1>1, <1>2, <1>3, <1>4

LEMMA Others ==
  ASSUME TypeOK, NEW cl \in Client, Step(cl), NEW d \in Client \ {cl}
  PROVE  /\ recv'[d] = recv[d] /\ recv_hand'[d] = recv_hand[d]
         /\ dual'[d] = dual[d] /\ dual_hand'[d] = dual_hand[d]
         /\ comp'[d] = comp[d]
         /\ writer'[d] = writer[d] /\ writer_hand'[d] = writer_hand[d]
         /\ recipe'[d] = recipe[d]
         /\ \A q \in Queue : Holds(d, q)' = Holds(d, q)
<1>1. CASE SessionStart(cl) \/ RecvNext(cl)
  <2>1. UNCHANGED <<dualVars, comp, writerVars>>
    BY <1>1, ThreadFrames
  <2>2. recv'[d] = recv[d] /\ recv_hand'[d] = recv_hand[d] /\ recipe'[d] = recipe[d]
    BY <1>1 DEF SessionStart, RecvNext, RecvFullEDR, RecvNormal, RecvInsert, RecvEnd,
                clientVars, recvVars, TypeOK
  <2>3. mq'[d] = mq[d]
    BY <1>1 DEF SessionStart, RecvNext, RecvFullEDR, RecvNormal, RecvInsert, RecvEnd,
                Push, TypeOK
  <2>4. QED
    BY <2>1, <2>2, <2>3 DEF Holds, dualVars, writerVars
<1>2. CASE DualNext(cl)
  <2>1. UNCHANGED <<clientVars, recvVars, comp, writerVars>>
    BY <1>2, ThreadFrames
  <2>2. dual'[d] = dual[d] /\ dual_hand'[d] = dual_hand[d] /\ mq'[d] = mq[d]
    BY <1>2 DEF DualNext, DualPop, DualInsert, DualExit, DualEnd, Push, Pop, dualVars, TypeOK
  <2>3. QED
    BY <2>1, <2>2 DEF Holds, clientVars, recvVars, writerVars
<1>3. CASE CompNext(cl)
  <2>1. UNCHANGED <<clientVars, recvVars, dualVars, writerVars>>
    BY <1>3, ThreadFrames
  <2>2. comp'[d] = comp[d] /\ mq'[d] = mq[d]
    BY <1>3 DEF CompNext, CompAfterCache, CompUnique, CompEnd, Forward, TypeOK
  <2>3. QED
    BY <2>1, <2>2 DEF Holds, clientVars, recvVars, dualVars, writerVars
<1>4. CASE WriterNext(cl)
  <2>1. UNCHANGED <<clientVars, recvVars, dualVars, comp>>
    BY <1>4, ThreadFrames
  <2>2. writer'[d] = writer[d] /\ writer_hand'[d] = writer_hand[d] /\ mq'[d] = mq[d]
    <3>1. CASE PopCacheDelta(cl) \/ PopUnique(cl)
      BY <3>1 DEF PopCacheDelta, PopUnique, WriterGo, Pop, TypeOK
    <3>2. CASE QueryBaseAddr(cl) \/ ReadBase(cl)
      BY <3>2 DEF QueryBaseAddr, ReadBase, WriterGo, writerVars, TypeOK
    <3>3. CASE SaveOpen(cl) \/ SaveClose(cl)
      BY <3>3 DEF SaveOpen, SaveClose, writerVars
    <3>4. CASE WriteDirect(cl) \/ Write(cl)
      BY <3>4 DEF WriteDirect, Write, WriteChunk, WriterGo, TypeOK
    <3>5. CASE PublishFeatures(cl) \/ PublishAddr(cl) \/ WriterTail(cl) \/ WriterEnd(cl)
      BY <3>5 DEF PublishFeatures, PublishAddr, WriterTail, WriterEnd, WriterGo, TypeOK
    <3>6. QED
      BY <1>4, <3>1, <3>2, <3>3, <3>4, <3>5 DEF WriterNext
  <2>3. QED
    BY <2>1, <2>2 DEF Holds, clientVars, recvVars, dualVars
<1>5. QED
  BY <1>1, <1>2, <1>3, <1>4 DEF Step

(* What DataRecvThd and DataWriterThd leave alone in the queues.           *)
LEMMA RecvQueues ==
  ASSUME TypeOK, HandsInv, NEW cl \in Client, SessionStart(cl) \/ RecvNext(cl)
  PROVE  /\ Elsewhere(cl, {"recv_2_dual"})
         /\ Holds(cl, "recv_2_dual") \subseteq Holds(cl, "recv_2_dual")'
<1>1. "recv_2_dual" \in Queue
  BY DEF Queue
<1>2. CASE SessionStart(cl) \/ RecvEnd(cl)
  BY <1>1, <1>2, QueuesStay DEF SessionStart, RecvEnd, Elsewhere
<1>3. ASSUME NEW c \in Chunk, RecvFullEDR(cl, c)
      PROVE  /\ Elsewhere(cl, {"recv_2_dual"})
             /\ Holds(cl, "recv_2_dual") \subseteq Holds(cl, "recv_2_dual")'
  BY <1>3, RecvEffect
<1>4. ASSUME NEW c \in Chunk, RecvNormal(cl, c)
      PROVE  /\ Elsewhere(cl, {"recv_2_dual"})
             /\ Holds(cl, "recv_2_dual") \subseteq Holds(cl, "recv_2_dual")'
  BY <1>1, <1>4, QueuesStay DEF RecvNormal, Elsewhere
<1>5. CASE RecvInsert(cl)
  BY <1>5, RecvInsertEffect
<1>6. QED
  BY <1>2, <1>3, <1>4, <1>5 DEF RecvNext

LEMMA WriterQueues ==
  ASSUME NEW cl \in Client, WriterNext(cl), ~ PopCacheDelta(cl), ~ PopUnique(cl)
  PROVE  UNCHANGED mq
<1>1. CASE QueryBaseAddr(cl) \/ ReadBase(cl) \/ SaveOpen(cl) \/ SaveClose(cl)
  BY <1>1 DEF QueryBaseAddr, ReadBase, SaveOpen, SaveClose
<1>2. CASE WriteDirect(cl) \/ Write(cl)
  BY <1>2 DEF WriteDirect, Write
<1>3. CASE PublishFeatures(cl) \/ PublishAddr(cl) \/ WriterTail(cl) \/ WriterEnd(cl)
  BY <1>3 DEF PublishFeatures, PublishAddr, WriterTail, WriterEnd
<1>4. QED
  BY <1>1, <1>2, <1>3 DEF WriterNext

(* Only popping and publishing change the chunk in the writer's hand.      *)
LEMMA WriterKeeps ==
  ASSUME TypeOK, NEW cl \in Client, WriterNext(cl), ~ PopCacheDelta(cl), ~ PopUnique(cl),
         ~ PublishAddr(cl)
  PROVE  writer_hand'[cl].chunk = writer_hand[cl].chunk
<1>1. CASE QueryBaseAddr(cl)
  BY <1>1 DEF QueryBaseAddr, writerVars, TypeOK, Hand
<1>2. CASE ReadBase(cl)
  BY <1>2 DEF ReadBase, TypeOK, Hand
<1>3. CASE WriteDirect(cl) \/ Write(cl)
  BY <1>3 DEF WriteDirect, Write, WriteChunk, TypeOK, Hand
<1>4. CASE SaveOpen(cl) \/ SaveClose(cl) \/ PublishFeatures(cl) \/ WriterTail(cl) \/ WriterEnd(cl)
  BY <1>4 DEF SaveOpen, SaveClose, PublishFeatures, WriterTail, WriterEnd, writerVars
<1>5. QED
  BY <1>1, <1>2, <1>3, <1>4 DEF WriterNext

-----------------------------------------------------------------------------
(* Threads leave in order, with empty queues behind them.                  *)

EndsAt(cl) ==
  /\ dual[cl] = "end" => recv[cl] = "end" /\ Holds(cl, "recv_2_dual") = {}
  /\ comp[cl] = "end" => dual[cl] = "end" /\ Holds(cl, "dual_2_comp") = {}
  /\ writer[cl] \in {"tail", "end"} =>
       comp[cl] = "end" /\ Holds(cl, "comp_2_writer") = {}

LEMMA EndsStep ==
  ASSUME TypeOK, HandsInv, EndsInv, NEW cl \in Client, Step(cl)
  PROVE  EndsInv'
<1>1. /\ EndsAt(cl) /\ Queue = {"recv_2_dual", "dual_2_comp", "comp_2_writer"}
      /\ \A d \in Client : EndsAt(d)
  BY DEF EndsInv, EndsAt, Queue
<1>2. SUFFICES EndsAt(cl)'
  <2>1. ASSUME NEW d \in Client \ {cl}
        PROVE  EndsAt(d)'
    BY <1>1, Others DEF EndsAt
  <2>2. QED
    BY <2>1 DEF EndsInv, EndsAt
<1>3. CASE SessionStart(cl) \/ RecvNext(cl)
  <2>1. UNCHANGED <<dual, comp, writer>>
    BY <1>3, ThreadFrames DEF dualVars, writerVars
  <2>2. recv[cl] # "end"
    BY <1>3 DEF SessionStart, RecvNext, RecvFullEDR, RecvNormal, RecvInsert, RecvEnd
  <2>3. dual[cl] # "end" /\ comp[cl] # "end" /\ writer[cl] \notin {"tail", "end"}
    BY <1>1, <2>2 DEF EndsAt
  <2>4. QED
    BY <2>1, <2>3 DEF EndsAt
<1>4. CASE DualNext(cl)
  <2>1. UNCHANGED <<recv, comp, writer>>
    BY <1>4, ThreadFrames DEF recvVars, writerVars
  <2>2. dual[cl] # "end"
    BY <1>4 DEF DualNext, DualPop, DualInsert, DualExit, DualEnd
  <2>3. comp[cl] # "end" /\ writer[cl] \notin {"tail", "end"}
    BY <1>1, <2>2 DEF EndsAt
  <2>4. CASE DualEnd(cl)
    <3>1. recv[cl] = "end" /\ Holds(cl, "recv_2_dual")' = {}
      BY <2>4 DEF DualEnd, Holds
    <3>2. QED
      BY <2>1, <2>3, <3>1 DEF EndsAt
  <2>5. CASE ~ DualEnd(cl)
    <3>1. dual'[cl] # "end"
      BY <1>4, <2>2, <2>5 DEF DualNext, DualPop, DualInsert, DualExit, dualVars, TypeOK
    <3>2. QED
      BY <2>1, <2>3, <3>1 DEF EndsAt
  <2>6. QED
    BY <2>4, <2>5
<1>5. CASE CompNext(cl)
  <2>1. UNCHANGED <<recv, dual, writer>>
    BY <1>5, ThreadFrames DEF recvVars, dualVars, writerVars
  <2>2. comp[cl] # "end" /\ writer[cl] \notin {"tail", "end"}
    BY <1>1, <1>5 DEF CompNext, CompAfterCache, CompUnique, CompEnd, EndsAt
  <2>3. Holds(cl, "recv_2_dual")' = Holds(cl, "recv_2_dual")
    <3>1. CASE CompAfterCache(cl) \/ CompUnique(cl)
      BY <1>1, <3>1, CompEffect DEF Elsewhere
    <3>2. CASE CompEnd(cl)
      BY <1>1, <3>2, QueuesStay DEF CompEnd
    <3>3. QED
      BY <1>5, <3>1, <3>2 DEF CompNext
  <2>4. CASE CompEnd(cl)
    <3>1. dual[cl] = "end" /\ Holds(cl, "dual_2_comp")' = {}
      BY <2>4 DEF CompEnd, Holds
    <3>2. QED
      BY <1>1, <2>1, <2>2, <2>3, <3>1 DEF EndsAt
  <2>5. CASE ~ CompEnd(cl)
    <3>1. UNCHANGED comp
      BY <1>5, <2>5 DEF CompNext, CompAfterCache, CompUnique
    <3>2. QED
      BY <1>1, <2>1, <2>2, <2>3, <3>1 DEF EndsAt
  <2>6. QED
    BY <2>4, <2>5
<1>6. CASE WriterNext(cl)
  <2>1. UNCHANGED <<recv, dual, comp>>
    BY <1>6, ThreadFrames DEF recvVars, dualVars
  <2>2. CASE PopCacheDelta(cl) \/ PopUnique(cl)
    <3>1. writer'[cl] \in {"query", "write"} /\ Elsewhere(cl, {"comp_2_writer"})
      BY <2>2, WriterPopEffect
    <3>2. QED
      BY <1>1, <2>1, <3>1 DEF EndsAt, Elsewhere
  <2>3. CASE ~ PopCacheDelta(cl) /\ ~ PopUnique(cl)
    <3>1. \A q \in Queue : Holds(cl, q)' = Holds(cl, q)
      BY <1>6, <2>3, WriterQueues, QueuesStay
    <3>2. writer'[cl] \in {"tail", "end"} => comp[cl] = "end" /\ Holds(cl, "comp_2_writer") = {}
      <4>1. CASE WriterTail(cl)
        BY <4>1 DEF WriterTail, Holds
      <4>2. CASE WriterEnd(cl)
        BY <1>1, <4>2 DEF WriterEnd, EndsAt
      <4>3. CASE SaveOpen(cl) \/ SaveClose(cl)
        BY <1>1, <4>3 DEF SaveOpen, SaveClose, writerVars, EndsAt
      <4>4. CASE QueryBaseAddr(cl)
        BY <4>4 DEF QueryBaseAddr, WriterGo, writerVars, TypeOK
      <4>5. CASE ReadBase(cl) \/ WriteDirect(cl) \/ Write(cl)
        BY <4>5 DEF ReadBase, WriteDirect, Write, WriterGo, TypeOK
      <4>6. CASE PublishFeatures(cl) \/ PublishAddr(cl)
        BY <4>6 DEF PublishFeatures, PublishAddr, WriterGo, TypeOK
      <4>7. QED
        BY <1>6, <2>3, <4>1, <4>2, <4>3, <4>4, <4>5, <4>6 DEF WriterNext
    <3>3. QED
      BY <1>1, <2>1, <3>1, <3>2 DEF EndsAt
  <2>4. QED
    BY <2>2, <2>3
<1>7. QED
  BY <1>3, <1>4, <1>5, <1>6 DEF Step


-----------------------------------------------------------------------------
(* The fp index forgets nothing, and knows what is past DetectDuplicate.   *)

LEMMA RealFacts ==
  ASSUME NEW addr, IsReal(addr)
  PROVE  addr # NoAddr /\ addr # Virtual
BY AddrFacts DEF IsReal

(* What a step of a session does to the fp index.                          *)
LEMMA IndexMoves ==
  ASSUME TypeOK, HandsInv, NEW cl \in Client, Step(cl)
  PROVE  \/ UNCHANGED fp_2_addr
         \/ /\ RecvInsert(cl)
            /\ recv_hand[cl] \in Chunk
            /\ fp_2_addr' = [fp_2_addr EXCEPT ![recv_hand[cl]] = Virtual]
         \/ /\ DualInsert(cl)
            /\ dual_hand[cl].chunk \in Chunk
            /\ fp_2_addr' = [fp_2_addr EXCEPT ![dual_hand[cl].chunk] = Virtual]
         \/ /\ PublishAddr(cl)
            /\ writer_hand[cl].chunk \in Chunk /\ IsReal(writer_hand[cl].addr)
            /\ fp_2_addr' = [fp_2_addr EXCEPT ![writer_hand[cl].chunk] = writer_hand[cl].addr]
<1>1. CASE SessionStart(cl) \/ RecvNext(cl)
  BY <1>1 DEF SessionStart, RecvNext, RecvFullEDR, RecvNormal, RecvInsert, RecvEnd, HandsInv
<1>2. CASE DualNext(cl)
  BY <1>2, DualInsertEffect DEF DualNext, DualPop, DualInsert, DualExit, DualEnd
<1>3. CASE CompNext(cl)
  BY <1>3, ThreadFrames
<1>4. CASE WriterNext(cl)
  <2>1. CASE PopCacheDelta(cl) \/ PopUnique(cl) \/ QueryBaseAddr(cl) \/ ReadBase(cl)
    BY <2>1 DEF PopCacheDelta, PopUnique, QueryBaseAddr, ReadBase
  <2>2. CASE SaveOpen(cl) \/ SaveClose(cl) \/ WriteDirect(cl) \/ Write(cl)
    BY <2>2 DEF SaveOpen, SaveClose, WriteDirect, Write
  <2>3. CASE PublishFeatures(cl) \/ WriterTail(cl) \/ WriterEnd(cl)
    BY <2>3 DEF PublishFeatures, WriterTail, WriterEnd
  <2>4. CASE PublishAddr(cl)
    BY <2>4 DEF PublishAddr, HandsInv
  <2>5. QED
    BY <1>4, <2>1, <2>2, <2>3, <2>4 DEF WriterNext
<1>5. QED
  BY <1>1, <1>2, <1>3, <1>4 DEF Step

LEMMA IndexGrows ==
  ASSUME TypeOK, HandsInv, NEW cl \in Client, Step(cl), NEW c \in Chunk, InIndex(c)
  PROVE  InIndex(c)'
<1>1. ASSUME NEW k \in Chunk, NEW addr, addr # NoAddr,
             fp_2_addr' = [fp_2_addr EXCEPT ![k] = addr]
      PROVE  InIndex(c)'
  BY <1>1 DEF InIndex, TypeOK
<1>2. UNCHANGED fp_2_addr => InIndex(c)'
  BY DEF InIndex
<1>3. ASSUME NEW k \in Chunk, fp_2_addr' = [fp_2_addr EXCEPT ![k] = Virtual]
      PROVE  InIndex(c)'
  <2>1. Virtual # NoAddr
    BY AddrFacts
  <2>2. QED
    BY <1>1, <1>3, <2>1
<1>4. CASE /\ writer_hand[cl].chunk \in Chunk /\ IsReal(writer_hand[cl].addr)
           /\ fp_2_addr' = [fp_2_addr EXCEPT ![writer_hand[cl].chunk] = writer_hand[cl].addr]
  <2>1. writer_hand[cl].addr # NoAddr
    BY <1>4, RealFacts
  <2>2. QED
    BY <1>1, <1>4, <2>1
<1>5. QED
  BY <1>2, <1>3, <1>4, IndexMoves

LEMMA HoldsItems ==
  ASSUME TypeOK, NEW cl \in Client, NEW q \in Queue
  PROVE  \A e \in Holds(cl, q) : e \in Item /\ e.chunk \in Chunk
<1>1. mq[cl][q] \in Seq(Item)
  BY DEF TypeOK
<1>2. \A i \in 1 .. Len(mq[cl][q]) : mq[cl][q][i] \in Item
  BY <1>1
<1>3. QED
  BY <1>2 DEF Holds, Item

ClaimedAt(cl) ==
  /\ \A q \in {"dual_2_comp", "comp_2_writer"} :
       \A e \in Holds(cl, q) : InIndex(e.chunk)
  /\ writer[cl] \notin {"pop", "tail", "end"} => InIndex(writer_hand[cl].chunk)
  /\ writer[cl] = "query" => InIndex(writer_hand[cl].addr.base_fp)

LEMMA ClaimedStep ==
  ASSUME TypeOK, HandsInv, ClaimedInv, NEW cl \in Client, Step(cl)
  PROVE  ClaimedInv'
<1>1. /\ ClaimedAt(cl) /\ Queue = {"recv_2_dual", "dual_2_comp", "comp_2_writer"}
      /\ \A d \in Client : ClaimedAt(d)
      /\ \A c \in Chunk : InIndex(c) => InIndex(c)'
  BY IndexGrows DEF ClaimedInv, ClaimedAt, Queue
<1>2. \A d \in Client : \A q \in Queue : \A e \in Holds(d, q) : e.chunk \in Chunk
  BY HoldsItems
<1>3. \A d \in Client :
        /\ writer[d] \notin {"pop", "tail", "end"} => writer_hand[d].chunk \in Chunk
        /\ writer[d] = "query" => writer_hand[d].addr.base_fp \in Chunk
  BY DEF HandsInv
<1>4. \A f \in Known(feature_2_fp)' : InIndex(feature_2_fp[f])'
  <2>1. \A f \in Known(feature_2_fp) : feature_2_fp[f] \in Chunk
    BY DEF TypeOK, Known, Index
  <2>2. CASE UNCHANGED feature_2_fp
    BY <1>1, <2>1, <2>2 DEF ClaimedInv, Known, InIndex
  <2>3. CASE PublishFeatures(cl)
    <3>1. writer_hand[cl].chunk \in Chunk /\ InIndex(writer_hand[cl].chunk)
      BY <1>1, <1>3, <2>3 DEF PublishFeatures, ClaimedAt
    <3>2. /\ feature_2_fp \in Index
          /\ feature_2_fp' = UpdateFeatureIndex(feature_2_fp, writer_hand[cl].chunk)
          /\ UNCHANGED fp_2_addr
      BY <2>3 DEF PublishFeatures, TypeOK
    <3>3. \A f \in Feature : feature_2_fp'[f] \in {writer_hand[cl].chunk, feature_2_fp[f]}
      BY <3>1, <3>2, UpdateFeatureIndexFacts
    <3>4. QED
      BY <1>1, <3>1, <3>2, <3>3 DEF ClaimedInv, Known, InIndex
  <2>4. CASE WriterNext(cl) /\ ~ PublishFeatures(cl)
    <3>1. UNCHANGED feature_2_fp
      BY <2>4 DEF WriterNext, PopCacheDelta, PopUnique, QueryBaseAddr, ReadBase, SaveOpen,
                  SaveClose, WriteDirect, Write, PublishAddr, WriterTail, WriterEnd
    <3>2. QED
      BY <2>2, <3>1
  <2>5. QED
    BY <2>2, <2>3, <2>4, ThreadFrames DEF Step
<1>5. ASSUME NEW d \in Client \ {cl}
      PROVE  ClaimedAt(d)'
  <2>1. /\ writer'[d] = writer[d] /\ writer_hand'[d] = writer_hand[d]
        /\ \A q \in Queue : Holds(d, q)' = Holds(d, q)
    BY Others
  <2>2. ClaimedAt(d)
    BY <1>1
  <2>3. \A c \in Chunk : InIndex(c) => InIndex(c)'
    BY <1>1
  <2>4. \A q \in {"dual_2_comp", "comp_2_writer"} : \A e \in Holds(d, q)' : InIndex(e.chunk)'
    BY <1>1, <1>2, <2>1, <2>2 DEF ClaimedAt
  <2>5. /\ writer'[d] \notin {"pop", "tail", "end"} => InIndex(writer_hand[d].chunk)'
        /\ writer'[d] = "query" => InIndex(writer_hand[d].addr.base_fp)'
    BY <1>1, <1>3, <2>1, <2>2 DEF ClaimedAt, InIndex
  <2>6. QED
    BY <2>1, <2>4, <2>5 DEF ClaimedAt, InIndex
<1>6. ClaimedAt(cl)'
  <2>1. CASE SessionStart(cl) \/ RecvNext(cl)
    <3>1. UNCHANGED <<writer, writer_hand>>
      BY <2>1, ThreadFrames DEF writerVars
    <3>2. Elsewhere(cl, {"recv_2_dual"})
      BY <2>1, RecvQueues
    <3>3. \A q \in {"dual_2_comp", "comp_2_writer"} : Holds(cl, q)' = Holds(cl, q)
      BY <1>1, <3>2 DEF Elsewhere
    <3>4. QED
      BY <1>1, <1>2, <1>3, <3>1, <3>3 DEF ClaimedAt, InIndex
  <2>2. CASE DualNext(cl)
    <3>1. UNCHANGED <<writer, writer_hand>>
      BY <2>2, ThreadFrames DEF writerVars
    <3>2. CASE DualInsert(cl)
      <4>1. /\ dual_hand[cl].chunk \in Chunk
            /\ ForComp(dual_hand[cl]).chunk = dual_hand[cl].chunk
            /\ Holds(cl, "dual_2_comp")' = Holds(cl, "dual_2_comp") \cup {ForComp(dual_hand[cl])}
            /\ Holds(cl, "comp_2_writer")' = Holds(cl, "comp_2_writer")
        BY <1>1, <3>2, DualInsertEffect DEF Elsewhere
      <4>2. fp_2_addr'[dual_hand[cl].chunk] # NoAddr
        BY <3>2, <4>1, AddrFacts DEF DualInsert, TypeOK
      <4>3. \A q \in {"dual_2_comp", "comp_2_writer"} : \A e \in Holds(cl, q)' : InIndex(e.chunk)'
        <5>1. \A e \in Holds(cl, "dual_2_comp")' : InIndex(e.chunk)'
          <6>1. ASSUME NEW e \in Holds(cl, "dual_2_comp")'
                PROVE  InIndex(e.chunk)'
            <7>1. CASE e = ForComp(dual_hand[cl])
              BY <4>1, <4>2, <7>1 DEF InIndex
            <7>2. CASE e \in Holds(cl, "dual_2_comp")
              BY <1>1, <1>2, <7>2 DEF ClaimedAt
            <7>3. QED
              BY <4>1, <6>1, <7>1, <7>2
          <6>2. QED
            BY <6>1
        <5>2. \A e \in Holds(cl, "comp_2_writer")' : InIndex(e.chunk)'
          BY <1>1, <1>2, <4>1 DEF ClaimedAt
        <5>3. QED
          BY <5>1, <5>2
      <4>4. QED
        BY <1>1, <1>3, <3>1, <4>3 DEF ClaimedAt, InIndex
    <3>3. CASE ~ DualInsert(cl)
      <4>1. Elsewhere(cl, {"recv_2_dual"})
        <5>1. CASE DualPop(cl)
          BY <5>1, DualPopEffect
        <5>2. CASE DualExit(cl)
          <6>1. mq \in QueueType /\ mq[cl]["recv_2_dual"] # <<>> /\ Pop(cl, "recv_2_dual")
            BY <5>2 DEF DualExit, HasItem, TypeOK, QueueType
          <6>2. QED
            BY <1>1, <6>1, PopFacts DEF Elsewhere
        <5>3. CASE DualEnd(cl)
          BY <5>3, QueuesStay DEF DualEnd, Elsewhere
        <5>4. QED
          BY <2>2, <3>3, <5>1, <5>2, <5>3 DEF DualNext
      <4>2. \A q \in {"dual_2_comp", "comp_2_writer"} : Holds(cl, q)' = Holds(cl, q)
        BY <1>1, <4>1 DEF Elsewhere
      <4>3. QED
        BY <1>1, <1>2, <1>3, <3>1, <4>2 DEF ClaimedAt, InIndex
    <3>4. QED
      BY <3>2, <3>3
  <2>3. CASE CompNext(cl)
    <3>1. UNCHANGED <<writer, writer_hand, fp_2_addr>>
      BY <2>3, ThreadFrames DEF writerVars
    <3>2. CASE CompEnd(cl)
      <4>1. \A q \in Queue : Holds(cl, q)' = Holds(cl, q)
        BY <3>2, QueuesStay DEF CompEnd
      <4>2. QED
        BY <1>1, <3>1, <4>1 DEF ClaimedAt, InIndex
    <3>3. CASE CompAfterCache(cl) \/ CompUnique(cl)
      <4>1. PICK e \in Item, g \in Item :
               /\ g.chunk = e.chunk
               /\ Holds(cl, "dual_2_comp") = Holds(cl, "dual_2_comp")' \cup {e}
               /\ Holds(cl, "comp_2_writer")' = Holds(cl, "comp_2_writer") \cup {g}
        BY <3>3, CompEffect
      <4>2. InIndex(g.chunk)
        BY <1>1, <4>1 DEF ClaimedAt
      <4>3. \A q \in {"dual_2_comp", "comp_2_writer"} : \A x \in Holds(cl, q)' : InIndex(x.chunk)
        BY <1>1, <4>1, <4>2 DEF ClaimedAt
      <4>4. QED
        BY <1>1, <3>1, <4>3 DEF ClaimedAt, InIndex
    <3>4. QED
      BY <2>3, <3>2, <3>3 DEF CompNext
  <2>4. CASE PopCacheDelta(cl) \/ PopUnique(cl)
    <3>1. PICK e \in Item :
             /\ Holds(cl, "comp_2_writer") = Holds(cl, "comp_2_writer")' \cup {e}
             /\ Elsewhere(cl, {"comp_2_writer"})
             /\ writer_hand'[cl].chunk = e.chunk
             /\ writer'[cl] = "query" =>
                  \E f \in Known(feature_2_fp) : writer_hand'[cl].addr.base_fp = feature_2_fp[f]
      BY <2>4, WriterPopEffect
    <3>2. UNCHANGED fp_2_addr
      BY <2>4 DEF PopCacheDelta, PopUnique
    <3>3. /\ InIndex(e.chunk)
          /\ \A q \in {"dual_2_comp", "comp_2_writer"} : \A x \in Holds(cl, q)' : InIndex(x.chunk)
      BY <1>1, <3>1 DEF ClaimedAt, Elsewhere
    <3>4. writer'[cl] = "query" => InIndex(writer_hand'[cl].addr.base_fp)
      BY <3>1 DEF ClaimedInv
    <3>5. QED
      BY <3>1, <3>2, <3>3, <3>4 DEF ClaimedAt, InIndex
  <2>5. CASE WriterNext(cl) /\ ~ PopCacheDelta(cl) /\ ~ PopUnique(cl)
    <3>1. \A q \in Queue : Holds(cl, q)' = Holds(cl, q)
      BY <2>5, WriterQueues, QueuesStay
    <3>2. \/ writer'[cl] \in {"pop", "tail", "end"}
          \/ /\ writer'[cl] = writer[cl] /\ writer_hand'[cl] = writer_hand[cl]
          \/ /\ writer'[cl] # "query" /\ writer[cl] \notin {"pop", "tail", "end"}
             /\ writer_hand'[cl].chunk = writer_hand[cl].chunk
      <4>1. CASE QueryBaseAddr(cl)
        BY <4>1 DEF QueryBaseAddr, WriterGo, writerVars, TypeOK, Hand
      <4>5. CASE ReadBase(cl)
        BY <4>5 DEF ReadBase, WriterGo, TypeOK, Hand
      <4>2. CASE SaveOpen(cl) \/ SaveClose(cl)
        BY <4>2 DEF SaveOpen, SaveClose, writerVars
      <4>3. CASE WriteDirect(cl) \/ Write(cl)
        BY <4>3 DEF WriteDirect, Write, WriteChunk, WriterGo, TypeOK, Hand
      <4>4. CASE PublishFeatures(cl) \/ PublishAddr(cl) \/ WriterTail(cl) \/ WriterEnd(cl)
        BY <4>4 DEF PublishFeatures, PublishAddr, WriterTail, WriterEnd, WriterGo, TypeOK
      <4>6. QED
        BY <2>5, <4>1, <4>2, <4>3, <4>4, <4>5 DEF WriterNext
    <3>3. QED
      BY <1>1, <1>2, <1>3, <3>1, <3>2 DEF ClaimedAt, InIndex
  <2>6. QED
    BY <2>1, <2>2, <2>3, <2>4, <2>5 DEF Step
<1>7. QED
  BY <1>4, <1>5, <1>6 DEF ClaimedInv, ClaimedAt

-----------------------------------------------------------------------------
(* Sessions of method FULL_EDR stop no thread.                             *)

LEMMA ExitStep ==
  ASSUME TypeOK, HandsInv, ClaimedInv, ExitInv, NEW cl \in Client, Step(cl)
  PROVE  ExitInv'
<1> SUFFICES ASSUME \A d \in Client : Method[d] = "FULL_EDR"
             PROVE  NoNormal' /\ NoExit'
  BY DEF ExitInv
<1>1. NoNormal /\ NoExit /\ Queue = {"recv_2_dual", "dual_2_comp", "comp_2_writer"}
  BY DEF ExitInv, Queue
<1>2. ~ RecvInsert(cl) /\ \A c \in Chunk : ~ RecvNormal(cl, c)
  BY <1>1 DEF NoNormal, RecvInsert, RecvNormal
<1>3. ~ DualExit(cl)
  <2>1. mq \in QueueType
    BY DEF TypeOK, QueueType
  <2>2. HasItem(cl, "recv_2_dual", "UNIQUE_CHUNK") => FALSE
    BY <1>1, <2>1, HeadFacts DEF NoNormal
  <2>3. QED
    BY <2>2 DEF DualExit
<1>4. recv'[cl] # "insert"
  <2>1. CASE SessionStart(cl) \/ RecvEnd(cl)
    BY <2>1 DEF SessionStart, RecvEnd, TypeOK
  <2>2. ASSUME NEW c \in Chunk, RecvFullEDR(cl, c)
        PROVE  recv'[cl] # "insert"
    BY <1>1, <2>2 DEF RecvFullEDR, NoNormal, recvVars
  <2>3. CASE DualNext(cl) \/ CompNext(cl) \/ WriterNext(cl)
    BY <1>1, <2>3, ThreadFrames DEF NoNormal, recvVars
  <2>4. QED
    BY <1>2, <2>1, <2>2, <2>3 DEF Step, RecvNext
<1>5. \A e \in Holds(cl, "recv_2_dual")' : e.stat # "UNIQUE_CHUNK"
  <2>1. CASE Holds(cl, "recv_2_dual")' \subseteq Holds(cl, "recv_2_dual")
    BY <1>1, <2>1 DEF NoNormal
  <2>2. CASE SessionStart(cl) \/ RecvEnd(cl) \/ DualEnd(cl) \/ CompEnd(cl)
    BY <1>1, <2>1, <2>2, QueuesStay DEF SessionStart, RecvEnd, DualEnd, CompEnd
  <2>3. ASSUME NEW c \in Chunk, RecvFullEDR(cl, c)
        PROVE  \A e \in Holds(cl, "recv_2_dual")' : e.stat # "UNIQUE_CHUNK"
    BY <1>1, <2>3, RecvEffect DEF NoNormal
  <2>4. CASE DualPop(cl)
    BY <2>1, <2>4, DualPopEffect
  <2>5. CASE DualInsert(cl)
    BY <1>1, <2>1, <2>5, DualInsertEffect DEF Elsewhere
  <2>6. CASE CompAfterCache(cl) \/ CompUnique(cl)
    BY <1>1, <2>1, <2>6, CompEffect DEF Elsewhere
  <2>7. CASE PopCacheDelta(cl) \/ PopUnique(cl)
    BY <1>1, <2>1, <2>7, WriterPopEffect DEF Elsewhere
  <2>8. CASE WriterNext(cl) /\ ~ PopCacheDelta(cl) /\ ~ PopUnique(cl)
    BY <1>1, <2>1, <2>8, WriterQueues, QueuesStay
  <2>9. QED
    BY <1>2, <1>3, <2>2, <2>3, <2>4, <2>5, <2>6, <2>7, <2>8
    DEF Step, RecvNext, DualNext, CompNext
<1>6. NoNormal'
  <2>1. ASSUME NEW d \in Client \ {cl}
        PROVE  recv'[d] # "insert" /\ \A e \in Holds(d, "recv_2_dual")' : e.stat # "UNIQUE_CHUNK"
    BY <1>1, Others DEF NoNormal
  <2>2. QED
    BY <1>4, <1>5, <2>1 DEF NoNormal
<1>7. server' = server
  <2>1. CASE SessionStart(cl) \/ RecvNext(cl) \/ CompNext(cl)
    BY <2>1, ThreadFrames
  <2>2. CASE DualNext(cl)
    BY <1>3, <2>2 DEF DualNext, DualPop, DualInsert, DualEnd
  <2>3. CASE QueryBaseAddr(cl)
    <3>1. fp_2_addr[writer_hand[cl].addr.base_fp] # NoAddr
      BY <2>3 DEF QueryBaseAddr, ClaimedInv, InIndex
    <3>2. QED
      BY <2>3, <3>1 DEF QueryBaseAddr
  <2>4. CASE PopCacheDelta(cl) \/ PopUnique(cl) \/ ReadBase(cl) \/ SaveOpen(cl)
    BY <2>4 DEF PopCacheDelta, PopUnique, ReadBase, SaveOpen
  <2>5. CASE SaveClose(cl) \/ WriteDirect(cl) \/ Write(cl)
    BY <2>5 DEF SaveClose, WriteDirect, Write
  <2>6. CASE PublishFeatures(cl) \/ PublishAddr(cl) \/ WriterTail(cl) \/ WriterEnd(cl)
    BY <2>6 DEF PublishFeatures, PublishAddr, WriterTail, WriterEnd
  <2>7. QED
    BY <2>1, <2>2, <2>3, <2>4, <2>5, <2>6 DEF Step, WriterNext
<1>8. QED
  BY <1>1, <1>6, <1>7 DEF NoExit

-----------------------------------------------------------------------------
(* Containers only grow, so an address leads where it led.                 *)

LEMMA SeqGrow ==
  ASSUME NEW S, NEW s \in Seq(S), NEW e \in S
  PROVE  /\ Append(s, e) \in Seq(S) /\ Len(s) \in Nat /\ Len(Append(s, e)) = Len(s) + 1
         /\ DOMAIN s = 1 .. Len(s) /\ DOMAIN Append(s, e) = 1 .. Len(s) + 1
         /\ \A i \in 1 .. Len(s) : Append(s, e)[i] = s[i]
         /\ Append(s, e)[Len(s) + 1] = e
         /\ Append(s, e) # <<>>
<1>1. /\ Append(s, e) \in Seq(S) /\ Len(s) \in Nat /\ Len(Append(s, e)) = Len(s) + 1
      /\ DOMAIN s = 1 .. Len(s) /\ DOMAIN Append(s, e) = 1 .. Len(s) + 1
      /\ \A i \in 1 .. Len(s) : Append(s, e)[i] = s[i]
      /\ Append(s, e)[Len(s) + 1] = e
  OBVIOUS
<1>2. Append(s, e) # <<>>
  <2>1. Len(<<>>) = 0 /\ Len(s) + 1 # 0
    BY <1>1
  <2>2. QED
    BY <1>1, <2>1
<1>3. QED
  BY <1>1, <1>2

(* What the containers of a client hold, t, holds all that s held.         *)
Extends(t, s) ==
  \A n \in DOMAIN s :
    /\ n \in DOMAIN t
    /\ \A i \in DOMAIN s[n] : i \in DOMAIN t[n] /\ t[n][i] = s[n][i]

LEMMA ContainersGrow ==
  ASSUME ContainerTypeOK(Stored), NEW cl \in Client,
         \/ \E item \in Stored : AddItem(cl, item)
         \/ OpenFile(cl) \/ CloseFile(cl)
  PROVE  \A d \in Client : Extends(Containers(d)', Containers(d))
<1>1. /\ \A d \in Client : cur[d] \in Seq(Stored) /\ saved[d] \in Seq(Seq(Stored))
      /\ \A d \in Client : Containers(d) \in Seq(Seq(Stored))
  <2>1. \A d \in Client : cur[d] \in Seq(Stored) /\ saved[d] \in Seq(Seq(Stored))
    BY DEF ContainerTypeOK
  <2>2. QED
    BY <2>1, SeqGrow DEF Containers
<1>2. ASSUME NEW d \in Client, UNCHANGED <<saved[d], cur[d]>>
      PROVE  Extends(Containers(d)', Containers(d))
  BY <1>2 DEF Extends, Containers
<1>3. CASE OpenFile(cl)
  BY <1>2, <1>3 DEF OpenFile
<1>4. ASSUME NEW item \in Stored, AddItem(cl, item)
      PROVE  \A d \in Client : Extends(Containers(d)', Containers(d))
  <2>1. /\ cur'[cl] = Append(cur[cl], item) /\ saved' = saved
        /\ \A d \in Client \ {cl} : UNCHANGED <<saved[d], cur[d]>>
    BY <1>4 DEF AddItem, ContainerTypeOK
  <2>2. cur'[cl] # <<>> /\ Containers(cl)' = Append(saved[cl], cur'[cl])
    <3>1. cur[cl] \in Seq(Stored)
      BY <1>1
    <3>2. Append(cur[cl], item) # <<>>
      BY <3>1, SeqGrow
    <3>3. cur'[cl] # <<>>
      BY <2>1, <3>2
    <3>4. QED
      BY <2>1, <3>3 DEF Containers
  <2>3. cur'[cl] \in Seq(Stored)
    BY <1>1, <2>1, SeqGrow
  <2>4. CASE cur[cl] = <<>>
    <3>1. Containers(cl) = saved[cl]
      BY <2>4 DEF Containers
    <3>2. Extends(Append(saved[cl], cur'[cl]), saved[cl])
      BY <1>1, <2>3, SeqGrow DEF Extends
    <3>3. Extends(Containers(cl)', Containers(cl))
      BY <2>2, <3>1, <3>2 DEF Containers, Extends
    <3>4. QED
      BY <1>2, <2>1, <3>3
  <2>5. CASE cur[cl] # <<>>
    <3>1. Containers(cl) = Append(saved[cl], cur[cl])
      BY <2>5 DEF Containers
    <3> DEFINE s == saved[cl] c == cur[cl] t == cur'[cl]
    <3>2. /\ DOMAIN Append(s, c) = 1 .. Len(s) + 1 /\ DOMAIN Append(s, t) = 1 .. Len(s) + 1
          /\ Append(s, c)[Len(s) + 1] = c /\ Append(s, t)[Len(s) + 1] = t
          /\ \A n \in 1 .. Len(s) : Append(s, c)[n] = s[n] /\ Append(s, t)[n] = s[n]
          /\ Len(s) \in Nat
      BY <1>1, <2>3, SeqGrow
    <3>3. \A i \in DOMAIN c : i \in DOMAIN t /\ t[i] = c[i]
      BY <1>1, <2>1, SeqGrow
    <3> HIDE DEF s, c, t
    <3>4. Extends(Append(s, t), Append(s, c))
      <4>1. ASSUME NEW n \in DOMAIN Append(s, c), NEW i \in DOMAIN Append(s, c)[n]
            PROVE  i \in DOMAIN Append(s, t)[n] /\ Append(s, t)[n][i] = Append(s, c)[n][i]
        <5>1. CASE n = Len(s) + 1
          BY <3>2, <3>3, <4>1, <5>1
        <5>2. CASE n # Len(s) + 1
          <6>1. n \in 1 .. Len(s)
            BY <3>2, <5>2
          <6>2. QED
            BY <3>2, <6>1
        <5>3. QED
          BY <5>1, <5>2
      <4>2. QED
        BY <3>2, <4>1 DEF Extends
    <3>5. QED
      BY <1>2, <2>1, <2>2, <3>1, <3>4 DEF s, c, t
  <2>6. QED
    BY <2>4, <2>5
<1>5. CASE CloseFile(cl)
  <2>1. /\ saved'[cl] = Append(saved[cl], cur[cl]) /\ cur'[cl] = <<>>
        /\ \A d \in Client \ {cl} : UNCHANGED <<saved[d], cur[d]>>
    BY <1>5 DEF CloseFile, ContainerTypeOK
  <2>2. Containers(cl)' = Append(saved[cl], cur[cl])
    BY <2>1 DEF Containers
  <2>3. Extends(Append(saved[cl], cur[cl]), saved[cl])
    BY <1>1, SeqGrow DEF Extends
  <2>4. Extends(Containers(cl)', Containers(cl))
    BY <2>2, <2>3 DEF Containers, Extends
  <2>5. QED
    BY <1>2, <2>1, <2>4
<1>6. QED
  BY <1>3, <1>4, <1>5

(* A chunk is where its address says as soon as WriteChunk has added it.   *)
LEMMA ContainersHold ==
  ASSUME ContainerTypeOK(Stored), NEW cl \in Client, NEW item \in Stored, AddItem(cl, item)
  PROVE  /\ Len(saved[cl]) + 1 \in DOMAIN Containers(cl)'
         /\ NextOffset(cl) \in DOMAIN Containers(cl)'[Len(saved[cl]) + 1]
         /\ Containers(cl)'[Len(saved[cl]) + 1][NextOffset(cl)] = item
<1>1. cur[cl] \in Seq(Stored) /\ saved[cl] \in Seq(Seq(Stored))
  BY DEF ContainerTypeOK
<1>2. cur'[cl] = Append(cur[cl], item) /\ saved' = saved
  BY DEF AddItem, ContainerTypeOK
<1>3. cur'[cl] # <<>> /\ cur'[cl] \in Seq(Stored)
  <2>1. Append(cur[cl], item) # <<>> /\ Append(cur[cl], item) \in Seq(Stored)
    BY <1>1, SeqGrow
  <2>2. QED
    BY <1>2, <2>1
<1>4. Containers(cl)' = Append(saved[cl], cur'[cl])
  BY <1>2, <1>3 DEF Containers
<1>5. /\ Len(saved[cl]) + 1 \in DOMAIN Append(saved[cl], cur'[cl])
      /\ Append(saved[cl], cur'[cl])[Len(saved[cl]) + 1] = cur'[cl]
  BY <1>1, <1>3, SeqGrow
<1>6. NextOffset(cl) \in DOMAIN cur'[cl] /\ cur'[cl][NextOffset(cl)] = item
  <2>1. /\ Len(cur[cl]) + 1 \in DOMAIN Append(cur[cl], item)
        /\ Append(cur[cl], item)[Len(cur[cl]) + 1] = item
    BY <1>1, SeqGrow
  <2>2. QED
    BY <1>2, <2>1 DEF NextOffset
<1>7. QED
  BY <1>4, <1>5, <1>6

(* An address leads home as long as the containers only grow.              *)
LEMMA HomeStays ==
  ASSUME \A d \in Client : Extends(Containers(d)', Containers(d)),
         NEW addr, NEW c, AddrHome(addr, c)
  PROVE  AddrHome(addr, c)'
<1>1. addr.container_id \in ContainerId /\ addr.container_id[1] \in Client
  BY DEF AddrHome, ContainerId
<1>2. Extends(Containers(addr.container_id[1])', Containers(addr.container_id[1]))
  BY <1>1
<1>3. QED
  BY <1>1, <1>2 DEF AddrHome, Extends

LEMMA ContainerMoves ==
  ASSUME TypeOK, HandsInv, NEW cl \in Client, Step(cl)
  PROVE  \A d \in Client : Extends(Containers(d)', Containers(d))
<1>1. CASE UNCHANGED containerVars
  BY <1>1 DEF containerVars, Containers, Extends
<1>2. ContainerTypeOK(Stored)
  BY DEF TypeOK
<1>3. CASE SaveOpen(cl) \/ SaveClose(cl)
  BY <1>2, <1>3, ContainersGrow DEF SaveOpen, SaveClose
<1>4. ASSUME writer[cl] \in {"direct", "write"}, NEW stat \in Stat, WriteChunk(cl, stat)
      PROVE  \A d \in Client : Extends(Containers(d)', Containers(d))
  <2>1. \E item \in Stored : AddItem(cl, item)
    BY <1>4, WriteChunkFacts
  <2>2. QED
    BY <1>2, <2>1, ContainersGrow
<1>5. CASE WriteDirect(cl)
  BY <1>4, <1>5 DEF WriteDirect, Stat
<1>6. CASE Write(cl)
  <2>1. writer_hand[cl].addr.stat \in Stat
    BY WriterHand DEF Addr
  <2>2. QED
    BY <1>4, <1>6, <2>1 DEF Write
<1>7. CASE SessionStart(cl) \/ RecvNext(cl) \/ DualNext(cl) \/ CompNext(cl)
  BY <1>1, <1>7, ThreadFrames
<1>8. CASE WriterNext(cl) /\ ~ SaveOpen(cl) /\ ~ SaveClose(cl) /\ ~ WriteDirect(cl) /\ ~ Write(cl)
  <2>1. UNCHANGED containerVars
    BY <1>8 DEF WriterNext, PopCacheDelta, PopUnique, QueryBaseAddr, ReadBase,
                PublishFeatures, PublishAddr, WriterTail, WriterEnd
  <2>2. QED
    BY <1>1, <2>1
<1>9. QED
  BY <1>3, <1>5, <1>6, <1>7, <1>8 DEF Step

LEMMA HomeStep ==
  ASSUME TypeOK, HandsInv, HomeInv, NEW cl \in Client, Step(cl)
  PROVE  HomeInv'
<1>1. \A addr, c : AddrHome(addr, c) => AddrHome(addr, c)'
  BY ContainerMoves, HomeStays
<1>2. ASSUME NEW c \in RealChunks'
      PROVE  AddrHome(fp_2_addr[c], c)'
  <2>1. c \in Chunk /\ IsReal(fp_2_addr'[c])
    BY <1>2 DEF RealChunks, IsReal
  <2>2. CASE fp_2_addr'[c] = fp_2_addr[c]
    <3>1. AddrHome(fp_2_addr[c], c)
      BY <2>1, <2>2 DEF HomeInv, RealChunks
    <3>2. PICK addr : addr = fp_2_addr[c]
      OBVIOUS
    <3>3. AddrHome(addr, c)'
      BY <1>1, <3>1, <3>2
    <3>4. QED
      BY <2>2, <3>2, <3>3 DEF AddrHome
  <2>3. CASE /\ PublishAddr(cl) /\ c = writer_hand[cl].chunk
             /\ fp_2_addr'[c] = writer_hand[cl].addr
    <3>1. AddrHome(writer_hand[cl].addr, c)
      BY <2>3 DEF HomeInv, PublishAddr
    <3>2. PICK addr : addr = writer_hand[cl].addr
      OBVIOUS
    <3>3. AddrHome(addr, c)'
      BY <1>1, <3>1, <3>2
    <3>4. QED
      BY <2>3, <3>2, <3>3 DEF AddrHome
  <2>4. ASSUME NEW k \in Chunk, fp_2_addr' = [fp_2_addr EXCEPT ![k] = Virtual]
        PROVE  fp_2_addr'[c] = fp_2_addr[c]
    BY <2>1, <2>4, AddrFacts DEF IsReal, TypeOK
  <2>5. ASSUME PublishAddr(cl), writer_hand[cl].chunk \in Chunk
        PROVE  \/ fp_2_addr'[c] = fp_2_addr[c]
               \/ c = writer_hand[cl].chunk /\ fp_2_addr'[c] = writer_hand[cl].addr
    BY <2>1, <2>5 DEF PublishAddr, TypeOK
  <2>6. QED
    BY <2>2, <2>3, <2>4, <2>5, IndexMoves
<1>3. ASSUME NEW d \in Client, writer'[d] \in {"index", "addr"}
      PROVE  AddrHome(writer_hand[d].addr, writer_hand[d].chunk)'
  <2>1. CASE /\ writer[d] \in {"index", "addr"}
             /\ writer_hand'[d] = writer_hand[d]
    <3>1. AddrHome(writer_hand[d].addr, writer_hand[d].chunk)
      BY <2>1 DEF HomeInv
    <3>2. PICK hand : hand = writer_hand[d]
      OBVIOUS
    <3>3. AddrHome(hand.addr, hand.chunk)'
      BY <1>1, <3>1, <3>2
    <3>4. QED
      BY <2>1, <3>2, <3>3 DEF AddrHome
  <2>2. CASE d # cl
    BY <1>3, <2>1, <2>2, Others
  <2>3. CASE d = cl /\ Write(cl)
    <3> DEFINE stat == writer_hand[cl].addr.stat
               item == [chunk |-> writer_hand[cl].chunk, stat |-> stat,
                        read |-> writer_hand[cl].read]
    <3>1. stat \in Stat /\ writer[cl] = "write" /\ WriteChunk(cl, stat)
      BY <2>3, WriterHand DEF Write, Addr
    <3>2. PICK hand \in Hand :
            /\ hand.chunk = writer_hand[cl].chunk /\ hand.addr.stat = stat
            /\ hand.addr.container_id = CurId(cl) /\ hand.addr.offset = NextOffset(cl)
            /\ CurId(cl) \in ContainerId
            /\ writer_hand' = [writer_hand EXCEPT ![cl] = hand]
            /\ item \in Stored /\ AddItem(cl, item)
      BY <3>1, WriteChunkFacts
    <3>3. item.chunk = hand.chunk /\ item.stat = hand.addr.stat
      BY <3>2
    <3> HIDE DEF item, stat
    <3>4. writer_hand'[cl] = hand
      BY <3>2 DEF TypeOK
    <3>5. /\ CurId(cl)[1] = cl /\ CurId(cl)[2] = Len(saved[cl]) + 1
          /\ ContainerTypeOK(Stored)
      BY DEF CurId, TypeOK
    <3>6. /\ Len(saved[cl]) + 1 \in DOMAIN Containers(cl)'
          /\ NextOffset(cl) \in DOMAIN Containers(cl)'[Len(saved[cl]) + 1]
          /\ Containers(cl)'[Len(saved[cl]) + 1][NextOffset(cl)] = item
      BY <3>2, <3>5, ContainersHold
    <3> DEFINE id == CurId(cl) at == NextOffset(cl) n == Len(saved[cl]) + 1
    <3>7. /\ hand.addr.container_id = id /\ hand.addr.offset = at /\ id \in ContainerId
          /\ id[1] = cl /\ id[2] = n
          /\ n \in DOMAIN Containers(cl)' /\ at \in DOMAIN Containers(cl)'[n]
          /\ Containers(cl)'[n][at] = item
      BY <3>2, <3>5, <3>6
    <3> HIDE DEF id, at, n
    <3>8. AddrHome(hand.addr, hand.chunk)'
      BY <3>3, <3>7 DEF AddrHome
    <3>9. QED
      BY <2>3, <3>4, <3>8 DEF AddrHome
  <2>4. CASE d = cl /\ ~ Write(cl)
    <3>1. CASE SessionStart(cl) \/ RecvNext(cl) \/ DualNext(cl) \/ CompNext(cl)
      BY <1>3, <2>1, <2>4, <3>1, ThreadFrames DEF writerVars
    <3>2. CASE PublishFeatures(cl)
      BY <2>1, <2>4, <3>2 DEF PublishFeatures
    <3>3. CASE SaveOpen(cl) \/ SaveClose(cl)
      BY <1>3, <2>1, <2>4, <3>3 DEF SaveOpen, SaveClose, writerVars
    <3>4. CASE PopCacheDelta(cl) \/ PopUnique(cl)
      BY <1>3, <2>4, <3>4, WriterPopEffect
    <3>5. CASE QueryBaseAddr(cl)
      BY <1>3, <2>4, <3>5 DEF QueryBaseAddr, WriterGo, writerVars, TypeOK
    <3>6. CASE ReadBase(cl)
      BY <1>3, <2>4, <3>6 DEF ReadBase, WriterGo, TypeOK
    <3>7. CASE WriteDirect(cl)
      BY <1>3, <2>4, <3>7 DEF WriteDirect, WriterGo, TypeOK
    <3>8. CASE PublishAddr(cl) \/ WriterTail(cl) \/ WriterEnd(cl)
      BY <1>3, <2>4, <3>8 DEF PublishAddr, WriterTail, WriterEnd, WriterGo, TypeOK
    <3>9. QED
      BY <2>4, <3>1, <3>2, <3>3, <3>4, <3>5, <3>6, <3>7, <3>8 DEF Step, WriterNext
  <2>5. QED
    BY <2>2, <2>3, <2>4
<1>4. QED
  BY <1>2, <1>3 DEF HomeInv

-----------------------------------------------------------------------------
(* Nothing is lost.                                                        *)

LEMMA AddrStep ==
  ASSUME TypeOK, HandsInv, AddrInv, NEW cl \in Client, Step(cl)
  PROVE  AddrInv'
<1>1. ASSUME NEW k \in Chunk, NEW addr, addr.stat = "virtual" \/ IsReal(addr),
             fp_2_addr' = [fp_2_addr EXCEPT ![k] = addr]
      PROVE  AddrInv'
  <2>1. fp_2_addr'[k] = addr /\ \A c \in Chunk \ {k} : fp_2_addr'[c] = fp_2_addr[c]
    BY <1>1 DEF TypeOK
  <2>2. QED
    BY <1>1, <2>1 DEF AddrInv, InIndex, IsReal
<1>2. UNCHANGED fp_2_addr => AddrInv'
  BY DEF AddrInv, InIndex, IsReal
<1>3. ASSUME NEW k \in Chunk, fp_2_addr' = [fp_2_addr EXCEPT ![k] = Virtual]
      PROVE  AddrInv'
  <2>1. Virtual.stat = "virtual"
    BY AddrFacts
  <2>2. QED
    BY <1>1, <1>3, <2>1
<1>4. QED
  BY <1>1, <1>2, <1>3, IndexMoves

LEMMA ClaimsCarry ==
  ASSUME NEW cl \in Client, NEW c \in Chunk, Claims(cl, c)
  PROVE  Carries(cl, c)
BY DEF Claims, Carries, Queue

LEMMA ClaimsStay ==
  ASSUME TypeOK, HandsInv, NEW cl \in Client, Step(cl), server' = "up",
         NEW d \in Client, NEW c \in Chunk, Claims(d, c)
  PROVE  Claims(d, c)' \/ fp_2_addr'[c].stat # "virtual"
<1>1. Queue = {"recv_2_dual", "dual_2_comp", "comp_2_writer"} /\ c # NoBase
  BY DEF Queue
<1>2. CASE d # cl
  BY <1>1, <1>2, Others DEF Claims
<1> SUFFICES ASSUME d = cl
             PROVE  Claims(cl, c)' \/ fp_2_addr'[c].stat # "virtual"
  BY <1>2
<1>3. ASSUME Holds(cl, "recv_2_dual") \subseteq Holds(cl, "recv_2_dual")',
             Holds(cl, "dual_2_comp") \subseteq Holds(cl, "dual_2_comp")',
             Holds(cl, "comp_2_writer") \subseteq Holds(cl, "comp_2_writer")',
             writer_hand'[cl].chunk = writer_hand[cl].chunk
      PROVE  Claims(cl, c)'
  BY <1>3 DEF Claims
<1>4. CASE SessionStart(cl) \/ RecvNext(cl)
  BY <1>1, <1>3, <1>4, RecvQueues, ThreadFrames DEF Elsewhere, writerVars
<1>5. CASE DualPop(cl)
  <2>1. UNCHANGED writer_hand
    BY <1>5 DEF DualPop, writerVars
  <2>2. PICK e \in Item : /\ e.stat # "UNIQUE_CHUNK"
                          /\ Holds(cl, "recv_2_dual") = Holds(cl, "recv_2_dual")' \cup {e}
                          /\ Elsewhere(cl, {"recv_2_dual"})
    BY <1>5, DualPopEffect
  <2>3. /\ Holds(cl, "dual_2_comp")' = Holds(cl, "dual_2_comp")
        /\ Holds(cl, "comp_2_writer")' = Holds(cl, "comp_2_writer")
    BY <1>1, <2>2 DEF Elsewhere
  <2>4. QED
    BY <2>1, <2>2, <2>3 DEF Claims
<1>6. CASE DualInsert(cl)
  <2>1. UNCHANGED writer_hand
    BY <1>6 DEF DualInsert, writerVars
  <2>2. QED
    BY <1>1, <1>3, <1>6, <2>1, DualInsertEffect DEF Elsewhere
<1>7. CASE DualEnd(cl) \/ CompEnd(cl)
  <2>1. UNCHANGED <<mq, writer_hand>>
    BY <1>7 DEF DualEnd, CompEnd, writerVars
  <2>2. QED
    BY <1>1, <1>3, <2>1, QueuesStay
<1>8. CASE CompAfterCache(cl) \/ CompUnique(cl)
  <2>1. UNCHANGED writer_hand
    BY <1>8, ThreadFrames DEF CompNext, writerVars
  <2>2. PICK e \in Item, g \in Item :
           /\ g.chunk = e.chunk
           /\ Holds(cl, "dual_2_comp") = Holds(cl, "dual_2_comp")' \cup {e}
           /\ Holds(cl, "comp_2_writer")' = Holds(cl, "comp_2_writer") \cup {g}
           /\ Elsewhere(cl, {"dual_2_comp", "comp_2_writer"})
    BY <1>8, CompEffect
  <2>3. Holds(cl, "recv_2_dual")' = Holds(cl, "recv_2_dual")
    BY <1>1, <2>2 DEF Elsewhere
  <2>4. QED
    BY <2>1, <2>2, <2>3 DEF Claims
<1>9. CASE PopCacheDelta(cl) \/ PopUnique(cl)
  <2>1. writer_hand[cl].chunk # c
    BY <1>1, <1>9 DEF PopCacheDelta, PopUnique, HandsInv, EmptyHand
  <2>2. PICK e \in Item :
           /\ Holds(cl, "comp_2_writer") = Holds(cl, "comp_2_writer")' \cup {e}
           /\ Elsewhere(cl, {"comp_2_writer"})
           /\ writer_hand'[cl].chunk = e.chunk
    BY <1>9, WriterPopEffect
  <2>3. /\ Holds(cl, "recv_2_dual")' = Holds(cl, "recv_2_dual")
        /\ Holds(cl, "dual_2_comp")' = Holds(cl, "dual_2_comp")
    BY <1>1, <2>2 DEF Elsewhere
  <2>4. QED
    BY <2>1, <2>2, <2>3 DEF Claims
<1>10. CASE PublishAddr(cl)
  <2>1. CASE writer_hand[cl].chunk = c
    <3>1. fp_2_addr'[c] = writer_hand[cl].addr /\ IsReal(writer_hand[cl].addr)
      BY <1>10, <2>1 DEF PublishAddr, HandsInv, TypeOK
    <3>2. QED
      BY <3>1 DEF IsReal
  <2>2. CASE writer_hand[cl].chunk # c
    <3>1. \A q \in Queue : Holds(cl, q)' = Holds(cl, q)
      BY <1>10, QueuesStay DEF PublishAddr
    <3>2. QED
      BY <1>1, <2>2, <3>1 DEF Claims
  <2>3. QED
    BY <2>1, <2>2
<1>11. CASE WriterNext(cl) /\ ~ PopCacheDelta(cl) /\ ~ PopUnique(cl) /\ ~ PublishAddr(cl)
  <2>1. writer_hand'[cl].chunk = writer_hand[cl].chunk
    BY <1>11, WriterKeeps
  <2>2. \A q \in Queue : Holds(cl, q)' = Holds(cl, q)
    BY <1>11, WriterQueues, QueuesStay
  <2>3. QED
    BY <1>1, <1>3, <2>1, <2>2
<1>12. ~ DualExit(cl)
  BY DEF DualExit
<1>13. QED
  BY <1>4, <1>5, <1>6, <1>7, <1>8, <1>9, <1>10, <1>11, <1>12 DEF Step, DualNext, CompNext

LEMMA CarriesStay ==
  ASSUME TypeOK, HandsInv, NEW cl \in Client, Step(cl), server' = "up",
         NEW d \in Client, NEW c \in Chunk, Carries(d, c)
  PROVE  Carries(d, c)' \/ fp_2_addr'[c] # NoAddr
<1>1. Queue = {"recv_2_dual", "dual_2_comp", "comp_2_writer"} /\ c # NoBase
  BY DEF Queue
<1>2. CASE d # cl
  BY <1>1, <1>2, Others DEF Carries
<1> SUFFICES ASSUME d = cl
             PROVE  Carries(cl, c)' \/ fp_2_addr'[c] # NoAddr
  BY <1>2
<1>3. ASSUME \A q \in Queue : Holds(cl, q) \subseteq Holds(cl, q)',
             recv_hand'[cl] = recv_hand[cl] \/ recv_hand[cl] = NoBase,
             \/ dual[cl] # "insert"
             \/ dual'[cl] = dual[cl] /\ dual_hand'[cl] = dual_hand[cl],
             writer_hand'[cl].chunk = writer_hand[cl].chunk
      PROVE  Carries(cl, c)'
  BY <1>1, <1>3 DEF Carries
<1>4. CASE SessionStart(cl) \/ RecvNext(cl)
  <2>1. UNCHANGED <<dual, dual_hand, writer_hand>>
    BY <1>4, ThreadFrames DEF dualVars, writerVars
  <2>2. \A q \in Queue : Holds(cl, q) \subseteq Holds(cl, q)'
    BY <1>1, <1>4, RecvQueues DEF Elsewhere
  <2>3. CASE ~ RecvInsert(cl)
    <3>1. recv_hand'[cl] = recv_hand[cl] \/ recv_hand[cl] = NoBase
      BY <1>4, <2>3 DEF SessionStart, RecvNext, RecvFullEDR, RecvNormal, RecvEnd, recvVars,
                        HandsInv
    <3>2. QED
      BY <1>3, <2>1, <2>2, <3>1
  <2>4. CASE RecvInsert(cl)
    <3>1. CASE recv_hand[cl] = c
      <4>1. fp_2_addr'[c] = Virtual
        BY <2>4, <3>1 DEF RecvInsert, TypeOK
      <4>2. QED
        BY <4>1, AddrFacts
    <3>2. CASE recv_hand[cl] # c
      BY <2>1, <2>2, <3>2 DEF Carries
    <3>3. QED
      BY <3>1, <3>2
  <2>5. QED
    BY <2>3, <2>4
<1>5. CASE DualPop(cl)
  <2>1. UNCHANGED <<fp_2_addr, recv_hand, writer_hand>> /\ dual[cl] = "pop"
    BY <1>5 DEF DualPop, recvVars, writerVars
  <2>2. PICK e \in Item : /\ Holds(cl, "recv_2_dual") = Holds(cl, "recv_2_dual")' \cup {e}
                          /\ Elsewhere(cl, {"recv_2_dual"})
                          /\ \/ fp_2_addr[e.chunk] # NoAddr
                             \/ /\ dual' = [dual EXCEPT ![cl] = "insert"]
                                /\ dual_hand' = [dual_hand EXCEPT ![cl] = e]
    BY <1>5, DualPopEffect
  <2>3. /\ Holds(cl, "dual_2_comp")' = Holds(cl, "dual_2_comp")
        /\ Holds(cl, "comp_2_writer")' = Holds(cl, "comp_2_writer")
    BY <1>1, <2>2 DEF Elsewhere
  <2>4. CASE e.chunk # c
    BY <1>1, <2>1, <2>2, <2>3, <2>4 DEF Carries
  <2>5. CASE e.chunk = c
    <3>1. CASE fp_2_addr[e.chunk] # NoAddr
      BY <2>1, <2>5, <3>1
    <3>2. CASE dual' = [dual EXCEPT ![cl] = "insert"] /\ dual_hand' = [dual_hand EXCEPT ![cl] = e]
      <4>1. dual'[cl] = "insert" /\ dual_hand'[cl] = e
        BY <3>2 DEF TypeOK
      <4>2. QED
        BY <2>5, <4>1 DEF Carries
    <3>3. QED
      BY <2>2, <3>1, <3>2
  <2>6. QED
    BY <2>4, <2>5
<1>6. CASE DualInsert(cl)
  <2>1. UNCHANGED <<recv_hand, writer_hand>>
    BY <1>6 DEF DualInsert, recvVars, writerVars
  <2>2. \A q \in Queue : Holds(cl, q) \subseteq Holds(cl, q)'
    BY <1>1, <1>6, DualInsertEffect DEF Elsewhere
  <2>3. CASE dual_hand[cl].chunk = c
    <3>1. fp_2_addr'[c] = Virtual
      BY <1>6, <2>3 DEF DualInsert, TypeOK
    <3>2. QED
      BY <3>1, AddrFacts
  <2>4. CASE dual_hand[cl].chunk # c
    BY <2>1, <2>2, <2>4 DEF Carries
  <2>5. QED
    BY <2>3, <2>4
<1>7. CASE DualEnd(cl) \/ CompEnd(cl)
  <2>1. UNCHANGED <<mq, recv_hand, dual_hand, writer_hand>>
    BY <1>7 DEF DualEnd, CompEnd, recvVars, dualVars, writerVars
  <2>2. dual[cl] # "insert" \/ dual'[cl] = dual[cl]
    BY <1>7 DEF DualEnd, CompEnd, dualVars
  <2>3. QED
    BY <1>3, <2>1, <2>2, QueuesStay
<1>8. CASE CompAfterCache(cl) \/ CompUnique(cl)
  <2>1. UNCHANGED <<recv_hand, dual, dual_hand, writer_hand>>
    BY <1>8, ThreadFrames DEF CompNext, recvVars, dualVars, writerVars
  <2>2. PICK e \in Item, g \in Item :
           /\ g.chunk = e.chunk
           /\ Holds(cl, "dual_2_comp") = Holds(cl, "dual_2_comp")' \cup {e}
           /\ Holds(cl, "comp_2_writer")' = Holds(cl, "comp_2_writer") \cup {g}
           /\ Elsewhere(cl, {"dual_2_comp", "comp_2_writer"})
    BY <1>8, CompEffect
  <2>3. Holds(cl, "recv_2_dual")' = Holds(cl, "recv_2_dual")
    BY <1>1, <2>2 DEF Elsewhere
  <2>4. QED
    BY <1>1, <2>1, <2>2, <2>3 DEF Carries
<1>9. CASE PopCacheDelta(cl) \/ PopUnique(cl)
  <2>1. writer_hand[cl].chunk # c
    BY <1>1, <1>9 DEF PopCacheDelta, PopUnique, HandsInv, EmptyHand
  <2>2. UNCHANGED <<recv_hand, dual, dual_hand>>
    BY <1>9, ThreadFrames DEF WriterNext, recvVars, dualVars
  <2>3. PICK e \in Item :
           /\ Holds(cl, "comp_2_writer") = Holds(cl, "comp_2_writer")' \cup {e}
           /\ Elsewhere(cl, {"comp_2_writer"})
           /\ writer_hand'[cl].chunk = e.chunk
    BY <1>9, WriterPopEffect
  <2>4. /\ Holds(cl, "recv_2_dual")' = Holds(cl, "recv_2_dual")
        /\ Holds(cl, "dual_2_comp")' = Holds(cl, "dual_2_comp")
    BY <1>1, <2>3 DEF Elsewhere
  <2>5. QED
    BY <1>1, <2>1, <2>2, <2>3, <2>4 DEF Carries
<1>10. CASE PublishAddr(cl)
  <2>1. UNCHANGED <<recv_hand, dual, dual_hand>>
    BY <1>10, ThreadFrames DEF WriterNext, recvVars, dualVars
  <2>2. CASE writer_hand[cl].chunk = c
    <3>1. fp_2_addr'[c] = writer_hand[cl].addr /\ IsReal(writer_hand[cl].addr)
      BY <1>10, <2>2 DEF PublishAddr, HandsInv, TypeOK
    <3>2. writer_hand[cl].addr # NoAddr
      BY <3>1, RealFacts
    <3>3. QED
      BY <3>1, <3>2
  <2>3. CASE writer_hand[cl].chunk # c
    <3>1. \A q \in Queue : Holds(cl, q)' = Holds(cl, q)
      BY <1>10, QueuesStay DEF PublishAddr
    <3>2. QED
      BY <2>1, <2>3, <3>1 DEF Carries
  <2>4. QED
    BY <2>2, <2>3
<1>11. CASE WriterNext(cl) /\ ~ PopCacheDelta(cl) /\ ~ PopUnique(cl) /\ ~ PublishAddr(cl)
  <2>1. writer_hand'[cl].chunk = writer_hand[cl].chunk
    BY <1>11, WriterKeeps
  <2>2. UNCHANGED <<recv_hand, dual, dual_hand>>
    BY <1>11, ThreadFrames DEF recvVars, dualVars
  <2>3. \A q \in Queue : Holds(cl, q)' = Holds(cl, q)
    BY <1>11, WriterQueues, QueuesStay
  <2>4. QED
    BY <1>3, <2>1, <2>2, <2>3
<1>12. ~ DualExit(cl)
  BY DEF DualExit
<1>13. QED
  BY <1>4, <1>5, <1>6, <1>7, <1>8, <1>9, <1>10, <1>11, <1>12 DEF Step, DualNext, CompNext

LEMMA FlightStep ==
  ASSUME TypeOK, HandsInv, AddrInv, FlightInv, server = "up", NEW cl \in Client, Step(cl)
  PROVE  FlightInv'
<1> SUFFICES ASSUME server' = "up", NEW c \in Chunk
             PROVE  /\ fp_2_addr'[c].stat = "virtual" => \E d \in Client : Claims(d, c)'
                    /\ (\E d \in Client : c \in recipe'[d]) =>
                         IsReal(fp_2_addr'[c]) \/ \E d \in Client : Carries(d, c)'
  BY DEF FlightInv, IsReal
<1>1. ASSUME fp_2_addr'[c].stat = "virtual"
      PROVE  \E d \in Client : Claims(d, c)'
  <2>1. CASE fp_2_addr'[c] = fp_2_addr[c]
    <3>1. PICK d \in Client : Claims(d, c)
      BY <1>1, <2>1 DEF FlightInv
    <3>2. QED
      BY <1>1, <3>1, ClaimsStay
  <2>2. CASE RecvInsert(cl) /\ recv_hand[cl] = c
    <3>1. Msg("UNIQUE_CHUNK", c, NoBase) \in Holds(cl, "recv_2_dual")'
      BY <2>2, RecvInsertEffect
    <3>2. Claims(cl, c)'
      BY <3>1 DEF Claims, Msg
    <3>3. QED
      BY <3>2
  <2>3. CASE DualInsert(cl) /\ dual_hand[cl].chunk = c
    <3>1. \E e \in Holds(cl, "dual_2_comp")' : e.chunk = c
      BY <2>3, DualInsertEffect
    <3>2. Claims(cl, c)'
      BY <3>1 DEF Claims
    <3>3. QED
      BY <3>2
  <2>4. CASE /\ PublishAddr(cl) /\ writer_hand[cl].chunk = c /\ IsReal(writer_hand[cl].addr)
             /\ fp_2_addr' = [fp_2_addr EXCEPT ![writer_hand[cl].chunk] = writer_hand[cl].addr]
    BY <1>1, <2>4 DEF IsReal, TypeOK
  <2>5. ASSUME NEW k, NEW addr, fp_2_addr' = [fp_2_addr EXCEPT ![k] = addr], k # c
        PROVE  fp_2_addr'[c] = fp_2_addr[c]
    BY <2>5 DEF TypeOK
  <2>6. QED
    BY <2>1, <2>2, <2>3, <2>4, <2>5, IndexMoves
<1>2. ASSUME InIndex(c)'
      PROVE  IsReal(fp_2_addr'[c]) \/ \E d \in Client : Carries(d, c)'
  <2>1. fp_2_addr'[c].stat = "virtual" \/ IsReal(fp_2_addr'[c])
    BY <1>2, AddrStep DEF AddrInv, InIndex, IsReal
  <2>2. ASSUME NEW d \in Client, Claims(d, c)'
        PROVE  Carries(d, c)'
    BY <2>2 DEF Claims, Carries, Queue
  <2>3. QED
    BY <1>1, <2>1, <2>2
<1>3. ASSUME NEW d \in Client, c \in recipe'[d]
      PROVE  IsReal(fp_2_addr'[c]) \/ \E e \in Client : Carries(e, c)'
  <2>1. CASE InIndex(c)
    BY <1>2, <2>1, IndexGrows
  <2>2. CASE c \in recipe[d]
    <3>1. CASE IsReal(fp_2_addr[c])
      BY <2>1, <3>1, RealFacts DEF InIndex
    <3>2. ASSUME NEW e \in Client, Carries(e, c)
          PROVE  IsReal(fp_2_addr'[c]) \/ Carries(e, c)' \/ InIndex(c)'
      BY <3>2, CarriesStay DEF InIndex
    <3>3. QED
      BY <1>2, <2>2, <3>1, <3>2 DEF FlightInv
  <2>3. CASE c \notin recipe[d]
    <3>1. d = cl /\ ~ UNCHANGED recipe
      BY <1>3, <2>3, Others
    <3>2. RecvNext(cl)
      BY <3>1, ThreadFrames DEF Step, SessionStart, clientVars
    <3>3. CASE RecvFullEDR(cl, c)
      <4>1. \E e \in Holds(cl, "recv_2_dual")' : e.chunk = c
        BY <3>3, RecvEffect
      <4>2. Carries(cl, c)'
        BY <4>1 DEF Carries, Queue
      <4>3. QED
        BY <4>2
    <3>4. CASE RecvNormal(cl, c)
      BY <2>1, <3>1, <3>4 DEF RecvNormal, InIndex
    <3>5. CASE RecvInsert(cl)
      <4>1. recv_hand[cl] = c
        BY <1>3, <2>3, <3>1, <3>5 DEF RecvInsert, TypeOK
      <4>2. fp_2_addr'[c] = Virtual
        BY <3>5, <4>1 DEF RecvInsert, TypeOK
      <4>3. QED
        BY <1>2, <4>2, AddrFacts DEF InIndex
    <3>6. ASSUME NEW b \in Chunk, b # c
          PROVE  ~ RecvFullEDR(cl, b) /\ ~ RecvNormal(cl, b)
      BY <1>3, <2>3, <3>1, <3>6 DEF RecvFullEDR, RecvNormal, TypeOK
    <3>7. ~ RecvEnd(cl)
      BY <3>1 DEF RecvEnd, clientVars
    <3>8. QED
      BY <3>2, <3>3, <3>4, <3>5, <3>6, <3>7 DEF RecvNext
  <2>4. QED
    BY <2>2, <2>3
<1>4. QED
  BY <1>1, <1>3

-----------------------------------------------------------------------------
(* The invariant, and what follows from it.                                *)

LEMMA UploadInit ==
  ASSUME Init
  PROVE  IInv
<1>1. NoAddr \in Addr /\ EmptyHand \in Hand /\ NoAddr.stat = "none" /\ EmptyIndex \in Index
  BY AddrFacts DEF EmptyIndex, Index
<1>2. \A cl \in Client, q \in Queue : mq[cl][q] = <<>> /\ Holds(cl, q) = {}
  BY DEF Init, Holds
<1>3. ContainerTypeOK(Stored)
  BY DEF Init, ContainerInit, ContainerTypeOK
<1>4. TypeOK
  <2>1. mq \in [Client -> [Queue -> Seq(Item)]]
    BY DEF Init
  <2>2. QED
    BY <1>1, <1>3, <2>1 DEF Init, TypeOK
<1>5. HandsInv /\ AddrInv /\ HomeInv
  BY <1>1 DEF Init, HandsInv, AddrInv, InIndex, HomeInv, RealChunks, IsReal
<1>6. EndsInv /\ NoNormal /\ NoExit
  BY <1>2 DEF Init, EndsInv, NoNormal, NoExit, Queue
<1>7. ClaimedInv
  <2>1. Known(feature_2_fp) = {}
    BY DEF Init, EmptyIndex, Known
  <2>2. QED
    BY <1>2, <2>1 DEF Init, ClaimedInv, Queue
<1>8. FlightInv
  BY <1>1 DEF Init, FlightInv
<1>9. QED
  BY <1>4, <1>5, <1>6, <1>7, <1>8 DEF IInv, ExitInv

LEMMA UploadStep ==
  ASSUME IInv, [Next]_vars
  PROVE  IInv'
<1>1. CASE UNCHANGED vars
  <2>1. UNCHANGED <<fp_2_addr, feature_2_fp, saved, cur, opened, recipe, cached, n_chunk, mq,
                    recv, recv_hand, dual, dual_hand, comp, writer, writer_hand,
                    torn_cached, server>>
    BY <1>1 DEF vars, containerVars, clientVars, recvVars, dualVars, writerVars
  <2>2. \A cl \in Client : Containers(cl)' = Containers(cl)
    BY <2>1 DEF Containers
  <2>3. TypeOK' /\ HandsInv' /\ AddrInv'
    BY <2>1 DEF IInv, TypeOK, ContainerTypeOK, HandsInv, AddrInv, InIndex, IsReal
  <2>4. EndsInv' /\ ClaimedInv' /\ ExitInv'
    <3>1. \A cl \in Client, q \in Queue : Holds(cl, q)' = Holds(cl, q)
      BY <2>1, QueuesStay
    <3>2. EndsInv'
      BY <2>1, <3>1 DEF IInv, EndsInv, Queue
    <3>3. ClaimedInv'
      BY <2>1, <3>1 DEF IInv, ClaimedInv, InIndex, Known, Queue
    <3>4. ExitInv'
      BY <2>1, <3>1 DEF IInv, ExitInv, NoNormal, NoExit, Queue
    <3>5. QED
      BY <3>2, <3>3, <3>4
  <2>5. HomeInv'
    BY <2>1 DEF IInv, HomeInv, AddrHome, Containers, RealChunks, IsReal
  <2>6. FlightInv'
    BY <2>1 DEF IInv, FlightInv, Claims, Carries, Holds, IsReal
  <2>7. QED
    BY <2>3, <2>4, <2>5, <2>6 DEF IInv
<1>2. ASSUME NEW cl \in Client, Step(cl), server = "up"
      PROVE  IInv'
  <2>1. TypeOK' /\ HandsInv'
    BY <1>2, RecvType, DedupType, WriterType DEF IInv, Step
  <2>2. EndsInv' /\ ClaimedInv' /\ ExitInv'
    BY <1>2, EndsStep, ClaimedStep, ExitStep DEF IInv
  <2>3. HomeInv' /\ AddrInv' /\ FlightInv'
    BY <1>2, HomeStep, AddrStep, FlightStep DEF IInv
  <2>4. QED
    BY <2>1, <2>2, <2>3 DEF IInv
<1>3. QED
  BY <1>1, <1>2 DEF Next, Step

THEOREM UploadInvariant == Spec => []IInv
<1>1. Init => IInv
  BY UploadInit
<1>2. IInv /\ [Next]_vars => IInv'
  BY UploadStep
<1>3. QED
  BY <1>1, <1>2, PTL DEF Spec

(* The types of the pipelines, of the indexes and of the containers hold   *)
(* however many sessions run at once (data_recv_thd.cc:47).                *)
THEOREM UploadTypes == Spec => []TypeOK
<1>1. IInv => TypeOK
  BY DEF IInv
<1>2. QED
  BY <1>1, UploadInvariant, PTL

(* Sessions overwrite each other's entries in the fp index, and still a    *)
(* real address leads to bytes of its chunk, encoded the way it says       *)
(* (data_writer_thd.cc:109, storage_core.cc:131).                          *)
THEOREM UploadAddrPointsHome == Spec => []AddrPointsHome
<1>1. ASSUME IInv
      PROVE  AddrPointsHome
  <2>1. ASSUME NEW c \in RealChunks
        PROVE  LET addr == fp_2_addr[c]
                   at == addr.container_id
               IN /\ HoldsItem(at[1], at[2], addr.offset)
                  /\ ItemAt(addr).chunk = c /\ ItemAt(addr).stat = addr.stat
    <3>1. AddrHome(fp_2_addr[c], c)
      BY <1>1, <2>1 DEF IInv, HomeInv
    <3>2. QED
      BY <3>1 DEF AddrHome, HoldsItem, ItemAt
  <2>2. QED
    BY <2>1 DEF AddrPointsHome
<1>2. QED
  BY <1>1, UploadInvariant, PTL

(* What a recipe names is stored, or in the queues and threads of some     *)
(* session that has not left its loop: dropping a duplicate because of an  *)
(* address that is only claimed loses nothing (dedup_detect.cc:38).        *)
THEOREM UploadNothingLost == Spec => []NothingLost
<1>1. ASSUME IInv
      PROVE  NothingLost
  <2>1. SUFFICES ASSUME server = "up", NEW cl \in Client, NEW c \in recipe[cl],
                        ~ IsReal(fp_2_addr[c])
                 PROVE  c \in InFlight
    BY <1>1 DEF IInv, TypeOK, NothingLost, RealChunks
  <2>2. c \in Chunk
    BY <1>1 DEF IInv, TypeOK
  <2>3. PICK d \in Client : Carries(d, c)
    BY <1>1, <2>1, <2>2 DEF IInv, FlightInv
  <2>4. CASE recv_hand[d] = c \/ writer_hand[d].chunk = c
    BY <2>4, <2>2 DEF InFlight
  <2>5. CASE dual[d] = "insert" /\ dual_hand[d].chunk = c
    BY <2>5, <2>2 DEF InFlight
  <2>6. ASSUME NEW q \in Queue, NEW e \in Holds(d, q), e.chunk = c
        PROVE  c \in InFlight
    <3>1. Served(d, q)
      BY <1>1, <2>6 DEF IInv, EndsInv, Served, Queue
    <3>2. PICK i \in 1 .. Len(mq[d][q]) : mq[d][q][i] = e
      BY <2>6 DEF Holds
    <3>3. mq[d][q] \in Seq(Item)
      BY <1>1 DEF IInv, TypeOK
    <3>4. i \in DOMAIN mq[d][q] /\ mq[d][q][i].chunk = c
      BY <2>6, <3>2, <3>3
    <3>5. QED
      BY <2>2, <3>1, <3>4 DEF InFlight
  <2>7. QED
    BY <2>3, <2>4, <2>5, <2>6 DEF Carries
<1>2. QED
  BY <1>1, UploadInvariant, PTL

(* While only clients of method FULL_EDR are connected, no thread of any   *)
(* session meets what it exits for: a feature never leads to a base that   *)
(* the fp index does not know (data_writer_thd.cc:219), and DualDedupThd   *)
(* gets none of the chunks it has no case for (dual_dedup_thd.cc:123).      *)
THEOREM UploadNoExit ==
  ASSUME \A cl \in Client : Method[cl] = "FULL_EDR"
  PROVE  Spec => []NoExit
<1>1. IInv => NoExit
  BY DEF IInv, ExitInv
<1>2. QED
  BY <1>1, UploadInvariant, PTL

-----------------------------------------------------------------------------
(* Sessions one after the other (MaxActive is 1): the strengthening.       *)

(* No two sessions at once, and a client without one has left nothing      *)
(* behind in its queues, threads and container.                            *)
Alone == \A cl, d \in Client : Active(cl) /\ Active(d) => cl = d
IdleAt(cl) ==
  /\ \A q \in Queue : mq[cl][q] = <<>>
  /\ recv[cl] # "insert" /\ dual[cl] # "insert"
  /\ writer[cl] \in {"pop", "end"} /\ writer_hand[cl] = EmptyHand
  /\ cur[cl] = <<>> /\ ~ opened[cl]
IdleInv == \A cl \in Client : ~ Active(cl) => IdleAt(cl)

(* A file is open only while its container is saved; the writer's hand is  *)
(* empty behind its loop.                                                  *)
OpenAt(cl) ==
  /\ opened[cl] => MustSave(cl)
  /\ writer[cl] \in {"tail", "end"} => writer_hand[cl] = EmptyHand

(* What DataRecvThd claims is of the other methods, what DualDedupThd      *)
(* claims of method FULL_EDR.                                              *)
MethodAt(cl) ==
  /\ recv[cl] = "insert" => Method[cl] = "NORMAL"
  /\ dual[cl] = "insert" => Method[cl] = "FULL_EDR"
  /\ \A e \in Holds(cl, "recv_2_dual") : e.stat = "UNIQUE_CHUNK" <=> Method[cl] = "NORMAL"

(* What is to become a delta of a cached base has one.                     *)
KindAt(cl) ==
  /\ \A e \in Holds(cl, "recv_2_dual") : e.stat = "SINGLE_CHUNK" => e.base \in Chunk
  /\ dual[cl] = "insert" =>
       /\ dual_hand[cl].stat \in {"CHUNK_PAIR", "SINGLE_CHUNK"}
       /\ dual_hand[cl].stat = "SINGLE_CHUNK" => dual_hand[cl].base \in Chunk
  /\ \A e \in Holds(cl, "dual_2_comp") : e.stat = "UNIQUE_CHUNK" => e.base \in Chunk
  /\ \A e \in Holds(cl, "comp_2_writer") : e.stat = "CACHE_DELTA_CHUNK" => e.base \in Chunk

ChunksOf(s) == {s[i].chunk : i \in 1 .. Len(s)}
NoRepeat(s) == \A i, j \in 1 .. Len(s) : i # j => s[i].chunk # s[j].chunk
Claimed(cl) == ChunksOf(mq[cl]["dual_2_comp"]) \cup ChunksOf(mq[cl]["comp_2_writer"])
InHand(cl) == IF writer[cl] \in {"pop", "tail", "end"} THEN {} ELSE {writer_hand[cl].chunk}
Unwritten(cl) ==
  IF writer[cl] \in {"query", "read", "direct", "write"} THEN {writer_hand[cl].chunk} ELSE {}
Placed(c) ==
  \E d \in Client : \E n \in DOMAIN Containers(d) :
    \E i \in DOMAIN Containers(d)[n] : Containers(d)[n][i].chunk = c

(* A chunk that is claimed goes through the pipeline once, and is in no    *)
(* container before it is written.                                         *)
OnceAt(cl) ==
  /\ NoRepeat(mq[cl]["dual_2_comp"]) /\ NoRepeat(mq[cl]["comp_2_writer"])
  /\ ChunksOf(mq[cl]["dual_2_comp"]) \cap ChunksOf(mq[cl]["comp_2_writer"]) = {}
  /\ InHand(cl) \cap Claimed(cl) = {}
  /\ \A c \in Claimed(cl) \cup InHand(cl) : fp_2_addr[c].stat = "virtual"
  /\ \A c \in Claimed(cl) \cup Unwritten(cl) : ~ Placed(c)
  /\ recv[cl] = "insert" => fp_2_addr[recv_hand[cl]] = NoAddr
  /\ dual[cl] = "insert" => fp_2_addr[dual_hand[cl].chunk] = NoAddr
PlacedInv ==
  /\ \A c \in Chunk : Placed(c) => IsReal(fp_2_addr[c]) \/ \E cl \in Client : c \in InHand(cl)
  /\ \A cl, d \in Client : \A n \in DOMAIN Containers(cl), m \in DOMAIN Containers(d) :
       \A i \in DOMAIN Containers(cl)[n], j \in DOMAIN Containers(d)[m] :
         Containers(cl)[n][i].chunk = Containers(d)[m][j].chunk => cl = d /\ n = m /\ i = j

(* What the writer has in its hand can be restored from its base, and so   *)
(* can what it has published.                                              *)
Bases == {b \in Chunk : fp_2_addr[b].stat = "COMP_BASE"}
HandAt(cl) ==
  LET hand == writer_hand[cl]
      stat == hand.addr.stat
      base == hand.addr.base_fp
  IN
  /\ writer[cl] # "direct"
  /\ writer[cl] \in {"query", "read"} => stat = "COMP_DELTA"
  /\ writer[cl] = "index" => stat = "COMP_BASE"
  /\ writer[cl] = "read" => hand.base_addr = fp_2_addr[base]
  /\ writer[cl] \notin {"pop", "tail", "end"} =>
       /\ stat = "COMP_BASE" => base = NoBase
       /\ stat = "COMP_DELTA" => base \in Bases
       /\ stat = "CACHE_DELTA" => base \in RealChunks
  /\ writer[cl] = "write" /\ stat = "COMP_DELTA" => hand.read = "whole"
  /\ writer[cl] = "addr" /\ stat = "COMP_DELTA" => ItemAt(hand.addr).read = "whole"
RealInv ==
  \A c \in RealChunks :
    LET stat == fp_2_addr[c].stat
        base == fp_2_addr[c].base_fp
    IN
    /\ stat = "COMP_BASE" => base = NoBase
    /\ stat = "COMP_DELTA" => base \in Bases /\ ItemAt(fp_2_addr[c]).read = "whole"
    /\ stat = "CACHE_DELTA" => base \in RealChunks
FeatureInv ==
  \A f \in Known(feature_2_fp) :
    \/ feature_2_fp[f] \in Bases
    \/ \E cl \in Client : /\ writer[cl] = "addr" /\ writer_hand[cl].chunk = feature_2_fp[f]
                          /\ writer_hand[cl].addr.stat = "COMP_BASE"

(* A cached base is stored, or ahead of what refers to it.                 *)
Before2Writer(cl) == RealChunks \cup InHand(cl)
Before2Comp(cl) == Before2Writer(cl) \cup ChunksOf(mq[cl]["comp_2_writer"])
BeforeHand(cl) == Before2Comp(cl) \cup ChunksOf(mq[cl]["dual_2_comp"])
Before2Dual(cl) ==
  BeforeHand(cl) \cup (IF dual[cl] = "insert" THEN {dual_hand[cl].chunk} ELSE {})
Follows(s, B) ==
  \A i \in 1 .. Len(s) :
    s[i].base = NoBase \/ s[i].base \in B \/ \E j \in 1 .. i - 1 : s[j].chunk = s[i].base
AheadAt(cl) ==
  /\ Follows(mq[cl]["comp_2_writer"], Before2Writer(cl))
  /\ Follows(mq[cl]["dual_2_comp"], Before2Comp(cl))
  /\ dual[cl] = "insert" => dual_hand[cl].base = NoBase \/ dual_hand[cl].base \in BeforeHand(cl)
  /\ Follows(mq[cl]["recv_2_dual"], Before2Dual(cl))
  /\ cached[cl] \subseteq Before2Dual(cl) \cup ChunksOf(mq[cl]["recv_2_dual"])

SessionInv ==
  \A cl \in Client :
    /\ OpenAt(cl) /\ MethodAt(cl) /\ KindAt(cl) /\ OnceAt(cl) /\ HandAt(cl)
    /\ server = "up" => AheadAt(cl)
TornInv == \A cl \in Client : torn_cached[cl] = {}
SerialInv ==
  /\ Alone /\ IdleInv /\ SessionInv /\ TornInv
  /\ PlacedInv /\ RealInv /\ FeatureInv /\ UploadDurable

-----------------------------------------------------------------------------
(* What a queue's order says of its chunks and their bases.                *)

LEMMA SeqPushed ==
  ASSUME NEW s \in Seq(Item), NEW e \in Item
  PROVE  /\ ChunksOf(Append(s, e)) = ChunksOf(s) \cup {e.chunk}
         /\ NoRepeat(s) /\ e.chunk \notin ChunksOf(s) => NoRepeat(Append(s, e))
         /\ \A B : Follows(s, B) /\ (e.base = NoBase \/ e.base \in B \cup ChunksOf(s)) =>
                     Follows(Append(s, e), B)
<1> DEFINE t == Append(s, e)
           n == Len(s)
<1>1. /\ n \in Nat /\ Len(t) = n + 1 /\ t[n + 1] = e
      /\ \A i \in 1 .. n : t[i] = s[i]
  OBVIOUS
<1>2. \A i : i \in 1 .. n + 1 <=> i \in 1 .. n \/ i = n + 1
  BY <1>1
<1> HIDE DEF t, n
<1>3. Len(s) = n
  BY DEF n
<1>4. ChunksOf(t) = ChunksOf(s) \cup {e.chunk}
  BY <1>1, <1>2, <1>3 DEF ChunksOf
<1>5. ASSUME NoRepeat(s), e.chunk \notin ChunksOf(s)
      PROVE  NoRepeat(t)
  BY <1>1, <1>2, <1>3, <1>5 DEF NoRepeat, ChunksOf
<1>6. ASSUME NEW B, Follows(s, B), e.base = NoBase \/ e.base \in B \cup ChunksOf(s)
      PROVE  Follows(t, B)
  <2>1. ASSUME NEW i \in 1 .. Len(t), t[i].base # NoBase, t[i].base \notin B
        PROVE  \E j \in 1 .. i - 1 : t[j].chunk = t[i].base
    <3>1. CASE i \in 1 .. n
      <4>1. PICK j \in 1 .. i - 1 : s[j].chunk = s[i].base
        BY <1>1, <1>3, <1>6, <2>1, <3>1 DEF Follows
      <4>2. j \in 1 .. n
        BY <1>1, <3>1, <4>1
      <4>3. QED
        BY <1>1, <3>1, <4>1, <4>2
    <3>2. CASE i = n + 1
      <4>1. e.base \in ChunksOf(s)
        BY <1>1, <1>6, <2>1, <3>2
      <4>2. PICK j \in 1 .. n : s[j].chunk = e.base
        BY <1>3, <4>1 DEF ChunksOf
      <4>3. j \in 1 .. i - 1
        BY <1>1, <3>2, <4>2
      <4>4. QED
        BY <1>1, <3>2, <4>2, <4>3
    <3>3. QED
      BY <1>1, <1>2, <2>1, <3>1, <3>2
  <2>2. QED
    BY <2>1 DEF Follows
<1>7. QED
  BY <1>4, <1>5, <1>6 DEF t

LEMMA SeqPopped ==
  ASSUME NEW s \in Seq(Item), s # <<>>
  PROVE  /\ ChunksOf(s) = ChunksOf(Tail(s)) \cup {Head(s).chunk}
         /\ NoRepeat(s) => NoRepeat(Tail(s)) /\ Head(s).chunk \notin ChunksOf(Tail(s))
         /\ \A B : Follows(s, B) =>
              /\ Head(s).base = NoBase \/ Head(s).base \in B
              /\ Follows(Tail(s), B \cup {Head(s).chunk})
<1> DEFINE t == Tail(s)
           n == Len(t)
           h == Head(s)
<1>1. /\ n \in Nat /\ Len(s) = n + 1 /\ s[1] = h
      /\ \A i \in 1 .. n : t[i] = s[i + 1]
  OBVIOUS
<1> HIDE DEF t, n, h
<1>2. /\ Len(t) = n
      /\ \A i \in 1 .. n : i + 1 \in 1 .. n + 1 /\ i + 1 # 1
      /\ \A i \in 1 .. n + 1 : i = 1 \/ (i - 1 \in 1 .. n /\ t[i - 1] = s[i])
      /\ 1 \in 1 .. n + 1
  <2>1. \A i \in 1 .. n + 1 : i = 1 \/ (i - 1 \in 1 .. n /\ t[i - 1] = s[i])
    BY <1>1
  <2>2. Len(t) = n
    BY DEF n
  <2>3. QED
    BY <1>1, <2>1, <2>2
<1>3. ChunksOf(s) = ChunksOf(t) \cup {h.chunk}
  BY <1>1, <1>2 DEF ChunksOf
<1>4. ASSUME NoRepeat(s)
      PROVE  NoRepeat(t) /\ h.chunk \notin ChunksOf(t)
  BY <1>1, <1>2, <1>4 DEF NoRepeat, ChunksOf
<1>5. ASSUME NEW B, Follows(s, B)
      PROVE  (h.base = NoBase \/ h.base \in B) /\ Follows(t, B \cup {h.chunk})
  <2>1. h.base = NoBase \/ h.base \in B
    <3>1. \A j : j \notin 1 .. 1 - 1
      OBVIOUS
    <3>2. QED
      BY <1>1, <1>2, <1>5, <3>1 DEF Follows
  <2>2. ASSUME NEW i \in 1 .. n, t[i].base # NoBase, t[i].base \notin B \cup {h.chunk}
        PROVE  \E j \in 1 .. i - 1 : t[j].chunk = t[i].base
    <3>1. PICK j \in 1 .. (i + 1) - 1 : s[j].chunk = s[i + 1].base
      BY <1>1, <1>2, <1>5, <2>2 DEF Follows
    <3>2. j # 1
      BY <1>1, <2>2, <3>1
    <3>3. j - 1 \in 1 .. i - 1 /\ t[j - 1] = s[j]
      BY <1>1, <1>2, <3>1, <3>2
    <3>4. QED
      BY <1>1, <3>1, <3>3
  <2>3. QED
    BY <1>2, <2>1, <2>2 DEF Follows
<1>6. QED
  BY <1>3, <1>4, <1>5 DEF t, h

LEMMA FollowsMore ==
  ASSUME NEW s, NEW B, NEW C, B \subseteq C, Follows(s, B)
  PROVE  Follows(s, C)
BY DEF Follows

LEMMA NoneQueued ==
  /\ ChunksOf(<<>>) = {} /\ NoRepeat(<<>>)
  /\ \A B : Follows(<<>>, B)
<1>1. \A i : i \notin 1 .. Len(<<>>)
  OBVIOUS
<1>2. QED
  BY <1>1 DEF ChunksOf, NoRepeat, Follows

(* The queues' sequences, where Push, Pop and Forward leave them.          *)
LEMMA Pushed ==
  ASSUME mq \in QueueType, NEW cl \in Client, NEW q \in Queue, NEW e \in Item, Push(cl, q, e)
  PROVE  /\ mq[cl][q] \in Seq(Item) /\ mq'[cl][q] = Append(mq[cl][q], e)
         /\ \A d \in Client, r \in Queue : d # cl \/ r # q => mq'[d][r] = mq[d][r]
BY DEF Push, QueueType

LEMMA Popped ==
  ASSUME mq \in QueueType, NEW cl \in Client, NEW q \in Queue, Pop(cl, q)
  PROVE  /\ mq[cl][q] \in Seq(Item) /\ mq'[cl][q] = Tail(mq[cl][q])
         /\ \A d \in Client, r \in Queue : d # cl \/ r # q => mq'[d][r] = mq[d][r]
BY DEF Pop, QueueType

LEMMA Forwarded ==
  ASSUME mq \in QueueType, NEW cl \in Client, NEW q \in Queue, NEW to \in Queue \ {q}, NEW e,
         Forward(cl, q, to, e)
  PROVE  /\ mq[cl][q] \in Seq(Item) /\ mq[cl][to] \in Seq(Item)
         /\ mq'[cl][q] = Tail(mq[cl][q]) /\ mq'[cl][to] = Append(mq[cl][to], e)
         /\ \A d \in Client, r \in Queue : d # cl \/ r \notin {q, to} => mq'[d][r] = mq[d][r]
BY DEF Forward, QueueType

(* A step of one session leaves the others' queues and containers alone.   *)
LEMMA OthersRest ==
  ASSUME TypeOK, NEW cl \in Client, Step(cl), NEW d \in Client \ {cl}
  PROVE  /\ \A q \in Queue : mq'[d][q] = mq[d][q]
         /\ saved'[d] = saved[d] /\ cur'[d] = cur[d] /\ opened'[d] = opened[d]
         /\ cached'[d] = cached[d]
<1>1. \A q \in Queue : mq'[d][q] = mq[d][q]
  <2>1. mq \in QueueType
    BY DEF TypeOK, QueueType
  <2>2. ASSUME NEW q, NEW e, Push(cl, q, e)
        PROVE  mq'[d] = mq[d]
    BY <2>1, <2>2 DEF Push, QueueType
  <2>3. ASSUME NEW q, Pop(cl, q)
        PROVE  mq'[d] = mq[d]
    BY <2>1, <2>3 DEF Pop, QueueType
  <2>4. ASSUME NEW q, NEW to, NEW e, Forward(cl, q, to, e)
        PROVE  mq'[d] = mq[d]
    BY <2>1, <2>4 DEF Forward, QueueType
  <2>5. CASE SessionStart(cl) \/ RecvNext(cl)
    BY <2>2, <2>5 DEF SessionStart, RecvNext, RecvFullEDR, RecvNormal, RecvInsert, RecvEnd
  <2>6. CASE DualNext(cl)
    BY <2>2, <2>3, <2>6 DEF DualNext, DualPop, DualInsert, DualExit, DualEnd
  <2>7. CASE CompNext(cl)
    BY <2>4, <2>7 DEF CompNext, CompAfterCache, CompUnique, CompEnd
  <2>8. CASE PopCacheDelta(cl) \/ PopUnique(cl)
    BY <2>3, <2>8 DEF PopCacheDelta, PopUnique
  <2>9. CASE WriterNext(cl) /\ ~ PopCacheDelta(cl) /\ ~ PopUnique(cl)
    BY <2>9, WriterQueues
  <2>10. QED
    BY <2>5, <2>6, <2>7, <2>8, <2>9 DEF Step
<1>2. saved'[d] = saved[d] /\ cur'[d] = cur[d] /\ opened'[d] = opened[d]
  <2>1. ContainerTypeOK(Stored)
    BY DEF TypeOK
  <2>2. CASE UNCHANGED containerVars
    BY <2>2 DEF containerVars
  <2>3. CASE OpenFile(cl) \/ CloseFile(cl)
    BY <2>1, <2>3 DEF OpenFile, CloseFile, ContainerTypeOK
  <2>4. ASSUME NEW stat, WriteChunk(cl, stat)
        PROVE  saved'[d] = saved[d] /\ cur'[d] = cur[d] /\ opened'[d] = opened[d]
    BY <2>1, <2>4 DEF WriteChunk, AddItem, ContainerTypeOK
  <2>5. CASE SessionStart(cl) \/ RecvNext(cl) \/ DualNext(cl) \/ CompNext(cl)
    BY <2>2, <2>5, ThreadFrames
  <2>6. CASE SaveOpen(cl) \/ SaveClose(cl)
    BY <2>3, <2>6 DEF SaveOpen, SaveClose
  <2>7. CASE WriteDirect(cl) \/ Write(cl)
    BY <2>4, <2>7 DEF WriteDirect, Write
  <2>8. CASE WriterNext(cl) /\ ~ SaveOpen(cl) /\ ~ SaveClose(cl) /\ ~ WriteDirect(cl) /\ ~ Write(cl)
    BY <2>2, <2>8 DEF WriterNext, PopCacheDelta, PopUnique, QueryBaseAddr, ReadBase,
                      PublishFeatures, PublishAddr, WriterTail, WriterEnd
  <2>9. QED
    BY <2>5, <2>6, <2>7, <2>8 DEF Step
<1>3. cached'[d] = cached[d]
  <2>1. CASE SessionStart(cl) \/ RecvNext(cl)
    BY <2>1 DEF SessionStart, RecvNext, RecvFullEDR, RecvNormal, RecvInsert, RecvEnd,
                clientVars, TypeOK
  <2>2. CASE DualNext(cl) \/ CompNext(cl) \/ WriterNext(cl)
    BY <2>2, ThreadFrames DEF clientVars
  <2>3. QED
    BY <2>1, <2>2 DEF Step
<1>4. QED
  BY <1>1, <1>2, <1>3

(* What takes a step has a session, or begins one while there is none.     *)
LEMMA Quiet ==
  ASSUME MaxActive <= 1, TypeOK, EndsInv, Alone, IdleInv, NEW cl \in Client, Step(cl)
  PROVE  /\ \A d \in Client \ {cl} : ~ Active(d) /\ IdleAt(d)
         /\ SessionStart(cl) => IdleAt(cl)
         /\ ~ SessionStart(cl) => Active(cl)
<1>1. CASE SessionStart(cl)
  <2> DEFINE S == {d \in Client : Active(d)}
  <2>1. Cardinality(S) < MaxActive
    BY <1>1 DEF SessionStart
  <2>2. IsFiniteSet(S)
    BY FS_Subset
  <2>3. Cardinality(S) = 0
    <3>1. Cardinality(S) \in Nat
      BY <2>2, FS_CardinalityType
    <3> HIDE DEF S
    <3>2. QED
      BY <2>1, <3>1
  <2>4. S = {}
    BY <2>2, <2>3, FS_EmptySet
  <2>5. \A d \in Client : ~ Active(d)
    BY <2>4
  <2>6. \A d \in Client : IdleAt(d)
    BY <2>5 DEF IdleInv
  <2>7. QED
    BY <1>1, <2>5, <2>6
<1>2. ASSUME ~ SessionStart(cl)
      PROVE  Active(cl)
  <2>1. SUFFICES ASSUME ~ Active(cl)
                 PROVE  FALSE
    OBVIOUS
  <2>2. IdleAt(cl)
    BY <2>1 DEF IdleInv
  <2>3. \A q \in Queue : \A stat : ~ HasItem(cl, q, stat)
    BY <2>2 DEF IdleAt, HasItem
  <2>4. /\ comp[cl] = "end" => dual[cl] = "end"
        /\ dual[cl] = "end" => recv[cl] = "end"
        /\ writer[cl] = "end" => comp[cl] = "end"
    BY DEF EndsInv
  <2>5. ~ RecvNext(cl)
    BY <2>1, <2>4 DEF RecvNext, RecvFullEDR, RecvNormal, RecvInsert, RecvEnd, Active
  <2>6. ~ DualNext(cl)
    BY <2>1, <2>2, <2>3, <2>4 DEF DualNext, DualPop, DualInsert, DualExit, DualEnd, Active,
                                  IdleAt, Queue
  <2>7. ~ CompNext(cl)
    BY <2>1, <2>3, <2>4 DEF CompNext, CompAfterCache, CompUnique, CompEnd, Active, Queue
  <2>8. ~ WriterNext(cl)
    <3>1. writer[cl] \in {"pop", "end"} /\ ~ opened[cl]
      BY <2>2 DEF IdleAt
    <3>2. ~ PopCacheDelta(cl) /\ ~ PopUnique(cl)
      BY <2>3 DEF PopCacheDelta, PopUnique, Queue
    <3>3. ~ SaveOpen(cl) /\ ~ SaveClose(cl)
      BY <3>1 DEF SaveOpen, SaveClose, MustSave, CloseFile
    <3>4. ~ WriterTail(cl)
      BY <2>1, <2>4 DEF WriterTail, Active
    <3>5. QED
      BY <3>1, <3>2, <3>3, <3>4 DEF WriterNext, QueryBaseAddr, ReadBase, WriteDirect, Write,
                                    PublishFeatures, PublishAddr, WriterEnd
  <2>9. QED
    BY <1>2, <2>5, <2>6, <2>7, <2>8 DEF Step
<1>3. CASE ~ SessionStart(cl)
  BY <1>2, <1>3 DEF Alone, IdleInv
<1>4. QED
  BY <1>1, <1>3

LEMMA AloneStep ==
  ASSUME MaxActive <= 1, TypeOK, EndsInv, Alone, IdleInv, SessionInv,
         NEW cl \in Client, Step(cl), TypeOK', EndsInv'
  PROVE  Alone' /\ IdleInv' /\ \A d \in Client \ {cl} : IdleAt(d)' /\ ~ Active(d)'
<1>1. \A d \in Client \ {cl} : IdleAt(d) /\ IdleAt(d)' /\ (Active(d)' => Active(d))
  BY Quiet, Others, OthersRest DEF IdleAt, Active
<1>2. \A d \in Client \ {cl} : ~ Active(d)
  BY Quiet
<1>3. Alone'
  BY <1>1, <1>2 DEF Alone
<1>4. ASSUME ~ Active(cl)'
      PROVE  IdleAt(cl)'
  <2>1. ~ SessionStart(cl)
    <3>1. ASSUME SessionStart(cl)
          PROVE  Active(cl)'
      <4>1. IdleAt(cl) /\ recv[cl] = "off"
        BY <3>1, Quiet DEF SessionStart
      <4>2. writer[cl] # "end"
        BY <4>1 DEF EndsInv
      <4>3. QED
        BY <3>1, <4>2 DEF SessionStart, Active, writerVars, TypeOK
    <3>2. QED
      BY <1>4, <3>1
  <2>2. Active(cl)
    BY <2>1, Quiet
  <2>3. recv'[cl] # "off"
    <3>1. RecvNext(cl) => recv'[cl] # "off"
      BY <2>2 DEF RecvNext, RecvFullEDR, RecvNormal, RecvInsert, RecvEnd, recvVars, TypeOK,
                  Active
    <3>2. QED
      BY <2>1, <2>2, <3>1, ThreadFrames DEF Step, recvVars, Active
  <2>4. writer'[cl] = "end" /\ writer[cl] # "end"
    BY <1>4, <2>2, <2>3 DEF Active
  <2>5. WriterEnd(cl)
    <3>1. WriterNext(cl)
      BY <2>1, <2>4, ThreadFrames DEF Step, writerVars
    <3>2. ~ PopCacheDelta(cl) /\ ~ PopUnique(cl)
      BY <2>4, WriterPopEffect
    <3>3. ~ QueryBaseAddr(cl) /\ ~ ReadBase(cl) /\ ~ WriteDirect(cl) /\ ~ Write(cl)
      BY <2>4 DEF QueryBaseAddr, ReadBase, WriteDirect, Write, WriterGo, TypeOK, writerVars
    <3>4. ~ PublishFeatures(cl) /\ ~ PublishAddr(cl) /\ ~ WriterTail(cl)
      BY <2>4 DEF PublishFeatures, PublishAddr, WriterTail, WriterGo, TypeOK
    <3>5. ~ SaveOpen(cl) /\ ~ SaveClose(cl)
      BY <2>4 DEF SaveOpen, SaveClose, writerVars
    <3>6. QED
      BY <3>1, <3>2, <3>3, <3>4, <3>5 DEF WriterNext
  <2>6. /\ writer[cl] = "tail" /\ ~ MustSave(cl)
        /\ UNCHANGED <<mq, recv, dual, writer_hand, cur, opened>>
    BY <2>5 DEF WriterEnd, containerVars, recvVars, dualVars
  <2>7. writer_hand[cl] = EmptyHand /\ ~ opened[cl] /\ cur[cl] = <<>>
    BY <2>6 DEF SessionInv, OpenAt, MustSave
  <2>8. recv[cl] = "end" /\ dual[cl] = "end"
    BY <2>6 DEF EndsInv
  <2>9. \A q \in Queue : mq[cl][q] = <<>>
    <3>1. \A q \in Queue : Holds(cl, q) = {}
      BY <2>6 DEF EndsInv, Queue
    <3>2. ASSUME NEW q \in Queue
          PROVE  mq[cl][q] = <<>>
      <4>1. mq[cl][q] \in Seq(Item)
        BY DEF TypeOK
      <4>2. \A i \in 1 .. Len(mq[cl][q]) : mq[cl][q][i] \in Holds(cl, q)
        BY DEF Holds
      <4>3. 1 \notin 1 .. Len(mq[cl][q])
        BY <3>1, <4>2
      <4>4. QED
        BY <4>1, <4>3
    <3>3. QED
      BY <3>2
  <2>10. QED
    BY <2>4, <2>6, <2>7, <2>8, <2>9 DEF IdleAt
<1>5. ASSUME NEW d \in Client, ~ Active(d)'
      PROVE  IdleAt(d)'
  <2>1. CASE d = cl
    BY <1>4, <1>5, <2>1
  <2>2. QED
    BY <1>1, <2>1
<1>6. QED
  BY <1>1, <1>2, <1>3, <1>5 DEF IdleInv

-----------------------------------------------------------------------------
(* What stays.                                                             *)

(* What is real stays as it is.                                            *)
LEMMA RealStays ==
  ASSUME TypeOK, HandsInv, SessionInv, NEW cl \in Client, Step(cl)
  PROVE  /\ \A c \in Chunk : IsReal(fp_2_addr[c]) => fp_2_addr'[c] = fp_2_addr[c]
         /\ RealChunks \subseteq RealChunks'
         /\ Bases \subseteq Bases'
<1>1. ASSUME NEW c \in Chunk, IsReal(fp_2_addr[c])
      PROVE  fp_2_addr'[c] = fp_2_addr[c]
  <2>1. ASSUME NEW k \in Chunk, NEW addr, fp_2_addr' = [fp_2_addr EXCEPT ![k] = addr], k # c
        PROVE  fp_2_addr'[c] = fp_2_addr[c]
    BY <2>1 DEF TypeOK
  <2>2. CASE RecvInsert(cl)
    <3>1. fp_2_addr[recv_hand[cl]] = NoAddr
      BY <2>2 DEF SessionInv, OnceAt, RecvInsert
    <3>2. recv_hand[cl] # c
      BY <1>1, <3>1, RealFacts
    <3>3. recv_hand[cl] \in Chunk
      BY <2>2 DEF HandsInv, RecvInsert
    <3>4. QED
      BY <2>1, <2>2, <3>2, <3>3 DEF RecvInsert
  <2>3. CASE DualInsert(cl)
    <3>1. fp_2_addr[dual_hand[cl].chunk] = NoAddr
      BY <2>3 DEF SessionInv, OnceAt, DualInsert
    <3>2. dual_hand[cl].chunk # c
      BY <1>1, <3>1, RealFacts
    <3>3. dual_hand[cl].chunk \in Chunk
      BY <2>3, DualInsertEffect
    <3>4. QED
      BY <2>1, <2>3, <3>2, <3>3 DEF DualInsert
  <2>4. CASE PublishAddr(cl)
    <3>1. writer_hand[cl].chunk \in InHand(cl)
      BY <2>4 DEF InHand, PublishAddr
    <3>2. fp_2_addr[writer_hand[cl].chunk].stat = "virtual"
      BY <3>1 DEF SessionInv, OnceAt
    <3>3. writer_hand[cl].chunk # c
      BY <1>1, <3>2 DEF IsReal
    <3>4. writer_hand[cl].chunk \in Chunk
      BY <2>4 DEF HandsInv, PublishAddr
    <3>5. QED
      BY <2>1, <2>4, <3>3, <3>4 DEF PublishAddr
  <2>5. QED
    BY <2>2, <2>3, <2>4, IndexMoves
<1>2. RealChunks \subseteq RealChunks'
  BY <1>1 DEF RealChunks, IsReal
<1>3. Bases \subseteq Bases'
  BY <1>1 DEF Bases, IsReal
<1>4. QED
  BY <1>1, <1>2, <1>3

(* Only writing a chunk changes what the containers hold.                  *)
LEMMA ContainersStay ==
  ASSUME TypeOK, HandsInv, SessionInv, NEW cl \in Client, Step(cl), ~ Write(cl)
  PROVE  \A d \in Client : Containers(d)' = Containers(d)
<1>1. CASE UNCHANGED <<saved, cur>>
  BY <1>1 DEF Containers
<1>2. CASE SessionStart(cl) \/ RecvNext(cl) \/ DualNext(cl) \/ CompNext(cl)
  BY <1>1, <1>2, ThreadFrames DEF containerVars
<1>3. CASE SaveClose(cl)
  <2>1. MustSave(cl)
    BY <1>3 DEF SaveClose, CloseFile, SessionInv, OpenAt
  <2>2. cur[cl] # <<>>
    <3>1. Len(<<>>) = 0 /\ ContainerSize > 0
      OBVIOUS
    <3>2. QED
      BY <2>1, <3>1 DEF MustSave, HasRoom
  <2>3. /\ saved'[cl] = Append(saved[cl], cur[cl]) /\ cur'[cl] = <<>>
        /\ \A d \in Client \ {cl} : saved'[d] = saved[d] /\ cur'[d] = cur[d]
    BY <1>3 DEF SaveClose, CloseFile, TypeOK, ContainerTypeOK
  <2>4. QED
    BY <2>2, <2>3 DEF Containers
<1>4. CASE WriterNext(cl) /\ ~ SaveClose(cl)
  <2>1. ~ WriteDirect(cl)
    BY DEF WriteDirect, SessionInv, HandAt
  <2>2. CASE SaveOpen(cl)
    BY <1>1, <2>2 DEF SaveOpen, OpenFile
  <2>3. CASE ~ SaveOpen(cl)
    <3>1. UNCHANGED containerVars
      BY <1>4, <2>1, <2>3 DEF WriterNext, PopCacheDelta, PopUnique, QueryBaseAddr, ReadBase,
                  PublishFeatures, PublishAddr, WriterTail, WriterEnd
    <3>2. QED
      BY <1>1, <3>1 DEF containerVars
  <2>4. QED
    BY <2>2, <2>3
<1>5. QED
  BY <1>2, <1>3, <1>4 DEF Step

(* A written chunk is one item more, where its address says.               *)
LEMMA OneItemMore ==
  ASSUME ContainerTypeOK(Stored), NEW cl \in Client, NEW item \in Stored, AddItem(cl, item),
         NEW d \in Client, NEW n, NEW i, HoldsItem(d, n, i)'
  PROVE  \/ HoldsItem(d, n, i) /\ Containers(d)'[n][i] = Containers(d)[n][i]
         \/ /\ d = cl /\ n = Len(saved[cl]) + 1 /\ i = NextOffset(cl)
            /\ ~ HoldsItem(d, n, i)
<1>1. cur[cl] \in Seq(Stored) /\ saved[cl] \in Seq(Seq(Stored))
  BY DEF ContainerTypeOK
<1>2. /\ cur'[cl] = Append(cur[cl], item) /\ saved' = saved
      /\ \A e \in Client \ {cl} : cur'[e] = cur[e]
  BY DEF AddItem, ContainerTypeOK
<1>3. CASE d # cl
  BY <1>2, <1>3 DEF HoldsItem, Containers
<1>4. CASE d = cl
  <2> DEFINE s == saved[cl] c == cur[cl] t == Append(cur[cl], item)
  <2>1. /\ t # <<>> /\ t \in Seq(Stored) /\ Len(c) \in Nat
        /\ DOMAIN c = 1 .. Len(c) /\ DOMAIN t = 1 .. Len(c) + 1
        /\ \A k \in 1 .. Len(c) : t[k] = c[k]
    BY <1>1, SeqGrow
  <2>2. Containers(cl)' = Append(s, t)
    BY <1>2, <2>1 DEF Containers
  <2>3. n \in DOMAIN Append(s, t) /\ i \in DOMAIN Append(s, t)[n]
    BY <1>4, <2>2 DEF HoldsItem
  <2>4. /\ Len(s) \in Nat /\ DOMAIN s = 1 .. Len(s)
        /\ DOMAIN Append(s, t) = 1 .. Len(s) + 1 /\ DOMAIN Append(s, c) = 1 .. Len(s) + 1
        /\ \A k \in 1 .. Len(s) : Append(s, t)[k] = s[k] /\ Append(s, c)[k] = s[k]
        /\ Append(s, t)[Len(s) + 1] = t /\ Append(s, c)[Len(s) + 1] = c
    BY <1>1, <2>1, SeqGrow
  <2>5. Containers(cl) = s \/ Containers(cl) = Append(s, c)
    BY DEF Containers
  <2>6. Containers(cl) = s => c = <<>>
    <3>1. Append(s, c) # s
      <4>1. Len(Append(s, c)) = Len(s) + 1
        BY <1>1
      <4>2. QED
        BY <2>4, <4>1
    <3>2. QED
      BY <3>1 DEF Containers
  <2> HIDE DEF s, c, t
  <2>7. CASE n \in 1 .. Len(s)
    <3>1. n \in 1 .. Len(s) + 1 /\ n \in DOMAIN s
      BY <2>4, <2>7
    <3>2. n \in DOMAIN Containers(cl) /\ Containers(cl)[n] = s[n]
      BY <2>4, <2>5, <2>7, <3>1
    <3>3. Containers(cl)'[n] = s[n]
      BY <2>2, <2>4, <2>7
    <3>4. QED
      BY <1>4, <2>2, <2>3, <3>2, <3>3 DEF HoldsItem
  <2>8. CASE n = Len(s) + 1
    <3>1. Containers(cl)'[n] = t /\ i \in 1 .. Len(c) + 1
      BY <2>1, <2>2, <2>3, <2>4, <2>8
    <3>2. CASE i \in 1 .. Len(c)
      <4>1. c # <<>>
        <5>1. Len(<<>>) = 0
          OBVIOUS
        <5>2. QED
          BY <2>1, <3>2, <5>1
      <4>2. Containers(cl) = Append(s, c)
        BY <2>5, <2>6, <4>1
      <4>3. n \in DOMAIN Containers(cl) /\ Containers(cl)[n] = c
        BY <2>4, <2>8, <4>2
      <4>4. QED
        BY <1>4, <2>1, <3>1, <3>2, <4>3 DEF HoldsItem
    <3>3. CASE i \notin 1 .. Len(c)
      <4>1. i = Len(c) + 1
        BY <2>1, <3>1, <3>3
      <4>2. ~ HoldsItem(cl, n, i)
        <5>1. CASE Containers(cl) = s
          <6>1. n \notin DOMAIN s
            BY <2>4, <2>8
          <6>2. QED
            BY <5>1, <6>1 DEF HoldsItem
        <5>2. CASE Containers(cl) = Append(s, c)
          <6>1. Containers(cl)[n] = c /\ i \notin DOMAIN c
            BY <2>1, <2>4, <2>8, <3>3, <5>2
          <6>2. QED
            BY <6>1 DEF HoldsItem
        <5>3. QED
          BY <2>5, <5>1, <5>2
      <4>3. QED
        BY <1>4, <2>8, <4>1, <4>2 DEF NextOffset, s, c
    <3>4. QED
      BY <3>2, <3>3
  <2>9. n \in 1 .. Len(s) \/ n = Len(s) + 1
    BY <2>3, <2>4
  <2>10. QED
    BY <2>7, <2>8, <2>9
<1>5. QED
  BY <1>3, <1>4

-----------------------------------------------------------------------------
(* The other sessions, and what their items are.                           *)

(* A client without a session has nothing that could be wrong.             *)
LEMMA OthersSession ==
  ASSUME TypeOK, HandsInv, SessionInv, NEW cl \in Client, Step(cl), NEW d \in Client \ {cl},
         server = "up", TypeOK', IdleAt(d)'
  PROVE  /\ OpenAt(d)' /\ MethodAt(d)' /\ KindAt(d)' /\ OnceAt(d)' /\ HandAt(d)'
         /\ AheadAt(d)'
<1>1. /\ \A q \in Queue : mq'[d][q] = <<>>
      /\ recv'[d] # "insert" /\ dual'[d] # "insert"
      /\ writer'[d] \in {"pop", "end"} /\ writer_hand'[d] = EmptyHand
      /\ cur'[d] = <<>> /\ ~ opened'[d]
  BY DEF IdleAt
<1>2. /\ mq'[d]["recv_2_dual"] = <<>> /\ mq'[d]["dual_2_comp"] = <<>>
      /\ mq'[d]["comp_2_writer"] = <<>>
  BY <1>1 DEF Queue
<1>3. \A q \in Queue : Holds(d, q)' = {}
  BY <1>1 DEF Holds
<1>4. OpenAt(d)' /\ MethodAt(d)' /\ KindAt(d)' /\ HandAt(d)'
  BY <1>1, <1>3 DEF OpenAt, MethodAt, KindAt, HandAt, Queue
<1>5. Claimed(d)' = {} /\ InHand(d)' = {} /\ Unwritten(d)' = {}
  BY <1>1, <1>2, NoneQueued DEF Claimed, InHand, Unwritten
<1>6. OnceAt(d)'
  BY <1>1, <1>2, <1>5, NoneQueued DEF OnceAt
<1>7. AheadAt(d)'
  <2>1. Before2Dual(d)' = RealChunks' /\ Before2Dual(d) \subseteq RealChunks
    <3>1. /\ mq[d]["dual_2_comp"] = <<>> /\ mq[d]["comp_2_writer"] = <<>>
          /\ dual[d] # "insert" /\ writer[d] \in {"pop", "end"}
      BY <1>1, <1>2, Others, OthersRest DEF Queue
    <3>2. QED
      BY <1>1, <1>2, <1>5, <3>1, NoneQueued
      DEF Before2Dual, BeforeHand, Before2Comp, Before2Writer, InHand
  <2>2. cached'[d] \subseteq RealChunks'
    <3>1. /\ mq[d]["recv_2_dual"] = <<>> /\ cached'[d] = cached[d]
      BY <1>2, OthersRest DEF Queue
    <3>2. cached[d] \subseteq RealChunks
      BY <2>1, <3>1, NoneQueued DEF SessionInv, AheadAt
    <3>3. QED
      BY <3>1, <3>2, RealStays
  <2>3. QED
    BY <1>1, <1>2, <2>1, <2>2, NoneQueued DEF AheadAt
<1>8. QED
  BY <1>4, <1>6, <1>7

-----------------------------------------------------------------------------
(* Files, methods and kinds.                                               *)

LEMMA OpenStep ==
  ASSUME TypeOK, HandsInv, EndsInv, SessionInv, NEW cl \in Client, Step(cl)
  PROVE  OpenAt(cl)'
<1>1. OpenAt(cl)
  BY DEF SessionInv
<1>2. CASE UNCHANGED <<containerVars, writerVars>>
  BY <1>1, <1>2 DEF OpenAt, MustSave, HasRoom, containerVars, writerVars
<1>3. CASE SessionStart(cl) \/ RecvNext(cl) \/ DualNext(cl) \/ CompNext(cl)
  BY <1>2, <1>3, ThreadFrames
<1>4. ASSUME ~ opened'[cl], writer'[cl] \notin {"tail", "end"}
      PROVE  OpenAt(cl)'
  BY <1>4 DEF OpenAt
<1>5. CASE PopCacheDelta(cl) \/ PopUnique(cl)
  <2>1. writer[cl] = "pop" /\ UNCHANGED opened
    BY <1>5 DEF PopCacheDelta, PopUnique, containerVars
  <2>2. writer'[cl] \notin {"tail", "end"}
    BY <1>5, WriterPopEffect
  <2>3. QED
    BY <1>1, <1>4, <2>1, <2>2 DEF OpenAt, MustSave
<1>6. CASE SaveOpen(cl)
  <2>1. MustSave(cl) /\ UNCHANGED <<cur, writer, writer_hand>>
    BY <1>6 DEF SaveOpen, OpenFile, writerVars
  <2>2. QED
    BY <1>1, <2>1 DEF OpenAt, MustSave, HasRoom
<1>7. CASE SaveClose(cl)
  <2>1. ~ opened'[cl] /\ UNCHANGED <<writer, writer_hand>>
    BY <1>7 DEF SaveClose, CloseFile, writerVars, TypeOK, ContainerTypeOK
  <2>2. QED
    BY <1>1, <2>1 DEF OpenAt
<1>8. CASE Write(cl)
  <2>1. HasRoom(cl) /\ UNCHANGED opened /\ writer[cl] = "write"
        /\ writer'[cl] \in {"index", "addr"}
    BY <1>8 DEF Write, WriteChunk, AddItem, WriterGo, TypeOK
  <2>2. QED
    BY <1>1, <1>4, <2>1 DEF OpenAt, MustSave
<1>9. CASE WriteDirect(cl)
  BY <1>9 DEF WriteDirect, SessionInv, HandAt
<1>10. CASE QueryBaseAddr(cl) \/ ReadBase(cl) \/ PublishFeatures(cl) \/ PublishAddr(cl)
  <2>1. UNCHANGED opened /\ writer[cl] \in {"query", "read", "index", "addr"}
    BY <1>10 DEF QueryBaseAddr, ReadBase, PublishFeatures, PublishAddr, containerVars
  <2>2. writer'[cl] \notin {"tail", "end"}
    <3>1. CASE QueryBaseAddr(cl)
      BY <2>1, <3>1 DEF QueryBaseAddr, WriterGo, writerVars, TypeOK
    <3>2. CASE ReadBase(cl)
      BY <3>2 DEF ReadBase, WriterGo, TypeOK
    <3>3. CASE PublishFeatures(cl) \/ PublishAddr(cl)
      BY <3>3 DEF PublishFeatures, PublishAddr, WriterGo, TypeOK
    <3>4. QED
      BY <1>10, <3>1, <3>2, <3>3
  <2>3. QED
    BY <1>1, <1>4, <2>1, <2>2 DEF OpenAt, MustSave
<1>11. CASE WriterTail(cl)
  <2>1. UNCHANGED <<opened, writer_hand>> /\ writer[cl] = "pop"
    BY <1>11 DEF WriterTail, containerVars
  <2>2. ~ opened[cl] /\ writer_hand[cl] = EmptyHand
    BY <1>1, <2>1 DEF OpenAt, MustSave, HandsInv
  <2>3. QED
    BY <2>1, <2>2 DEF OpenAt
<1>12. CASE WriterEnd(cl)
  <2>1. UNCHANGED <<opened, writer_hand>> /\ writer[cl] = "tail" /\ ~ MustSave(cl)
    BY <1>12 DEF WriterEnd, containerVars
  <2>2. QED
    BY <1>1, <2>1 DEF OpenAt
<1>13. QED
  BY <1>3, <1>5, <1>6, <1>7, <1>8, <1>9, <1>10, <1>11, <1>12 DEF Step, WriterNext

LEMMA KindStep ==
  ASSUME TypeOK, HandsInv, EndsInv, SessionInv, NEW cl \in Client, Step(cl)
  PROVE  MethodAt(cl)' /\ KindAt(cl)'
<1>1. MethodAt(cl) /\ KindAt(cl)
  BY DEF SessionInv
<1>2. /\ mq \in QueueType
      /\ "recv_2_dual" \in Queue /\ "dual_2_comp" \in Queue
      /\ "comp_2_writer" \in Queue \ {"dual_2_comp"} /\ "comp_2_writer" \in Queue
  BY DEF TypeOK, QueueType, Queue
<1>3. ASSUME recv'[cl] = "insert" => Method[cl] = "NORMAL",
             dual'[cl] # "insert" \/ (dual'[cl] = dual[cl] /\ dual_hand'[cl] = dual_hand[cl]),
             Holds(cl, "recv_2_dual")' \subseteq Holds(cl, "recv_2_dual"),
             Holds(cl, "dual_2_comp")' \subseteq Holds(cl, "dual_2_comp"),
             Holds(cl, "comp_2_writer")' \subseteq Holds(cl, "comp_2_writer")
      PROVE  MethodAt(cl)' /\ KindAt(cl)'
  <2>1. MethodAt(cl)'
    BY <1>1, <1>3 DEF MethodAt
  <2>2. KindAt(cl)'
    BY <1>1, <1>3 DEF KindAt
  <2>3. QED
    BY <2>1, <2>2
<1>4. CASE SessionStart(cl) \/ RecvEnd(cl)
  <2>1. recv'[cl] # "insert" /\ UNCHANGED <<mq, dual, dual_hand>>
    BY <1>4 DEF SessionStart, RecvEnd, dualVars, TypeOK
  <2>2. QED
    BY <1>2, <1>3, <2>1, QueuesStay
<1>5. ASSUME NEW c \in Chunk, RecvNormal(cl, c)
      PROVE  MethodAt(cl)' /\ KindAt(cl)'
  <2>1. Method[cl] = "NORMAL" /\ UNCHANGED <<mq, dual, dual_hand>>
    BY <1>5 DEF RecvNormal, dualVars
  <2>2. QED
    BY <1>2, <1>3, <2>1, QueuesStay
<1>6. ASSUME NEW e \in Item, Push(cl, "recv_2_dual", e),
             e.stat = "UNIQUE_CHUNK" <=> Method[cl] = "NORMAL",
             e.stat = "SINGLE_CHUNK" => e.base \in Chunk,
             recv'[cl] # "insert", UNCHANGED <<dual, dual_hand>>
      PROVE  MethodAt(cl)' /\ KindAt(cl)'
  <2>1. /\ Holds(cl, "recv_2_dual")' = Holds(cl, "recv_2_dual") \cup {e}
        /\ Holds(cl, "dual_2_comp")' = Holds(cl, "dual_2_comp")
        /\ Holds(cl, "comp_2_writer")' = Holds(cl, "comp_2_writer")
    BY <1>2, <1>6, PushFacts
  <2>2. MethodAt(cl)'
    BY <1>1, <1>6, <2>1 DEF MethodAt
  <2>3. KindAt(cl)'
    BY <1>1, <1>6, <2>1 DEF KindAt
  <2>4. QED
    BY <2>2, <2>3
<1>7. ASSUME NEW c \in Chunk, RecvFullEDR(cl, c)
      PROVE  MethodAt(cl)' /\ KindAt(cl)'
  <2>1. /\ Method[cl] = "FULL_EDR" /\ recv'[cl] # "insert" /\ UNCHANGED <<dual, dual_hand>>
    BY <1>7 DEF RecvFullEDR, recvVars, dualVars
  <2>2. CASE Push(cl, "recv_2_dual", Msg("CHUNK_PAIR", c, NoBase))
    BY <1>6, <2>1, <2>2 DEF Msg, Item
  <2>3. ASSUME NEW b \in cached[cl], Push(cl, "recv_2_dual", Msg("SINGLE_CHUNK", c, b))
        PROVE  MethodAt(cl)' /\ KindAt(cl)'
    <3>1. b \in Chunk
      BY DEF TypeOK
    <3>2. QED
      BY <1>6, <2>1, <2>3, <3>1 DEF Msg, Item
  <2>4. QED
    BY <1>7, <2>2, <2>3 DEF RecvFullEDR
<1>8. CASE RecvInsert(cl)
  <2>1. /\ Method[cl] = "NORMAL" /\ recv'[cl] # "insert" /\ UNCHANGED <<dual, dual_hand>>
    BY <1>1, <1>8 DEF RecvInsert, dualVars, MethodAt, TypeOK
  <2>2. /\ Msg("UNIQUE_CHUNK", recv_hand[cl], NoBase) \in Item
        /\ Push(cl, "recv_2_dual", Msg("UNIQUE_CHUNK", recv_hand[cl], NoBase))
    BY <1>8, RecvInsertEffect DEF RecvInsert, Msg, Item
  <2>3. QED
    BY <1>6, <2>1, <2>2 DEF Msg
<1>9. CASE DualPop(cl)
  <2> DEFINE e == Head(mq[cl]["recv_2_dual"])
  <2>1. /\ mq[cl]["recv_2_dual"] # <<>> /\ Pop(cl, "recv_2_dual") /\ UNCHANGED recv
        /\ e.stat \in {"CHUNK_PAIR", "SINGLE_CHUNK"}
        /\ \/ UNCHANGED <<dual, dual_hand>>
           \/ dual'[cl] = "insert" /\ dual_hand'[cl] = e
    BY <1>9 DEF DualPop, HasItem, recvVars, dualVars, TypeOK
  <2>2. /\ e \in Item
        /\ Holds(cl, "recv_2_dual") = Holds(cl, "recv_2_dual")' \cup {e}
        /\ Holds(cl, "dual_2_comp")' = Holds(cl, "dual_2_comp")
        /\ Holds(cl, "comp_2_writer")' = Holds(cl, "comp_2_writer")
    BY <1>2, <2>1, PopFacts
  <2> HIDE DEF e
  <2>3. Method[cl] = "FULL_EDR"
    <3>1. Method[cl] # "NORMAL"
      BY <1>1, <2>1, <2>2 DEF MethodAt
    <3>2. QED
      BY <3>1
  <2>4. MethodAt(cl)'
    BY <1>1, <2>1, <2>2, <2>3 DEF MethodAt
  <2>5. KindAt(cl)'
    BY <1>1, <2>1, <2>2 DEF KindAt
  <2>6. QED
    BY <2>4, <2>5
<1>10. CASE DualInsert(cl)
  <2>1. /\ dual'[cl] # "insert" /\ UNCHANGED recv /\ dual[cl] = "insert"
        /\ Push(cl, "dual_2_comp", ForComp(dual_hand[cl]))
    BY <1>10 DEF DualInsert, recvVars, TypeOK
  <2>2. dual_hand[cl] \in Item /\ ForComp(dual_hand[cl]) \in Item
    BY <1>10, DualInsertEffect
  <2>3. ForComp(dual_hand[cl]).stat = "UNIQUE_CHUNK" => ForComp(dual_hand[cl]).base \in Chunk
    BY <1>1, <2>1, <2>2 DEF KindAt, ForComp, Item
  <2>4. /\ Holds(cl, "dual_2_comp")' = Holds(cl, "dual_2_comp") \cup {ForComp(dual_hand[cl])}
        /\ Holds(cl, "recv_2_dual")' = Holds(cl, "recv_2_dual")
        /\ Holds(cl, "comp_2_writer")' = Holds(cl, "comp_2_writer")
    BY <1>2, <2>1, <2>2, PushFacts
  <2>5. MethodAt(cl)'
    BY <1>1, <2>1, <2>4 DEF MethodAt
  <2>6. KindAt(cl)'
    BY <1>1, <2>1, <2>3, <2>4 DEF KindAt
  <2>7. QED
    BY <2>5, <2>6
<1>11. CASE DualExit(cl)
  <2>1. /\ mq[cl]["recv_2_dual"] # <<>> /\ Pop(cl, "recv_2_dual")
        /\ UNCHANGED <<recv, dual, dual_hand>>
    BY <1>11 DEF DualExit, HasItem, recvVars, dualVars
  <2>2. /\ Holds(cl, "recv_2_dual")' \subseteq Holds(cl, "recv_2_dual")
        /\ Holds(cl, "dual_2_comp")' = Holds(cl, "dual_2_comp")
        /\ Holds(cl, "comp_2_writer")' = Holds(cl, "comp_2_writer")
    BY <1>2, <2>1, PopFacts
  <2>3. recv'[cl] = "insert" => Method[cl] = "NORMAL"
    BY <1>1, <2>1 DEF MethodAt
  <2>4. QED
    BY <1>3, <2>1, <2>2, <2>3
<1>12. CASE DualEnd(cl) \/ CompEnd(cl)
  <2>1. /\ UNCHANGED <<mq, recv>>
        /\ dual'[cl] # "insert" \/ (dual'[cl] = dual[cl] /\ dual_hand'[cl] = dual_hand[cl])
    BY <1>12 DEF DualEnd, CompEnd, recvVars, dualVars, TypeOK
  <2>2. recv'[cl] = "insert" => Method[cl] = "NORMAL"
    BY <1>1, <2>1 DEF MethodAt
  <2>3. QED
    BY <1>2, <1>3, <2>1, <2>2, QueuesStay
<1>13. CASE CompAfterCache(cl) \/ CompUnique(cl)
  <2> DEFINE e == Head(mq[cl]["dual_2_comp"])
  <2>1. /\ mq[cl]["dual_2_comp"] # <<>> /\ e \in Item
    BY <1>13, HeadFacts, <1>2 DEF CompAfterCache, CompUnique
  <2>2. PICK stat \in {"UNIQUE_CHUNK", "CACHE_DELTA_CHUNK"} :
          /\ Forward(cl, "dual_2_comp", "comp_2_writer", [e EXCEPT !.stat = stat])
          /\ stat = "CACHE_DELTA_CHUNK" => e.stat = "UNIQUE_CHUNK"
    BY <1>13 DEF CompAfterCache, CompUnique, HasItem
  <2> DEFINE g == [e EXCEPT !.stat = stat]
  <2>3. g \in Item /\ g.stat = stat /\ g.base = e.base
    BY <2>1 DEF Item
  <2>4. Forward(cl, "dual_2_comp", "comp_2_writer", g)
    BY <2>2
  <2> HIDE DEF e, g
  <2>5. /\ Holds(cl, "dual_2_comp") = Holds(cl, "dual_2_comp")' \cup {e}
        /\ Holds(cl, "comp_2_writer")' = Holds(cl, "comp_2_writer") \cup {g}
        /\ Holds(cl, "recv_2_dual")' = Holds(cl, "recv_2_dual")
    BY <1>2, <2>1, <2>3, <2>4, ForwardFacts DEF e
  <2>6. UNCHANGED <<recv, dual, dual_hand>>
    BY <1>13, ThreadFrames DEF CompNext, recvVars, dualVars
  <2>7. MethodAt(cl)'
    BY <1>1, <2>5, <2>6 DEF MethodAt
  <2>8. KindAt(cl)'
    BY <1>1, <2>2, <2>3, <2>5, <2>6 DEF KindAt
  <2>9. QED
    BY <2>7, <2>8
<1>14. CASE WriterNext(cl)
  <2>1. UNCHANGED <<recv, dual, dual_hand>>
    BY <1>14, ThreadFrames DEF recvVars, dualVars
  <2>2. recv'[cl] = "insert" => Method[cl] = "NORMAL"
    BY <1>1, <2>1 DEF MethodAt
  <2>3. CASE PopCacheDelta(cl) \/ PopUnique(cl)
    <3>1. mq[cl]["comp_2_writer"] # <<>> /\ Pop(cl, "comp_2_writer")
      BY <2>3 DEF PopCacheDelta, PopUnique, HasItem
    <3>2. /\ Holds(cl, "comp_2_writer")' \subseteq Holds(cl, "comp_2_writer")
          /\ Holds(cl, "recv_2_dual")' = Holds(cl, "recv_2_dual")
          /\ Holds(cl, "dual_2_comp")' = Holds(cl, "dual_2_comp")
      BY <1>2, <3>1, PopFacts
    <3>3. QED
      BY <1>3, <2>1, <2>2, <3>2
  <2>4. CASE ~ PopCacheDelta(cl) /\ ~ PopUnique(cl)
    BY <1>2, <1>3, <1>14, <2>1, <2>2, <2>4, WriterQueues, QueuesStay
  <2>5. QED
    BY <2>3, <2>4
<1>15. QED
  BY <1>4, <1>5, <1>7, <1>8, <1>9, <1>10, <1>11, <1>12, <1>13, <1>14
  DEF Step, RecvNext, DualNext, CompNext

-----------------------------------------------------------------------------
(* What is claimed goes through once.                                      *)

(* What the writer's steps do to what it has in its hand.                  *)
LEMMA HandMoves ==
  ASSUME TypeOK, HandsInv, SessionInv, NEW cl \in Client, Step(cl),
         ~ PopCacheDelta(cl), ~ PopUnique(cl), ~ PublishAddr(cl)
  PROVE  /\ InHand(cl)' = InHand(cl)
         /\ Unwritten(cl)' \subseteq Unwritten(cl)
         /\ Write(cl) => Unwritten(cl)' = {}
<1>1. CASE UNCHANGED writerVars
  <2>1. ~ Write(cl)
    BY <1>1 DEF Write, WriterGo, writerVars, TypeOK
  <2>2. QED
    BY <1>1, <2>1 DEF InHand, Unwritten, writerVars
<1>2. CASE SessionStart(cl) \/ RecvNext(cl) \/ DualNext(cl) \/ CompNext(cl)
  BY <1>1, <1>2, ThreadFrames
<1>3. CASE WriterNext(cl)
  <2>1. writer_hand'[cl].chunk = writer_hand[cl].chunk
    BY <1>3, WriterKeeps
  <2>2. CASE SaveOpen(cl) \/ SaveClose(cl)
    BY <1>1, <2>2 DEF SaveOpen, SaveClose
  <2>3. ~ WriteDirect(cl)
    BY DEF WriteDirect, SessionInv, HandAt
  <2>4. CASE QueryBaseAddr(cl)
    <3>1. UNCHANGED writerVars \/ (writer[cl] = "query" /\ writer'[cl] = "read")
      <4>1. writer[cl] = "query" /\ (UNCHANGED writerVars \/ WriterGo(cl, "read"))
        BY <2>4 DEF QueryBaseAddr
      <4>2. QED
        BY <4>1 DEF WriterGo, TypeOK
    <3>2. ~ Write(cl)
      BY <2>4 DEF QueryBaseAddr, Write
    <3>3. QED
      BY <1>1, <2>1, <3>1, <3>2 DEF InHand, Unwritten
  <2>5. CASE ReadBase(cl)
    <3>1. writer[cl] = "read" /\ writer'[cl] \in {"direct", "write"} /\ ~ Write(cl)
      BY <2>5 DEF ReadBase, WriterGo, TypeOK, Write
    <3>2. QED
      BY <2>1, <3>1 DEF InHand, Unwritten
  <2>6. CASE Write(cl)
    <3>1. writer[cl] = "write" /\ writer'[cl] \in {"index", "addr"}
      BY <2>6 DEF WriterGo, TypeOK, Write
    <3>2. QED
      BY <2>1, <3>1 DEF InHand, Unwritten
  <2>7. CASE PublishFeatures(cl)
    <3>1. writer[cl] = "index" /\ writer'[cl] = "addr" /\ ~ Write(cl)
      BY <2>7 DEF WriterGo, TypeOK, Write, PublishFeatures
    <3>2. QED
      BY <2>1, <3>1 DEF InHand, Unwritten
  <2>8. CASE WriterTail(cl) \/ WriterEnd(cl)
    <3>1. writer[cl] \in {"pop", "tail"} /\ writer'[cl] \in {"tail", "end"} /\ ~ Write(cl)
      BY <2>8 DEF WriterGo, TypeOK, Write, WriterTail, WriterEnd
    <3>2. QED
      BY <3>1 DEF InHand, Unwritten
  <2>9. QED
    BY <1>3, <2>2, <2>3, <2>4, <2>5, <2>6, <2>7, <2>8 DEF WriterNext
<1>4. QED
  BY <1>2, <1>3 DEF Step

LEMMA PlacedMoves ==
  ASSUME TypeOK, HandsInv, SessionInv, NEW cl \in Client, Step(cl), NEW c, Placed(c)'
  PROVE  Placed(c) \/ (Write(cl) /\ c = writer_hand[cl].chunk)
<1> USE DEF Placed, HoldsItem
<1>0. PICK d \in Client : \E n, i : HoldsItem(d, n, i)' /\ Containers(d)'[n][i].chunk = c
  OBVIOUS
<1>1. CASE ~ Write(cl)
  <2>1. Containers(d)' = Containers(d)
    BY <1>1, ContainersStay
  <2>2. QED
    BY <1>0, <2>1
<1>2. CASE Write(cl)
  <2> DEFINE item == [chunk |-> writer_hand[cl].chunk, stat |-> writer_hand[cl].addr.stat,
                      read |-> writer_hand[cl].read]
  <2>1. /\ writer_hand[cl].addr.stat \in Stat /\ writer[cl] = "write"
        /\ WriteChunk(cl, writer_hand[cl].addr.stat)
    BY <1>2, WriterHand DEF Write, Addr
  <2>2. item \in Stored /\ AddItem(cl, item)
    BY <2>1, WriteChunkFacts
  <2>3. item.chunk = writer_hand[cl].chunk
    OBVIOUS
  <2> HIDE DEF item
  <2>4. PICK n, i : HoldsItem(d, n, i)' /\ Containers(d)'[n][i].chunk = c
    BY <1>0
  <2>5. ContainerTypeOK(Stored)
    BY DEF TypeOK
  <2>6. CASE HoldsItem(d, n, i) /\ Containers(d)'[n][i] = Containers(d)[n][i]
    BY <2>4, <2>6
  <2>7. CASE d = cl /\ n = Len(saved[cl]) + 1 /\ i = NextOffset(cl)
    BY <1>2, <2>2, <2>3, <2>4, <2>5, <2>7, ContainersHold
  <2>8. QED
    BY <2>2, <2>4, <2>5, <2>6, <2>7, OneItemMore
<1>3. QED
  BY <1>1, <1>2

(* The chunk DataWriterThd pops is the one it then has in its hand.        *)
LEMMA PoppedHand ==
  ASSUME TypeOK, NEW cl \in Client, PopCacheDelta(cl) \/ PopUnique(cl)
  PROVE  /\ writer'[cl] \in {"query", "write"}
         /\ writer_hand'[cl].chunk = Head(mq[cl]["comp_2_writer"]).chunk
         /\ InHand(cl)' = {Head(mq[cl]["comp_2_writer"]).chunk}
         /\ Unwritten(cl)' = {Head(mq[cl]["comp_2_writer"]).chunk}
<1> DEFINE e == Head(mq[cl]["comp_2_writer"])
<1>1. e \in Item
  <2>1. mq[cl]["comp_2_writer"] \in Seq(Item) /\ mq[cl]["comp_2_writer"] # <<>>
    BY DEF PopCacheDelta, PopUnique, HasItem, TypeOK, Queue
  <2>2. QED
    BY <2>1
<1>2. e.chunk \in Chunk /\ e.base \in Chunk \cup {NoBase}
  BY <1>1 DEF Item
<1>3. CASE PopCacheDelta(cl)
  <2>1. /\ writer_hand'[cl] = HandOf(e.chunk, "CACHE_DELTA", e.base)
        /\ writer'[cl] = "write"
    BY <1>3 DEF PopCacheDelta, WriterGo, TypeOK
  <2>2. writer_hand'[cl].chunk = e.chunk
    BY <1>2, <2>1, AddrFacts DEF Stat
  <2>3. QED
    BY <2>1, <2>2 DEF InHand, Unwritten
<1>4. CASE PopUnique(cl)
  <2>1. \E stat, b : writer_hand' = [writer_hand EXCEPT ![cl] = HandOf(e.chunk, stat, b)]
    BY <1>4 DEF PopUnique
  <2>2. writer_hand'[cl].chunk = e.chunk
    BY <2>1 DEF HandOf, EmptyHand, TypeOK
  <2>3. WriterGo(cl, "query") \/ WriterGo(cl, "write")
    BY <1>4 DEF PopUnique
  <2>4. writer'[cl] \in {"query", "write"}
    BY <2>3 DEF WriterGo, TypeOK
  <2>5. QED
    BY <2>2, <2>4 DEF InHand, Unwritten
<1>5. QED
  BY <1>3, <1>4

LEMMA OnceStep ==
  ASSUME TypeOK, HandsInv, EndsInv, SessionInv, PlacedInv, NEW cl \in Client, Step(cl),
         \A d \in Client \ {cl} : IdleAt(d)
  PROVE  OnceAt(cl)'
<1> DEFINE D == mq[cl]["dual_2_comp"]
           W == mq[cl]["comp_2_writer"]
<1>1. /\ OnceAt(cl) /\ MethodAt(cl)
      /\ D \in Seq(Item) /\ W \in Seq(Item)
  BY DEF SessionInv, TypeOK, Queue
<1>2. /\ mq \in QueueType
      /\ "recv_2_dual" \in Queue /\ "dual_2_comp" \in Queue
      /\ "comp_2_writer" \in Queue \ {"dual_2_comp"} /\ "comp_2_writer" \in Queue
  BY DEF TypeOK, QueueType, Queue
<1>3. Claimed(cl) = ChunksOf(D) \cup ChunksOf(W) /\ Unwritten(cl) \subseteq InHand(cl)
  BY DEF Claimed, Unwritten, InHand
<1>4. /\ NoRepeat(D) /\ NoRepeat(W) /\ ChunksOf(D) \cap ChunksOf(W) = {}
      /\ InHand(cl) \cap Claimed(cl) = {}
      /\ \A c \in Claimed(cl) \cup InHand(cl) : fp_2_addr[c].stat = "virtual"
      /\ \A c \in Claimed(cl) \cup Unwritten(cl) : ~ Placed(c)
      /\ recv[cl] = "insert" => fp_2_addr[recv_hand[cl]] = NoAddr
      /\ dual[cl] = "insert" => fp_2_addr[dual_hand[cl].chunk] = NoAddr
  BY <1>1 DEF OnceAt
<1>5. Claimed(cl) \cup InHand(cl) \subseteq Chunk
  <2>1. InHand(cl) \subseteq Chunk
    BY DEF InHand, HandsInv
  <2>2. \A s \in Seq(Item) : ChunksOf(s) \subseteq Chunk
    <3>1. \A s \in Seq(Item) : \A i \in 1 .. Len(s) : s[i].chunk \in Chunk
      <4>1. \A s \in Seq(Item) : \A i \in 1 .. Len(s) : s[i] \in Item
        OBVIOUS
      <4>2. QED
        BY <4>1 DEF Item
    <3>2. QED
      BY <3>1 DEF ChunksOf
  <2>3. QED
    BY <1>1, <1>3, <2>1, <2>2
<1>6. ASSUME mq'[cl]["dual_2_comp"] = D, mq'[cl]["comp_2_writer"] = W,
             InHand(cl)' \subseteq InHand(cl), Unwritten(cl)' \subseteq Unwritten(cl),
             \A c \in Claimed(cl) \cup InHand(cl)' : fp_2_addr'[c].stat = "virtual",
             \A c \in Claimed(cl) \cup Unwritten(cl)' : ~ Placed(c)',
             recv'[cl] = "insert" => fp_2_addr'[recv_hand'[cl]] = NoAddr,
             dual'[cl] = "insert" => fp_2_addr'[dual_hand'[cl].chunk] = NoAddr
      PROVE  OnceAt(cl)'
  <2>1. Claimed(cl)' = Claimed(cl)
    BY <1>3, <1>6 DEF Claimed
  <2>2. NoRepeat(mq[cl]["dual_2_comp"])' /\ NoRepeat(mq[cl]["comp_2_writer"])'
    BY <1>4, <1>6 DEF NoRepeat
  <2>3. (ChunksOf(mq[cl]["dual_2_comp"]) \cap ChunksOf(mq[cl]["comp_2_writer"]) = {})'
    BY <1>4, <1>6
  <2>4. QED
    BY <1>4, <1>6, <2>1, <2>2, <2>3 DEF OnceAt
<1> HIDE DEF D, W
<1>7. \A c : Placed(c)' => Placed(c) \/ (Write(cl) /\ c = writer_hand[cl].chunk)
  BY PlacedMoves
<1>8. ASSUME Write(cl)
      PROVE  writer_hand[cl].chunk \in Unwritten(cl)
  BY <1>8 DEF Write, Unwritten
<1>9. ASSUME NEW k \in Chunk, fp_2_addr' = [fp_2_addr EXCEPT ![k] = Virtual]
      PROVE  \A c \in Chunk : fp_2_addr[c].stat = "virtual" => fp_2_addr'[c].stat = "virtual"
  BY <1>9, AddrFacts DEF TypeOK
(* Steps that leave the queues to CacheCompThd and DataWriterThd alone.    *)
<1>10. ASSUME mq'[cl]["dual_2_comp"] = D, mq'[cl]["comp_2_writer"] = W,
              ~ Write(cl), ~ PublishAddr(cl), ~ PopCacheDelta(cl), ~ PopUnique(cl),
              \A c \in Chunk : fp_2_addr[c].stat = "virtual" => fp_2_addr'[c].stat = "virtual",
              recv'[cl] = "insert" => fp_2_addr'[recv_hand'[cl]] = NoAddr,
              dual'[cl] = "insert" => fp_2_addr'[dual_hand'[cl].chunk] = NoAddr
       PROVE  OnceAt(cl)'
  <2>1. InHand(cl)' = InHand(cl) /\ Unwritten(cl)' \subseteq Unwritten(cl)
    BY <1>10, HandMoves
  <2>2. \A c \in Claimed(cl) \cup InHand(cl)' : fp_2_addr'[c].stat = "virtual"
    BY <1>4, <1>5, <1>10, <2>1
  <2>3. \A c \in Claimed(cl) \cup Unwritten(cl)' : ~ Placed(c)'
    BY <1>4, <1>7, <1>10, <2>1
  <2>4. QED
    BY <1>6, <1>10, <2>1, <2>2, <2>3
<1>11. CASE SessionStart(cl) \/ RecvNext(cl)
  <2>1. UNCHANGED <<dual, dual_hand, writer, writer_hand>>
    BY <1>11, ThreadFrames DEF dualVars, writerVars
  <2>2. /\ mq'[cl]["dual_2_comp"] = D /\ mq'[cl]["comp_2_writer"] = W
    <3>1. ASSUME NEW e, Push(cl, "recv_2_dual", e)
          PROVE  mq'[cl]["dual_2_comp"] = D /\ mq'[cl]["comp_2_writer"] = W
      BY <1>2, <3>1 DEF Push, QueueType, D, W
    <3>2. QED
      BY <1>11, <3>1 DEF SessionStart, RecvNext, RecvFullEDR, RecvNormal, RecvInsert, RecvEnd,
                         D, W
  <2>3. ~ Write(cl) /\ ~ PublishAddr(cl) /\ ~ PopCacheDelta(cl) /\ ~ PopUnique(cl)
    BY <2>1 DEF Write, PublishAddr, PopCacheDelta, PopUnique, WriterGo, TypeOK
  <2>4. CASE RecvInsert(cl)
    <3>1. /\ recv_hand[cl] \in Chunk /\ fp_2_addr' = [fp_2_addr EXCEPT ![recv_hand[cl]] = Virtual]
          /\ recv'[cl] # "insert" /\ recv[cl] = "insert"
      BY <2>4, RecvInsertEffect DEF RecvInsert, TypeOK
    <3>2. dual'[cl] # "insert"
      BY <1>1, <2>1, <3>1 DEF MethodAt
    <3>3. QED
      BY <1>9, <1>10, <2>2, <2>3, <3>1, <3>2
  <2>5. CASE ~ RecvInsert(cl)
    <3>1. UNCHANGED fp_2_addr
      BY <1>11, <2>5 DEF SessionStart, RecvNext, RecvFullEDR, RecvNormal, RecvEnd
    <3>2. recv'[cl] = "insert" => fp_2_addr'[recv_hand'[cl]] = NoAddr
      BY <1>4, <1>11, <2>5, <3>1
      DEF SessionStart, RecvNext, RecvFullEDR, RecvNormal, RecvEnd, recvVars, TypeOK
    <3>3. dual'[cl] = "insert" => fp_2_addr'[dual_hand'[cl].chunk] = NoAddr
      BY <1>4, <2>1, <3>1
    <3>4. QED
      BY <1>10, <2>2, <2>3, <3>1, <3>2, <3>3
  <2>6. QED
    BY <2>4, <2>5
<1>12. CASE (DualNext(cl) /\ ~ DualInsert(cl)) \/ CompEnd(cl)
  <2>1. UNCHANGED <<fp_2_addr, recv, recv_hand, writer, writer_hand>>
    BY <1>12 DEF DualNext, DualPop, DualExit, DualEnd, CompEnd, recvVars, writerVars
  <2>2. mq'[cl]["dual_2_comp"] = D /\ mq'[cl]["comp_2_writer"] = W
    <3>1. ASSUME Pop(cl, "recv_2_dual")
          PROVE  mq'[cl]["dual_2_comp"] = D /\ mq'[cl]["comp_2_writer"] = W
      BY <1>2, <3>1 DEF Pop, QueueType, D, W
    <3>2. QED
      BY <1>12, <3>1 DEF DualNext, DualPop, DualExit, DualEnd, CompEnd, D, W
  <2>3. ~ Write(cl) /\ ~ PublishAddr(cl) /\ ~ PopCacheDelta(cl) /\ ~ PopUnique(cl)
    BY <2>1 DEF Write, PublishAddr, PopCacheDelta, PopUnique, WriterGo, TypeOK
  <2>4. dual'[cl] = "insert" => fp_2_addr'[dual_hand'[cl].chunk] = NoAddr
    BY <1>4, <1>12, <2>1
    DEF DualNext, DualPop, DualExit, DualEnd, CompEnd, dualVars, TypeOK
  <2>5. recv'[cl] = "insert" => fp_2_addr'[recv_hand'[cl]] = NoAddr
    BY <1>4, <2>1
  <2>6. QED
    BY <1>10, <2>1, <2>2, <2>3, <2>4, <2>5
<1>13. CASE DualInsert(cl)
  <2> DEFINE e == ForComp(dual_hand[cl])
  <2>1. /\ e \in Item /\ e.chunk = dual_hand[cl].chunk /\ e.chunk \in Chunk
        /\ Push(cl, "dual_2_comp", e)
        /\ fp_2_addr' = [fp_2_addr EXCEPT ![e.chunk] = Virtual]
        /\ dual[cl] = "insert" /\ dual'[cl] # "insert"
        /\ UNCHANGED <<recv, recv_hand, writer, writer_hand, saved, cur>>
    BY <1>13, DualInsertEffect DEF DualInsert, TypeOK, recvVars, writerVars, containerVars
  <2> HIDE DEF e
  <2>2. mq'[cl]["dual_2_comp"] = Append(D, e) /\ mq'[cl]["comp_2_writer"] = W
    BY <1>2, <2>1, Pushed DEF D, W
  <2>3. fp_2_addr[e.chunk] = NoAddr
    BY <1>4, <2>1
  <2>4. e.chunk \notin Claimed(cl) \cup InHand(cl)
    BY <1>4, <2>3, AddrFacts
  <2>5. ~ Placed(e.chunk)
    <3>1. ~ IsReal(fp_2_addr[e.chunk])
      BY <2>3, RealFacts
    <3>2. ASSUME NEW d \in Client
          PROVE  e.chunk \notin InHand(d)
      BY <2>4 DEF IdleAt, InHand
    <3>3. QED
      BY <2>1, <3>1, <3>2 DEF PlacedInv
  <2>6. /\ NoRepeat(mq'[cl]["dual_2_comp"]) /\ NoRepeat(mq'[cl]["comp_2_writer"])
        /\ ChunksOf(mq'[cl]["dual_2_comp"]) = ChunksOf(D) \cup {e.chunk}
        /\ ChunksOf(mq'[cl]["comp_2_writer"]) = ChunksOf(W)
    BY <1>1, <1>3, <1>4, <2>1, <2>2, <2>4, SeqPushed
  <2>7. Claimed(cl)' = Claimed(cl) \cup {e.chunk}
    BY <1>3, <2>6 DEF Claimed
  <2>8. InHand(cl)' = InHand(cl) /\ Unwritten(cl)' = Unwritten(cl)
    BY <2>1 DEF InHand, Unwritten
  <2>9. \A c : Placed(c)' => Placed(c)
    BY <2>1 DEF Placed, Containers
  <2>10. \A c \in Claimed(cl)' \cup InHand(cl)' : fp_2_addr'[c].stat = "virtual"
    <3>1. fp_2_addr'[e.chunk].stat = "virtual"
      BY <2>1, AddrFacts DEF TypeOK
    <3>2. QED
      BY <1>4, <1>5, <1>9, <2>1, <2>7, <2>8, <3>1
  <2>11. \A c \in Claimed(cl)' \cup Unwritten(cl)' : ~ Placed(c)'
    BY <1>4, <2>5, <2>7, <2>8, <2>9
  <2>12. recv'[cl] # "insert"
    BY <1>1, <2>1 DEF MethodAt
  <2>13. (ChunksOf(mq[cl]["dual_2_comp"]) \cap ChunksOf(mq[cl]["comp_2_writer"]) = {})'
    BY <1>3, <1>4, <2>4, <2>6
  <2>14. InHand(cl)' \cap Claimed(cl)' = {}
    BY <1>4, <2>4, <2>7, <2>8
  <2>15. QED
    BY <2>1, <2>6, <2>10, <2>11, <2>12, <2>13, <2>14 DEF OnceAt
<1>14. CASE CompAfterCache(cl) \/ CompUnique(cl)
  <2> DEFINE e == Head(D)
  <2>1. D # <<>> /\ e \in Item
    BY <1>2, <1>14, HeadFacts DEF CompAfterCache, CompUnique, D
  <2>2. PICK stat \in {"UNIQUE_CHUNK", "CACHE_DELTA_CHUNK"} :
          Forward(cl, "dual_2_comp", "comp_2_writer", [e EXCEPT !.stat = stat])
    BY <1>14 DEF CompAfterCache, CompUnique, D
  <2> DEFINE g == [e EXCEPT !.stat = stat]
  <2>3. g \in Item /\ g.chunk = e.chunk /\ Forward(cl, "dual_2_comp", "comp_2_writer", g)
    BY <2>1, <2>2 DEF Item
  <2> HIDE DEF e, g
  <2>4. mq'[cl]["dual_2_comp"] = Tail(D) /\ mq'[cl]["comp_2_writer"] = Append(W, g)
    BY <1>2, <2>3, Forwarded DEF D, W
  <2>5. /\ ChunksOf(D) = ChunksOf(Tail(D)) \cup {e.chunk} /\ e.chunk \notin ChunksOf(Tail(D))
        /\ NoRepeat(Tail(D))
    BY <1>1, <1>4, <2>1, SeqPopped DEF e
  <2>6. /\ ChunksOf(Append(W, g)) = ChunksOf(W) \cup {e.chunk} /\ NoRepeat(Append(W, g))
    BY <1>1, <1>4, <2>3, <2>5, SeqPushed
  <2>7. Claimed(cl)' = Claimed(cl)
    BY <1>3, <2>4, <2>5, <2>6 DEF Claimed
  <2>8. UNCHANGED <<recv, recv_hand, dual, dual_hand, writer, writer_hand, fp_2_addr, saved, cur>>
    BY <1>14, ThreadFrames DEF CompNext, recvVars, dualVars, writerVars, containerVars
  <2>9. InHand(cl)' = InHand(cl) /\ Unwritten(cl)' = Unwritten(cl)
    BY <2>8 DEF InHand, Unwritten
  <2>10. \A c : Placed(c)' => Placed(c)
    BY <2>8 DEF Placed, Containers
  <2>11. (ChunksOf(mq[cl]["dual_2_comp"]) \cap ChunksOf(mq[cl]["comp_2_writer"]) = {})'
    BY <1>4, <2>4, <2>5, <2>6
  <2>12. /\ NoRepeat(mq'[cl]["dual_2_comp"]) /\ NoRepeat(mq'[cl]["comp_2_writer"])
    BY <2>4, <2>5, <2>6
  <2>13. /\ \A c \in Claimed(cl)' \cup InHand(cl)' : fp_2_addr'[c].stat = "virtual"
         /\ \A c \in Claimed(cl)' \cup Unwritten(cl)' : ~ Placed(c)'
         /\ InHand(cl)' \cap Claimed(cl)' = {}
    BY <1>4, <2>7, <2>8, <2>9, <2>10
  <2>14. QED
    BY <1>4, <2>8, <2>11, <2>12, <2>13 DEF OnceAt
<1>15. CASE PopCacheDelta(cl) \/ PopUnique(cl)
  <2> DEFINE e == Head(W)
  <2>1. W # <<>> /\ e \in Item /\ Pop(cl, "comp_2_writer")
    BY <1>2, <1>15, HeadFacts DEF PopCacheDelta, PopUnique, W
  <2>2. writer[cl] = "pop" /\ UNCHANGED <<recv, recv_hand, dual, dual_hand, fp_2_addr, saved, cur>>
    BY <1>15 DEF PopCacheDelta, PopUnique, recvVars, dualVars, containerVars
  <2>3. InHand(cl)' = {e.chunk} /\ Unwritten(cl)' = {e.chunk}
    BY <1>15, PoppedHand DEF e, W
  <2> HIDE DEF e
  <2>4. mq'[cl]["dual_2_comp"] = D /\ mq'[cl]["comp_2_writer"] = Tail(W)
    BY <1>2, <2>1, Popped DEF D, W
  <2>5. /\ ChunksOf(W) = ChunksOf(Tail(W)) \cup {e.chunk} /\ e.chunk \notin ChunksOf(Tail(W))
        /\ NoRepeat(Tail(W))
    BY <1>1, <1>4, <2>1, SeqPopped DEF e
  <2>6. /\ InHand(cl)' = {e.chunk} /\ Unwritten(cl)' = {e.chunk}
        /\ Claimed(cl)' = ChunksOf(D) \cup ChunksOf(Tail(W))
    BY <2>3, <2>4 DEF Claimed
  <2>7. \A c : Placed(c)' => Placed(c)
    BY <2>2 DEF Placed, Containers
  <2>8. /\ \A c \in Claimed(cl)' \cup InHand(cl)' : fp_2_addr'[c].stat = "virtual"
        /\ \A c \in Claimed(cl)' \cup Unwritten(cl)' : ~ Placed(c)'
        /\ InHand(cl)' \cap Claimed(cl)' = {}
    BY <1>3, <1>4, <2>2, <2>5, <2>6, <2>7
  <2>9. (ChunksOf(mq[cl]["dual_2_comp"]) \cap ChunksOf(mq[cl]["comp_2_writer"]) = {})'
    BY <1>4, <2>4, <2>5
  <2>10. QED
    BY <1>4, <2>2, <2>4, <2>5, <2>8, <2>9 DEF OnceAt
<1>16. CASE Write(cl)
  <2>1. UNCHANGED <<fp_2_addr, mq, recv, recv_hand, dual, dual_hand>>
    BY <1>16 DEF Write, recvVars, dualVars
  <2>2. ~ PopCacheDelta(cl) /\ ~ PopUnique(cl) /\ ~ PublishAddr(cl)
    BY <1>16 DEF Write, PopCacheDelta, PopUnique, PublishAddr
  <2>3. InHand(cl)' = InHand(cl) /\ Unwritten(cl)' = {}
    BY <1>16, <2>2, HandMoves
  <2>4. \A c \in Claimed(cl) \cup Unwritten(cl)' : ~ Placed(c)'
    <3>1. writer_hand[cl].chunk \notin Claimed(cl)
      BY <1>3, <1>4, <1>8, <1>16
    <3>2. QED
      BY <1>4, <1>7, <2>3, <3>1
  <2>5. QED
    BY <1>4, <1>6, <2>1, <2>3, <2>4 DEF D, W
<1>17. CASE PublishAddr(cl)
  <2> DEFINE k == writer_hand[cl].chunk
  <2>1. /\ UNCHANGED <<mq, recv, recv_hand, dual, dual_hand, saved, cur>>
        /\ fp_2_addr' = [fp_2_addr EXCEPT ![k] = writer_hand[cl].addr]
        /\ writer[cl] = "addr" /\ writer'[cl] = "pop"
    BY <1>17 DEF PublishAddr, recvVars, dualVars, containerVars, WriterGo, TypeOK
  <2>2. k \in InHand(cl) /\ InHand(cl)' = {} /\ Unwritten(cl)' = {}
    BY <2>1 DEF InHand, Unwritten
  <2> HIDE DEF k
  <2>3. \A c \in Chunk : c # k => fp_2_addr'[c] = fp_2_addr[c]
    BY <2>1 DEF TypeOK
  <2>4. fp_2_addr[k] # NoAddr
    BY <1>4, <2>2, AddrFacts
  <2>5. recv[cl] = "insert" => recv_hand[cl] \in Chunk
    BY DEF HandsInv
  <2>6. dual[cl] = "insert" => dual_hand[cl].chunk \in Chunk
    BY DEF HandsInv, Item
  <2>7. \A c : Placed(c)' => Placed(c)
    BY <2>1 DEF Placed, Containers
  <2>8. \A c \in Claimed(cl) \cup InHand(cl)' : fp_2_addr'[c].stat = "virtual"
    BY <1>4, <1>5, <2>2, <2>3
  <2>9. recv'[cl] = "insert" => fp_2_addr'[recv_hand'[cl]] = NoAddr
    BY <1>4, <2>1, <2>3, <2>4, <2>5
  <2>10. dual'[cl] = "insert" => fp_2_addr'[dual_hand'[cl].chunk] = NoAddr
    BY <1>4, <2>1, <2>3, <2>4, <2>6
  <2>11. QED
    BY <1>4, <1>6, <2>1, <2>2, <2>7, <2>8, <2>9, <2>10 DEF D, W
<1>18. CASE /\ WriterNext(cl) /\ ~ Write(cl) /\ ~ PublishAddr(cl)
            /\ ~ PopCacheDelta(cl) /\ ~ PopUnique(cl)
  <2>1. UNCHANGED <<mq, recv, recv_hand, dual, dual_hand>>
    BY <1>18, WriterQueues, ThreadFrames DEF recvVars, dualVars
  <2>2. UNCHANGED fp_2_addr
    BY <1>18 DEF WriterNext, QueryBaseAddr, ReadBase, SaveOpen, SaveClose, WriteDirect,
                 PublishFeatures, WriterTail, WriterEnd
  <2>3. QED
    BY <1>4, <1>10, <1>18, <2>1, <2>2 DEF D, W
<1>19. QED
  BY <1>11, <1>12, <1>13, <1>14, <1>15, <1>16, <1>17, <1>18 DEF Step, CompNext

-----------------------------------------------------------------------------
(* Containers hold a chunk once.                                           *)

LEMMA PlacedStep ==
  ASSUME TypeOK, HandsInv, SessionInv, PlacedInv, NEW cl \in Client, Step(cl),
         \A d \in Client \ {cl} : IdleAt(d)
  PROVE  PlacedInv'
<1>1. ASSUME NEW c \in Chunk, Placed(c)'
      PROVE  IsReal(fp_2_addr'[c]) \/ \E d \in Client : c \in InHand(d)'
  <2>1. CASE Write(cl) /\ c = writer_hand[cl].chunk
    <3>1. c \in InHand(cl)
      BY <2>1 DEF Write, InHand
    <3>2. InHand(cl)' = InHand(cl)
      BY <2>1, HandMoves DEF Write, PopCacheDelta, PopUnique, PublishAddr
    <3>3. QED
      BY <3>1, <3>2
  <2>2. CASE Placed(c) /\ IsReal(fp_2_addr[c])
    BY <2>2, RealStays
  <2>3. CASE Placed(c) /\ ~ IsReal(fp_2_addr[c])
    <3>1. PICK d \in Client : c \in InHand(d)
      BY <2>3 DEF PlacedInv
    <3>2. d = cl
      BY <3>1 DEF IdleAt, InHand
    <3>3. c = writer_hand[cl].chunk /\ writer[cl] # "pop"
      BY <3>1, <3>2 DEF InHand
    <3>4. CASE PublishAddr(cl)
      <4>1. fp_2_addr'[c] = writer_hand[cl].addr /\ IsReal(writer_hand[cl].addr)
        BY <3>3, <3>4 DEF PublishAddr, HandsInv, TypeOK
      <4>2. QED
        BY <4>1
    <3>5. CASE ~ PublishAddr(cl)
      <4>1. InHand(cl)' = InHand(cl)
        BY <3>3, <3>5, HandMoves DEF PopCacheDelta, PopUnique
      <4>2. QED
        BY <3>1, <3>2, <4>1
    <3>6. QED
      BY <3>4, <3>5
  <2>4. QED
    BY <1>1, <2>1, <2>2, <2>3, PlacedMoves
<1>2. ASSUME NEW d \in Client, NEW e \in Client, NEW n, NEW m, NEW i, NEW j,
             HoldsItem(d, n, i)', HoldsItem(e, m, j)',
             Containers(d)'[n][i].chunk = Containers(e)'[m][j].chunk
      PROVE  d = e /\ n = m /\ i = j
  <2>1. ASSUME HoldsItem(d, n, i), HoldsItem(e, m, j),
               Containers(d)[n][i].chunk = Containers(e)[m][j].chunk
        PROVE  d = e /\ n = m /\ i = j
    BY <2>1 DEF PlacedInv, HoldsItem
  <2>2. CASE ~ Write(cl)
    <3>1. Containers(d)' = Containers(d) /\ Containers(e)' = Containers(e)
      BY <2>2, ContainersStay
    <3>2. HoldsItem(d, n, i) /\ HoldsItem(e, m, j)
      BY <1>2, <3>1 DEF HoldsItem
    <3>3. QED
      BY <1>2, <2>1, <3>1, <3>2
  <2>3. CASE Write(cl)
    <3> DEFINE item == [chunk |-> writer_hand[cl].chunk, stat |-> writer_hand[cl].addr.stat,
                        read |-> writer_hand[cl].read]
    <3>1. /\ writer_hand[cl].addr.stat \in Stat /\ writer[cl] = "write"
          /\ WriteChunk(cl, writer_hand[cl].addr.stat)
      BY <2>3, WriterHand DEF Write, Addr
    <3>2. item \in Stored /\ AddItem(cl, item)
      BY <3>1, WriteChunkFacts
    <3>3. item.chunk = writer_hand[cl].chunk
      OBVIOUS
    <3> HIDE DEF item
    <3>4. ContainerTypeOK(Stored)
      BY DEF TypeOK
    <3>5. ~ Placed(item.chunk)
      BY <3>1, <3>3 DEF SessionInv, OnceAt, Unwritten
    <3>6. ASSUME NEW f \in Client, NEW k, NEW h, HoldsItem(f, k, h),
                 Containers(f)[k][h].chunk = item.chunk
          PROVE  FALSE
      BY <3>5, <3>6 DEF Placed, HoldsItem
    <3>7. Containers(cl)'[Len(saved[cl]) + 1][NextOffset(cl)] = item
      BY <3>2, <3>4, ContainersHold
    <3> DEFINE Old(f, k, h) == HoldsItem(f, k, h) /\ Containers(f)'[k][h] = Containers(f)[k][h]
               New(f, k, h) == f = cl /\ k = Len(saved[cl]) + 1 /\ h = NextOffset(cl)
    <3>8. Old(d, n, i) \/ New(d, n, i)
      BY <1>2, <3>2, <3>4, OneItemMore
    <3>9. Old(e, m, j) \/ New(e, m, j)
      BY <1>2, <3>2, <3>4, OneItemMore
    <3>10. CASE Old(d, n, i) /\ Old(e, m, j)
      BY <1>2, <2>1, <3>10
    <3>11. CASE New(d, n, i) /\ New(e, m, j)
      BY <3>11
    <3>12. CASE Old(d, n, i) /\ New(e, m, j)
      <4>1. Containers(d)[n][i].chunk = item.chunk
        BY <1>2, <3>7, <3>12
      <4>2. QED
        BY <3>6, <3>12, <4>1
    <3>13. CASE New(d, n, i) /\ Old(e, m, j)
      <4>1. Containers(e)[m][j].chunk = item.chunk
        BY <1>2, <3>7, <3>13
      <4>2. QED
        BY <3>6, <3>13, <4>1
    <3>14. QED
      BY <3>8, <3>9, <3>10, <3>11, <3>12, <3>13
  <2>4. QED
    BY <2>2, <2>3
<1>3. QED
  BY <1>1, <1>2 DEF PlacedInv, HoldsItem

(* What an address leads to stays what it is.                              *)
LEMMA ItemStays ==
  ASSUME \A d \in Client : Extends(Containers(d)', Containers(d)),
         NEW addr, NEW c, AddrHome(addr, c)
  PROVE  ItemAt(addr)' = ItemAt(addr)
<1>1. addr.container_id \in ContainerId /\ addr.container_id[1] \in Client
  BY DEF AddrHome, ContainerId
<1>2. Extends(Containers(addr.container_id[1])', Containers(addr.container_id[1]))
  BY <1>1
<1>3. QED
  BY <1>1, <1>2 DEF AddrHome, Extends, ItemAt

(* The base of a delta is in a complete file, or in the reader's own       *)
(* container: nobody else has one, and its own file is not open.           *)
LEMMA ReadsWhole ==
  ASSUME TypeOK, HandsInv, HomeInv, SessionInv, TornInv, NEW cl \in Client, ReadBase(cl),
         \A d \in Client \ {cl} : IdleAt(d)
  PROVE  /\ torn_cached' = torn_cached
         /\ writer'[cl] = "write" /\ writer_hand'[cl].read = "whole"
         /\ writer_hand'[cl].addr = writer_hand[cl].addr
<1> DEFINE addr == writer_hand[cl].base_addr
           b == writer_hand[cl].addr.base_fp
<1>1. writer[cl] = "read" /\ addr = fp_2_addr[b] /\ b \in Bases
  BY DEF ReadBase, SessionInv, HandAt
<1>2. b \in RealChunks /\ addr.stat = "COMP_BASE"
  BY <1>1 DEF Bases, RealChunks, IsReal
<1>3. AddrHome(addr, b)
  BY <1>1, <1>2 DEF HomeInv
<1> HIDE DEF addr, b
<1>4. PICK at \in ContainerId : /\ addr.container_id = at /\ at[1] \in Client /\ at[2] \in Nat
                                /\ at[2] \in DOMAIN Containers(at[1])
  BY <1>3 DEF AddrHome, ContainerId
<1>5. IsSaved(at) \/ cur[at[1]] # <<>>
  <2>1. CASE cur[at[1]] = <<>>
    <3>1. at[2] \in DOMAIN saved[at[1]] /\ saved[at[1]] \in Seq(Seq(Stored))
      BY <1>4, <2>1 DEF Containers, TypeOK, ContainerTypeOK
    <3>2. at[2] \in 1 .. Len(saved[at[1]])
      BY <3>1
    <3>3. QED
      BY <3>2 DEF IsSaved
  <2>2. QED
    BY <2>1
<1>6. IsSaved(at) \/ at[1] = cl
  BY <1>4, <1>5 DEF IdleAt
<1>7. ~ opened[cl]
  BY <1>1 DEF SessionInv, OpenAt, MustSave
<1>8. ~ IsOpened(at) /\ torn_cached[cl] = {}
  BY <1>4, <1>7 DEF IsOpened, IdleAt, TornInv
<1>9. ReadChunk(cl, addr) = {"whole"}
  <2>1. IsSaved(at) \/ at[1] = cl
    BY <1>6
  <2>2. QED
    BY <1>2, <1>4, <1>8, <2>1 DEF ReadChunk
<1>10. torn_cached' = torn_cached
  <2>1. CacheContainer(cl, addr)
    BY DEF ReadBase, addr
  <2>2. torn_cached' = [torn_cached EXCEPT ![cl] = torn_cached[cl]]
    BY <1>4, <1>8, <2>1 DEF CacheContainer
  <2>3. QED
    BY <2>2 DEF TypeOK
<1>11. writer_hand' = [writer_hand EXCEPT ![cl].read = "whole", ![cl].base_addr = NoAddr]
  BY <1>9 DEF ReadBase, addr
<1>12. WriterGo(cl, "write")
  BY <1>9 DEF ReadBase, addr
<1>13. QED
  BY <1>10, <1>11, <1>12 DEF WriterGo, TypeOK, Hand

(* No container is ever cached cut short.                                  *)
LEMMA TornStep ==
  ASSUME TypeOK, HandsInv, HomeInv, SessionInv, TornInv, NEW cl \in Client, Step(cl),
         \A d \in Client \ {cl} : IdleAt(d)
  PROVE  TornInv'
<1>1. CASE SessionStart(cl) \/ RecvNext(cl) \/ DualNext(cl) \/ CompNext(cl)
  BY <1>1, ThreadFrames DEF writerVars, TornInv
<1>2. CASE ReadBase(cl)
  BY <1>2, ReadsWhole DEF TornInv
<1>3. CASE WriterNext(cl) /\ ~ ReadBase(cl)
  BY <1>3, CacheStays DEF TornInv
<1>4. QED
  BY <1>1, <1>2, <1>3 DEF Step

-----------------------------------------------------------------------------
(* The writer's hand.                                                      *)

HandStays(cl) == writer'[cl] = writer[cl] /\ writer_hand'[cl] = writer_hand[cl]

LEMMA HandKept ==
  ASSUME TypeOK, HandsInv, HomeInv, SessionInv, NEW cl \in Client, Step(cl), HandStays(cl)
  PROVE  HandAt(cl)'
<1>1. PICK hand \in Hand : hand = writer_hand[cl]
  BY DEF TypeOK
<1>2. HandAt(cl) /\ writer'[cl] = writer[cl] /\ writer_hand'[cl] = hand
  BY <1>1 DEF SessionInv, HandStays
<1>3. writer[cl] = "read" => hand.base_addr = fp_2_addr'[hand.addr.base_fp]
  <2>1. ASSUME writer[cl] = "read"
        PROVE  hand.base_addr = fp_2_addr'[hand.addr.base_fp]
    <3>1. hand.base_addr = fp_2_addr[hand.addr.base_fp] /\ hand.addr.base_fp \in Bases
      BY <1>1, <1>2, <2>1 DEF HandAt
    <3>2. hand.addr.base_fp \in Chunk /\ IsReal(fp_2_addr[hand.addr.base_fp])
      BY <3>1 DEF Bases, IsReal
    <3>3. QED
      BY <3>1, <3>2, RealStays
  <2>2. QED
    BY <2>1
<1>4. writer[cl] = "addr" => ItemAt(hand.addr)' = ItemAt(hand.addr)
  <2>1. ASSUME writer[cl] = "addr"
        PROVE  ItemAt(hand.addr)' = ItemAt(hand.addr)
    <3>1. AddrHome(hand.addr, hand.chunk)
      BY <1>1, <2>1 DEF HomeInv
    <3>2. QED
      BY <3>1, ContainerMoves, ItemStays
  <2>2. QED
    BY <2>1
<1>5. Bases \subseteq Bases' /\ RealChunks \subseteq RealChunks'
  BY RealStays
<1>6. QED
  BY <1>1, <1>2, <1>3, <1>4, <1>5 DEF HandAt

LEMMA HandStep ==
  ASSUME TypeOK, HandsInv, HomeInv, SessionInv, FeatureInv, TornInv, server = "up",
         NEW cl \in Client, Step(cl), \A d \in Client \ {cl} : IdleAt(d)
  PROVE  HandAt(cl)'
<1>1. HandAt(cl) /\ AheadAt(cl) /\ KindAt(cl)
  BY DEF SessionInv
<1>2. CASE UNCHANGED writerVars
  BY <1>2, HandKept DEF writerVars, HandStays
<1>3. CASE SessionStart(cl) \/ RecvNext(cl) \/ DualNext(cl) \/ CompNext(cl)
  BY <1>2, <1>3, ThreadFrames
<1>4. CASE SaveOpen(cl) \/ SaveClose(cl)
  BY <1>2, <1>4 DEF SaveOpen, SaveClose
<1>5. Bases \subseteq Bases' /\ RealChunks \subseteq RealChunks'
  BY RealStays
<1>6. CASE PopCacheDelta(cl)
  <2> DEFINE W == mq[cl]["comp_2_writer"]
             e == Head(W)
  <2>1. W # <<>> /\ e \in Item /\ e \in Holds(cl, "comp_2_writer") /\ e.stat = "CACHE_DELTA_CHUNK"
    BY <1>6, HeadFacts DEF PopCacheDelta, TypeOK, QueueType, Queue
  <2>2. e.base \in Chunk /\ e.chunk \in Chunk
    BY <1>1, <2>1 DEF KindAt, Item
  <2>3. W \in Seq(Item) /\ Follows(W, Before2Writer(cl))
    BY <1>1 DEF AheadAt, TypeOK, Queue
  <2>4. writer[cl] = "pop"
    BY <1>6 DEF PopCacheDelta
  <2>5. e.base \in RealChunks
    <3>1. e.base = NoBase \/ e.base \in Before2Writer(cl)
      BY <2>1, <2>3, SeqPopped
    <3>2. QED
      BY <2>2, <2>4, <3>1 DEF Before2Writer, InHand
  <2>6. writer'[cl] = "write" /\ writer_hand'[cl] = HandOf(e.chunk, "CACHE_DELTA", e.base)
    BY <1>6 DEF PopCacheDelta, WriterGo, TypeOK
  <2> HIDE DEF e, W
  <2>7. writer_hand'[cl].addr.stat = "CACHE_DELTA" /\ writer_hand'[cl].addr.base_fp = e.base
    BY <2>2, <2>6, AddrFacts DEF Stat
  <2>8. QED
    BY <1>5, <2>5, <2>6, <2>7 DEF HandAt
<1>7. CASE PopUnique(cl)
  <2> DEFINE e == Head(mq[cl]["comp_2_writer"])
             base == FindBaseChunk(feature_2_fp, e.chunk)
  <2>1. e \in Item /\ e.chunk \in Chunk
    BY <1>7, HeadFacts DEF PopUnique, TypeOK, QueueType, Queue, Item
  <2>2. writer[cl] = "pop"
    BY <1>7 DEF PopUnique
  <2>3. CASE /\ IsSimilar(feature_2_fp, e.chunk)
             /\ writer_hand' = [writer_hand EXCEPT ![cl] = HandOf(e.chunk, "COMP_DELTA", base)]
             /\ WriterGo(cl, "query")
    <3>1. PICK f \in Known(feature_2_fp) : base = feature_2_fp[f]
      BY <2>1, <2>3, FindBaseChunkIndexed DEF TypeOK
    <3>2. base \in Bases
      BY <2>2, <3>1 DEF FeatureInv, IdleAt
    <3>3. base \in Chunk
      BY <3>2 DEF Bases
    <3>4. writer'[cl] = "query" /\ writer_hand'[cl] = HandOf(e.chunk, "COMP_DELTA", base)
      BY <2>3 DEF WriterGo, TypeOK
    <3> HIDE DEF e, base
    <3>5. writer_hand'[cl].addr.stat = "COMP_DELTA" /\ writer_hand'[cl].addr.base_fp = base
      BY <2>1, <3>3, <3>4, AddrFacts DEF Stat
    <3>6. QED
      BY <1>5, <3>2, <3>4, <3>5 DEF HandAt
  <2>4. CASE /\ writer_hand' = [writer_hand EXCEPT ![cl] = HandOf(e.chunk, "COMP_BASE", NoBase)]
             /\ WriterGo(cl, "write")
    <3>1. writer'[cl] = "write" /\ writer_hand'[cl] = HandOf(e.chunk, "COMP_BASE", NoBase)
      BY <2>4 DEF WriterGo, TypeOK
    <3> HIDE DEF e
    <3>2. writer_hand'[cl].addr.stat = "COMP_BASE" /\ writer_hand'[cl].addr.base_fp = NoBase
      BY <2>1, <3>1, AddrFacts DEF Stat
    <3>3. QED
      BY <3>1, <3>2 DEF HandAt
  <2>5. QED
    BY <1>7, <2>3, <2>4 DEF PopUnique
<1>8. CASE QueryBaseAddr(cl)
  <2> DEFINE base == writer_hand[cl].addr.base_fp
  <2>1. writer[cl] = "query" /\ UNCHANGED fp_2_addr
    BY <1>8 DEF QueryBaseAddr
  <2>2. writer_hand[cl].addr.stat = "COMP_DELTA" /\ base \in Bases
    BY <1>1, <2>1 DEF HandAt
  <2>3. CASE /\ writer_hand' = [writer_hand EXCEPT ![cl].base_addr = fp_2_addr[base]]
             /\ WriterGo(cl, "read")
    <3>1. /\ writer'[cl] = "read" /\ writer_hand'[cl].base_addr = fp_2_addr[base]
          /\ writer_hand'[cl].addr = writer_hand[cl].addr
      BY <2>3 DEF WriterGo, TypeOK, Hand
    <3>2. QED
      BY <1>5, <2>1, <2>2, <3>1 DEF HandAt
  <2>4. QED
    BY <1>2, <1>8, <2>3 DEF QueryBaseAddr
<1>9. CASE ReadBase(cl)
  <2>1. writer_hand[cl].addr.stat = "COMP_DELTA" /\ writer_hand[cl].addr.base_fp \in Bases
    BY <1>1, <1>9 DEF HandAt, ReadBase
  <2>2. /\ writer'[cl] = "write" /\ writer_hand'[cl].read = "whole"
        /\ writer_hand'[cl].addr = writer_hand[cl].addr
    BY <1>9, ReadsWhole
  <2>3. QED
    BY <1>5, <2>1, <2>2 DEF HandAt
<1>10. CASE Write(cl)
  <2> DEFINE stat == writer_hand[cl].addr.stat
             item == [chunk |-> writer_hand[cl].chunk, stat |-> stat,
                      read |-> writer_hand[cl].read]
  <2>1. stat \in Stat /\ writer[cl] = "write" /\ WriteChunk(cl, stat)
    BY <1>10, WriterHand DEF Write, Addr
  <2>2. PICK hand \in Hand :
          /\ hand = [writer_hand[cl] EXCEPT !.addr =
                       [@ EXCEPT !.container_id = CurId(cl), !.offset = NextOffset(cl)]]
          /\ hand.addr.stat = stat
          /\ hand.addr.container_id = CurId(cl) /\ hand.addr.offset = NextOffset(cl)
          /\ CurId(cl) \in ContainerId
          /\ writer_hand' = [writer_hand EXCEPT ![cl] = hand]
          /\ item \in Stored /\ AddItem(cl, item)
    BY <2>1, WriteChunkFacts
  <2>3. hand.addr.base_fp = writer_hand[cl].addr.base_fp
    <3>1. writer_hand[cl] \in Hand /\ writer_hand[cl].addr \in Addr
      BY WriterHand
    <3>2. QED
      BY <2>2, <3>1 DEF Hand, Addr
  <2>4. writer_hand'[cl] = hand
    BY <2>2 DEF TypeOK
  <2>5. writer'[cl] = IF stat = "COMP_BASE" THEN "index" ELSE "addr"
    BY <1>10 DEF Write, WriterGo, TypeOK
  <2>6. item.read = writer_hand[cl].read
    OBVIOUS
  <2>7. /\ stat = "COMP_BASE" => hand.addr.base_fp = NoBase
        /\ stat = "COMP_DELTA" => hand.addr.base_fp \in Bases /\ item.read = "whole"
        /\ stat = "CACHE_DELTA" => hand.addr.base_fp \in RealChunks
    BY <1>1, <2>1, <2>3, <2>6 DEF HandAt
  <2> HIDE DEF item, stat
  <2>8. Containers(cl)'[Len(saved[cl]) + 1][NextOffset(cl)] = item
    BY <2>2, ContainersHold DEF TypeOK
  <2>9. CurId(cl)[1] = cl /\ CurId(cl)[2] = Len(saved[cl]) + 1
    BY DEF CurId
  <2> DEFINE id == CurId(cl)
             at == NextOffset(cl)
             n == Len(saved[cl]) + 1
  <2>10. /\ hand.addr.container_id = id /\ hand.addr.offset = at /\ id[1] = cl /\ id[2] = n
         /\ Containers(cl)'[n][at] = item
    BY <2>2, <2>8, <2>9
  <2> HIDE DEF id, at, n
  <2>11. ItemAt(hand.addr)' = item
    BY <2>10 DEF ItemAt
  <2>12. ASSUME writer'[cl] = "addr", hand.addr.stat = "COMP_DELTA"
         PROVE  ItemAt(hand.addr)'.read = "whole"
    BY <2>2, <2>7, <2>11, <2>12
  <2>13. /\ writer'[cl] \in {"index", "addr"}
         /\ writer'[cl] = "index" => hand.addr.stat = "COMP_BASE"
    BY <2>2, <2>5
  <2>14. QED
    BY <1>5, <2>2, <2>4, <2>7, <2>12, <2>13 DEF HandAt
<1>11. CASE PublishFeatures(cl)
  <2>1. writer[cl] = "index" /\ writer'[cl] = "addr" /\ UNCHANGED writer_hand
    BY <1>11 DEF PublishFeatures, WriterGo, TypeOK
  <2>2. QED
    BY <1>1, <2>1 DEF HandAt
<1>12. CASE PublishAddr(cl) \/ WriterTail(cl) \/ WriterEnd(cl)
  <2>1. writer'[cl] \in {"pop", "tail", "end"}
    BY <1>12 DEF PublishAddr, WriterTail, WriterEnd, WriterGo, TypeOK
  <2>2. QED
    BY <2>1 DEF HandAt
<1>13. ~ WriteDirect(cl)
  BY <1>1 DEF HandAt, WriteDirect
<1>14. QED
  BY <1>3, <1>4, <1>6, <1>7, <1>8, <1>9, <1>10, <1>11, <1>12, <1>13 DEF Step, WriterNext

-----------------------------------------------------------------------------
(* What is published can be restored.                                      *)

LEMMA RealStep ==
  ASSUME TypeOK, HandsInv, HomeInv, SessionInv, RealInv, NEW cl \in Client, Step(cl)
  PROVE  RealInv'
<1>1. Bases \subseteq Bases' /\ RealChunks \subseteq RealChunks'
  BY RealStays
<1>2. ASSUME NEW addr, NEW c, AddrHome(addr, c)
      PROVE  ItemAt(addr)' = ItemAt(addr)
  BY <1>2, ContainerMoves, ItemStays
<1>3. ASSUME NEW c \in RealChunks', NEW addr, fp_2_addr'[c] = addr,
             addr.stat = "COMP_BASE" => addr.base_fp = NoBase,
             addr.stat = "COMP_DELTA" =>
               addr.base_fp \in Bases /\ ItemAt(addr)'.read = "whole",
             addr.stat = "CACHE_DELTA" => addr.base_fp \in RealChunks
      PROVE  LET stat == fp_2_addr'[c].stat
                 base == fp_2_addr'[c].base_fp
             IN
             /\ stat = "COMP_BASE" => base = NoBase
             /\ stat = "COMP_DELTA" => base \in Bases' /\ ItemAt(fp_2_addr[c])'.read = "whole"
             /\ stat = "CACHE_DELTA" => base \in RealChunks'
  BY <1>1, <1>3 DEF ItemAt
<1>4. ASSUME NEW c \in RealChunks'
      PROVE  LET stat == fp_2_addr'[c].stat
                 base == fp_2_addr'[c].base_fp
             IN
             /\ stat = "COMP_BASE" => base = NoBase
             /\ stat = "COMP_DELTA" => base \in Bases' /\ ItemAt(fp_2_addr[c])'.read = "whole"
             /\ stat = "CACHE_DELTA" => base \in RealChunks'
  <2>1. c \in Chunk /\ IsReal(fp_2_addr'[c])
    BY <1>4 DEF RealChunks, IsReal
  <2>2. CASE c \in RealChunks
    <3>1. PICK addr : addr = fp_2_addr[c]
      OBVIOUS
    <3>2. fp_2_addr'[c] = addr
      BY <2>1, <2>2, <3>1, RealStays DEF RealChunks
    <3>3. /\ addr.stat = "COMP_BASE" => addr.base_fp = NoBase
          /\ addr.stat = "COMP_DELTA" => addr.base_fp \in Bases /\ ItemAt(addr).read = "whole"
          /\ addr.stat = "CACHE_DELTA" => addr.base_fp \in RealChunks
      BY <2>2, <3>1 DEF RealInv, ItemAt
    <3>4. AddrHome(addr, c)
      BY <2>2, <3>1 DEF HomeInv
    <3>5. ItemAt(addr)' = ItemAt(addr)
      BY <1>2, <3>4
    <3>6. QED
      BY <1>3, <1>4, <3>2, <3>3, <3>5
  <2>3. CASE c \notin RealChunks
    <3>1. ~ IsReal(fp_2_addr[c])
      BY <2>1, <2>3 DEF RealChunks
    <3>2. ASSUME NEW k \in Chunk, fp_2_addr' = [fp_2_addr EXCEPT ![k] = Virtual]
          PROVE  FALSE
      <4>1. fp_2_addr'[c] = fp_2_addr[c] \/ fp_2_addr'[c] = Virtual
        BY <2>1, <3>2 DEF TypeOK
      <4>2. QED
        BY <2>1, <3>1, <4>1, RealFacts
    <3>3. PublishAddr(cl)
      BY <2>1, <3>1, <3>2, IndexMoves
    <3>4. /\ c = writer_hand[cl].chunk /\ fp_2_addr'[c] = writer_hand[cl].addr
          /\ writer[cl] = "addr"
      BY <2>1, <3>1, <3>3 DEF PublishAddr, TypeOK
    <3>5. PICK addr : addr = writer_hand[cl].addr
      OBVIOUS
    <3>6. /\ addr.stat = "COMP_BASE" => addr.base_fp = NoBase
          /\ addr.stat = "COMP_DELTA" => addr.base_fp \in Bases /\ ItemAt(addr).read = "whole"
          /\ addr.stat = "CACHE_DELTA" => addr.base_fp \in RealChunks
      BY <3>4, <3>5 DEF SessionInv, HandAt, ItemAt
    <3>7. AddrHome(addr, c)
      BY <3>4, <3>5 DEF HomeInv
    <3>8. ItemAt(addr)' = ItemAt(addr)
      BY <1>2, <3>7
    <3>9. QED
      BY <1>3, <1>4, <3>4, <3>5, <3>6, <3>8
  <2>4. QED
    BY <2>2, <2>3
<1>5. QED
  BY <1>4 DEF RealInv

LEMMA FeatureStep ==
  ASSUME TypeOK, HandsInv, SessionInv, FeatureInv, NEW cl \in Client, Step(cl),
         \A d \in Client \ {cl} : IdleAt(d)
  PROVE  FeatureInv'
<1> DEFINE Pending(c) == /\ writer[cl] = "addr" /\ writer_hand[cl].chunk = c
                         /\ writer_hand[cl].addr.stat = "COMP_BASE"
<1>1. \A f \in Known(feature_2_fp) : feature_2_fp[f] \in Bases \/ Pending(feature_2_fp[f])
  BY DEF FeatureInv, IdleAt
<1>2. Bases \subseteq Bases'
  BY RealStays
<1>3. CASE PublishFeatures(cl)
  <2> DEFINE k == writer_hand[cl].chunk
  <2>1. /\ writer[cl] = "index" /\ writer'[cl] = "addr" /\ UNCHANGED writer_hand
        /\ feature_2_fp' = UpdateFeatureIndex(feature_2_fp, k)
    BY <1>3 DEF PublishFeatures, WriterGo, TypeOK
  <2>2. k \in Chunk /\ writer_hand[cl].addr.stat = "COMP_BASE" /\ feature_2_fp \in Index
    BY <2>1 DEF HandsInv, SessionInv, HandAt, TypeOK
  <2>3. ASSUME NEW f \in Known(feature_2_fp)'
        PROVE  feature_2_fp'[f] = k \/ feature_2_fp'[f] \in Bases
    <3>1. /\ f \in Feature
          /\ feature_2_fp'[f] = IF f \in FeatureSet(k) THEN k ELSE feature_2_fp[f]
          /\ f \in Known(feature_2_fp) \cup FeatureSet(k)
      BY <2>1, <2>2, <2>3, UpdateFeatureIndexFacts DEF Known
    <3>2. CASE f \in FeatureSet(k)
      BY <3>1, <3>2
    <3>3. CASE f \notin FeatureSet(k)
      BY <1>1, <2>1, <3>1, <3>3
    <3>4. QED
      BY <3>2, <3>3
  <2>4. QED
    BY <1>2, <2>1, <2>2, <2>3 DEF FeatureInv
<1>4. CASE PublishAddr(cl)
  <2>1. UNCHANGED feature_2_fp
    BY <1>4 DEF PublishAddr
  <2>2. ASSUME NEW c, Pending(c)
        PROVE  c \in Bases'
    <3>1. /\ c \in Chunk /\ fp_2_addr' = [fp_2_addr EXCEPT ![c] = writer_hand[cl].addr]
      BY <1>4, <2>2 DEF PublishAddr, HandsInv
    <3>2. fp_2_addr'[c].stat = "COMP_BASE"
      BY <2>2, <3>1 DEF TypeOK
    <3>3. QED
      BY <3>1, <3>2 DEF Bases
  <2>3. QED
    BY <1>1, <1>2, <2>1, <2>2 DEF FeatureInv, Known
<1>5. CASE ~ PublishFeatures(cl) /\ ~ PublishAddr(cl)
  <2>1. UNCHANGED feature_2_fp
    <3>1. CASE SessionStart(cl) \/ RecvNext(cl) \/ DualNext(cl) \/ CompNext(cl)
      BY <3>1, ThreadFrames
    <3>2. CASE WriterNext(cl)
      BY <1>5, <3>2 DEF WriterNext, PopCacheDelta, PopUnique, QueryBaseAddr, ReadBase,
                        SaveOpen, SaveClose, WriteDirect, Write, WriterTail, WriterEnd
    <3>3. QED
      BY <3>1, <3>2 DEF Step
  <2>2. writer[cl] = "addr" => HandStays(cl)
    <3>1. CASE SessionStart(cl) \/ RecvNext(cl) \/ DualNext(cl) \/ CompNext(cl)
      BY <3>1, ThreadFrames DEF writerVars, HandStays
    <3>2. CASE WriterNext(cl)
      BY <1>5, <3>2 DEF WriterNext, PopCacheDelta, PopUnique, QueryBaseAddr, ReadBase,
                        SaveOpen, SaveClose, WriteDirect, Write, WriterTail, WriterEnd,
                        writerVars, HandStays
    <3>3. QED
      BY <3>1, <3>2 DEF Step
  <2>3. QED
    BY <1>1, <1>2, <2>1, <2>2 DEF FeatureInv, Known, HandStays
<1>6. QED
  BY <1>3, <1>4, <1>5

-----------------------------------------------------------------------------
(* Bases are ahead of what refers to them.                                 *)

(* What is in the index is stored, or claimed by the only session.         *)
LEMMA ClaimedAhead ==
  ASSUME TypeOK, HandsInv, AddrInv, FlightInv, SessionInv, server = "up", NEW cl \in Client,
         \A d \in Client \ {cl} : IdleAt(d), Method[cl] = "FULL_EDR",
         NEW c \in Chunk, fp_2_addr[c] # NoAddr
  PROVE  c \in BeforeHand(cl)
<1>1. CASE IsReal(fp_2_addr[c])
  BY <1>1 DEF BeforeHand, Before2Comp, Before2Writer, RealChunks
<1>2. CASE ~ IsReal(fp_2_addr[c])
  <2>1. fp_2_addr[c].stat = "virtual"
    BY <1>2 DEF AddrInv, InIndex
  <2>2. PICK d \in Client : Claims(d, c)
    BY <2>1 DEF FlightInv
  <2>3. d = cl
    <3>1. ASSUME d # cl
          PROVE  FALSE
      <4>1. IdleAt(d)
        BY <3>1
      <4>2. \A q \in Queue : Holds(d, q) = {}
        BY <4>1 DEF IdleAt, Holds
      <4>3. writer_hand[d].chunk = NoBase
        BY <4>1 DEF IdleAt, EmptyHand
      <4>4. QED
        BY <2>2, <4>2, <4>3 DEF Claims, Queue
    <3>2. QED
      BY <3>1
  <2>4. \A e \in Holds(cl, "recv_2_dual") : e.stat # "UNIQUE_CHUNK"
    BY DEF SessionInv, MethodAt
  <2>5. ASSUME NEW q, NEW e \in Holds(cl, q), e.chunk = c
        PROVE  c \in ChunksOf(mq[cl][q])
    BY <2>5 DEF Holds, ChunksOf
  <2>6. CASE writer_hand[cl].chunk = c
    <3>1. writer_hand[cl] # EmptyHand
      BY <2>6 DEF EmptyHand
    <3>2. writer[cl] \notin {"pop", "tail", "end"}
      BY <3>1 DEF HandsInv, SessionInv, OpenAt
    <3>3. QED
      BY <2>6, <3>2 DEF BeforeHand, Before2Comp, Before2Writer, InHand
  <2>7. CASE \E q \in {"dual_2_comp", "comp_2_writer"} : \E e \in Holds(cl, q) : e.chunk = c
    BY <2>5, <2>7 DEF BeforeHand, Before2Comp
  <2>8. QED
    BY <2>2, <2>3, <2>4, <2>6, <2>7 DEF Claims
<1>3. QED
  BY <1>1, <1>2

LEMMA AheadStep ==
  ASSUME TypeOK, HandsInv, EndsInv, AddrInv, FlightInv, SessionInv, server = "up",
         NEW cl \in Client, Step(cl), server' = "up", \A d \in Client \ {cl} : IdleAt(d)
  PROVE  AheadAt(cl)'
<1> DEFINE R == mq[cl]["recv_2_dual"]
           D == mq[cl]["dual_2_comp"]
           W == mq[cl]["comp_2_writer"]
<1>1. /\ MethodAt(cl)
      /\ R \in Seq(Item) /\ D \in Seq(Item) /\ W \in Seq(Item)
      /\ mq \in QueueType
      /\ "recv_2_dual" \in Queue /\ "dual_2_comp" \in Queue
      /\ "comp_2_writer" \in Queue \ {"dual_2_comp"} /\ "comp_2_writer" \in Queue
  BY DEF SessionInv, TypeOK, Queue, QueueType
<1>2. /\ Follows(W, Before2Writer(cl)) /\ Follows(D, Before2Comp(cl))
      /\ dual[cl] = "insert" =>
           dual_hand[cl].base = NoBase \/ dual_hand[cl].base \in BeforeHand(cl)
      /\ Follows(R, Before2Dual(cl))
      /\ cached[cl] \subseteq Before2Dual(cl) \cup ChunksOf(R)
  BY DEF SessionInv, AheadAt
<1>3. /\ Before2Comp(cl) = Before2Writer(cl) \cup ChunksOf(W)
      /\ BeforeHand(cl) = Before2Comp(cl) \cup ChunksOf(D)
      /\ dual[cl] = "insert" => Before2Dual(cl) = BeforeHand(cl) \cup {dual_hand[cl].chunk}
      /\ dual[cl] # "insert" => Before2Dual(cl) = BeforeHand(cl)
  BY DEF Before2Comp, BeforeHand, Before2Dual
<1>4. /\ Before2Comp(cl)' = Before2Writer(cl)' \cup ChunksOf(mq'[cl]["comp_2_writer"])
      /\ BeforeHand(cl)' = Before2Comp(cl)' \cup ChunksOf(mq'[cl]["dual_2_comp"])
      /\ dual'[cl] = "insert" => Before2Dual(cl)' = BeforeHand(cl)' \cup {dual_hand'[cl].chunk}
      /\ dual'[cl] # "insert" => Before2Dual(cl)' = BeforeHand(cl)'
  BY DEF Before2Comp, BeforeHand, Before2Dual
<1>5. ASSUME Follows(mq'[cl]["comp_2_writer"], Before2Writer(cl)'),
             Follows(mq'[cl]["dual_2_comp"], Before2Comp(cl)'),
             dual'[cl] = "insert" =>
               dual_hand'[cl].base = NoBase \/ dual_hand'[cl].base \in BeforeHand(cl)',
             Follows(mq'[cl]["recv_2_dual"], Before2Dual(cl)'),
             cached'[cl] \subseteq Before2Dual(cl)' \cup ChunksOf(mq'[cl]["recv_2_dual"])
      PROVE  AheadAt(cl)'
  BY <1>5 DEF AheadAt
<1> HIDE DEF R, D, W
<1>6. RealChunks \subseteq RealChunks'
  BY RealStays
<1>7. ASSUME ~ PopCacheDelta(cl), ~ PopUnique(cl)
      PROVE  Before2Writer(cl) \subseteq Before2Writer(cl)'
  <2>1. CASE PublishAddr(cl)
    <3>1. InHand(cl) = {writer_hand[cl].chunk} /\ writer_hand[cl].chunk \in Chunk
      BY <2>1 DEF PublishAddr, InHand, HandsInv
    <3>2. IsReal(fp_2_addr'[writer_hand[cl].chunk])
      BY <2>1, <3>1 DEF PublishAddr, HandsInv, TypeOK
    <3>3. writer_hand[cl].chunk \in RealChunks'
      BY <3>1, <3>2 DEF RealChunks, IsReal
    <3>4. QED
      BY <1>6, <3>1, <3>3 DEF Before2Writer
  <2>2. CASE ~ PublishAddr(cl)
    BY <1>6, <1>7, <2>2, HandMoves DEF Before2Writer
  <2>3. QED
    BY <2>1, <2>2
(* Steps that take nothing from a queue.                                   *)
<1>8. ASSUME mq'[cl]["dual_2_comp"] = D, mq'[cl]["comp_2_writer"] = W,
             ~ PopCacheDelta(cl), ~ PopUnique(cl),
             dual'[cl] = dual[cl] \/ (dual[cl] # "insert" /\ dual'[cl] # "insert"),
             dual_hand'[cl] = dual_hand[cl]
      PROVE  /\ Follows(mq'[cl]["comp_2_writer"], Before2Writer(cl)')
             /\ Follows(mq'[cl]["dual_2_comp"], Before2Comp(cl)')
             /\ dual'[cl] = "insert" =>
                  dual_hand'[cl].base = NoBase \/ dual_hand'[cl].base \in BeforeHand(cl)'
             /\ Before2Dual(cl) \subseteq Before2Dual(cl)'
  <2>1. Before2Writer(cl) \subseteq Before2Writer(cl)'
    BY <1>7, <1>8
  <2>2. Before2Comp(cl) \subseteq Before2Comp(cl)'
    BY <1>3, <1>4, <1>8, <2>1
  <2>3. BeforeHand(cl) \subseteq BeforeHand(cl)'
    BY <1>3, <1>4, <1>8, <2>2
  <2>4. Before2Dual(cl) \subseteq Before2Dual(cl)'
    BY <1>3, <1>4, <1>8, <2>3
  <2>5. QED
    BY <1>2, <1>8, <2>1, <2>2, <2>3, <2>4, FollowsMore
<1>9. ASSUME mq'[cl] = mq[cl], ~ PopCacheDelta(cl), ~ PopUnique(cl),
             dual'[cl] = dual[cl] \/ (dual[cl] # "insert" /\ dual'[cl] # "insert"),
             dual_hand'[cl] = dual_hand[cl], cached'[cl] = cached[cl]
      PROVE  AheadAt(cl)'
  <2>1. /\ Follows(mq'[cl]["comp_2_writer"], Before2Writer(cl)')
        /\ Follows(mq'[cl]["dual_2_comp"], Before2Comp(cl)')
        /\ dual'[cl] = "insert" =>
             dual_hand'[cl].base = NoBase \/ dual_hand'[cl].base \in BeforeHand(cl)'
        /\ Before2Dual(cl) \subseteq Before2Dual(cl)'
        /\ mq'[cl]["recv_2_dual"] = R
    BY <1>8, <1>9 DEF D, W, R
  <2>2. Follows(mq'[cl]["recv_2_dual"], Before2Dual(cl)')
    BY <1>2, <2>1, FollowsMore
  <2>3. QED
    BY <1>2, <1>5, <1>9, <2>1, <2>2
<1>10. ASSUME NEW e \in Item, Push(cl, "recv_2_dual", e),
              e.base = NoBase \/ e.base \in Before2Dual(cl) \cup ChunksOf(R),
              cached'[cl] \subseteq cached[cl] \cup {e.chunk},
              UNCHANGED <<dual, dual_hand, writer>>
       PROVE  AheadAt(cl)'
  <2>1. /\ mq'[cl]["recv_2_dual"] = Append(R, e)
        /\ mq'[cl]["dual_2_comp"] = D /\ mq'[cl]["comp_2_writer"] = W
    BY <1>1, <1>10, Pushed DEF R, D, W
  <2>2. ~ PopCacheDelta(cl) /\ ~ PopUnique(cl)
    BY <1>10 DEF PopCacheDelta, PopUnique, WriterGo, TypeOK
  <2>3. /\ Follows(mq'[cl]["comp_2_writer"], Before2Writer(cl)')
        /\ Follows(mq'[cl]["dual_2_comp"], Before2Comp(cl)')
        /\ dual'[cl] = "insert" =>
             dual_hand'[cl].base = NoBase \/ dual_hand'[cl].base \in BeforeHand(cl)'
        /\ Before2Dual(cl) \subseteq Before2Dual(cl)'
    BY <1>8, <1>10, <2>1, <2>2
  <2>4. Follows(R, Before2Dual(cl)')
    BY <1>2, <2>3, FollowsMore
  <2>5. e.base = NoBase \/ e.base \in Before2Dual(cl)' \cup ChunksOf(R)
    BY <1>10, <2>3
  <2>6. /\ Follows(Append(R, e), Before2Dual(cl)')
        /\ ChunksOf(Append(R, e)) = ChunksOf(R) \cup {e.chunk}
    BY <1>1, <1>10, <2>4, <2>5, SeqPushed
  <2>7. cached'[cl] \subseteq Before2Dual(cl)' \cup ChunksOf(mq'[cl]["recv_2_dual"])
    BY <1>2, <1>10, <2>1, <2>3, <2>6
  <2>8. QED
    BY <1>5, <2>1, <2>3, <2>6, <2>7
<1>11. ASSUME NEW c \in Chunk, RecvFullEDR(cl, c)
       PROVE  AheadAt(cl)'
  <2>1. UNCHANGED <<dual, dual_hand, writer>>
    BY <1>11 DEF RecvFullEDR, dualVars, writerVars
  <2>2. CASE /\ cached' = [cached EXCEPT ![cl] = @ \cup {c}]
             /\ Push(cl, "recv_2_dual", Msg("CHUNK_PAIR", c, NoBase))
    <3>1. cached'[cl] = cached[cl] \cup {c}
      BY <2>2 DEF TypeOK
    <3>2. QED
      BY <1>10, <2>1, <2>2, <3>1 DEF Msg, Item
  <2>3. ASSUME NEW b \in cached[cl], Push(cl, "recv_2_dual", Msg("SINGLE_CHUNK", c, b)),
               UNCHANGED cached
        PROVE  AheadAt(cl)'
    <3>1. b \in Chunk /\ b \in Before2Dual(cl) \cup ChunksOf(R)
      BY <1>2 DEF TypeOK
    <3>2. QED
      BY <1>10, <2>1, <2>3, <3>1 DEF Msg, Item
  <2>4. QED
    BY <1>11, <2>2, <2>3 DEF RecvFullEDR
<1>12. CASE RecvInsert(cl)
  <2>1. /\ Msg("UNIQUE_CHUNK", recv_hand[cl], NoBase) \in Item
        /\ Push(cl, "recv_2_dual", Msg("UNIQUE_CHUNK", recv_hand[cl], NoBase))
    BY <1>12, RecvInsertEffect DEF RecvInsert, Msg, Item
  <2>2. UNCHANGED <<cached, dual, dual_hand, writer>>
    BY <1>12 DEF RecvInsert, dualVars, writerVars
  <2>3. QED
    BY <1>10, <2>1, <2>2 DEF Msg
<1>13. CASE \/ SessionStart(cl) \/ RecvEnd(cl) \/ \E c \in Chunk : RecvNormal(cl, c)
            \/ DualEnd(cl) \/ CompEnd(cl)
  <2>1. UNCHANGED <<mq, cached, dual_hand, writer>>
    BY <1>13 DEF SessionStart, RecvEnd, RecvNormal, DualEnd, CompEnd, clientVars, dualVars,
                 writerVars
  <2>2. dual'[cl] = dual[cl] \/ (dual[cl] # "insert" /\ dual'[cl] # "insert")
    BY <1>13 DEF SessionStart, RecvEnd, RecvNormal, DualEnd, CompEnd, dualVars, TypeOK
  <2>3. ~ PopCacheDelta(cl) /\ ~ PopUnique(cl)
    BY <2>1 DEF PopCacheDelta, PopUnique, WriterGo, TypeOK
  <2>4. QED
    BY <1>9, <2>1, <2>2, <2>3
<1>14. CASE WriterNext(cl) /\ ~ PopCacheDelta(cl) /\ ~ PopUnique(cl)
  <2>1. UNCHANGED <<mq, cached, dual, dual_hand>>
    BY <1>14, ThreadFrames, WriterQueues DEF clientVars, dualVars
  <2>2. QED
    BY <1>9, <1>14, <2>1
<1>15. CASE DualPop(cl)
  <2> DEFINE e == Head(R)
  <2>1. /\ R # <<>> /\ e \in Item /\ e \in Holds(cl, "recv_2_dual")
        /\ e.stat # "UNIQUE_CHUNK" /\ e.chunk \in Chunk /\ dual[cl] = "pop"
        /\ Pop(cl, "recv_2_dual")
    <3>1. e.stat \in {"CHUNK_PAIR", "SINGLE_CHUNK"}
      BY <1>15 DEF DualPop, HasItem, R
    <3>2. R # <<>> /\ e \in Item /\ e \in Holds(cl, "recv_2_dual")
      BY <1>1, <1>15, HeadFacts DEF DualPop, R
    <3>3. QED
      BY <1>15, <3>1, <3>2 DEF DualPop, Item
  <2>2. /\ mq'[cl]["recv_2_dual"] = Tail(R)
        /\ mq'[cl]["dual_2_comp"] = D /\ mq'[cl]["comp_2_writer"] = W
    BY <1>1, <2>1, Popped DEF R, D, W
  <2>3. UNCHANGED <<cached, fp_2_addr, writer, writer_hand>>
    BY <1>15 DEF DualPop, clientVars, writerVars
  <2>4. /\ Before2Writer(cl)' = Before2Writer(cl) /\ Before2Comp(cl)' = Before2Comp(cl)
        /\ BeforeHand(cl)' = BeforeHand(cl)
    <3>1. Before2Writer(cl)' = Before2Writer(cl)
      BY <2>3 DEF Before2Writer, InHand, RealChunks, IsReal
    <3>2. QED
      BY <1>3, <1>4, <2>2, <3>1
  <2>5. Method[cl] = "FULL_EDR"
    <3>1. Method[cl] # "NORMAL"
      BY <1>1, <2>1 DEF MethodAt
    <3>2. QED
      BY <3>1
  <2> HIDE DEF e
  <2>6. /\ ChunksOf(R) = ChunksOf(Tail(R)) \cup {e.chunk}
        /\ e.base = NoBase \/ e.base \in BeforeHand(cl)
        /\ Follows(Tail(R), BeforeHand(cl) \cup {e.chunk})
    <3>1. R \in Seq(Item) /\ R # <<>> /\ Follows(R, BeforeHand(cl))
      BY <1>1, <1>2, <1>3, <2>1
    <3>2. QED
      BY <3>1, SeqPopped DEF e
  <2>7. CASE fp_2_addr[e.chunk] # NoAddr /\ UNCHANGED dualVars
    <3>1. e.chunk \in BeforeHand(cl)
      BY <2>1, <2>5, <2>7, ClaimedAhead
    <3>2. Before2Dual(cl)' = BeforeHand(cl) /\ dual'[cl] = "pop"
      BY <1>4, <2>1, <2>4, <2>7 DEF dualVars
    <3>3. BeforeHand(cl) \cup {e.chunk} = BeforeHand(cl)
      BY <3>1
    <3>4. cached'[cl] \subseteq Before2Dual(cl)' \cup ChunksOf(Tail(R))
      BY <1>2, <1>3, <2>1, <2>3, <2>6, <3>1, <3>2
    <3>5. QED
      BY <1>2, <1>5, <2>2, <2>4, <2>6, <3>2, <3>3, <3>4
  <2>8. CASE /\ dual' = [dual EXCEPT ![cl] = "insert"]
             /\ dual_hand' = [dual_hand EXCEPT ![cl] = e]
    <3>1. dual'[cl] = "insert" /\ dual_hand'[cl] = e
      BY <2>8 DEF TypeOK
    <3>2. Before2Dual(cl)' = BeforeHand(cl) \cup {e.chunk}
      BY <1>4, <2>4, <3>1
    <3>3. cached'[cl] \subseteq Before2Dual(cl)' \cup ChunksOf(Tail(R))
      BY <1>2, <1>3, <2>1, <2>3, <2>6, <3>2
    <3>4. QED
      BY <1>2, <1>5, <2>2, <2>4, <2>6, <3>1, <3>2, <3>3
  <2>9. QED
    BY <1>15, <2>7, <2>8 DEF DualPop, e, R
<1>16. CASE DualInsert(cl)
  <2> DEFINE e == ForComp(dual_hand[cl])
  <2>1. /\ e \in Item /\ e.chunk = dual_hand[cl].chunk /\ Push(cl, "dual_2_comp", e)
        /\ dual[cl] = "insert" /\ dual'[cl] # "insert"
        /\ UNCHANGED <<cached, writer>>
    BY <1>16, DualInsertEffect DEF DualInsert, TypeOK, clientVars, writerVars
  <2>2. e.base = dual_hand[cl].base
    BY <1>16, DualInsertEffect DEF ForComp, Item
  <2> HIDE DEF e
  <2>3. /\ mq'[cl]["recv_2_dual"] = R
        /\ mq'[cl]["dual_2_comp"] = Append(D, e) /\ mq'[cl]["comp_2_writer"] = W
    BY <1>1, <2>1, Pushed DEF R, D, W
  <2>4. ~ PopCacheDelta(cl) /\ ~ PopUnique(cl)
    BY <2>1 DEF PopCacheDelta, PopUnique, WriterGo, TypeOK
  <2>5. Before2Writer(cl) \subseteq Before2Writer(cl)'
    BY <1>7, <2>4
  <2>6. Before2Comp(cl) \subseteq Before2Comp(cl)'
    BY <1>3, <1>4, <2>3, <2>5
  <2>7. ChunksOf(Append(D, e)) = ChunksOf(D) \cup {e.chunk}
    BY <1>1, <2>1, SeqPushed
  <2>8. Before2Dual(cl) \subseteq Before2Dual(cl)'
    BY <1>3, <1>4, <2>1, <2>3, <2>6, <2>7
  <2>9. Follows(Append(D, e), Before2Comp(cl)')
    <3>1. Follows(D, Before2Comp(cl)')
      BY <1>2, <2>6, FollowsMore
    <3>2. e.base = NoBase \/ e.base \in Before2Comp(cl)' \cup ChunksOf(D)
      BY <1>2, <1>3, <2>1, <2>2, <2>6
    <3>3. QED
      BY <1>1, <2>1, <3>1, <3>2, SeqPushed
  <2>10. Follows(W, Before2Writer(cl)') /\ Follows(R, Before2Dual(cl)')
    BY <1>2, <2>5, <2>8, FollowsMore
  <2>11. cached'[cl] \subseteq Before2Dual(cl)' \cup ChunksOf(R)
    BY <1>2, <2>1, <2>8
  <2>12. QED
    BY <1>5, <2>1, <2>3, <2>9, <2>10, <2>11
<1>17. CASE CompAfterCache(cl) \/ CompUnique(cl)
  <2> DEFINE e == Head(D)
  <2>1. D # <<>> /\ e \in Item
    BY <1>1, <1>17, HeadFacts DEF CompAfterCache, CompUnique, D
  <2>2. PICK stat \in {"UNIQUE_CHUNK", "CACHE_DELTA_CHUNK"} :
          Forward(cl, "dual_2_comp", "comp_2_writer", [e EXCEPT !.stat = stat])
    BY <1>17 DEF CompAfterCache, CompUnique, D
  <2> DEFINE g == [e EXCEPT !.stat = stat]
  <2>3. /\ g \in Item /\ g.chunk = e.chunk /\ g.base = e.base
        /\ Forward(cl, "dual_2_comp", "comp_2_writer", g)
    BY <2>1, <2>2 DEF Item
  <2> HIDE DEF e, g
  <2>4. /\ mq'[cl]["dual_2_comp"] = Tail(D) /\ mq'[cl]["comp_2_writer"] = Append(W, g)
        /\ mq'[cl]["recv_2_dual"] = R
    BY <1>1, <2>3, Forwarded DEF R, D, W
  <2>5. /\ ChunksOf(D) = ChunksOf(Tail(D)) \cup {e.chunk}
        /\ e.base = NoBase \/ e.base \in Before2Comp(cl)
        /\ Follows(Tail(D), Before2Comp(cl) \cup {e.chunk})
    BY <1>1, <1>2, <2>1, SeqPopped DEF e
  <2>6. UNCHANGED <<cached, dual, dual_hand, writer, writer_hand, fp_2_addr>>
    BY <1>17, ThreadFrames DEF CompNext, clientVars, dualVars, writerVars
  <2>7. Before2Writer(cl)' = Before2Writer(cl)
    BY <2>6 DEF Before2Writer, InHand, RealChunks, IsReal
  <2>8. Follows(Append(W, g), Before2Writer(cl))
    BY <1>1, <1>2, <1>3, <2>3, <2>5, SeqPushed
  <2>9. ChunksOf(Append(W, g)) = ChunksOf(W) \cup {e.chunk}
    BY <1>1, <2>3, SeqPushed
  <2>10. Before2Comp(cl)' = Before2Comp(cl) \cup {e.chunk}
    BY <1>3, <1>4, <2>4, <2>7, <2>9
  <2>11. BeforeHand(cl)' = BeforeHand(cl)
    BY <1>3, <1>4, <2>4, <2>5, <2>10
  <2>12. Before2Dual(cl)' = Before2Dual(cl)
    BY <1>3, <1>4, <2>6, <2>11
  <2>13. QED
    BY <1>2, <1>5, <2>4, <2>5, <2>6, <2>7, <2>8, <2>10, <2>11, <2>12
<1>18. CASE PopCacheDelta(cl) \/ PopUnique(cl)
  <2> DEFINE e == Head(W)
  <2>1. W # <<>> /\ e \in Item /\ Pop(cl, "comp_2_writer")
    BY <1>1, <1>18, HeadFacts DEF PopCacheDelta, PopUnique, W
  <2>2. writer[cl] = "pop" /\ UNCHANGED <<cached, dual, dual_hand, fp_2_addr>>
    BY <1>18 DEF PopCacheDelta, PopUnique, clientVars, dualVars
  <2>3. InHand(cl)' = {e.chunk}
    BY <1>18, PoppedHand DEF e, W
  <2> HIDE DEF e
  <2>4. /\ mq'[cl]["recv_2_dual"] = R /\ mq'[cl]["dual_2_comp"] = D
        /\ mq'[cl]["comp_2_writer"] = Tail(W)
    BY <1>1, <2>1, Popped DEF R, D, W
  <2>5. Before2Writer(cl) = RealChunks /\ Before2Writer(cl)' = RealChunks \cup {e.chunk}
    BY <2>2, <2>3 DEF Before2Writer, InHand, RealChunks, IsReal
  <2>6. /\ ChunksOf(W) = ChunksOf(Tail(W)) \cup {e.chunk}
        /\ Follows(Tail(W), Before2Writer(cl)')
    BY <1>1, <1>2, <2>1, <2>5, SeqPopped DEF e
  <2>7. Before2Comp(cl)' = Before2Comp(cl)
    BY <1>3, <1>4, <2>4, <2>5, <2>6
  <2>8. BeforeHand(cl)' = BeforeHand(cl)
    BY <1>3, <1>4, <2>4, <2>7
  <2>9. Before2Dual(cl)' = Before2Dual(cl)
    BY <1>3, <1>4, <2>2, <2>8
  <2>10. QED
    BY <1>2, <1>5, <2>2, <2>4, <2>6, <2>7, <2>8, <2>9
<1>19. ~ DualExit(cl)
  BY DEF DualExit
<1>20. QED
  BY <1>11, <1>12, <1>13, <1>14, <1>15, <1>16, <1>17, <1>18, <1>19
  DEF Step, RecvNext, DualNext, CompNext

-----------------------------------------------------------------------------
(* What has ended is in files.                                             *)

(* A container file stays, and so does what is in it.                      *)
LEMMA FilesStay ==
  ASSUME TypeOK, HandsInv, HomeInv, SessionInv, NEW cl \in Client, Step(cl),
         NEW c \in Chunk, InFile(c)
  PROVE  InFile(c)' /\ fp_2_addr'[c] = fp_2_addr[c]
<1>1. ContainerTypeOK(Stored) /\ \A d \in Client : Len(saved[d]) \in Nat
  BY DEF TypeOK, ContainerTypeOK
<1>2. \A d \in Client : Len(saved'[d]) \in Nat /\ Len(saved[d]) <= Len(saved'[d])
  <2>1. CASE UNCHANGED saved
    BY <1>1, <2>1
  <2>2. CASE SaveClose(cl)
    <3>1. saved' = [saved EXCEPT ![cl] = Append(saved[cl], cur[cl])]
      BY <2>2 DEF SaveClose, CloseFile
    <3>2. /\ saved'[cl] = Append(saved[cl], cur[cl])
          /\ \A d \in Client \ {cl} : saved'[d] = saved[d]
      BY <1>1, <3>1 DEF ContainerTypeOK
    <3>3. saved[cl] \in Seq(Seq(Stored)) /\ cur[cl] \in Seq(Stored)
      BY <1>1 DEF ContainerTypeOK
    <3>4. Len(Append(saved[cl], cur[cl])) = Len(saved[cl]) + 1
      BY <3>3
    <3>5. QED
      BY <1>1, <3>2, <3>4
  <2>3. CASE SessionStart(cl) \/ RecvNext(cl) \/ DualNext(cl) \/ CompNext(cl)
    BY <2>1, <2>3, ThreadFrames DEF containerVars
  <2>4. CASE WriterNext(cl) /\ ~ SaveClose(cl)
    BY <2>1, <2>4 DEF WriterNext, PopCacheDelta, PopUnique, QueryBaseAddr, ReadBase, SaveOpen,
                      OpenFile, WriteDirect, Write, WriteChunk, AddItem, PublishFeatures,
                      PublishAddr, WriterTail, WriterEnd, containerVars
  <2>5. QED
    BY <2>2, <2>3, <2>4 DEF Step
<1>3. fp_2_addr'[c] = fp_2_addr[c] /\ IsReal(fp_2_addr[c])
  BY RealStays DEF InFile
<1>4. PICK at : at = fp_2_addr[c].container_id
  OBVIOUS
<1>5. at[1] \in Client /\ at[2] \in Nat /\ at[2] <= Len(saved[at[1]])
  BY <1>3, <1>4 DEF HomeInv, RealChunks, AddrHome, ContainerId, InFile
<1>6. at[2] <= Len(saved'[at[1]])
  BY <1>1, <1>2, <1>5
<1>7. QED
  BY <1>3, <1>4, <1>6 DEF InFile, IsReal

(* With no container being filled, all that is stored is in a file.        *)
LEMMA AllInFiles ==
  ASSUME TypeOK, HomeInv, \A d \in Client : cur[d] = <<>>, NEW c \in RealChunks
  PROVE  InFile(c)
<1>1. PICK at : at = fp_2_addr[c].container_id
  OBVIOUS
<1>2. at \in ContainerId /\ at[2] \in DOMAIN Containers(at[1])
  BY <1>1 DEF HomeInv, AddrHome
<1>3. Containers(at[1]) = saved[at[1]] /\ saved[at[1]] \in Seq(Seq(Stored))
  BY <1>2 DEF Containers, ContainerId, TypeOK, ContainerTypeOK
<1>4. at[2] <= Len(saved[at[1]])
  BY <1>2, <1>3
<1>5. QED
  BY <1>1, <1>4 DEF InFile, RealChunks

LEMMA EndedBy ==
  ASSUME TypeOK, NEW cl \in Client, Step(cl), writer[cl] # "end", writer'[cl] = "end"
  PROVE  WriterEnd(cl)
<1>1. \A step : WriterGo(cl, step) => writer'[cl] = step
  BY DEF WriterGo, TypeOK
<1>2. CASE SessionStart(cl) \/ RecvNext(cl) \/ DualNext(cl) \/ CompNext(cl)
  BY <1>2, ThreadFrames DEF writerVars
<1>3. CASE WriterNext(cl)
  <2>1. ~ PopCacheDelta(cl) /\ ~ PopUnique(cl)
    BY <1>1 DEF PopCacheDelta, PopUnique
  <2>2. ~ QueryBaseAddr(cl) /\ ~ ReadBase(cl)
    BY <1>1 DEF QueryBaseAddr, ReadBase, writerVars
  <2>3. ~ SaveOpen(cl) /\ ~ SaveClose(cl)
    BY DEF SaveOpen, SaveClose, writerVars
  <2>4. ~ WriteDirect(cl) /\ ~ Write(cl) /\ ~ PublishFeatures(cl) /\ ~ PublishAddr(cl)
    BY <1>1 DEF WriteDirect, Write, PublishFeatures, PublishAddr
  <2>5. ~ WriterTail(cl)
    BY <1>1 DEF WriterTail
  <2>6. QED
    BY <1>3, <2>1, <2>2, <2>3, <2>4, <2>5 DEF WriterNext
<1>4. QED
  BY <1>2, <1>3 DEF Step

LEMMA DurableStep ==
  ASSUME TypeOK, HandsInv, EndsInv, HomeInv, FlightInv, SessionInv, RealInv, UploadDurable,
         server = "up", NEW cl \in Client, Step(cl), SessionStart(cl) \/ Active(cl),
         \A d \in Client \ {cl} : IdleAt(d)
  PROVE  UploadDurable'
<1>1. writer[cl] # "end"
  BY DEF SessionStart, Active, EndsInv
<1>2. ASSUME NEW d \in Client, d # cl, writer'[d] = "end", NEW c \in recipe'[d]
      PROVE  InFile(c)' /\ \E b : b = fp_2_addr'[c].base_fp /\ (b # NoBase => InFile(b)')
  <2>1. writer[d] = "end" /\ recipe'[d] = recipe[d]
    BY <1>2, Others
  <2>2. /\ c \in Chunk /\ InFile(c)
        /\ fp_2_addr[c].base_fp # NoBase => InFile(fp_2_addr[c].base_fp)
    BY <1>2, <2>1 DEF UploadDurable, TypeOK
  <2>3. PICK b : b = fp_2_addr[c].base_fp
    OBVIOUS
  <2>4. b \in Chunk \cup {NoBase}
    BY <2>2, <2>3 DEF TypeOK, Addr
  <2>5. InFile(c)' /\ fp_2_addr'[c] = fp_2_addr[c]
    BY <2>2, FilesStay
  <2>6. b # NoBase => InFile(b)'
    BY <2>2, <2>3, <2>4, FilesStay
  <2>7. QED
    BY <2>3, <2>5, <2>6
<1>3. ASSUME writer'[cl] = "end", NEW c \in recipe'[cl]
      PROVE  InFile(c)' /\ \E b : b = fp_2_addr'[c].base_fp /\ (b # NoBase => InFile(b)')
  <2>1. WriterEnd(cl)
    BY <1>1, <1>3, EndedBy
  <2>2. /\ UNCHANGED <<fp_2_addr, saved, cur, recipe>>
        /\ writer[cl] = "tail" /\ cur[cl] = <<>>
    BY <2>1 DEF WriterEnd, MustSave, containerVars, clientVars
  <2>3. \A d \in Client : cur[d] = <<>>
    BY <2>2 DEF IdleAt
  <2>4. ASSUME NEW d \in Client, NEW k \in Chunk
        PROVE  ~ Carries(d, k)
    <3>1. \A q \in Queue : Holds(d, q) = {}
      <4>1. CASE d = cl
        BY <2>2, <4>1 DEF EndsInv, Queue
      <4>2. CASE d # cl
        <5>1. \A q \in Queue : mq[d][q] = <<>>
          BY <4>2 DEF IdleAt
        <5>2. QED
          BY <5>1 DEF Holds
      <4>3. QED
        BY <4>1, <4>2
    <3>2. recv[d] # "insert" /\ dual[d] # "insert" /\ writer_hand[d] = EmptyHand
      BY <2>2 DEF EndsInv, SessionInv, OpenAt, IdleAt
    <3>3. recv_hand[d] = NoBase /\ writer_hand[d].chunk = NoBase
      BY <3>2 DEF HandsInv, EmptyHand
    <3>4. QED
      BY <3>1, <3>2, <3>3 DEF Carries
  <2>5. c \in RealChunks
    BY <1>3, <2>2, <2>4 DEF FlightInv, RealChunks, TypeOK
  <2>6. PICK b : b = fp_2_addr[c].base_fp
    OBVIOUS
  <2>7. b = NoBase \/ b \in RealChunks
    <3>1. fp_2_addr[c].stat \in {"COMP_BASE", "COMP_DELTA", "CACHE_DELTA"}
      BY <2>5 DEF RealChunks, IsReal, TypeOK, Addr, Stat
    <3>2. Bases \subseteq RealChunks
      BY DEF Bases, RealChunks, IsReal
    <3>3. QED
      BY <2>5, <2>6, <3>1, <3>2 DEF RealInv
  <2>8. InFile(c) /\ (b # NoBase => InFile(b))
    BY <2>3, <2>5, <2>7, AllInFiles
  <2>9. InFile(c)' /\ (b # NoBase => InFile(b)')
    BY <2>2, <2>8 DEF InFile, IsReal
  <2>10. QED
    BY <2>2, <2>6, <2>9
<1>4. QED
  BY <1>2, <1>3 DEF UploadDurable, InFile, IsReal

-----------------------------------------------------------------------------
(* The serial invariant, and what follows from it.                         *)

LEMMA SerialInit ==
  ASSUME Init
  PROVE  SerialInv
<1>1. /\ \A cl \in Client : \A q \in Queue : mq[cl][q] = <<>> /\ Holds(cl, q) = {}
      /\ \A cl \in Client :
           /\ recv[cl] = "off" /\ dual[cl] = "pop" /\ writer[cl] = "pop"
           /\ writer_hand[cl] = EmptyHand /\ cached[cl] = {}
           /\ saved[cl] = <<>> /\ cur[cl] = <<>> /\ ~ opened[cl]
      /\ \A c \in Chunk : fp_2_addr[c] = NoAddr
  BY DEF Init, ContainerInit, Holds
<1>2. \A cl \in Client : Containers(cl) = <<>> /\ InHand(cl) = {} /\ Unwritten(cl) = {}
  BY <1>1 DEF Containers, InHand, Unwritten
<1>3. NoAddr.stat = "none" /\ RealChunks = {}
  BY <1>1, AddrFacts DEF RealChunks, IsReal
<1>4. Alone /\ IdleInv /\ TornInv
  BY <1>1 DEF Alone, IdleInv, IdleAt, Active, TornInv, Init
<1>5. \A n : n \notin DOMAIN <<>>
  OBVIOUS
<1>6. PlacedInv /\ \A c : ~ Placed(c)
  BY <1>2, <1>5 DEF PlacedInv, Placed
<1>7. ASSUME NEW cl \in Client
      PROVE  OpenAt(cl) /\ MethodAt(cl) /\ KindAt(cl) /\ OnceAt(cl) /\ HandAt(cl) /\ AheadAt(cl)
  <2>1. OpenAt(cl) /\ MethodAt(cl) /\ KindAt(cl) /\ HandAt(cl)
    BY <1>1, <1>7 DEF OpenAt, MethodAt, KindAt, HandAt, Queue
  <2>2. Claimed(cl) = {}
    BY <1>1, <1>7, NoneQueued DEF Claimed, Queue
  <2>3. OnceAt(cl)
    BY <1>1, <1>2, <1>7, <2>2, NoneQueued DEF OnceAt, Queue
  <2>4. AheadAt(cl)
    BY <1>1, <1>7, NoneQueued DEF AheadAt, Queue
  <2>5. QED
    BY <2>1, <2>3, <2>4
<1>8. SessionInv /\ RealInv
  BY <1>3, <1>7 DEF SessionInv, RealInv
<1>9. FeatureInv
  <2>1. Known(feature_2_fp) = {}
    BY DEF Init, EmptyIndex, Known
  <2>2. QED
    BY <2>1 DEF FeatureInv
<1>10. UploadDurable
  BY <1>1 DEF UploadDurable
<1>11. QED
  BY <1>4, <1>6, <1>8, <1>9, <1>10 DEF SerialInv

LEMMA SerialStutter ==
  ASSUME SerialInv, UNCHANGED vars
  PROVE  SerialInv'
<1>1. UNCHANGED <<fp_2_addr, feature_2_fp, saved, cur, opened, recipe, cached, mq, recv,
                  recv_hand, dual, dual_hand, comp, writer, writer_hand, torn_cached,
                  server>>
  BY DEF vars, containerVars, clientVars, recvVars, dualVars, writerVars
<1>2. Alone' /\ IdleInv' /\ TornInv'
  BY <1>1 DEF SerialInv, Alone, IdleInv, IdleAt, Active, TornInv
<1>3. \A cl \in Client : /\ Containers(cl)' = Containers(cl) /\ InHand(cl)' = InHand(cl)
                         /\ Unwritten(cl)' = Unwritten(cl) /\ Claimed(cl)' = Claimed(cl)
  BY <1>1 DEF Containers, InHand, Unwritten, Claimed
<1>4. RealChunks' = RealChunks /\ Bases' = Bases
  BY <1>1 DEF RealChunks, IsReal, Bases
<1>5. \A c : Placed(c)' <=> Placed(c)
  BY <1>1 DEF Placed, Containers
<1>6. PlacedInv'
  BY <1>1 DEF SerialInv, PlacedInv, Placed, Containers, InHand, IsReal
<1>7. RealInv' /\ FeatureInv'
  BY <1>1 DEF SerialInv, RealInv, FeatureInv, RealChunks, IsReal, Bases, ItemAt, Containers, Known
<1>8. UploadDurable'
  BY <1>1 DEF SerialInv, UploadDurable, InFile, IsReal
<1>9. SessionInv'
  <2>1. ASSUME NEW cl \in Client
        PROVE  /\ OpenAt(cl)' /\ MethodAt(cl)' /\ KindAt(cl)' /\ OnceAt(cl)' /\ HandAt(cl)'
               /\ server' = "up" => AheadAt(cl)'
    <3>1. OpenAt(cl) /\ OpenAt(cl)'
      BY <1>1 DEF SerialInv, SessionInv, OpenAt, MustSave, HasRoom
    <3>2. MethodAt(cl)' /\ KindAt(cl)'
      BY <1>1 DEF SerialInv, SessionInv, MethodAt, KindAt, Holds
    <3>3. OnceAt(cl)'
      BY <1>1, <1>3, <1>5 DEF SerialInv, SessionInv, OnceAt
    <3>4. HandAt(cl)'
      BY <1>1, <1>4 DEF SerialInv, SessionInv, HandAt, ItemAt, Containers
    <3>5. server' = "up" => AheadAt(cl)'
      <4>1. Before2Writer(cl)' = Before2Writer(cl) /\ Before2Comp(cl)' = Before2Comp(cl)
        BY <1>1, <1>3, <1>4 DEF Before2Writer, Before2Comp
      <4>2. BeforeHand(cl)' = BeforeHand(cl) /\ Before2Dual(cl)' = Before2Dual(cl)
        BY <1>1, <4>1 DEF BeforeHand, Before2Dual
      <4>3. QED
        BY <1>1, <4>1, <4>2 DEF SerialInv, SessionInv, AheadAt
    <3>6. QED
      BY <3>1, <3>2, <3>3, <3>4, <3>5
  <2>2. QED
    BY <2>1 DEF SessionInv
<1>10. QED
  BY <1>2, <1>6, <1>7, <1>8, <1>9 DEF SerialInv

LEMMA SerialStep ==
  ASSUME MaxActive <= 1, IInv, SerialInv, [Next]_vars
  PROVE  SerialInv'
<1>1. IInv'
  BY UploadStep
<1>2. ASSUME NEW cl \in Client, Step(cl), server = "up"
      PROVE  SerialInv'
  <2>1. /\ TypeOK /\ HandsInv /\ EndsInv /\ HomeInv /\ AddrInv /\ FlightInv
        /\ TypeOK' /\ EndsInv'
    BY <1>1 DEF IInv
  <2>2. /\ Alone /\ IdleInv /\ SessionInv /\ TornInv
        /\ PlacedInv /\ RealInv /\ FeatureInv /\ UploadDurable
    BY DEF SerialInv
  <2>3. /\ \A d \in Client \ {cl} : IdleAt(d)
        /\ SessionStart(cl) \/ Active(cl)
    BY <1>2, <2>1, <2>2, Quiet
  <2>4. Alone' /\ IdleInv' /\ \A d \in Client \ {cl} : IdleAt(d)'
    BY <1>2, <2>1, <2>2, AloneStep
  <2>5. PlacedInv' /\ RealInv' /\ FeatureInv' /\ UploadDurable'
    BY <1>2, <2>1, <2>2, <2>3, PlacedStep, RealStep, FeatureStep, DurableStep
  <2>6. ASSUME NEW d \in Client
        PROVE  /\ OpenAt(d)' /\ MethodAt(d)' /\ KindAt(d)' /\ OnceAt(d)' /\ HandAt(d)'
               /\ server' = "up" => AheadAt(d)'
    <3>1. CASE d = cl
      <4>1. OpenAt(cl)' /\ MethodAt(cl)' /\ KindAt(cl)'
        BY <1>2, <2>1, <2>2, OpenStep, KindStep
      <4>2. OnceAt(cl)' /\ HandAt(cl)'
        BY <1>2, <2>1, <2>2, <2>3, OnceStep, HandStep
      <4>3. server' = "up" => AheadAt(cl)'
        BY <1>2, <2>1, <2>2, <2>3, AheadStep
      <4>4. QED
        BY <3>1, <4>1, <4>2, <4>3
    <3>2. CASE d # cl
      <4>1. d \in Client \ {cl} /\ IdleAt(d)'
        BY <2>4, <2>6, <3>2
      <4>2. QED
        BY <1>2, <2>1, <2>2, <4>1, OthersSession
    <3>3. QED
      BY <3>1, <3>2
  <2>7. SessionInv' /\ TornInv'
    BY <1>2, <2>1, <2>2, <2>3, <2>6, TornStep DEF SessionInv
  <2>8. QED
    BY <2>4, <2>5, <2>7 DEF SerialInv
<1>3. QED
  BY <1>2, SerialStutter DEF Next, Step

(* One session at a time: what it claims goes through its pipeline once,   *)
(* behind all that it refers to.                                           *)
THEOREM SerialInvariant ==
  ASSUME MaxActive <= 1
  PROVE  Spec => []SerialInv
<1>1. Init => SerialInv
  BY SerialInit
<1>2. IInv /\ SerialInv /\ [Next]_vars => SerialInv'
  BY SerialStep
<1>3. QED
  BY <1>1, <1>2, UploadInvariant, PTL DEF Spec

(* When sessions are served one after the other, no chunk is stored twice  *)
(* (dedup_detect.cc:38).                                                   *)
THEOREM SerialStoredOnce ==
  ASSUME MaxActive <= 1
  PROVE  Spec => []StoredOnce
<1>1. ASSUME SerialInv
      PROVE  StoredOnce
  <2>1. SUFFICES ASSUME NEW p \in Places, NEW q \in Places,
                        HoldsItem(p[1], p[2], p[3]), HoldsItem(q[1], q[2], q[3]),
                        Containers(p[1])[p[2]][p[3]].chunk = Containers(q[1])[q[2]][q[3]].chunk
                 PROVE  p = q
    BY DEF StoredOnce
  <2>2. /\ p[1] \in Client /\ p = <<p[1], p[2], p[3]>>
        /\ q[1] \in Client /\ q = <<q[1], q[2], q[3]>>
    BY DEF Places
  <2>3. p[1] = q[1] /\ p[2] = q[2] /\ p[3] = q[3]
    BY <1>1, <2>1, <2>2 DEF SerialInv, PlacedInv, HoldsItem
  <2>4. QED
    BY <2>2, <2>3
<1>2. QED
  BY <1>1, SerialInvariant, PTL

(* When sessions are served one after the other, a client whose session    *)
(* has ended has everything in its recipe, and the bases of it, in         *)
(* container files (data_writer_thd.cc:117).                               *)
THEOREM SerialUploadDurable ==
  ASSUME MaxActive <= 1
  PROVE  Spec => []UploadDurable
<1>1. SerialInv => UploadDurable
  BY DEF SerialInv
<1>2. QED
  BY <1>1, SerialInvariant, PTL

(* When sessions are served one after the other, every delta is restored   *)
(* by one more read: its base is stored as a base, and was read whole when *)
(* the delta was made (data_reader_thd.cc:156).                            *)
THEOREM SerialRestorable ==
  ASSUME MaxActive <= 1
  PROVE  Spec => []Restorable
<1>1. SerialInv => Restorable
  BY DEF SerialInv, Restorable, RealInv, RealChunks, Deltas, CacheDeltas, IsReal, Bases
<1>2. QED
  BY <1>1, SerialInvariant, PTL
=============================================================================
