--------------------------- MODULE BlockedMQProofs ---------------------------
(***************************************************************************)
(* BlockedMQ hands every item over once, in order, for every number of     *)
(* items and every queue size, and its two threads never wait for each     *)
(* other.                                                                  *)
(***************************************************************************)
EXTENDS BlockedMQ, TLAPS

USE MQAssumption DEF MQAssumption

TypeOK ==
  /\ blocked_mq \in Seq(1 .. NumItem)
  /\ done \in BOOLEAN
  /\ sent \in 0 .. NumItem /\ got \in 0 .. NumItem
  /\ prod \in {"push", "wait_full_sign", "end"}
  /\ cons \in {"check_done", "check_empty", "pop", "wait_empty_sign", "end"}

(* What is in the queue, that it never holds more than its bound, and what *)
(* the threads know where they are; whoever waits has a reason to.         *)
QueueInv ==
  /\ Len(blocked_mq) = sent - got /\ Len(blocked_mq) <= MaxQueueSize
  /\ \A i \in 1 .. Len(blocked_mq) : blocked_mq[i] = got + i
  /\ done <=> prod = "end"
  /\ done => sent = NumItem
  /\ cons \in {"check_empty", "end"} => done
  /\ cons = "end" => blocked_mq = <<>>
  /\ prod = "wait_full_sign" => Len(blocked_mq) = MaxQueueSize
  /\ cons = "wait_empty_sign" => blocked_mq = <<>>

(* The variables of the queue and of the two threads keep their types.     *)
LEMMA TypeCorrect == Spec => []TypeOK
<1>1. Init => TypeOK
  <2> SUFFICES ASSUME Init
               PROVE  TypeOK
    OBVIOUS
  <2>1. blocked_mq \in Seq(1 .. NumItem)
    BY DEF Init
  <2>2. sent \in 0 .. NumItem /\ got \in 0 .. NumItem
    BY DEF Init
  <2>3. QED
    BY <2>1, <2>2 DEF Init, TypeOK
<1>2. TypeOK /\ [Next]_vars => TypeOK'
  <2> SUFFICES ASSUME TypeOK, [Next]_vars
               PROVE  TypeOK'
    OBVIOUS
  <2> USE DEF TypeOK
  <2>1. CASE Push
    BY <2>1 DEF Push
  <2>2. CASE PopItem
    BY <2>2 DEF PopItem
  <2>3. CASE PushWait \/ Finish \/ ReadDone \/ IsEmpty \/ PopWait \/ PopNothing
    BY <2>3 DEF PushWait, Finish, ReadDone, IsEmpty, PopWait, PopNothing
  <2>4. CASE SpuriousWakeUp \/ UNCHANGED vars
    BY <2>4 DEF SpuriousWakeUp, vars
  <2> QED
    BY <2>1, <2>2, <2>3, <2>4 DEF Producer, Consumer, Next
<1>3. QED
  BY <1>1, <1>2, PTL DEF Spec

(* The queue holds the items pushed and not popped yet, in order, and is   *)
(* full when the producer waits and empty when the consumer does.          *)
THEOREM QueueCorrect == Spec => []QueueInv
<1>1. Init => QueueInv
  BY DEF Init, QueueInv
<1>2. TypeOK /\ QueueInv /\ [Next]_vars => QueueInv'
  <2> SUFFICES ASSUME TypeOK, QueueInv, [Next]_vars
               PROVE  QueueInv'
    OBVIOUS
  <2> USE DEF TypeOK, QueueInv
  <2>1. CASE Push
    <3>1. /\ Len(blocked_mq') = Len(blocked_mq) + 1
          /\ \A i \in 1 .. Len(blocked_mq) : blocked_mq'[i] = blocked_mq[i]
          /\ blocked_mq'[Len(blocked_mq) + 1] = sent + 1
      BY <2>1 DEF Push
    <3>2. \A i \in 1 .. Len(blocked_mq') : blocked_mq'[i] = got' + i
      <4>1. got' = got /\ sent + 1 = got + (Len(blocked_mq) + 1)
        BY <2>1 DEF Push
      <4>2. \A i \in 1 .. Len(blocked_mq') : i = Len(blocked_mq) + 1 \/ i \in 1 .. Len(blocked_mq)
        BY <3>1
      <4>3. QED
        BY <3>1, <4>1, <4>2
    <3>3. cons' # "wait_empty_sign" /\ ~done' /\ cons' # "end" /\ cons' # "check_empty"
      BY <2>1 DEF Push
    <3>4. Len(blocked_mq') = sent' - got' /\ Len(blocked_mq') <= MaxQueueSize
      BY <2>1, <3>1 DEF Push
    <3>5. prod' = "push"
      BY <2>1 DEF Push
    <3>6. QED
      BY <3>2, <3>3, <3>4, <3>5
  <2>2. CASE PushWait \/ Finish
    BY <2>2 DEF PushWait, Finish
  <2>3. CASE ReadDone \/ IsEmpty \/ PopWait \/ PopNothing
    BY <2>3 DEF ReadDone, IsEmpty, PopWait, PopNothing
  <2>4. CASE PopItem
    <3>1. /\ got' = got + 1
          /\ Len(blocked_mq') = Len(blocked_mq) - 1
          /\ \A i \in 1 .. Len(blocked_mq') : blocked_mq'[i] = blocked_mq[i + 1]
      BY <2>4 DEF PopItem
    <3>2. \A i \in 1 .. Len(blocked_mq') : blocked_mq'[i] = got' + i
      BY <3>1
    <3>3. /\ done' <=> prod' = "end"
          /\ cons' = "check_done" /\ prod' # "wait_full_sign" /\ done' => sent' = NumItem
      BY <2>4 DEF PopItem
    <3>4. QED
      BY <2>4, <3>1, <3>2, <3>3 DEF PopItem
  <2>5. CASE UNCHANGED vars \/ SpuriousWakeUp
    BY <2>5 DEF vars, SpuriousWakeUp
  <2> QED
    BY <2>1, <2>2, <2>3, <2>4, <2>5 DEF Producer, Consumer, Next
<1>3. QED
  BY <1>1, <1>2, TypeCorrect, PTL DEF Spec

(* The producer and the consumer never wait at the same time: each notify  *)
(* reaches whoever can be asleep (blocked_mq.h, full_sign_, empty_sign_).  *)
THEOREM NeverBothAsleep ==
  Spec => [](prod = "wait_full_sign" => cons # "wait_empty_sign")
<1>1. QueueInv => (prod = "wait_full_sign" => cons # "wait_empty_sign")
  BY DEF QueueInv
<1>2. QED
  BY <1>1, QueueCorrect, PTL

(* The blocking queue with its two threads implements the hand-over of     *)
(* AbsMQ: waits, wake-ups and the reads of _done are stuttering.           *)
THEOREM BlockedImplementsAbsMQ == Spec => ImplementsAbsMQ
<1>1. Init => Abs!Init
  BY DEF Init, Abs!Init
<1>2. TypeOK /\ QueueInv /\ [Next]_vars => [Abs!Next]_(Abs!vars)
  <2> SUFFICES ASSUME TypeOK, QueueInv, [Next]_vars
               PROVE  [Abs!Next]_(Abs!vars)
    OBVIOUS
  <2> USE DEF TypeOK, QueueInv, Abs!vars
  <2>1. CASE Push
    <3>1. Abs!Push
      BY <2>1 DEF Push, Abs!Push
    <3>2. QED
      BY <3>1 DEF Abs!Next
  <2>2. CASE PushWait
    BY <2>2 DEF PushWait
  <2>3. CASE Finish
    <3>1. Abs!Finish
      BY <2>3 DEF Finish, Abs!Finish
    <3>2. QED
      BY <3>1 DEF Abs!Next
  <2>4. CASE ReadDone \/ PopWait \/ PopNothing
    BY <2>4 DEF ReadDone, PopWait, PopNothing
  <2>5. CASE IsEmpty
    <3>1. CASE blocked_mq = <<>>
      <4>1. Abs!Stop
        BY <2>5, <3>1 DEF IsEmpty, Abs!Stop
      <4>2. QED
        BY <4>1 DEF Abs!Next
    <3>2. CASE blocked_mq # <<>>
      BY <2>5, <3>2 DEF IsEmpty
    <3>3. QED
      BY <3>1, <3>2
  <2>6. CASE PopItem
    <3>1. got' = got + 1 /\ got < sent
      BY <2>6 DEF PopItem
    <3>2. Abs!Pop
      BY <2>6, <3>1 DEF PopItem, Abs!Pop
    <3>3. QED
      BY <3>2 DEF Abs!Next
  <2>7. CASE SpuriousWakeUp
    BY <2>7 DEF SpuriousWakeUp
  <2>8. CASE UNCHANGED vars
    BY <2>8 DEF vars
  <2>9. QED
    BY <2>1, <2>2, <2>3, <2>4, <2>5, <2>6, <2>7, <2>8 DEF Producer, Consumer, Next
<1>3. QED
  BY <1>1, <1>2, TypeCorrect, QueueCorrect, PTL DEF Spec, Abs!Spec, ImplementsAbsMQ
=============================================================================
