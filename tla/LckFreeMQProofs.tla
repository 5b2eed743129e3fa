--------------------------- MODULE LckFreeMQProofs ---------------------------
(***************************************************************************)
(* LckFreeMQ hands every item over once, in order, for every number of     *)
(* items and every queue size.                                             *)
(***************************************************************************)
EXTENDS LckFreeMQ, TLAPS

USE MQAssumption DEF MQAssumption

(* The variables of the queue and of the two threads keep their types.     *)
LEMMA TypeCorrect == Spec => []TypeOK
<1>1. Init => TypeOK
  <2> SUFFICES ASSUME Init
               PROVE  TypeOK
    OBVIOUS
  <2>1. queue \in Seq(1 .. NumItem)
    BY DEF Init
  <2>2. done \in BOOLEAN
    BY DEF Init
  <2>3. sent \in 0 .. NumItem /\ got \in 0 .. NumItem
    BY DEF Init
  <2>4. QED
    BY <2>1, <2>2, <2>3 DEF Init, TypeOK
<1>2. TypeOK /\ [Next]_vars => TypeOK'
  <2> SUFFICES ASSUME TypeOK, [Next]_vars
               PROVE  TypeOK'
    OBVIOUS
  <2> USE DEF TypeOK
  <2>1. CASE Push
    BY <2>1 DEF Push
  <2>2. CASE Finish
    BY <2>2 DEF Finish
  <2>3. CASE ReadDone
    BY <2>3 DEF ReadDone
  <2>4. CASE IsEmpty
    BY <2>4 DEF IsEmpty
  <2>5. CASE PopItem
    BY <2>5 DEF PopItem
  <2>6. CASE PopNothing
    BY <2>6 DEF PopNothing
  <2>7. CASE Delete
    BY <2>7 DEF Delete
  <2>8. CASE UNCHANGED vars
    BY <2>8 DEF vars
  <2>9. QED
    BY <2>1, <2>2, <2>3, <2>4, <2>5, <2>6, <2>7, <2>8
    DEF Next, Producer, Consumer
<1>3. QED
  BY <1>1, <1>2, PTL DEF Spec

(* The queue holds the items pushed and not popped yet, in order, and the  *)
(* consumer only passes its _done test once all of them are in.            *)
THEOREM QueueCorrect == Spec => []QueueInv
<1>1. Init => QueueInv
  BY DEF Init, QueueInv
<1>2. TypeOK /\ QueueInv /\ [Next]_vars => QueueInv'
  <2> SUFFICES ASSUME TypeOK, QueueInv, [Next]_vars
               PROVE  QueueInv'
    OBVIOUS
  <2> USE DEF TypeOK, QueueInv
  <2>1. CASE Push
    <3>1. /\ Len(queue') = Len(queue) + 1
          /\ \A i \in 1 .. Len(queue) : queue'[i] = queue[i]
          /\ queue'[Len(queue) + 1] = sent + 1
      BY <2>1 DEF Push
    <3>2. \A i \in 1 .. Len(queue') : queue'[i] = got' + i
      BY <2>1, <3>1 DEF Push
    <3>3. QED
      BY <2>1, <3>1, <3>2 DEF Push
  <2>2. CASE Finish
    BY <2>2 DEF Finish
  <2>3. CASE ReadDone
    BY <2>3 DEF ReadDone
  <2>4. CASE IsEmpty
    BY <2>4 DEF IsEmpty
  <2>5. CASE PopItem
    <3>1. /\ got' = got + 1
          /\ Len(queue') = Len(queue) - 1
          /\ \A i \in 1 .. Len(queue') : queue'[i] = queue[i + 1]
      BY <2>5 DEF PopItem
    <3>2. \A i \in 1 .. Len(queue') : queue'[i] = got' + i
      BY <3>1
    <3>3. QED
      BY <2>5, <3>1, <3>2 DEF PopItem
  <2>6. CASE PopNothing
    BY <2>6 DEF PopNothing
  <2>7. CASE Delete
    BY <2>7 DEF Delete
  <2>8. CASE UNCHANGED vars
    BY <2>8 DEF vars
  <2>9. QED
    BY <2>1, <2>2, <2>3, <2>4, <2>5, <2>6, <2>7, <2>8
    DEF Next, Producer, Consumer
<1>3. QED
  BY <1>1, <1>2, TypeCorrect, PTL DEF Spec

(* No item is lost between two pipeline threads, whatever the number of    *)
(* items and the size of the queue.                                        *)
THEOREM NothingLost == Spec => []NoItemLost
<1>1. TypeOK /\ QueueInv => NoItemLost
  BY DEF TypeOK, QueueInv, NoItemLost
<1>2. QED
  BY <1>1, TypeCorrect, QueueCorrect, PTL

(* The destructor of the queue never finds it non-empty.                   *)
THEOREM DeletedClean == Spec => []CleanDelete
<1>1. Init => CleanDelete
  BY DEF Init, CleanDelete
<1>2. QueueInv /\ CleanDelete /\ [Next]_vars => CleanDelete'
  BY DEF QueueInv, CleanDelete, Next, Producer, Consumer, Push, Finish,
         ReadDone, IsEmpty, PopItem, PopNothing, Delete, vars
<1>3. QED
  BY <1>1, <1>2, QueueCorrect, PTL DEF Spec

(* The lock-free queue with its two threads implements the hand-over of    *)
(* AbsMQ: the reads of _done and of the size, and the failed pops, are     *)
(* stuttering; leaving the loop is the abstract Stop.                      *)
THEOREM LckFreeImplementsAbsMQ == Spec => ImplementsAbsMQ
<1>1. Init => Abs!Init
  BY DEF Init, Abs!Init
<1>2. TypeOK /\ QueueInv /\ [Next]_vars => [Abs!Next]_(Abs!vars)
  <2> SUFFICES ASSUME TypeOK, QueueInv, [Next]_vars
               PROVE  [Abs!Next]_(Abs!vars)
    OBVIOUS
  <2> USE DEF TypeOK, QueueInv, Abs!vars
  <2>1. CASE Push
    <3>1. Abs!Push
      BY <2>1 DEF Push, Abs!Push
    <3>2. QED
      BY <3>1 DEF Abs!Next
  <2>2. CASE Finish
    <3>1. Abs!Finish
      BY <2>2 DEF Finish, Abs!Finish
    <3>2. QED
      BY <3>1 DEF Abs!Next
  <2>3. CASE ReadDone
    BY <2>3 DEF ReadDone
  <2>4. CASE IsEmpty
    <3>1. CASE Len(queue) = 0
      <4>1. Abs!Stop
        BY <2>4, <3>1 DEF IsEmpty, Abs!Stop
      <4>2. QED
        BY <4>1 DEF Abs!Next
    <3>2. CASE Len(queue) # 0
      BY <2>4, <3>2 DEF IsEmpty
    <3>3. QED
      BY <3>1, <3>2
  <2>5. CASE PopItem
    <3>1. got' = got + 1 /\ got < sent
      BY <2>5 DEF PopItem
    <3>2. Abs!Pop
      BY <2>5, <3>1 DEF PopItem, Abs!Pop
    <3>3. QED
      BY <3>2 DEF Abs!Next
  <2>6. CASE PopNothing
    BY <2>6 DEF PopNothing
  <2>7. CASE Delete
    BY <2>7 DEF Delete
  <2>8. CASE UNCHANGED vars
    BY <2>8 DEF vars
  <2>9. QED
    BY <2>1, <2>2, <2>3, <2>4, <2>5, <2>6, <2>7, <2>8
    DEF Next, Producer, Consumer
<1>3. QED
  BY <1>1, <1>2, TypeCorrect, QueueCorrect, PTL DEF Spec, Abs!Spec, ImplementsAbsMQ
=============================================================================
