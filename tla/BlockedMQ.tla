------------------------------ MODULE BlockedMQ ------------------------------
(***************************************************************************)
(* The blocking queue (include/message_queue/blocked_mq.h) between two     *)
(* pipeline threads, with the same consumer loop and producer end as       *)
(* LckFreeMQ.  mq_mtx_ makes Push, Pop and IsEmpty critical sections; a    *)
(* thread that waits on full_sign_ or empty_sign_ releases it until a      *)
(* notify_all of the other side (or a spurious wake-up) lets it test       *)
(* again.  Setting _done is an atomic store that takes no lock and         *)
(* notifies nobody.                                                        *)
(***************************************************************************)
EXTENDS Naturals, Sequences

CONSTANTS
  NumItem,        \* how many items the producer thread pushes
  MaxQueueSize    \* BlockedMQ::max_queue_size_

ASSUME MQAssumption ==
  /\ NumItem \in Nat
  /\ MaxQueueSize \in Nat \ {0}

VARIABLES
  blocked_mq,   \* the items in the queue
  done,         \* AbsMQ::_done
  sent,         \* items the producer has pushed
  got,          \* the item the consumer popped last
  prod,         \* where the producer thread is
  cons          \* where the consumer thread is

vars == <<blocked_mq, done, sent, got, prod, cons>>

Init ==
  /\ blocked_mq = <<>>
  /\ done = FALSE
  /\ sent = 0
  /\ got = 0
  /\ prod = "push"
  /\ cons = "check_done"

-----------------------------------------------------------------------------

(* Faulty variants, named for their fault, show that a property notices it.*)
PushWithoutNotify ==
  /\ prod = "push"
  /\ sent < NumItem
  /\ Len(blocked_mq) # MaxQueueSize
  /\ blocked_mq' = Append(blocked_mq, sent + 1)
  /\ sent' = sent + 1
  /\ UNCHANGED <<done, got, prod, cons>>

Push ==
  /\ prod = "push"
  /\ sent < NumItem
  /\ Len(blocked_mq) # MaxQueueSize
  /\ blocked_mq' = Append(blocked_mq, sent + 1)
  /\ sent' = sent + 1
  /\ cons' = IF cons = "wait_empty_sign" THEN "pop" ELSE cons
  /\ UNCHANGED <<done, got, prod>>

PushWait ==
  /\ prod = "push"
  /\ sent < NumItem
  /\ Len(blocked_mq) = MaxQueueSize
  /\ prod' = "wait_full_sign"
  /\ UNCHANGED <<blocked_mq, done, sent, got, cons>>

Finish ==
  /\ prod = "push"
  /\ sent = NumItem
  /\ done' = TRUE
  /\ prod' = "end"
  /\ UNCHANGED <<blocked_mq, sent, got, cons>>

-----------------------------------------------------------------------------

ReadDone ==
  /\ cons = "check_done"
  /\ cons' = IF done THEN "check_empty" ELSE "pop"
  /\ UNCHANGED <<blocked_mq, done, sent, got, prod>>

BreakOnDoneAlone ==
  /\ cons = "check_empty"
  /\ cons' = "end"
  /\ UNCHANGED <<blocked_mq, done, sent, got, prod>>

IsEmpty ==
  /\ cons = "check_empty"
  /\ cons' = IF blocked_mq = <<>> THEN "end" ELSE "pop"
  /\ UNCHANGED <<blocked_mq, done, sent, got, prod>>

PopItem ==
  /\ cons = "pop"
  /\ blocked_mq # <<>>
  /\ got' = Head(blocked_mq)
  /\ blocked_mq' = Tail(blocked_mq)
  /\ cons' = "check_done"
  /\ prod' = IF prod = "wait_full_sign" THEN "push" ELSE prod
  /\ UNCHANGED <<done, sent>>

(* Setting _done notifies nobody: a consumer that gets here just before it *)
(* sleeps until the process is gone.                                       *)
PopWait ==
  /\ cons = "pop"
  /\ blocked_mq = <<>>
  /\ ~done
  /\ cons' = "wait_empty_sign"
  /\ UNCHANGED <<blocked_mq, done, sent, got, prod>>

PopNothing ==
  /\ cons = "pop"
  /\ blocked_mq = <<>>
  /\ done
  /\ cons' = "check_done"
  /\ UNCHANGED <<blocked_mq, done, sent, got, prod>>

(* A condition variable may wake a waiter without a notify; nothing says   *)
(* that it ever does, so this action has no fairness.                      *)
SpuriousWakeUp ==
  \/ /\ prod = "wait_full_sign"
     /\ prod' = "push"
     /\ UNCHANGED <<blocked_mq, done, sent, got, cons>>
  \/ /\ cons = "wait_empty_sign"
     /\ cons' = "pop"
     /\ UNCHANGED <<blocked_mq, done, sent, got, prod>>

Producer == Push \/ PushWait \/ Finish
Consumer == ReadDone \/ IsEmpty \/ PopItem \/ PopWait \/ PopNothing
Next == Producer \/ Consumer \/ SpuriousWakeUp

Spec == Init /\ [][Next]_vars

(* Each thread keeps running while it is not waiting; mq_mtx_ is held for  *)
(* finite critical sections only.                                          *)
FairSpec == Spec /\ WF_vars(Producer) /\ WF_vars(Consumer)

-----------------------------------------------------------------------------
(* Properties                                                              *)

(* The producer gets through and every item reaches the consumer, although *)
(* either side may fall asleep at any moment: the two notify_all calls are *)
(* enough for that, and the threads never wait for each other for ever.    *)
EveryItemDelivered == <>(prod = "end" /\ got = NumItem)

(* The blocking queue is safe in the sense of AbsMQ: in order, nothing     *)
(* lost, nothing duplicated, no stop before the last item.                 *)
Abs == INSTANCE AbsMQ WITH stopped <- (cons = "end")
ImplementsAbsMQ == Abs!Spec
=============================================================================
