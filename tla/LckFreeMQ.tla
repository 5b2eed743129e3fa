------------------------------ MODULE LckFreeMQ ------------------------------
(***************************************************************************)
(* The lock-free queue (include/message_queue/lck_free_mq.h) between two   *)
(* pipeline threads, with the loop every consumer thread of EDRStore runs: *)
(*                                                                         *)
(*   while (true) {                                                        *)
(*     if (input_MQ->_done && input_MQ->IsEmpty()) break;                  *)
(*     if (input_MQ->Pop(data)) { ... }                                    *)
(*   }                                                                     *)
(*                                                                         *)
(* and the end of every producer thread: output_MQ->_done = true.  The     *)
(* owner joins both threads and deletes the queue, and ~LckFreeMQ exits    *)
(* the process when an item is left in it.                                 *)
(***************************************************************************)
EXTENDS Naturals, Sequences

CONSTANTS
  NumItem,        \* how many items the producer thread pushes
  MaxQueueSize    \* what a ReaderWriterQueue built for max_queue_size_ holds

ASSUME MQAssumption ==
  /\ NumItem \in Nat
  /\ MaxQueueSize \in Nat \ {0}

VARIABLES
  queue,   \* the items inside moodycamel::ReaderWriterQueue
  done,    \* AbsMQ::_done
  sent,    \* items the producer has pushed
  got,     \* the item the consumer popped last
  prod,    \* where the producer thread is
  cons,    \* where the consumer thread is
  mq       \* "up", "deleted", or "exit" when the destructor gives up

vars == <<queue, done, sent, got, prod, cons, mq>>

TypeOK ==
  /\ queue \in Seq(1 .. NumItem)
  /\ done \in BOOLEAN
  /\ sent \in 0 .. NumItem
  /\ got \in 0 .. NumItem
  /\ prod \in {"push", "end"}
  /\ cons \in {"check_done", "check_empty", "pop", "end"}
  /\ mq \in {"up", "deleted", "exit"}

Init ==
  /\ queue = <<>>
  /\ done = FALSE
  /\ sent = 0
  /\ got = 0
  /\ prod = "push"
  /\ cons = "check_done"
  /\ mq = "up"

-----------------------------------------------------------------------------
(* The producer.  A failed try_enqueue spins: it is a stuttering step.     *)

Push ==
  /\ prod = "push"
  /\ sent < NumItem
  /\ Len(queue) < MaxQueueSize
  /\ queue' = Append(queue, sent + 1)
  /\ sent' = sent + 1
  /\ UNCHANGED <<done, got, prod, cons, mq>>

(* Faulty variants, named for their fault, show that a property notices it.*)
FinishWithoutDone ==
  /\ prod = "push"
  /\ sent = NumItem
  /\ prod' = "end"
  /\ UNCHANGED <<queue, done, sent, got, cons, mq>>

Finish ==
  /\ prod = "push"
  /\ sent = NumItem
  /\ done' = TRUE
  /\ prod' = "end"
  /\ UNCHANGED <<queue, sent, got, cons, mq>>

-----------------------------------------------------------------------------
(* The consumer.  `_done && IsEmpty()' is two reads, in that order.        *)

ReadDone ==
  /\ cons = "check_done"
  /\ cons' = IF done THEN "check_empty" ELSE "pop"
  /\ UNCHANGED <<queue, done, sent, got, prod, mq>>

BreakOnDoneAlone ==
  /\ cons = "check_empty"
  /\ cons' = "end"
  /\ UNCHANGED <<queue, done, sent, got, prod, mq>>

IsEmpty ==
  /\ cons = "check_empty"
  /\ cons' = IF Len(queue) = 0 THEN "end" ELSE "pop"
  /\ UNCHANGED <<queue, done, sent, got, prod, mq>>

PopItem ==
  /\ cons = "pop"
  /\ queue # <<>>
  /\ got' = Head(queue)
  /\ queue' = Tail(queue)
  /\ cons' = "check_done"
  /\ UNCHANGED <<done, sent, prod, mq>>

PopNothing ==
  /\ cons = "pop"
  /\ queue = <<>>
  /\ cons' = "check_done"
  /\ UNCHANGED <<queue, done, sent, got, prod, mq>>

-----------------------------------------------------------------------------
(* The owner: ~ClientVar on the server, main() on the client.              *)

DeleteBeforeJoin ==
  /\ prod = "end"
  /\ mq = "up"
  /\ mq' = IF Len(queue) = 0 THEN "deleted" ELSE "exit"
  /\ UNCHANGED <<queue, done, sent, got, prod, cons>>

Delete ==
  /\ prod = "end"
  /\ cons = "end"
  /\ mq = "up"
  /\ mq' = IF Len(queue) = 0 THEN "deleted" ELSE "exit"
  /\ UNCHANGED <<queue, done, sent, got, prod, cons>>

Producer == Push \/ Finish
Consumer == ReadDone \/ IsEmpty \/ PopItem \/ PopNothing
Next == Producer \/ Consumer \/ Delete

Spec == Init /\ [][Next]_vars

(* Both threads spin and never block, so the scheduler runs them forever;  *)
(* the owner is only blocked in join.                                      *)
Fairness ==
  /\ WF_vars(Producer)
  /\ WF_vars(Consumer)
  /\ WF_vars(Delete)

FairSpec == Spec /\ Fairness

-----------------------------------------------------------------------------
(* Properties                                                              *)

(* What lies in the queue is exactly what was pushed and not popped yet,   *)
(* in order; a consumer that saw _done sees every item behind it.          *)
QueueInv ==
  /\ Len(queue) <= MaxQueueSize
  /\ sent = got + Len(queue)
  /\ \A i \in 1 .. Len(queue) : queue[i] = got + i
  /\ done <=> prod = "end"
  /\ done => sent = NumItem
  /\ cons \in {"check_empty", "end"} => done
  /\ cons = "end" => queue = <<>>
  /\ mq # "up" => prod = "end" /\ cons = "end"

(* A consumer thread that leaves its loop has received every item the      *)
(* producer pushed: checking _done before IsEmpty() loses nothing.         *)
NoItemLost == cons = "end" => got = NumItem

(* ~LckFreeMQ never finds an item left over and exits the process.         *)
CleanDelete == mq # "exit"

(* The queue, the consumer's two-step test and the producer's end together *)
(* implement the hand-over AbsMQ specifies.                                *)
Abs == INSTANCE AbsMQ WITH stopped <- (cons = "end")
ImplementsAbsMQ == Abs!Spec

(* The whole hand-over ends: both threads stop and the queue is freed.     *)
Termination == <>(mq = "deleted")
=============================================================================
