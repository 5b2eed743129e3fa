------------------------------- MODULE AbsMQ -------------------------------
(***************************************************************************)
(* What every message queue of EDRStore promises the two threads it sits   *)
(* between (include/message_queue/abs_mq.h): the consumer receives exactly *)
(* the items the producer pushed, once each and in order, and it only      *)
(* stops after the producer has closed the queue and every item arrived.   *)
(* Items are numbered 1, 2, ... in the order the producer pushes them.     *)
(***************************************************************************)
EXTENDS Naturals

CONSTANT NumItem   \* how many items the producer thread pushes in one run

VARIABLES
  sent,      \* number of items pushed so far
  got,       \* number of the item delivered last, 0 before the first
  done,      \* AbsMQ::_done
  stopped    \* the consumer has left its loop

vars == <<sent, got, done, stopped>>

Init ==
  /\ sent = 0
  /\ got = 0
  /\ done = FALSE
  /\ stopped = FALSE

Push ==
  /\ ~done
  /\ sent < NumItem
  /\ sent' = sent + 1
  /\ UNCHANGED <<got, done, stopped>>

Finish ==
  /\ ~done
  /\ sent = NumItem
  /\ done' = TRUE
  /\ UNCHANGED <<sent, got, stopped>>

Pop ==
  /\ ~stopped
  /\ got < sent
  /\ got' = got + 1
  /\ UNCHANGED <<sent, done, stopped>>

Stop ==
  /\ ~stopped
  /\ done
  /\ got = sent
  /\ stopped' = TRUE
  /\ UNCHANGED <<sent, got, done>>

Next == Push \/ Finish \/ Pop \/ Stop

Spec == Init /\ [][Next]_vars
=============================================================================
