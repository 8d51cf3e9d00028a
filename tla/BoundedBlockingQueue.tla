------------------------- MODULE BoundedBlockingQueue -------------------------
(***************************************************************************)
(* muduo::BoundedBlockingQueue: a BlockingQueue of at most maxSize items.  *)
(* Its calls are "putBounded" and "takeBounded".                           *)
(***************************************************************************)
EXTENDS BlockingQueue

VARIABLE maxSize

Full == Len(queue_) = maxSize

(* A bug: put() does not wait for room. *)
PutBounded_NoWait(t) ==
  /\ Calling(t, "putBounded")
  /\ Push /\ Goto(t, "putNotify")
  /\ UNCHANGED <<waiting, taken, failed, maxSize>>

PutBounded(t) ==
  /\ Calling(t, "putBounded")
  /\ IF Full THEN Wait(t, "notFull_") /\ UNCHANGED bqvars
     ELSE Push /\ Goto(t, "putNotify") /\ UNCHANGED <<waiting, taken, failed>>
  /\ UNCHANGED maxSize

(* take() notifies a producer while it holds the mutex. *)
TakeBounded(t) ==
  /\ Calling(t, "takeBounded")
  /\ IF queue_ = <<>> THEN Wait(t, "notEmpty_") /\ UNCHANGED bqvars
     ELSE Pop /\ Notify("notFull_") /\ Return(t) /\ UNCHANGED puts
  /\ UNCHANGED maxSize

-----------------------------------------------------------------------------
(* While a producer waits, every free place has a producer that was woken  *)
(* for it: with ConsumersWoken, the two sides never wait for each other.   *)
ProducersWoken ==
  Waiters("notFull_") # {} => maxSize - Len(queue_) <= Cardinality(Awake("putBounded"))
=============================================================================
