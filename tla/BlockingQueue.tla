---------------------------- MODULE BlockingQueue ----------------------------
(***************************************************************************)
(* muduo::BlockingQueue.  Items are numbered as they are put.              *)
(***************************************************************************)
EXTENDS Monitor

VARIABLES queue_, puts, taken, failed    \* puts, taken: history

bqvars == <<queue_, puts, taken, failed>>

BQTypeOK == queue_ \in Seq(Nat) /\ puts \in Nat /\ taken \in Seq(Nat) /\ failed \in BOOLEAN
BQInit == queue_ = <<>> /\ puts = 0 /\ taken = <<>> /\ failed = FALSE

Push == queue_' = Append(queue_, puts + 1) /\ puts' = puts + 1

(* The front is taken; assert(!queue_.empty()). *)
Pop ==
  IF queue_ = <<>> THEN failed' = TRUE /\ UNCHANGED <<queue_, taken>>
  ELSE taken' = Append(taken, Head(queue_)) /\ queue_' = Tail(queue_) /\ UNCHANGED failed

(* put(): notify() follows when the mutex is free again. *)
Put(t) ==
  /\ Calling(t, "put")
  /\ Push
  /\ Goto(t, "putNotify")
  /\ UNCHANGED <<waiting, taken, failed>>

(* A bug: only a put() to an empty queue notifies. *)
PutNotify_IfFirst(t) ==
  /\ Calling(t, "putNotify")
  /\ IF Len(queue_) = 1 THEN Notify("notEmpty_") ELSE UNCHANGED waiting
  /\ Return(t)
  /\ UNCHANGED bqvars

PutNotify(t) ==
  /\ Calling(t, "putNotify")
  /\ Notify("notEmpty_")
  /\ Return(t)
  /\ UNCHANGED bqvars

(* A bug: the condition is tested once, with if. *)
Take_If(t) ==
  \/ /\ Calling(t, "take") /\ queue_ = <<>>
     /\ waiting' = [waiting EXCEPT ![t] = "notEmpty_"]
     /\ Goto(t, "pop")
     /\ UNCHANGED bqvars
  \/ /\ Calling(t, "pop") \/ (Calling(t, "take") /\ queue_ # <<>>)
     /\ Pop
     /\ Return(t)
     /\ UNCHANGED <<waiting, puts>>

Take(t) ==
  /\ Calling(t, "take")
  /\ IF queue_ = <<>> THEN Wait(t, "notEmpty_") /\ UNCHANGED bqvars
     ELSE Pop /\ Return(t) /\ UNCHANGED <<waiting, puts>>

-----------------------------------------------------------------------------
(* Items are taken once each and in the order of put(), and the assertion  *)
(* that there is one holds after every wait.                               *)
ItemsInOrder == ~failed /\ taken \o queue_ = [i \in 1 .. puts |-> i]

(* While a consumer waits, every item in the queue has a notify() on its   *)
(* way or a consumer that was woken for it.                                *)
ConsumersWoken ==
  Waiters("notEmpty_") # {} =>
    Len(queue_) <= Cardinality(Awake("putNotify") \cup Awake("take") \cup Awake("takeBounded"))
=============================================================================
