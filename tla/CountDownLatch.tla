---------------------------- MODULE CountDownLatch ----------------------------
(***************************************************************************)
(* muduo::CountDownLatch; its calls are "countDown" and "await" (wait()).  *)
(***************************************************************************)
EXTENDS Monitor

VARIABLE latch   \* count_

LatchWait(t) ==
  /\ Calling(t, "await")
  /\ IF latch > 0 THEN Wait(t, "condition_") ELSE Return(t) /\ UNCHANGED waiting
  /\ UNCHANGED latch

CountDown(t) ==
  /\ Calling(t, "countDown")
  /\ latch' = latch - 1
  /\ IF latch' = 0 THEN NotifyAll("condition_") ELSE UNCHANGED waiting
  /\ Return(t)

-----------------------------------------------------------------------------
(* Nobody waits at a latch that is open, also when it was counted down     *)
(* more often than it was set to.                                          *)
LatchOpens == latch <= 0 => Waiters("condition_") = {}
=============================================================================
