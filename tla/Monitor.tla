------------------------------- MODULE Monitor -------------------------------
(***************************************************************************)
(* Threads that share an object guarded by a muduo::MutexLock, and the     *)
(* muduo::Conditions they wait on.  A critical section is one step, up to  *)
(* a wait; a thread that is woken tests its condition again in a step of   *)
(* its own.  script[t] is what t has yet to call, its head the call under  *)
(* way.                                                                    *)
(***************************************************************************)
EXTENDS Integers, SequencesExt

CONSTANT Threads

VARIABLES script, waiting

None == "none"

Calling(t, call) == script[t] # <<>> /\ Head(script[t]) = call /\ waiting[t] = None
Goto(t, call) == script' = [script EXCEPT ![t] = <<call>> \o Tail(@)]
Return(t) == script' = [script EXCEPT ![t] = Tail(@)]

Waiters(c) == {t \in Threads : waiting[t] = c}
Awake(call) == {t \in Threads : Calling(t, call)}

Wait(t, c) == waiting' = [waiting EXCEPT ![t] = c] /\ UNCHANGED script

(* pthread_cond_signal() wakes one of the waiters. *)
Notify(c) ==
  IF Waiters(c) = {} THEN UNCHANGED waiting
  ELSE \E t \in Waiters(c) : waiting' = [waiting EXCEPT ![t] = None]

NotifyAll(c) == waiting' = [t \in Threads |-> IF waiting[t] = c THEN None ELSE waiting[t]]

SpuriousWakeup(t) ==
  /\ waiting[t] # None
  /\ waiting' = [waiting EXCEPT ![t] = None]
  /\ UNCHANGED script
=============================================================================
