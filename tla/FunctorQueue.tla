---------------------------- MODULE FunctorQueue ----------------------------
(***************************************************************************)
(* What EventLoop promises the callers of queueInLoop(): a queue of        *)
(* functors called one at a time, in the order they were handed over,      *)
(* each exactly once, until the loop stops; a stopped loop calls none.     *)
(***************************************************************************)
EXTENDS Naturals, Sequences, Functions

CONSTANT Functors

VARIABLES backlog, called, stopped

qvars == <<backlog, called, stopped>>

QInit == backlog = <<>> /\ called = <<>> /\ stopped = FALSE

Submit(f) ==
  /\ f \notin Range(backlog) \cup Range(called)
  /\ backlog' = Append(backlog, f)
  /\ UNCHANGED <<called, stopped>>

CallNext ==
  /\ ~stopped
  /\ backlog # <<>>
  /\ called' = Append(called, Head(backlog))
  /\ backlog' = Tail(backlog)
  /\ UNCHANGED stopped

Stop ==
  /\ ~stopped
  /\ stopped' = TRUE
  /\ UNCHANGED <<backlog, called>>

QNext == (\E f \in Functors : Submit(f)) \/ CallNext \/ Stop

QSafety == QInit /\ [][QNext]_qvars
QFair == WF_qvars(CallNext)
QSpec == QSafety /\ QFair
=============================================================================
