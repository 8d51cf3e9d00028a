------------------------- MODULE EventLoopThreadPool -------------------------
(***************************************************************************)
(* muduo::net::EventLoopThreadPool: a TcpServer takes the loop of each new *)
(* connection from it, in turn.  Loop 0 is baseLoop_, loop i the one of    *)
(* the i-th EventLoopThread (EventLoopThread models how it starts).  All   *)
(* operations run in the base loop's thread.                               *)
(***************************************************************************)
EXTENDS Naturals, Sequences

CONSTANT MaxThreads   \* the largest argument of setThreadNum() in a model

ASSUME MaxThreadsAssumption == MaxThreads \in Nat

VARIABLES
  poolStarted_,         \* started_
  numThreads_, next_,
  loops_,
  given                 \* history: how often getNextLoop() returned each loop of loops_

poolVars == <<poolStarted_, numThreads_, next_, loops_, given>>

baseLoop_ == 0

PoolTypeOK ==
  /\ poolStarted_ \in BOOLEAN
  /\ numThreads_ \in 0 .. MaxThreads
  /\ loops_ \in Seq(1 .. MaxThreads)
  /\ next_ \in Nat /\ (loops_ # <<>> => next_ < Len(loops_))
  /\ given \in [1 .. Len(loops_) -> Nat]

PoolInit ==
  /\ poolStarted_ = FALSE
  /\ numThreads_ = 0
  /\ next_ = 0
  /\ loops_ = <<>>
  /\ given = <<>>

SetThreadNum(n) ==
  /\ numThreads_' = n
  /\ UNCHANGED <<poolStarted_, next_, loops_, given>>

(* start(): a loop for each thread.  Changing numThreads_ later has no     *)
(* effect.                                                                 *)
PoolStart ==
  /\ ~poolStarted_
  /\ poolStarted_' = TRUE
  /\ loops_' = [i \in 1 .. numThreads_ |-> i]
  /\ given' = [i \in 1 .. numThreads_ |-> 0]
  /\ UNCHANGED <<numThreads_, next_>>

(* A bug: next_ is not advanced, all connections go to one loop. *)
Advance_Never == next_

(* next_ after a call of getNextLoop() with loops. *)
Advance == IF next_ + 1 >= Len(loops_) THEN 0 ELSE next_ + 1

(* What getNextLoop() returns, and what it does. *)
NextLoop == IF loops_ = <<>> THEN baseLoop_ ELSE loops_[next_ + 1]

GetNextLoop ==
  /\ IF loops_ = <<>> THEN UNCHANGED <<next_, given>>
     ELSE next_' = Advance /\ given' = [given EXCEPT ![next_ + 1] = @ + 1]
  /\ UNCHANGED <<poolStarted_, numThreads_, loops_>>

PoolNext ==
  \/ \E n \in 0 .. MaxThreads : SetThreadNum(n)
  \/ PoolStart
  \/ GetNextLoop

PoolSpec == PoolInit /\ [][PoolNext]_poolVars

-----------------------------------------------------------------------------
(* Connections are spread evenly: after any number of calls of             *)
(* getNextLoop() two loops of the pool differ by one at most.              *)
Balanced == \A i, j \in 1 .. Len(loops_) : given[i] <= given[j] + 1
=============================================================================
