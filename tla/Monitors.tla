------------------------------- MODULE Monitors -------------------------------
(***************************************************************************)
(* Threads that use one of the monitors of muduo/base: a BlockingQueue, a  *)
(* BoundedBlockingQueue, a CountDownLatch or a ThreadPool.                 *)
(***************************************************************************)
EXTENDS BoundedBlockingQueue, CountDownLatch, ThreadPool

CONSTANTS
  Givers, Takers,   \* the threads, in two equal parts
  Owner,            \* the taker that owns the pool
  Calls,            \* bound: calls of each producer and consumer
  MaxLatch,         \* bound: what the latch is set to
  MaxRoom           \* bound: maxSize of the BoundedBlockingQueue

ASSUME MonitorsAssumption ==
  /\ Threads = Givers \cup Takers /\ Cardinality(Givers) = Cardinality(Takers)
  /\ IsFiniteSet(Threads) /\ Calls \in Nat /\ MaxLatch \in Nat /\ MaxRoom \in Nat
  /\ Owner \in Takers /\ MaxLatch <= Calls * Cardinality(Givers)

mvars == <<script, waiting, bqvars, maxSize, latch, tpvars>>

Many(call) == [i \in 1 .. Calls |-> call]
Scripts(g, k) == script = [t \in Threads |-> IF t \in Givers THEN g ELSE k]

(* Producers and consumers; threads that count the latch down and threads  *)
(* that wait at it; workers, the owner of the pool and other callers.      *)
MInit ==
  /\ waiting = [t \in Threads |-> None]
  /\ BQInit /\ TPInit
  /\ \/ /\ Scripts(Many("put"), Many("take")) /\ maxSize = 0 /\ latch = 1
     \/ /\ Scripts(Many("putBounded"), Many("takeBounded")) /\ maxSize \in 1 .. MaxRoom /\ latch = 1
     \/ /\ Scripts(Many("countDown"), <<"await">>) /\ maxSize = 0 /\ latch \in 0 .. MaxLatch
     \/ /\ \E workers \in {<<>>, <<"created">>} :
             script = [t \in Threads |-> IF t \in Givers THEN workers
                                         ELSE IF t = Owner THEN <<"start", "run", "run", "stop">>
                                         ELSE <<"run">>]
        /\ maxSize = 0 /\ latch = 1

MTypeOK ==
  /\ BQTypeOK /\ TPTypeOK /\ maxSize \in 0 .. MaxRoom /\ latch \in Int
  /\ waiting \in [Threads -> {None, "notEmpty_", "notFull_", "condition_", "cond_"}]
  /\ maxSize > 0 => Len(queue_) <= maxSize

QueueStep(t) ==
  /\ \/ (Put(t) \/ PutNotify(t) \/ Take(t)) /\ UNCHANGED maxSize
     \/ PutBounded(t) \/ TakeBounded(t)
  /\ UNCHANGED <<latch, tpvars>>

LatchStep(t) == (LatchWait(t) \/ CountDown(t)) /\ UNCHANGED <<bqvars, maxSize, tpvars>>

PoolStep(t) ==
  /\ \/ StartThread(t) \/ Run(t) \/ StopPool(t) \/ JoinThreads(t)
     \/ RunInThread(t) \/ TakeTask(t) \/ TaskEnds(t)
  /\ UNCHANGED <<bqvars, maxSize, latch>>

Step(t) == QueueStep(t) \/ LatchStep(t) \/ PoolStep(t)

MNext ==
  \E t \in Threads :
    Step(t) \/ (SpuriousWakeup(t) /\ UNCHANGED <<bqvars, maxSize, latch, tpvars>>)

(* Every thread that is not waiting goes on. *)
MSpec == MInit /\ [][MNext]_mvars /\ \A t \in Threads : WF_mvars(Step(t))

-----------------------------------------------------------------------------
(* Every call returns: with as many takes as puts, a latch that is counted *)
(* down far enough, a pool that is stopped, no thread waits for ever.      *)
AllReturn == <>(\A t \in Threads : script[t] = <<>>)

(* put() and take(), run() and the workers hand over items and tasks once  *)
(* each and in order, and a BoundedBlockingQueue never holds more than     *)
(* maxSize items.                                                          *)
HandedOverInOrder == MTypeOK /\ ItemsInOrder /\ TasksInOrder

(* No notify() or notifyAll() is lost: nobody sleeps in take(), put(),     *)
(* wait() or a worker on a condition that holds and that nobody else is on *)
(* the way to use.                                                         *)
NoneSleeps == ConsumersWoken /\ ProducersWoken /\ LatchOpens /\ WorkersWoken
=============================================================================
