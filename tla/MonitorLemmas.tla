-------------------------- MODULE MonitorLemmas --------------------------
(***************************************************************************)
(* The inductive invariant of the monitors of muduo/base, and what the     *)
(* proofs of its steps share: scripts, counting, wakeups, order; and the   *)
(* steps of the queues.                                                    *)
(***************************************************************************)
EXTENDS Monitors, FiniteSetTheorems, SequenceTheorems, TLAPS

(* The calls of a thread: those of a BoundedBlockingQueue, or any other.   *)
Alphabet ==
  IF maxSize > 0 THEN {"putBounded", "putNotify", "takeBounded"}
  ELSE {"put", "putNotify", "take", "countDown", "await", "created", "start", "run", "stop",
        "join", "runInThread", "takeTask", "task"}

(* The call t is in. *)
At(t) == IF script[t] = <<>> THEN "idle" ELSE Head(script[t])

MonitorTypes ==
  /\ maxSize \in Nat /\ latch \in Int
  /\ script \in [Threads -> Seq(Alphabet)]
  /\ waiting \in [Threads -> {None, "notEmpty_", "notFull_", "condition_", "cond_"}]
  /\ queue_ \in Seq(Nat) /\ taken \in Seq(Nat) /\ puts \in Nat
  /\ tasks \in Seq(Nat) /\ handed \in Seq(Nat) /\ submitted \in Nat

(* Who waits is in the call that waits on the condition: woken, the thread *)
(* counts as one that tests it again.                                      *)
WaitsInCall ==
  \A t \in Threads :
    /\ waiting[t] = "notEmpty_" => At(t) \in {"take", "takeBounded"}
    /\ waiting[t] = "notFull_" => At(t) = "putBounded"
    /\ waiting[t] = "cond_" => At(t) = "takeTask"

-----------------------------------------------------------------------------
(* Steps of the script. *)
LEMMA CallingAt ==
  ASSUME NEW t \in Threads, NEW c, c # "idle"
  PROVE  Calling(t, c) <=> At(t) = c /\ waiting[t] = None
BY DEF Calling, At

LEMMA GotoAt ==
  ASSUME MonitorTypes, NEW t \in Threads, script[t] # <<>>,
         NEW c \in Alphabet, Goto(t, c), UNCHANGED maxSize
  PROVE  /\ script' \in [Threads -> Seq(Alphabet')]
         /\ At(t)' = c
         /\ \A u \in Threads \ {t} : At(u)' = At(u)
<1>1. Alphabet' = Alphabet
  BY DEF Alphabet
<1>2. script[t] \in Seq(Alphabet) /\ Tail(script[t]) \in Seq(Alphabet)
  BY DEF MonitorTypes
<1> DEFINE s == <<c>> \o Tail(script[t])
<1>3. s \in Seq(Alphabet) /\ s # <<>> /\ Head(s) = c
  BY <1>2
<1>4. script' = [script EXCEPT ![t] = s]
  BY DEF Goto
<1> HIDE DEF s
<1>5. script'[t] = s /\ \A u \in Threads \ {t} : script'[u] = script[u]
  BY <1>4 DEF MonitorTypes
<1>6. script' \in [Threads -> Seq(Alphabet)]
  BY <1>3, <1>4 DEF MonitorTypes
<1> QED
  BY <1>1, <1>3, <1>5, <1>6 DEF At

LEMMA ReturnAt ==
  ASSUME MonitorTypes, NEW t \in Threads, script[t] # <<>>, Return(t), UNCHANGED maxSize
  PROVE  /\ script' \in [Threads -> Seq(Alphabet')]
         /\ \A u \in Threads \ {t} : At(u)' = At(u)
<1>1. Alphabet' = Alphabet
  BY DEF Alphabet
<1>2. script[t] \in Seq(Alphabet) /\ Tail(script[t]) \in Seq(Alphabet)
  BY DEF MonitorTypes
<1>3. script' \in [Threads -> Seq(Alphabet)] /\ \A u \in Threads \ {t} : script'[u] = script[u]
  BY <1>2 DEF MonitorTypes, Return
<1> QED
  BY <1>1, <1>3 DEF At

-----------------------------------------------------------------------------
(* Counting threads. *)
LEMMA CountMore ==
  ASSUME NEW A, NEW B \in SUBSET Threads, A \subseteq B
  PROVE  /\ Cardinality(A) \in Nat /\ Cardinality(B) \in Nat
         /\ Cardinality(A) <= Cardinality(B)
         /\ \A x \in B \ A : Cardinality(A) + 1 <= Cardinality(B)
<1>1. IsFiniteSet(B) /\ IsFiniteSet(A)
  BY FS_Subset, MonitorsAssumption
<1>2. Cardinality(A) \in Nat /\ Cardinality(B) \in Nat /\ Cardinality(A) <= Cardinality(B)
  BY <1>1, FS_CardinalityType, FS_Subset
<1>3. ASSUME NEW x \in B \ A PROVE Cardinality(A) + 1 <= Cardinality(B)
  <2>1. IsFiniteSet(A \cup {x}) /\ Cardinality(A \cup {x}) = Cardinality(A) + 1
    BY <1>1, <1>3, FS_AddElement
  <2>2. A \cup {x} \subseteq B
    BY <1>3
  <2> QED
    BY <1>1, <2>1, <2>2, FS_Subset
<1> QED
  BY <1>2, <1>3

LEMMA CountLess ==
  ASSUME NEW A \in SUBSET Threads, NEW B \in SUBSET Threads, NEW t, A \ {t} \subseteq B
  PROVE  /\ Cardinality(A) - 1 <= Cardinality(B)
         /\ \A x \in B \ A : Cardinality(A) <= Cardinality(B)
<1>1. IsFiniteSet(A) /\ Cardinality(A) \in Nat
  BY FS_Subset, FS_CardinalityType, MonitorsAssumption
<1>2. Cardinality(A \ {t}) \in Nat /\ Cardinality(A) - 1 <= Cardinality(A \ {t})
  BY <1>1, FS_RemoveElement, FS_Subset, FS_CardinalityType
<1> QED
  BY <1>1, <1>2, CountMore

-----------------------------------------------------------------------------
(* In every step one thread moves, the others are at most woken. *)
Frame(t) ==
  \A u \in Threads \ {t} : At(u)' = At(u) /\ waiting'[u] \in {waiting[u], None}

LEMMA FrameSets ==
  ASSUME NEW t \in Threads, Frame(t), NEW c, c # "idle", c # None
  PROVE  /\ Awake(c) \ {t} \subseteq Awake(c)'
         /\ At(t) # c \/ waiting[t] # None => Awake(c) \subseteq Awake(c)'
         /\ Waiters(c)' \subseteq Waiters(c) \cup {t}
         /\ waiting'[t] # c => Waiters(c)' \subseteq Waiters(c)
<1>1. Awake(c) = {u \in Threads : At(u) = c /\ waiting[u] = None}
  BY CallingAt DEF Awake
<1>2. Awake(c)' = {u \in Threads : At(u)' = c /\ waiting'[u] = None}
  BY DEF Awake, Calling, At
<1>3. Waiters(c) = {u \in Threads : waiting[u] = c} /\ Waiters(c)' = {u \in Threads : waiting'[u] = c}
  BY DEF Waiters
<1> QED
  BY <1>1, <1>2, <1>3, Zenon DEF Frame

LEMMA FrameWaits ==
  ASSUME WaitsInCall, NEW t \in Threads, Frame(t),
         waiting'[t] \in {None, "condition_"} \/ (At(t)' = At(t) /\ waiting'[t] = waiting[t])
  PROVE  WaitsInCall'
<1>1. ASSUME NEW u \in Threads
      PROVE  /\ waiting'[u] = "notEmpty_" => At(u)' \in {"take", "takeBounded"}
             /\ waiting'[u] = "notFull_" => At(u)' = "putBounded"
             /\ waiting'[u] = "cond_" => At(u)' = "takeTask"
  <2>1. CASE u = t
    BY <2>1 DEF WaitsInCall, None
  <2>2. CASE u # t
    <3>1. At(u)' = At(u) /\ waiting'[u] \in {waiting[u], None}
      BY <2>2 DEF Frame
    <3> QED
      BY <3>1 DEF WaitsInCall, None
  <2> QED
    BY <2>1, <2>2
<1> QED
  BY <1>1 DEF WaitsInCall

LEMMA NotifyFrame ==
  ASSUME MonitorTypes, NEW c, c # None, Notify(c), NEW t \in Threads, waiting[t] = None
  PROVE  /\ waiting' \in [Threads -> {None, "notEmpty_", "notFull_", "condition_", "cond_"}]
         /\ waiting'[t] = None
         /\ \A u \in Threads : waiting'[u] \in {waiting[u], None}
         /\ Waiters(c) # {} => \E w \in Waiters(c) : waiting'[w] = None
<1>1. CASE Waiters(c) = {}
  BY <1>1 DEF Notify, MonitorTypes
<1>2. CASE Waiters(c) # {}
  <2>1. PICK w \in Waiters(c) : waiting' = [waiting EXCEPT ![w] = None]
    BY <1>2 DEF Notify
  <2>2. w \in Threads
    BY DEF Waiters
  <2> QED
    BY <2>1, <2>2 DEF MonitorTypes
<1> QED
  BY <1>1, <1>2

LEMMA NotifyAllFrame ==
  ASSUME MonitorTypes, NEW c, c # None, NotifyAll(c), NEW t \in Threads, waiting[t] = None
  PROVE  /\ waiting' \in [Threads -> {None, "notEmpty_", "notFull_", "condition_", "cond_"}]
         /\ waiting'[t] = None
         /\ \A u \in Threads : waiting'[u] \in {waiting[u], None}
         /\ Waiters(c)' = {}
<1>1. waiting' \in [Threads -> {None, "notEmpty_", "notFull_", "condition_", "cond_"}]
  BY DEF NotifyAll, MonitorTypes
<1>2. \A u \in Threads : waiting'[u] = IF waiting[u] = c THEN None ELSE waiting[u]
  BY DEF NotifyAll
<1> QED
  BY <1>1, <1>2 DEF Waiters

LEMMA WaitFrame ==
  ASSUME MonitorTypes, NEW t \in Threads, UNCHANGED maxSize,
         NEW c \in {"notEmpty_", "notFull_", "condition_", "cond_"}, Wait(t, c)
  PROVE  /\ waiting' \in [Threads -> {None, "notEmpty_", "notFull_", "condition_", "cond_"}]
         /\ waiting'[t] = c /\ At(t)' = At(t) /\ Frame(t)
         /\ script' \in [Threads -> Seq(Alphabet')]
<1>1. Alphabet' = Alphabet
  BY DEF Alphabet
<1> QED
  BY <1>1 DEF Wait, MonitorTypes, Frame, At

-----------------------------------------------------------------------------
(* Sequences of numbers, in order. *)
LEMMA ConcatAppend ==
  ASSUME NEW s \in Seq(Nat), NEW q \in Seq(Nat), NEW x \in Nat
  PROVE  s \o Append(q, x) = Append(s \o q, x)
OBVIOUS

LEMMA PushInOrder ==
  ASSUME NEW s \in Seq(Nat), NEW q \in Seq(Nat), NEW n \in Nat, s \o q = [i \in 1 .. n |-> i]
  PROVE  /\ s \o Append(q, n + 1) = [i \in 1 .. n + 1 |-> i]
         /\ Len(Append(q, n + 1)) = Len(q) + 1 /\ Append(q, n + 1) \in Seq(Nat)
<1> DEFINE r == s \o q
           x == n + 1
<1>1. r \in Seq(Nat) /\ x \in Nat /\ <<x>> \in Seq(Nat)
  BY ConcatProperties
<1>2. Len(r) = n
  <2>1. DOMAIN r = 1 .. n
    OBVIOUS
  <2> HIDE DEF r
  <2>2. DOMAIN r = 1 .. Len(r) /\ Len(r) \in Nat
    BY <1>1, LenProperties
  <2> QED
    BY <2>1, <2>2
<1>3. s \o Append(q, x) = Append(r, x)
  BY <1>1, ConcatAppend
<1>4. Append(r, x) = [i \in 1 .. x |-> i]
  <2>0. \A i \in 1 .. n : r[i] = i
    OBVIOUS
  <2> HIDE DEF r
  <2>1. /\ Append(r, x) \in Seq(Nat) /\ Len(Append(r, x)) = x
        /\ \A i \in 1 .. n : Append(r, x)[i] = r[i]
        /\ Append(r, x)[x] = x
    BY <1>1, <1>2, AppendProperties
  <2>2. \A i \in 1 .. x : Append(r, x)[i] = i
    BY <2>0, <2>1
  <2>3. Append(r, x) \in [1 .. x -> Nat]
    BY <2>1, LenProperties
  <2>4. DOMAIN Append(r, x) = 1 .. x
    BY <2>3
  <2> HIDE DEF x
  <2> QED
    BY <2>2, <2>3, <2>4
<1>5. Len(Append(q, x)) = Len(q) + 1 /\ Append(q, x) \in Seq(Nat)
  <2> HIDE DEF x
  <2> QED
    BY <1>1, AppendProperties
<1> QED
  BY <1>3, <1>4, <1>5, Zenon

LEMMA PopInOrder ==
  ASSUME NEW s \in Seq(Nat), NEW q \in Seq(Nat), q # <<>>
  PROVE  /\ Append(s, Head(q)) \o Tail(q) = s \o q
         /\ Append(s, Head(q)) \in Seq(Nat) /\ Tail(q) \in Seq(Nat)
         /\ Len(Tail(q)) = Len(q) - 1 /\ Len(q) \in Nat
<1>1. Append(s, Head(q)) \o Tail(q) = s \o q
  OBVIOUS
<1>2. /\ Head(q) \in Nat /\ Tail(q) \in Seq(Nat)
      /\ Len(Tail(q)) = Len(q) - 1 /\ Len(q) \in Nat
  BY HeadTailProperties, LenProperties
<1>3. Append(s, Head(q)) \in Seq(Nat)
  BY <1>2, AppendProperties
<1> QED
  BY <1>1, <1>2, <1>3

-----------------------------------------------------------------------------
QueueInv == ConsumersWoken /\ ProducersWoken /\ ItemsInOrder
PoolInv == WorkersWoken /\ TasksInOrder /\ (threads_ = {} => tasks = <<>>)

MonitorInv == MonitorTypes /\ WaitsInCall /\ QueueInv /\ PoolInv /\ LatchOpens

(* The threads that a new item need not wake. *)
Consumers == Awake("putNotify") \cup Awake("take") \cup Awake("takeBounded")

(* What a step does that is not about one of the monitors. *)
LEMMA ConsumersIdle ==
  ASSUME MonitorTypes, ConsumersWoken, NEW t \in Threads, Frame(t), UNCHANGED queue_,
         At(t) \notin {"putNotify", "take", "takeBounded"} \/ waiting[t] # None,
         waiting'[t] # "notEmpty_"
  PROVE  ConsumersWoken'
<1>1. Consumers \subseteq Consumers' /\ Waiters("notEmpty_")' \subseteq Waiters("notEmpty_")
  BY FrameSets DEF Consumers, None
<1>2. Consumers' \in SUBSET Threads
  BY DEF Consumers, Awake
<1>3. /\ Cardinality(Consumers) \in Nat /\ Cardinality(Consumers') \in Nat
      /\ Cardinality(Consumers) <= Cardinality(Consumers')
  BY <1>1, <1>2, CountMore
<1>4. Len(queue_) \in Nat
  BY DEF MonitorTypes
<1> QED
  BY <1>1, <1>3, <1>4 DEF ConsumersWoken, Consumers

LEMMA ProducersIdle ==
  ASSUME MonitorTypes, ProducersWoken, NEW t \in Threads, Frame(t), UNCHANGED <<queue_, maxSize>>,
         At(t) # "putBounded" \/ waiting[t] # None, waiting'[t] # "notFull_"
  PROVE  ProducersWoken'
<1> DEFINE P == Awake("putBounded")
<1>1. P \subseteq P' /\ Waiters("notFull_")' \subseteq Waiters("notFull_") /\ P' \in SUBSET Threads
  BY FrameSets DEF Awake, None
<1>2. Cardinality(P) \in Nat /\ Cardinality(P') \in Nat /\ Cardinality(P) <= Cardinality(P')
  BY <1>1, CountMore
<1>3. Len(queue_) \in Nat /\ maxSize \in Nat
  BY DEF MonitorTypes
<1> QED
  BY <1>1, <1>2, <1>3 DEF ProducersWoken

LEMMA QueueIdle ==
  ASSUME MonitorTypes, QueueInv, NEW t \in Threads, Frame(t),
         At(t) \notin {"putNotify", "take", "takeBounded", "putBounded"} \/ waiting[t] # None,
         waiting'[t] \notin {"notEmpty_", "notFull_"},
         UNCHANGED <<bqvars, maxSize>>
  PROVE  QueueInv'
<1>1. ConsumersWoken' /\ ProducersWoken'
  BY ConsumersIdle, ProducersIdle DEF QueueInv, bqvars
<1> QED
  BY <1>1 DEF QueueInv, ItemsInOrder, bqvars

LEMMA PoolIdle ==
  ASSUME MonitorTypes, PoolInv, NEW t \in Threads, Frame(t),
         At(t) # "takeTask" \/ waiting[t] # None, waiting'[t] # "cond_",
         UNCHANGED <<tasks, handed, submitted>>, running_' = running_ \/ running_' = TRUE,
         threads_ \subseteq threads_'
  PROVE  PoolInv'
<1>1. Awake("takeTask") \subseteq Awake("takeTask")' /\ Waiters("cond_")' \subseteq Waiters("cond_")
  BY FrameSets DEF None
<1>2. Awake("takeTask")' \in SUBSET Threads
  BY DEF Awake
<1>3. /\ Cardinality(Awake("takeTask")) \in Nat /\ Cardinality(Awake("takeTask")') \in Nat
      /\ Cardinality(Awake("takeTask")) <= Cardinality(Awake("takeTask")')
  BY <1>1, <1>2, CountMore
<1>4. Len(tasks) \in Nat
  BY DEF MonitorTypes
<1> QED
  BY <1>1, <1>3, <1>4 DEF PoolInv, WorkersWoken, TasksInOrder

LEMMA LatchIdle ==
  ASSUME LatchOpens, NEW t \in Threads, Frame(t), waiting'[t] # "condition_", UNCHANGED latch
  PROVE  LatchOpens'
<1>1. Waiters("condition_")' \subseteq Waiters("condition_")
  BY FrameSets DEF None
<1> QED
  BY <1>1 DEF LatchOpens

-----------------------------------------------------------------------------
(* The steps of BlockingQueue and BoundedBlockingQueue, and of a thread    *)
(* that waits, keep the invariant of the monitors.                         *)

(* A thread that puts: its item is counted against itself until notify().  *)
LEMMA PushKeeps ==
  ASSUME MonitorInv, NEW t \in Threads, At(t) \in {"put", "putBounded"}, waiting[t] = None,
         script[t] # <<>>, Push, Goto(t, "putNotify"), UNCHANGED <<waiting, taken, failed, maxSize>>,
         UNCHANGED <<latch, tpvars>>
  PROVE  MonitorInv'
<1>0. MonitorTypes /\ WaitsInCall /\ QueueInv /\ PoolInv /\ LatchOpens
  BY DEF MonitorInv
<1>1. "putNotify" \in Alphabet
  BY DEF Alphabet
<1>2. /\ script' \in [Threads -> Seq(Alphabet')] /\ At(t)' = "putNotify"
      /\ Frame(t) /\ waiting'[t] = None
  BY <1>0, <1>1, GotoAt DEF Frame
<1>3. /\ taken \o queue_' = [i \in 1 .. puts' |-> i] /\ Len(queue_') = Len(queue_) + 1
      /\ queue_' \in Seq(Nat) /\ puts' \in Nat /\ Len(queue_) \in Nat
  <2>1. /\ taken \in Seq(Nat) /\ queue_ \in Seq(Nat) /\ puts \in Nat
        /\ taken \o queue_ = [i \in 1 .. puts |-> i]
    BY <1>0 DEF MonitorTypes, QueueInv, ItemsInOrder
  <2>2. queue_' = Append(queue_, puts + 1) /\ puts' = puts + 1
    BY DEF Push
  <2>3. /\ taken \o Append(queue_, puts + 1) = [i \in 1 .. puts + 1 |-> i]
        /\ Len(Append(queue_, puts + 1)) = Len(queue_) + 1 /\ Append(queue_, puts + 1) \in Seq(Nat)
    BY <2>1, PushInOrder, Zenon
  <2>4. Len(queue_) \in Nat /\ puts + 1 \in Nat
    BY <2>1
  <2> QED
    BY <2>2, <2>3, <2>4, Zenon
<1>4. Cardinality(Consumers) \in Nat /\ Cardinality(Consumers) + 1 <= Cardinality(Consumers')
      /\ Cardinality(Consumers') \in Nat
  <2>1. Consumers \subseteq Consumers' /\ Consumers' \in SUBSET Threads
    BY <1>2, FrameSets DEF Consumers, Awake, None
  <2>2. t \in Consumers'
    BY <1>2 DEF Consumers, Awake, Calling, At
  <2>3. t \notin Consumers
    BY DEF Consumers, Awake, Calling, At
  <2> QED
    BY <2>1, <2>2, <2>3, CountMore
<1>5. ConsumersWoken'
  BY <1>0, <1>3, <1>4 DEF QueueInv, ConsumersWoken, Consumers, Waiters
<1>6. ProducersWoken'
  <2>1. Awake("putBounded") \ {t} \subseteq Awake("putBounded")' /\ Awake("putBounded") \in SUBSET Threads
        /\ Awake("putBounded")' \in SUBSET Threads
    BY <1>2, FrameSets DEF Awake, None
  <2>2. Cardinality(Awake("putBounded")) - 1 <= Cardinality(Awake("putBounded")')
    BY <2>1, CountLess
  <2>3. Cardinality(Awake("putBounded")) \in Nat /\ Cardinality(Awake("putBounded")') \in Nat
    BY <2>1, CountMore
  <2>4. maxSize \in Nat /\ ProducersWoken
    BY <1>0 DEF QueueInv, MonitorTypes
  <2>5. Waiters("notFull_")' = Waiters("notFull_")
    BY DEF Waiters
  <2> QED
    BY <1>3, <2>2, <2>3, <2>4, <2>5 DEF ProducersWoken
<1>7. QueueInv'
  BY <1>0, <1>3, <1>5, <1>6 DEF QueueInv, ItemsInOrder
<1>8. WaitsInCall'
  BY <1>0, <1>2, FrameWaits
<1>9. PoolInv' /\ LatchOpens'
  BY <1>0, <1>2, PoolIdle, LatchIdle DEF tpvars, None
<1>10. MonitorTypes'
  BY <1>0, <1>2, <1>3 DEF MonitorTypes, tpvars
<1> QED
  BY <1>7, <1>8, <1>9, <1>10 DEF MonitorInv

(* notify() passes the item on to the thread it wakes. *)
LEMMA PutNotifyKeeps ==
  ASSUME MonitorInv, NEW t \in Threads, PutNotify(t), UNCHANGED <<maxSize, latch, tpvars>>
  PROVE  MonitorInv'
<1>0. MonitorTypes /\ WaitsInCall /\ QueueInv /\ PoolInv /\ LatchOpens
  BY DEF MonitorInv
<1>1. /\ At(t) = "putNotify" /\ waiting[t] = None /\ script[t] # <<>>
      /\ Notify("notEmpty_") /\ Return(t) /\ UNCHANGED <<queue_, puts, taken, failed>>
  BY DEF PutNotify, Calling, At, bqvars
<1>2. /\ waiting' \in [Threads -> {None, "notEmpty_", "notFull_", "condition_", "cond_"}]
      /\ waiting'[t] = None
      /\ \A u \in Threads : waiting'[u] \in {waiting[u], None}
      /\ Waiters("notEmpty_") # {} => \E w \in Waiters("notEmpty_") : waiting'[w] = None
  BY <1>0, <1>1, NotifyFrame DEF None
<1>3. script' \in [Threads -> Seq(Alphabet')] /\ Frame(t)
  BY <1>0, <1>1, <1>2, ReturnAt DEF Frame
<1>4. ConsumersWoken'
  <2> SUFFICES ASSUME Waiters("notEmpty_")' # {}
               PROVE  Len(queue_') <= Cardinality(Consumers')
    BY DEF ConsumersWoken, Consumers
  <2>1. Waiters("notEmpty_")' \subseteq Waiters("notEmpty_")
    BY <1>2, <1>3, FrameSets DEF None
  <2>2. PICK w \in Waiters("notEmpty_") : waiting'[w] = None
    BY <1>2, <2>1
  <2>3. w \in Threads /\ w # t /\ waiting[w] = "notEmpty_" /\ At(w) \in {"take", "takeBounded"}
    BY <1>0, <1>1, <2>2 DEF Waiters, WaitsInCall, None
  <2>4. At(w)' \in {"take", "takeBounded"}
    BY <1>3, <2>3 DEF Frame
  <2>5. w \in Consumers' /\ w \notin Consumers
    BY <2>2, <2>3, <2>4 DEF Consumers, Awake, Calling, At, None
  <2>6. Consumers \ {t} \subseteq Consumers' /\ Consumers \in SUBSET Threads /\ Consumers' \in SUBSET Threads
    BY <1>3, FrameSets DEF Consumers, Awake, None
  <2>7. Cardinality(Consumers) <= Cardinality(Consumers')
    BY <2>5, <2>6, CountLess
  <2>8. Cardinality(Consumers) \in Nat /\ Cardinality(Consumers') \in Nat /\ Len(queue_) \in Nat
    BY <1>0, <2>6, CountMore DEF MonitorTypes
  <2> QED
    BY <1>0, <1>1, <2>2, <2>7, <2>8 DEF QueueInv, ConsumersWoken, Consumers
<1>5. ProducersWoken'
  BY <1>0, <1>1, <1>2, <1>3, ProducersIdle DEF QueueInv, None
<1>6. QueueInv'
  BY <1>0, <1>1, <1>4, <1>5 DEF QueueInv, ItemsInOrder
<1>7. WaitsInCall'
  BY <1>0, <1>2, <1>3, FrameWaits
<1>8. PoolInv' /\ LatchOpens'
  BY <1>0, <1>1, <1>2, <1>3, PoolIdle, LatchIdle DEF tpvars, None
<1>9. MonitorTypes'
  BY <1>0, <1>1, <1>2, <1>3 DEF MonitorTypes, tpvars
<1> QED
  BY <1>6, <1>7, <1>8, <1>9 DEF MonitorInv

(* A thread that takes: an item and a thread less; a place more, for which *)
(* take() of the bounded queue wakes a producer.                           *)
LEMMA PopKeeps ==
  ASSUME MonitorInv, NEW t \in Threads, At(t) \in {"take", "takeBounded"}, waiting[t] = None,
         script[t] # <<>>, queue_ # <<>>, Pop, Return(t), UNCHANGED <<puts, maxSize>>,
         IF At(t) = "take" THEN UNCHANGED waiting ELSE Notify("notFull_"),
         UNCHANGED <<latch, tpvars>>
  PROVE  MonitorInv'
<1>0. MonitorTypes /\ WaitsInCall /\ QueueInv /\ PoolInv /\ LatchOpens
  BY DEF MonitorInv
<1>1. /\ taken' \o queue_' = taken \o queue_ /\ Len(queue_') = Len(queue_) - 1 /\ Len(queue_) \in Nat
      /\ queue_' \in Seq(Nat) /\ taken' \in Seq(Nat) /\ UNCHANGED failed
  <2>1. taken \in Seq(Nat) /\ queue_ \in Seq(Nat)
    BY <1>0 DEF MonitorTypes
  <2>2. taken' = Append(taken, Head(queue_)) /\ queue_' = Tail(queue_) /\ UNCHANGED failed
    BY DEF Pop
  <2> QED
    BY <2>1, <2>2, PopInOrder
<1>2. /\ waiting' \in [Threads -> {None, "notEmpty_", "notFull_", "condition_", "cond_"}]
      /\ waiting'[t] = None
      /\ \A u \in Threads : waiting'[u] \in {waiting[u], None}
  BY <1>0, NotifyFrame DEF None, MonitorTypes
<1>3. script' \in [Threads -> Seq(Alphabet')] /\ Frame(t)
  BY <1>0, <1>2, ReturnAt DEF Frame
<1>4. ConsumersWoken'
  <2>1. Waiters("notEmpty_")' \subseteq Waiters("notEmpty_")
    BY <1>2, <1>3, FrameSets DEF None
  <2>2. Consumers \ {t} \subseteq Consumers' /\ Consumers \in SUBSET Threads /\ Consumers' \in SUBSET Threads
    BY <1>3, FrameSets DEF Consumers, Awake, None
  <2>3. Cardinality(Consumers) - 1 <= Cardinality(Consumers')
    BY <2>2, CountLess
  <2>4. Cardinality(Consumers) \in Nat /\ Cardinality(Consumers') \in Nat
    BY <2>2, CountMore
  <2> QED
    BY <1>0, <1>1, <2>1, <2>3, <2>4 DEF QueueInv, ConsumersWoken, Consumers
<1>5. ProducersWoken'
  <2> DEFINE P == Awake("putBounded")
  <2> SUFFICES ASSUME Waiters("notFull_")' # {}
               PROVE  maxSize - Len(queue_') <= Cardinality(P')
    BY DEF ProducersWoken
  <2>0. /\ P \subseteq P' /\ P' \in SUBSET Threads
        /\ Waiters("notFull_")' \subseteq Waiters("notFull_")
    BY <1>2, <1>3, FrameSets DEF Awake, None
  <2>1. Cardinality(P) \in Nat /\ Cardinality(P') \in Nat
    BY <2>0, CountMore
  <2>2. CASE At(t) = "take"
    <3>1. maxSize = 0
      <4>1. At(t) \in Alphabet
        BY <1>0 DEF MonitorTypes, At
      <4> QED
        BY <1>0, <2>2, <4>1 DEF Alphabet, MonitorTypes
    <3>2. Len(queue_') \in Nat
      BY <1>1
    <3> QED
      BY <2>1, <3>1, <3>2
  <2>3. CASE At(t) = "takeBounded"
    <3>1. PICK w \in Waiters("notFull_") : waiting'[w] = None
      BY <1>0, <2>0, <2>3, NotifyFrame DEF None
    <3>2. w \in Threads /\ w # t /\ waiting[w] = "notFull_" /\ At(w) = "putBounded"
      BY <1>0, <3>1 DEF Waiters, WaitsInCall, None
    <3>3. At(w)' = "putBounded"
      BY <1>3, <3>2 DEF Frame
    <3>4. w \in P' /\ w \notin P
      BY <3>1, <3>2, <3>3 DEF Awake, Calling, At, None
    <3>5. Cardinality(P) + 1 <= Cardinality(P')
      BY <2>0, <3>4, CountMore
    <3> HIDE DEF P
    <3>6. maxSize - Len(queue_) <= Cardinality(P) /\ maxSize \in Nat
      BY <1>0, <3>1 DEF P, QueueInv, ProducersWoken, MonitorTypes
    <3> QED
      BY <1>1, <2>1, <3>5, <3>6
  <2> QED
    BY <2>2, <2>3
<1>6. QueueInv'
  BY <1>0, <1>1, <1>4, <1>5 DEF QueueInv, ItemsInOrder
<1>7. WaitsInCall'
  BY <1>0, <1>2, <1>3, FrameWaits
<1>8. PoolInv' /\ LatchOpens'
  BY <1>0, <1>2, <1>3, PoolIdle, LatchIdle DEF tpvars, None
<1>9. MonitorTypes'
  BY <1>0, <1>1, <1>2, <1>3 DEF MonitorTypes, tpvars
<1> QED
  BY <1>6, <1>7, <1>8, <1>9 DEF MonitorInv

(* A thread that waits: there is nothing it could be woken for. *)
LEMMA WaitKeeps ==
  ASSUME MonitorInv, NEW t \in Threads, waiting[t] = None,
         NEW c \in {"notEmpty_", "notFull_", "condition_", "cond_"}, Wait(t, c),
         c = "notEmpty_" => At(t) \in {"take", "takeBounded"} /\ queue_ = <<>>,
         c = "notFull_" => At(t) = "putBounded" /\ Full,
         c = "condition_" => At(t) = "await" /\ latch > 0,
         c = "cond_" => At(t) = "takeTask" /\ tasks = <<>> /\ running_,
         UNCHANGED <<bqvars, maxSize, latch, tpvars>>
  PROVE  MonitorInv'
<1>0. MonitorTypes /\ WaitsInCall /\ QueueInv /\ PoolInv /\ LatchOpens
  BY DEF MonitorInv
<1>1. /\ waiting' \in [Threads -> {None, "notEmpty_", "notFull_", "condition_", "cond_"}]
      /\ waiting'[t] = c /\ At(t)' = At(t) /\ Frame(t)
      /\ script' \in [Threads -> Seq(Alphabet')]
  BY <1>0, WaitFrame
<1>2. WaitsInCall'
  <2>1. ASSUME NEW u \in Threads
        PROVE  /\ waiting'[u] = "notEmpty_" => At(u)' \in {"take", "takeBounded"}
               /\ waiting'[u] = "notFull_" => At(u)' = "putBounded"
               /\ waiting'[u] = "cond_" => At(u)' = "takeTask"
    <3>1. CASE u = t
      BY <1>1, <3>1
    <3>2. CASE u # t
      <4>1. At(u)' = At(u) /\ waiting'[u] \in {waiting[u], None}
        BY <1>1, <3>2 DEF Frame
      <4> QED
        BY <1>0, <4>1 DEF WaitsInCall, None
    <3> QED
      BY <3>1, <3>2
  <2> QED
    BY <2>1 DEF WaitsInCall
<1>3. ConsumersWoken'
  <2>1. CASE c = "notEmpty_"
    <3>1. Len(queue_') = 0
      BY <2>1 DEF bqvars
    <3>2. Consumers' \in SUBSET Threads
      BY DEF Consumers, Awake
    <3>3. Cardinality(Consumers') \in Nat
      BY <3>2, CountMore
    <3> QED
      BY <3>1, <3>3 DEF ConsumersWoken, Consumers
  <2>2. CASE c # "notEmpty_"
    BY <1>0, <1>1, <2>2, ConsumersIdle DEF QueueInv, bqvars
  <2> QED
    BY <2>1, <2>2
<1>4. ProducersWoken'
  <2>1. CASE c = "notFull_"
    <3>1. maxSize' - Len(queue_') = 0
      BY <1>0, <2>1 DEF bqvars, Full, MonitorTypes
    <3>2. Awake("putBounded")' \in SUBSET Threads
      BY DEF Awake
    <3>3. Cardinality(Awake("putBounded")') \in Nat
      BY <3>2, CountMore
    <3> QED
      BY <3>1, <3>3 DEF ProducersWoken
  <2>2. CASE c # "notFull_"
    BY <1>0, <1>1, <2>2, ProducersIdle DEF QueueInv, bqvars
  <2> QED
    BY <2>1, <2>2
<1>5. PoolInv'
  <2>1. CASE c = "cond_"
    <3>1. Len(tasks') = 0 /\ running_' = running_ /\ TasksInOrder' /\ tasks' = <<>>
      BY <1>0, <2>1 DEF tpvars, PoolInv, TasksInOrder
    <3>2. Awake("takeTask")' \in SUBSET Threads
      BY DEF Awake
    <3>3. Cardinality(Awake("takeTask")') \in Nat
      BY <3>2, CountMore
    <3> QED
      BY <2>1, <3>1, <3>3 DEF PoolInv, WorkersWoken
  <2>2. CASE c # "cond_"
    BY <1>0, <1>1, <2>2, PoolIdle DEF tpvars
  <2> QED
    BY <2>1, <2>2
<1>6. LatchOpens'
  <2>1. CASE c = "condition_"
    BY <1>0, <2>1 DEF LatchOpens, MonitorTypes
  <2>2. CASE c # "condition_"
    BY <1>0, <1>1, <2>2, LatchIdle
  <2> QED
    BY <2>1, <2>2
<1>7. MonitorTypes' /\ ItemsInOrder'
  BY <1>0, <1>1 DEF MonitorTypes, QueueInv, ItemsInOrder, bqvars, tpvars
<1> QED
  BY <1>2, <1>3, <1>4, <1>5, <1>6, <1>7 DEF MonitorInv, QueueInv

LEMMA QueueStepKeeps ==
  ASSUME MonitorInv, NEW t \in Threads, QueueStep(t)
  PROVE  MonitorInv'
<1>0. UNCHANGED <<latch, tpvars>>
  BY DEF QueueStep
<1>1. CASE Put(t) /\ UNCHANGED maxSize
  <2>1. /\ At(t) = "put" /\ waiting[t] = None /\ script[t] # <<>>
        /\ Push /\ Goto(t, "putNotify") /\ UNCHANGED <<waiting, taken, failed>>
    BY <1>1 DEF Put, Calling, At
  <2> QED
    BY <1>0, <1>1, <2>1, PushKeeps
<1>2. CASE PutNotify(t) /\ UNCHANGED maxSize
  BY <1>0, <1>2, PutNotifyKeeps
<1>3. CASE Take(t) /\ UNCHANGED maxSize
  <2>1. At(t) = "take" /\ waiting[t] = None /\ script[t] # <<>>
    BY <1>3 DEF Take, Calling, At
  <2>2. CASE queue_ = <<>>
    <3>1. Wait(t, "notEmpty_") /\ UNCHANGED bqvars
      BY <1>3, <2>2 DEF Take
    <3> QED
      BY <1>0, <1>3, <2>1, <2>2, <3>1, WaitKeeps
  <2>3. CASE queue_ # <<>>
    <3>1. Pop /\ Return(t) /\ UNCHANGED <<waiting, puts>>
      BY <1>3, <2>3 DEF Take
    <3> QED
      BY <1>0, <1>3, <2>1, <2>3, <3>1, PopKeeps
  <2> QED
    BY <2>2, <2>3
<1>4. CASE PutBounded(t)
  <2>1. At(t) = "putBounded" /\ waiting[t] = None /\ script[t] # <<>> /\ UNCHANGED maxSize
    BY <1>4 DEF PutBounded, Calling, At
  <2>2. CASE Full
    <3>1. Wait(t, "notFull_") /\ UNCHANGED bqvars
      BY <1>4, <2>2 DEF PutBounded
    <3> QED
      BY <1>0, <2>1, <2>2, <3>1, WaitKeeps
  <2>3. CASE ~Full
    <3>1. Push /\ Goto(t, "putNotify") /\ UNCHANGED <<waiting, taken, failed>>
      BY <1>4, <2>3 DEF PutBounded
    <3> QED
      BY <1>0, <2>1, <3>1, PushKeeps
  <2> QED
    BY <2>2, <2>3
<1>5. CASE TakeBounded(t)
  <2>1. At(t) = "takeBounded" /\ waiting[t] = None /\ script[t] # <<>> /\ UNCHANGED maxSize
    BY <1>5 DEF TakeBounded, Calling, At
  <2>2. CASE queue_ = <<>>
    <3>1. Wait(t, "notEmpty_") /\ UNCHANGED bqvars
      BY <1>5, <2>2 DEF TakeBounded
    <3> QED
      BY <1>0, <2>1, <2>2, <3>1, WaitKeeps
  <2>3. CASE queue_ # <<>>
    <3>1. Pop /\ Return(t) /\ Notify("notFull_") /\ UNCHANGED puts
      BY <1>5, <2>3 DEF TakeBounded
    <3> QED
      BY <1>0, <2>1, <2>3, <3>1, PopKeeps
  <2> QED
    BY <2>2, <2>3
<1> QED
  BY <1>1, <1>2, <1>3, <1>4, <1>5 DEF QueueStep
=============================================================================
