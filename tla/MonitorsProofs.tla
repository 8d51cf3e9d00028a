---------------------------- MODULE MonitorsProofs ----------------------------
(***************************************************************************)
(* No wakeup is lost and nothing is reordered in the monitors of           *)
(* muduo/base, for any number of threads, of calls, and any size.          *)
(***************************************************************************)
EXTENDS MonitorLemmas

(* A step that touches no queue, or a wakeup for no reason. *)
LEMMA MoveKeeps ==
  ASSUME MonitorInv, NEW t \in Threads, Frame(t), waiting'[t] = None,
         \/ At(t) \notin {"putNotify", "take", "takeBounded", "putBounded", "takeTask"}
         \/ waiting[t] # None,
         script' \in [Threads -> Seq(Alphabet')],
         waiting' \in [Threads -> {None, "notEmpty_", "notFull_", "condition_", "cond_"}],
         UNCHANGED <<bqvars, maxSize, latch, tasks, handed, submitted>>,
         running_' = running_ \/ running_' = TRUE, threads_ \subseteq threads_'
  PROVE  MonitorInv'
<1>0. MonitorTypes /\ WaitsInCall /\ QueueInv /\ PoolInv /\ LatchOpens
  BY DEF MonitorInv
<1>1. QueueInv'
  BY <1>0, QueueIdle DEF None
<1>2. PoolInv'
  BY <1>0, PoolIdle DEF None
<1>3. LatchOpens' /\ WaitsInCall'
  BY <1>0, LatchIdle, FrameWaits DEF None
<1>4. MonitorTypes'
  BY <1>0 DEF MonitorTypes, bqvars
<1> QED
  BY <1>1, <1>2, <1>3, <1>4 DEF MonitorInv

LEMMA CountDownKeeps ==
  ASSUME MonitorInv, NEW t \in Threads, CountDown(t), UNCHANGED <<bqvars, maxSize, tpvars>>
  PROVE  MonitorInv'
<1>0. MonitorTypes /\ WaitsInCall /\ QueueInv /\ PoolInv /\ LatchOpens
  BY DEF MonitorInv
<1>1. At(t) = "countDown" /\ waiting[t] = None /\ script[t] # <<>> /\ Return(t) /\ latch' = latch - 1
  BY DEF CountDown, Calling, At
<1>2. /\ waiting' \in [Threads -> {None, "notEmpty_", "notFull_", "condition_", "cond_"}]
      /\ waiting'[t] = None
      /\ \A u \in Threads : waiting'[u] \in {waiting[u], None}
      /\ latch' = 0 => Waiters("condition_")' = {}
  <2>1. CASE latch' = 0
    BY <1>0, <1>1, <2>1, NotifyAllFrame DEF CountDown, None
  <2>2. CASE latch' # 0
    BY <1>0, <1>1, <2>2 DEF CountDown, MonitorTypes
  <2> QED
    BY <2>1, <2>2
<1>3. script' \in [Threads -> Seq(Alphabet')] /\ Frame(t)
  BY <1>0, <1>1, <1>2, ReturnAt DEF Frame
<1>4. LatchOpens'
  <2>1. Waiters("condition_")' \subseteq Waiters("condition_")
    BY <1>2, <1>3, FrameSets DEF None
  <2>2. latch' <= 0 => latch' = 0 \/ latch <= 0
    BY <1>0, <1>1 DEF MonitorTypes
  <2> QED
    BY <1>0, <1>2, <2>1, <2>2 DEF LatchOpens
<1>5. QueueInv' /\ PoolInv' /\ WaitsInCall'
  BY <1>0, <1>1, <1>2, <1>3, QueueIdle, PoolIdle, FrameWaits DEF tpvars, None
<1>6. MonitorTypes'
  BY <1>0, <1>1, <1>2, <1>3 DEF MonitorTypes, bqvars, tpvars
<1> QED
  BY <1>4, <1>5, <1>6 DEF MonitorInv

(* run(): the task is queued and a worker that waits is woken for it. *)
LEMMA RunKeeps ==
  ASSUME MonitorInv, NEW t \in Threads, Run(t), UNCHANGED <<bqvars, maxSize, latch>>
  PROVE  MonitorInv'
<1>0. MonitorTypes /\ WaitsInCall /\ QueueInv /\ PoolInv /\ LatchOpens
  BY DEF MonitorInv
<1>1. /\ At(t) = "run" /\ waiting[t] = None /\ script[t] # <<>> /\ Return(t)
      /\ submitted' = submitted + 1 /\ UNCHANGED <<running_, threads_>>
      /\ \/ handed' = Append(handed, submitted + 1) /\ UNCHANGED <<tasks, waiting>> /\ threads_ = {}
         \/ tasks' = Append(tasks, submitted + 1) /\ Notify("cond_") /\ UNCHANGED handed /\ threads_ # {}
  BY DEF Run, Calling, At
<1>2. /\ waiting' \in [Threads -> {None, "notEmpty_", "notFull_", "condition_", "cond_"}]
      /\ waiting'[t] = None
      /\ \A u \in Threads : waiting'[u] \in {waiting[u], None}
  BY <1>0, <1>1, NotifyFrame DEF None, MonitorTypes
<1>3. script' \in [Threads -> Seq(Alphabet')] /\ Frame(t)
  BY <1>0, <1>1, <1>2, ReturnAt DEF Frame
<1>4. QueueInv' /\ LatchOpens' /\ WaitsInCall'
  BY <1>0, <1>1, <1>2, <1>3, QueueIdle, LatchIdle, FrameWaits DEF None
<1>5. handed \in Seq(Nat) /\ tasks \in Seq(Nat) /\ submitted \in Nat /\ handed \o tasks = [i \in 1 .. submitted |-> i]
  BY <1>0 DEF MonitorTypes, PoolInv, TasksInOrder
<1> DEFINE x == submitted + 1
<1>6. x \in Nat
  BY <1>5
<1>7. /\ handed \o Append(tasks, x) = [i \in 1 .. x |-> i]
      /\ Len(Append(tasks, x)) = Len(tasks) + 1 /\ Append(tasks, x) \in Seq(Nat)
  BY <1>5, PushInOrder, Zenon
<1>8. CASE threads_ = {}
  <2>1. handed' = Append(handed, x) /\ UNCHANGED <<tasks, waiting, threads_, running_>> /\ submitted' = x
    BY <1>1, <1>8
  <2>2. tasks = <<>> /\ tasks' = <<>>
    BY <1>0, <1>8, <2>1 DEF PoolInv
  <2>3. handed' \in Seq(Nat) /\ handed' \o tasks' = handed \o Append(tasks, x)
    <3>1. Append(handed, x) \in Seq(Nat) /\ Append(handed, x) = handed \o <<x>>
      BY <1>5, <1>6, AppendProperties, AppendIsConcat
    <3>2. Append(handed, x) \o <<>> = Append(handed, x)
      BY <3>1, ConcatEmptySeq
    <3>3. Append(<<>>, x) = <<x>>
      BY <1>6
    <3> HIDE DEF x
    <3> QED
      BY <2>1, <2>2, <3>1, <3>2, <3>3, Zenon
  <2>4. TasksInOrder'
    BY <1>7, <2>1, <2>3, Zenon DEF TasksInOrder
  <2>5. WorkersWoken'
    <3>1. Waiters("cond_")' \subseteq Waiters("cond_") /\ Awake("takeTask")' \in SUBSET Threads
      BY <1>2, <1>3, FrameSets DEF Awake, None
    <3>2. Cardinality(Awake("takeTask")') \in Nat
      BY <3>1, CountMore
    <3>3. Len(tasks') = 0
      BY <2>2
    <3> QED
      BY <1>0, <2>1, <3>1, <3>2, <3>3 DEF PoolInv, WorkersWoken
  <2>6. MonitorTypes'
    BY <1>0, <1>2, <1>3, <1>6, <2>1, <2>3 DEF MonitorTypes, bqvars
  <2> QED
    BY <1>4, <2>2, <2>4, <2>5, <2>6 DEF MonitorInv, PoolInv
<1>9. CASE threads_ # {}
  <2>1. tasks' = Append(tasks, x) /\ Notify("cond_") /\ UNCHANGED <<handed, threads_, running_>> /\ submitted' = x
    BY <1>1, <1>9
  <2>2. TasksInOrder'
    BY <1>7, <2>1, Zenon DEF TasksInOrder
  <2>3. Len(tasks') = Len(tasks) + 1 /\ tasks' \in Seq(Nat) /\ Len(tasks) \in Nat
    <3>1. Len(tasks) \in Nat
      BY <1>5
    <3> QED
      BY <1>7, <2>1, <3>1, Zenon
  <2>4. WorkersWoken'
    <3> DEFINE C == Awake("takeTask")
    <3> SUFFICES ASSUME Waiters("cond_")' # {}
                 PROVE  running_' /\ Len(tasks') <= Cardinality(C')
      BY DEF WorkersWoken
    <3>1. /\ C \subseteq C' /\ C' \in SUBSET Threads /\ Waiters("cond_")' \subseteq Waiters("cond_")
      BY <1>1, <1>2, <1>3, FrameSets DEF Awake, None
    <3>2. PICK w \in Waiters("cond_") : waiting'[w] = None
      BY <1>0, <1>1, <2>1, <3>1, NotifyFrame DEF None
    <3>3. w \in Threads /\ w # t /\ waiting[w] = "cond_" /\ At(w) = "takeTask"
      BY <1>0, <1>1, <3>2 DEF Waiters, WaitsInCall, None
    <3>4. At(w)' = "takeTask"
      BY <1>3, <3>3 DEF Frame
    <3>5. w \in C' /\ w \notin C
      BY <3>2, <3>3, <3>4 DEF Awake, Calling, At, None
    <3>6. Cardinality(C) \in Nat /\ Cardinality(C') \in Nat /\ Cardinality(C) + 1 <= Cardinality(C')
      BY <3>1, <3>5, CountMore
    <3> HIDE DEF C
    <3>7. running_ /\ Len(tasks) <= Cardinality(C)
      BY <1>0, <3>2 DEF C, PoolInv, WorkersWoken
    <3> QED
      BY <2>1, <2>3, <3>6, <3>7
  <2>5. MonitorTypes'
    BY <1>0, <1>2, <1>3, <1>6, <2>1, <2>3 DEF MonitorTypes, bqvars
  <2> QED
    BY <1>4, <1>9, <2>1, <2>2, <2>4, <2>5 DEF MonitorInv, PoolInv
<1> QED
  BY <1>8, <1>9

LEMMA TakeTaskKeeps ==
  ASSUME MonitorInv, NEW t \in Threads, TakeTask(t), UNCHANGED <<bqvars, maxSize, latch>>
  PROVE  MonitorInv'
<1>0. MonitorTypes /\ WaitsInCall /\ QueueInv /\ PoolInv /\ LatchOpens
  BY DEF MonitorInv
<1>1. At(t) = "takeTask" /\ waiting[t] = None /\ script[t] # <<>>
  BY DEF TakeTask, Calling, At
<1>2. CASE tasks = <<>> /\ running_
  BY <1>1, <1>2, WaitKeeps DEF TakeTask
<1>3. CASE ~(tasks = <<>> /\ running_)
  <2>1. /\ Goto(t, "task") /\ UNCHANGED <<waiting, running_, threads_, submitted>>
        /\ IF tasks = <<>> THEN UNCHANGED <<handed, tasks>>
           ELSE handed' = Append(handed, Head(tasks)) /\ tasks' = Tail(tasks)
    BY <1>3 DEF TakeTask
  <2>2. "task" \in Alphabet
    <3>1. "takeTask" \in Alphabet
      BY <1>0, <1>1 DEF MonitorTypes, At
    <3> QED
      BY <3>1 DEF Alphabet
  <2>3. script' \in [Threads -> Seq(Alphabet')] /\ Frame(t) /\ waiting'[t] = None
    BY <1>0, <1>1, <2>1, <2>2, GotoAt DEF Frame
  <2>4. QueueInv' /\ LatchOpens' /\ WaitsInCall'
    BY <1>0, <1>1, <2>3, QueueIdle, LatchIdle, FrameWaits DEF None
  <2>5. handed \in Seq(Nat) /\ tasks \in Seq(Nat)
    BY <1>0 DEF MonitorTypes
  <2>6. /\ handed' \in Seq(Nat) /\ tasks' \in Seq(Nat) /\ handed' \o tasks' = handed \o tasks
        /\ tasks # <<>> => Len(tasks') = Len(tasks) - 1
        /\ tasks = <<>> => tasks' = <<>>
    BY <2>1, <2>5, PopInOrder
  <2>7. WorkersWoken'
    <3> DEFINE C == Awake("takeTask")
    <3> SUFFICES ASSUME Waiters("cond_")' # {}
                 PROVE  running_' /\ Len(tasks') <= Cardinality(C')
      BY DEF WorkersWoken
    <3>1. C \ {t} \subseteq C' /\ C \in SUBSET Threads /\ C' \in SUBSET Threads /\ Waiters("cond_") # {}
      BY <2>1, <2>3, FrameSets DEF Awake, None, Waiters
    <3>2. Cardinality(C) - 1 <= Cardinality(C') /\ Cardinality(C) \in Nat /\ Cardinality(C') \in Nat
      BY <3>1, CountLess, CountMore
    <3> HIDE DEF C
    <3>3. running_ /\ Len(tasks) <= Cardinality(C)
      BY <1>0, <3>1 DEF C, PoolInv, WorkersWoken
    <3>4. Len(tasks') = Len(tasks) - 1 /\ Len(tasks) \in Nat
      BY <1>3, <2>5, <2>6, <3>3
    <3> QED
      BY <2>1, <3>2, <3>3, <3>4
  <2>8. PoolInv'
    <3>1. TasksInOrder'
      BY <1>0, <2>1, <2>6 DEF PoolInv, TasksInOrder
    <3> QED
      BY <1>0, <2>1, <2>6, <2>7, <3>1 DEF PoolInv
  <2>9. MonitorTypes'
    BY <1>0, <2>1, <2>3, <2>6 DEF MonitorTypes, bqvars
  <2> QED
    BY <2>4, <2>8, <2>9 DEF MonitorInv
<1> QED
  BY <1>2, <1>3

LEMMA StopPoolKeeps ==
  ASSUME MonitorInv, NEW t \in Threads, StopPool(t), UNCHANGED <<bqvars, maxSize, latch>>
  PROVE  MonitorInv'
<1>0. MonitorTypes /\ WaitsInCall /\ QueueInv /\ PoolInv /\ LatchOpens
  BY DEF MonitorInv
<1>1. /\ At(t) = "stop" /\ waiting[t] = None /\ script[t] # <<>>
      /\ NotifyAll("cond_") /\ Goto(t, "join") /\ UNCHANGED <<tasks, threads_, submitted, handed>>
  BY DEF StopPool, Calling, At
<1>2. "join" \in Alphabet
  <2>1. "stop" \in Alphabet
    BY <1>0, <1>1 DEF MonitorTypes, At
  <2> QED
    BY <2>1 DEF Alphabet
<1>3. /\ waiting' \in [Threads -> {None, "notEmpty_", "notFull_", "condition_", "cond_"}]
      /\ waiting'[t] = None
      /\ \A u \in Threads : waiting'[u] \in {waiting[u], None}
      /\ Waiters("cond_")' = {}
  BY <1>0, <1>1, NotifyAllFrame DEF None
<1>4. script' \in [Threads -> Seq(Alphabet')] /\ Frame(t)
  BY <1>0, <1>1, <1>2, <1>3, GotoAt DEF Frame
<1>5. QueueInv' /\ LatchOpens' /\ WaitsInCall'
  BY <1>0, <1>1, <1>3, <1>4, QueueIdle, LatchIdle, FrameWaits DEF None
<1>6. PoolInv'
  BY <1>0, <1>1, <1>3 DEF PoolInv, WorkersWoken, TasksInOrder
<1>7. MonitorTypes'
  BY <1>0, <1>1, <1>3, <1>4 DEF MonitorTypes, bqvars
<1> QED
  BY <1>5, <1>6, <1>7 DEF MonitorInv

LEMMA PoolStepKeeps ==
  ASSUME MonitorInv, NEW t \in Threads, PoolStep(t)
  PROVE  MonitorInv'
<1>0. MonitorTypes /\ UNCHANGED <<bqvars, maxSize, latch>>
  BY DEF MonitorInv, PoolStep
<1>1. CASE StartThread(t)
  <2>1. /\ At(t) = "start" /\ waiting[t] = None /\ script[t] # <<>> /\ UNCHANGED waiting
        /\ running_' = TRUE /\ UNCHANGED <<tasks, submitted, handed>>
    BY <1>1 DEF StartThread, Calling, At
  <2>2. CASE Return(t) /\ UNCHANGED threads_
    <3>1. script' \in [Threads -> Seq(Alphabet')] /\ Frame(t)
      BY <1>0, <2>1, <2>2, ReturnAt DEF Frame
    <3> QED
      BY <1>0, <2>1, <2>2, <3>1, MoveKeeps DEF MonitorTypes
  <2>3. ASSUME NEW w \in Awake("created"), threads_' = threads_ \cup {w}, Goto(w, "runInThread")
        PROVE  MonitorInv'
    <3>1. w \in Threads /\ At(w) = "created" /\ waiting[w] = None /\ script[w] # <<>>
      BY DEF Awake, Calling, At
    <3>2. "runInThread" \in Alphabet
      <4>1. "created" \in Alphabet
        BY <1>0, <3>1 DEF MonitorTypes, At
      <4> QED
        BY <4>1 DEF Alphabet
    <3>3. script' \in [Threads -> Seq(Alphabet')] /\ Frame(w)
      BY <1>0, <2>1, <2>3, <3>1, <3>2, GotoAt DEF Frame
    <3> QED
      BY <1>0, <2>1, <2>3, <3>1, <3>3, MoveKeeps DEF MonitorTypes
  <2> QED
    BY <1>1, <2>2, <2>3 DEF StartThread
<1>2. CASE JoinThreads(t)
  <2>1. /\ At(t) = "join" /\ waiting[t] = None /\ script[t] # <<>> /\ Return(t)
        /\ UNCHANGED <<waiting, tpvars>>
    BY <1>2 DEF JoinThreads, Calling, At
  <2>2. script' \in [Threads -> Seq(Alphabet')] /\ Frame(t)
    BY <1>0, <2>1, ReturnAt DEF Frame
  <2> QED
    BY <1>0, <2>1, <2>2, MoveKeeps DEF MonitorTypes, tpvars
<1>3. CASE RunInThread(t) \/ TaskEnds(t)
  <2>1. /\ At(t) \in {"runInThread", "task"} /\ waiting[t] = None /\ script[t] # <<>>
        /\ Return(t) \/ Goto(t, "takeTask") \/ Goto(t, "runInThread")
        /\ UNCHANGED <<waiting, tpvars>>
    BY <1>3 DEF RunInThread, TaskEnds, Calling, At
  <2>2. "takeTask" \in Alphabet /\ "runInThread" \in Alphabet
    <3>1. At(t) \in Alphabet
      BY <1>0, <2>1 DEF MonitorTypes, At
    <3> QED
      BY <2>1, <3>1 DEF Alphabet
  <2>3. script' \in [Threads -> Seq(Alphabet')] /\ Frame(t)
    BY <1>0, <2>1, <2>2, ReturnAt, GotoAt DEF Frame
  <2> QED
    BY <1>0, <2>1, <2>3, MoveKeeps DEF MonitorTypes, tpvars
<1> QED
  BY <1>0, <1>1, <1>2, <1>3, RunKeeps, TakeTaskKeeps, StopPoolKeeps DEF PoolStep

LEMMA LatchStepKeeps ==
  ASSUME MonitorInv, NEW t \in Threads, LatchStep(t)
  PROVE  MonitorInv'
<1>0. UNCHANGED <<bqvars, maxSize, tpvars>> /\ MonitorTypes
  BY DEF LatchStep, MonitorInv
<1>1. CASE LatchWait(t)
  <2>1. At(t) = "await" /\ waiting[t] = None /\ script[t] # <<>> /\ UNCHANGED latch
    BY <1>1 DEF LatchWait, Calling, At
  <2>2. CASE latch > 0
    BY <1>0, <1>1, <2>1, <2>2, WaitKeeps DEF LatchWait
  <2>3. CASE ~(latch > 0)
    <3>1. Return(t) /\ UNCHANGED waiting
      BY <1>1, <2>3 DEF LatchWait
    <3>2. script' \in [Threads -> Seq(Alphabet')] /\ Frame(t)
      BY <1>0, <2>1, <3>1, ReturnAt DEF Frame
    <3>3. waiting' \in [Threads -> {None, "notEmpty_", "notFull_", "condition_", "cond_"}]
      BY <1>0, <3>1 DEF MonitorTypes
    <3>4. UNCHANGED <<tasks, running_, threads_, submitted, handed>>
      BY <1>0 DEF tpvars
    <3> QED
      BY <1>0, <2>1, <3>1, <3>2, <3>3, <3>4, MoveKeeps
  <2> QED
    BY <2>2, <2>3
<1> QED
  BY <1>0, <1>1, CountDownKeeps DEF LatchStep

LEMMA SpuriousKeeps ==
  ASSUME MonitorInv, NEW t \in Threads, SpuriousWakeup(t), UNCHANGED <<bqvars, maxSize, latch, tpvars>>
  PROVE  MonitorInv'
<1>0. MonitorTypes
  BY DEF MonitorInv
<1>1. /\ waiting[t] # None /\ waiting'[t] = None /\ UNCHANGED script
      /\ \A u \in Threads \ {t} : waiting'[u] = waiting[u]
      /\ waiting' \in [Threads -> {None, "notEmpty_", "notFull_", "condition_", "cond_"}]
  BY <1>0 DEF SpuriousWakeup, MonitorTypes
<1>2. Frame(t) /\ Alphabet' = Alphabet
  BY <1>1 DEF Frame, At, Alphabet
<1>3. script' \in [Threads -> Seq(Alphabet')]
  BY <1>0, <1>1, <1>2 DEF MonitorTypes
<1>4. UNCHANGED <<tasks, running_, threads_, submitted, handed>>
  BY DEF tpvars
<1> QED
  BY <1>1, <1>2, <1>3, <1>4, MoveKeeps

LEMMA MonitorInvInit == MInit => MonitorInv
<1> SUFFICES ASSUME MInit PROVE MonitorInv
  OBVIOUS
<1>1. /\ waiting = [t \in Threads |-> None] /\ queue_ = <<>> /\ puts = 0 /\ taken = <<>>
      /\ failed = FALSE /\ tasks = <<>> /\ submitted = 0 /\ handed = <<>>
  BY DEF MInit, BQInit, TPInit
<1>2. maxSize \in Nat /\ latch \in Int
  BY MonitorsAssumption DEF MInit
<1>3. script \in [Threads -> Seq(Alphabet)]
  <2>1. ASSUME NEW call \in Alphabet PROVE Many(call) \in Seq(Alphabet)
    BY <2>1, MonitorsAssumption DEF Many
  <2>2. CASE Scripts(Many("put"), Many("take")) /\ maxSize = 0
    <3>1. "put" \in Alphabet /\ "take" \in Alphabet
      BY <2>2 DEF Alphabet
    <3>2. Many("put") \in Seq(Alphabet) /\ Many("take") \in Seq(Alphabet)
      BY <2>1, <3>1
    <3> QED
      BY <2>2, <3>2 DEF Scripts
  <2>3. CASE Scripts(Many("putBounded"), Many("takeBounded")) /\ maxSize \in 1 .. MaxRoom
    <3>1. "putBounded" \in Alphabet /\ "takeBounded" \in Alphabet
      BY <2>3 DEF Alphabet
    <3>2. Many("putBounded") \in Seq(Alphabet) /\ Many("takeBounded") \in Seq(Alphabet)
      BY <2>1, <3>1
    <3> QED
      BY <2>3, <3>2 DEF Scripts
  <2>4. CASE Scripts(Many("countDown"), <<"await">>) /\ maxSize = 0
    <3>1. "countDown" \in Alphabet /\ "await" \in Alphabet
      BY <2>4 DEF Alphabet
    <3>2. Many("countDown") \in Seq(Alphabet) /\ <<"await">> \in Seq(Alphabet)
      BY <2>1, <3>1
    <3> QED
      BY <2>4, <3>2 DEF Scripts
  <2>5. ASSUME maxSize = 0, NEW workers \in {<<>>, <<"created">>},
               script = [t \in Threads |-> IF t \in Givers THEN workers
                                           ELSE IF t = Owner THEN <<"start", "run", "run", "stop">>
                                           ELSE <<"run">>]
        PROVE  script \in [Threads -> Seq(Alphabet)]
    <3>1. "created" \in Alphabet /\ "start" \in Alphabet /\ "run" \in Alphabet /\ "stop" \in Alphabet
      BY <2>5 DEF Alphabet
    <3> DEFINE owner == <<"start", "run", "run", "stop">>
    <3>2. <<>> \in Seq(Alphabet) /\ <<"created">> \in Seq(Alphabet) /\ <<"run">> \in Seq(Alphabet)
      BY <3>1
    <3>3. owner \in Seq(Alphabet)
      BY <3>1
    <3> HIDE DEF owner
    <3> QED
      BY <2>5, <3>2, <3>3, Zenon DEF owner
  <2> QED
    BY <2>2, <2>3, <2>4, <2>5 DEF MInit
<1>4. MonitorTypes
  BY <1>1, <1>2, <1>3 DEF MonitorTypes
<1>5. \A c : c # None => Waiters(c) = {}
  BY <1>1 DEF Waiters
<1>6. WaitsInCall /\ ConsumersWoken /\ ProducersWoken /\ WorkersWoken /\ LatchOpens
  BY <1>1, <1>5 DEF WaitsInCall, ConsumersWoken, ProducersWoken, WorkersWoken, LatchOpens, None
<1>7. <<>> \o <<>> = [i \in 1 .. 0 |-> i]
  OBVIOUS
<1>8. ItemsInOrder /\ TasksInOrder
  BY <1>1, <1>7 DEF ItemsInOrder, TasksInOrder
<1> QED
  BY <1>1, <1>4, <1>6, <1>8 DEF MonitorInv, QueueInv, PoolInv

LEMMA MonitorInvStep == MonitorInv /\ [MNext]_mvars => MonitorInv'
<1>1. ASSUME MonitorInv, NEW t \in Threads, Step(t) PROVE MonitorInv'
  BY <1>1, QueueStepKeeps, LatchStepKeeps, PoolStepKeeps DEF Step
<1>2. ASSUME MonitorInv, NEW t \in Threads, SpuriousWakeup(t), UNCHANGED <<bqvars, maxSize, latch, tpvars>>
      PROVE  MonitorInv'
  BY <1>2, SpuriousKeeps
<1>3. ASSUME MonitorInv, UNCHANGED mvars PROVE MonitorInv'
  <2>1. UNCHANGED <<script, waiting, queue_, puts, taken, failed, maxSize, latch, tasks, running_,
                    threads_, submitted, handed>>
    BY <1>3 DEF mvars, bqvars, tpvars
  <2>2. MonitorTypes' /\ WaitsInCall'
    BY <1>3, <2>1 DEF MonitorInv, MonitorTypes, WaitsInCall, At, Alphabet
  <2>3. QueueInv' /\ PoolInv' /\ LatchOpens'
    BY <1>3, <2>1 DEF MonitorInv, QueueInv, PoolInv, LatchOpens, ConsumersWoken, ProducersWoken,
       WorkersWoken, ItemsInOrder, TasksInOrder, Waiters, Awake, Calling
  <2> QED
    BY <2>2, <2>3 DEF MonitorInv
<1> QED
  BY <1>1, <1>2, <1>3 DEF MNext

LEMMA MonitorInvariance == MSpec => []MonitorInv
BY MonitorInvInit, MonitorInvStep, PTL DEF MSpec

-----------------------------------------------------------------------------
(* No wakeup is lost, though put() and run() notify one thread: no         *)
(* consumer sleeps on an item that nobody is on the way to, no producer on *)
(* a free place, no worker on a task or in a pool that was stopped, and    *)
(* nobody at a CountDownLatch that is open.                                *)
THEOREM NoLostNotify == MSpec => []NoneSleeps
<1>1. MonitorInv => NoneSleeps
  BY DEF MonitorInv, QueueInv, PoolInv, NoneSleeps
<1> QED
  BY <1>1, MonitorInvariance, PTL

-----------------------------------------------------------------------------
(* The rest of the types, with the bound of a BoundedBlockingQueue. *)
RoomInv ==
  /\ maxSize \in 0 .. MaxRoom /\ failed \in BOOLEAN /\ running_ \in BOOLEAN /\ threads_ \subseteq Threads
  /\ maxSize > 0 => Len(queue_) <= maxSize

LEMMA RoomInit == MInit => RoomInv
<1> SUFFICES ASSUME MInit PROVE RoomInv
  OBVIOUS
<1>1. queue_ = <<>> /\ failed = FALSE /\ running_ = FALSE /\ threads_ = {}
  BY Zenon DEF MInit, BQInit, TPInit
<1>2. failed \in BOOLEAN /\ running_ \in BOOLEAN
  BY <1>1, Zenon
<1>3. maxSize \in 0 .. MaxRoom
  BY MonitorsAssumption DEF MInit
<1> QED
  BY <1>1, <1>2, <1>3 DEF RoomInv

(* Only put() of a BoundedBlockingQueue adds to it, and it has waited for  *)
(* room: with while, for another producer may come first.                  *)
LEMMA RoomQueueStep ==
  ASSUME MonitorInv, RoomInv, NEW t \in Threads, QueueStep(t)
  PROVE  RoomInv'
<1>0. /\ maxSize \in 0 .. MaxRoom /\ failed \in BOOLEAN /\ running_ \in BOOLEAN /\ threads_ \subseteq Threads
      /\ queue_ \in Seq(Nat) /\ (maxSize > 0 => Len(queue_) <= maxSize)
  BY Zenon DEF RoomInv, MonitorInv, MonitorTypes
<1>1. maxSize' = maxSize /\ running_' = running_ /\ threads_' = threads_
  BY Zenon DEF QueueStep, PutBounded, TakeBounded, tpvars
<1>2. ASSUME Push, failed' = failed, maxSize > 0 => Len(queue_) # maxSize PROVE RoomInv'
  <2>1. Len(queue_') = Len(queue_) + 1 /\ Len(queue_) \in Nat
    BY <1>0, <1>2 DEF Push
  <2> QED
    BY <1>0, <1>1, <1>2, <2>1 DEF RoomInv
<1>3. ASSUME Pop, queue_ # <<>> PROVE RoomInv'
  <2>1. queue_' = Tail(queue_) /\ failed' = failed
    BY <1>3, Zenon DEF Pop
  <2>2. Len(queue_') = Len(queue_) - 1 /\ Len(queue_) \in Nat
    BY <1>0, <1>3, <2>1
  <2> QED
    BY <1>0, <1>1, <2>1, <2>2 DEF RoomInv
<1>4. ASSUME UNCHANGED bqvars PROVE RoomInv'
  <2>1. queue_' = queue_ /\ failed' = failed
    BY <1>4, Zenon DEF bqvars
  <2> QED
    BY <1>0, <1>1, <2>1, Zenon DEF RoomInv
<1>5. CASE Put(t)
  <2>1. "put" \in Alphabet
    <3>1. script[t] \in Seq(Alphabet) /\ script[t] # <<>> /\ Head(script[t]) = "put"
      BY <1>5, Zenon DEF Put, Calling, MonitorInv, MonitorTypes
    <3> QED
      BY <3>1
  <2>2. ~(maxSize > 0)
    BY <2>1 DEF Alphabet
  <2> QED
    BY <1>2, <1>5, <2>2, Zenon DEF Put
<1>6. CASE PutNotify(t)
  BY <1>4, <1>6, Zenon DEF PutNotify
<1>7. CASE Take(t)
  BY <1>3, <1>4, <1>7, Zenon DEF Take
<1>8. CASE PutBounded(t)
  BY <1>2, <1>4, <1>8, Zenon DEF PutBounded, Full
<1>9. CASE TakeBounded(t)
  BY <1>3, <1>4, <1>9, Zenon DEF TakeBounded
<1> QED
  BY <1>5, <1>6, <1>7, <1>8, <1>9, Zenon DEF QueueStep

LEMMA RoomStep == MonitorInv /\ RoomInv /\ [MNext]_mvars => RoomInv'
<1> SUFFICES ASSUME MonitorInv, RoomInv, [MNext]_mvars PROVE RoomInv'
  OBVIOUS
<1>0. /\ maxSize \in 0 .. MaxRoom /\ failed \in BOOLEAN /\ running_ \in BOOLEAN /\ threads_ \subseteq Threads
      /\ (maxSize > 0 => Len(queue_) <= maxSize)
  BY Zenon DEF RoomInv
<1>1. ASSUME UNCHANGED <<bqvars, maxSize>>, running_' \in BOOLEAN, threads_' \subseteq Threads PROVE RoomInv'
  <2>1. queue_' = queue_ /\ failed' = failed /\ maxSize' = maxSize
    BY <1>1, Zenon DEF bqvars
  <2> QED
    BY <1>0, <1>1, <2>1, Zenon DEF RoomInv
<1>2. ASSUME UNCHANGED <<bqvars, maxSize, tpvars>> PROVE RoomInv'
  <2>1. running_' = running_ /\ threads_' = threads_
    BY <1>2, Zenon DEF tpvars
  <2> QED
    BY <1>0, <1>1, <1>2, <2>1, Zenon
<1>3. ASSUME NEW t \in Threads, PoolStep(t) PROVE RoomInv'
  <2>1. running_' \in BOOLEAN
    BY <1>0, <1>3, Zenon DEF PoolStep, StartThread, Run, StopPool, JoinThreads, RunInThread, TakeTask,
       TaskEnds, tpvars
  <2>2. threads_' = threads_ \/ \E w \in Awake("created") : threads_' = threads_ \cup {w}
    BY <1>3, Zenon DEF PoolStep, StartThread, Run, StopPool, JoinThreads, RunInThread, TakeTask,
       TaskEnds, tpvars
  <2>3. threads_' \subseteq Threads
    BY <1>0, <2>2 DEF Awake
  <2> QED
    BY <1>1, <1>3, <2>1, <2>3, Zenon DEF PoolStep
<1>4. ASSUME NEW t \in Threads, LatchStep(t) PROVE RoomInv'
  BY <1>2, <1>4, Zenon DEF LatchStep
<1>5. ASSUME NEW t \in Threads, QueueStep(t) PROVE RoomInv'
  BY <1>5, RoomQueueStep, Zenon
<1>6. CASE UNCHANGED mvars
  BY <1>2, <1>6, Zenon DEF mvars
<1> QED
  BY <1>2, <1>3, <1>4, <1>5, <1>6, Zenon DEF MNext, Step

(* A BoundedBlockingQueue never holds more than maxSize items, however its *)
(* producers are woken, and every variable of the monitors keeps its type. *)
THEOREM RoomIsKept == MSpec => []MTypeOK
<1>1. MonitorInv /\ RoomInv => MTypeOK
  BY Zenon DEF MonitorInv, MonitorTypes, RoomInv, MTypeOK, BQTypeOK, TPTypeOK
<1> QED
  BY <1>1, RoomInit, RoomStep, MonitorInvariance, PTL DEF MSpec

(* Both queues hand over every item once and in the order of put(), take() *)
(* never finds them empty after its wait, and a ThreadPool hands its tasks *)
(* to the workers once each and in the order of run().                     *)
THEOREM OrderIsKept == MSpec => []HandedOverInOrder
<1>1. MonitorInv /\ MTypeOK => HandedOverInOrder
  BY DEF MonitorInv, QueueInv, PoolInv, HandedOverInOrder
<1> QED
  BY <1>1, MonitorInvariance, RoomIsKept, PTL
=============================================================================
