-------------------------- MODULE EventLoopProofs --------------------------
(***************************************************************************)
(* Proofs about EventLoop, for any set of functors, threads and channels,  *)
(* and about the EventLoopThread that runs such a loop.                    *)
(***************************************************************************)
EXTENDS EventLoopThread, SequenceTheorems, TLAPS

LEMMA TypeInit == Init => TypeOK
<1>1. <<>> \in Seq(Functors)
  OBVIOUS
<1>2. Init => looping_ \in BOOLEAN /\ quit_ \in BOOLEAN /\ callingPendingFunctors_ \in BOOLEAN
  BY Zenon DEF Init
<1>3. Init => ioPc \in Phases /\ wakeupFd_ \in Nat
  BY DEF Init, Phases
<1>4. QED
  BY <1>1, <1>2, <1>3, Zenon DEF Init, TypeOK

LEMMA TypeStep == TypeOK /\ [Next]_vars => TypeOK'
<1> SUFFICES ASSUME TypeOK, [Next]_vars PROVE TypeOK'
  OBVIOUS
<1> USE DEF TypeOK, Phases, flags, queue, polled
<1>1. CASE LoopEnter
  BY <1>1, Zenon DEF LoopEnter
<1>2. CASE LoopTest
  BY <1>2 DEF LoopTest
<1>3. CASE PollReturn
  BY <1>3 DEF PollReturn, Ready
<1>4. CASE PollTimeout
  BY <1>4 DEF PollTimeout
<1>5. CASE HandleRead
  BY <1>5 DEF HandleRead
<1>6. ASSUME NEW c \in Channels, HandleEvent(c) PROVE TypeOK'
  BY <1>6 DEF HandleEvent
<1>7. CASE HandlerReturn
  BY <1>7 DEF HandlerReturn
<1>8. CASE HandleDone
  BY <1>8 DEF HandleDone
<1>9. CASE SwapFunctors
  BY <1>9 DEF SwapFunctors
<1>10. CASE RunFunctor
  BY <1>10 DEF RunFunctor
<1>11. CASE FunctorReturn
  BY <1>11 DEF FunctorReturn
<1>12. CASE FunctorsDone
  BY <1>12, Zenon DEF FunctorsDone
<1>13. ASSUME NEW t \in Threads, NEW f \in Functors, QueueInLoop(t, f) PROVE TypeOK'
  BY <1>13 DEF QueueInLoop
<1>14. ASSUME NEW t \in Threads, Quit(t) PROVE TypeOK'
  BY <1>14 DEF Quit
<1>15. ASSUME NEW t \in Threads, Wakeup(t) PROVE TypeOK'
  BY <1>15 DEF Wakeup
<1>16. ASSUME NEW c \in Channels, FdReady(c) PROVE TypeOK'
  BY <1>16 DEF FdReady
<1>17. CASE UNCHANGED vars
  BY <1>17 DEF vars
<1>18. QED
  BY <1>1, <1>2, <1>3, <1>4, <1>5, <1>6, <1>7, <1>8, <1>9, <1>10, <1>11, <1>12,
     <1>13, <1>14, <1>15, <1>16, <1>17, Zenon DEF Next, LoopStep

(* Type correctness: every variable of the loop keeps its type. *)
THEOREM TypeCorrect == Spec => []TypeOK
BY TypeInit, TypeStep, PTL DEF Spec

-----------------------------------------------------------------------------
(* The wakeup argument. *)

(* callingPendingFunctors_ is TRUE exactly inside doPendingFunctors(), so  *)
(* a functor that queues a functor knows that it must wake the loop.       *)
CallingInv == callingPendingFunctors_ <=> ioPc \in {"swap", "run", "functor"}

(* From the moment the batch is taken until the eventfd is next read, a    *)
(* pending functor has its wakeup written or on the way.                   *)
WakeupInv ==
  (ioPc \in {"init", "test", "poll", "run", "functor"} /\ Range(pendingFunctors_) \ early # {})
    => (wakeupFd_ > 0 \/ waking # {})

QuitInv == (ioPc = "poll" /\ quit_) => (wakeupFd_ > 0 \/ waking # {})

WakeInv == CallingInv /\ WakeupInv /\ QuitInv

LEMMA RangeAppend ==
  ASSUME NEW S, NEW s \in Seq(S), NEW e \in S
  PROVE  Range(Append(s, e)) = Range(s) \cup {e}
<1> DEFINE a == Append(s, e)
           n == Len(s)
<1>1. /\ n \in Nat /\ DOMAIN s = 1 .. n /\ DOMAIN a = 1 .. n + 1
      /\ a[n + 1] = e /\ \A i \in 1 .. n : a[i] = s[i]
  BY LenProperties, AppendProperties
<1>2. 1 .. n + 1 = (1 .. n) \cup {n + 1}
  BY <1>1
<1> HIDE DEF a, n
<1>3. Range(a) = Range(s) \cup {e}
  BY <1>1, <1>2 DEF Range
<1>4. QED
  BY <1>3 DEF a

LEMMA RangeEmpty == Range(<<>>) = {}
BY DEF Range

LEMMA WakeInvInit == Init => WakeInv
BY RangeEmpty DEF Init, WakeInv, CallingInv, WakeupInv, QuitInv

LEMMA WakeInvStep == TypeOK /\ WakeInv /\ [Next]_vars => WakeInv'
<1> SUFFICES ASSUME TypeOK, WakeInv, [Next]_vars PROVE WakeInv'
  OBVIOUS
<1> USE DEF WakeInv, CallingInv, WakeupInv, QuitInv, flags, queue, polled
<1>1. CASE LoopEnter
  BY <1>1 DEF LoopEnter
<1>2. CASE LoopTest
  BY <1>2 DEF LoopTest
<1>3. CASE PollReturn
  BY <1>3 DEF PollReturn
<1>4. CASE PollTimeout
  BY <1>4 DEF PollTimeout
<1>5. CASE HandleRead
  BY <1>5 DEF HandleRead
<1>6. ASSUME NEW c \in Channels, HandleEvent(c) PROVE WakeInv'
  BY <1>6 DEF HandleEvent
<1>7. CASE HandlerReturn
  BY <1>7 DEF HandlerReturn
<1>8. CASE HandleDone
  BY <1>8 DEF HandleDone
<1>9. CASE SwapFunctors
  BY <1>9, RangeEmpty DEF SwapFunctors
<1>10. CASE RunFunctor
  BY <1>10 DEF RunFunctor
<1>11. CASE FunctorReturn
  BY <1>11 DEF FunctorReturn
<1>12. CASE FunctorsDone
  BY <1>12 DEF FunctorsDone
<1>13. ASSUME NEW t \in Threads, NEW f \in Functors, QueueInLoop(t, f) PROVE WakeInv'
  <2>1. Range(pendingFunctors_') = Range(pendingFunctors_) \cup {f}
    BY <1>13, RangeAppend DEF QueueInLoop, TypeOK
  <2>2. CASE t = LoopThread /\ ioPc = "init"
    BY <1>13, <2>1, <2>2 DEF QueueInLoop
  <2>3. CASE NeedsWakeup(t)
    BY <1>13, <2>3 DEF QueueInLoop
  <2>4. CASE t = LoopThread /\ ioPc = "handler"
    BY <1>13, <2>4 DEF QueueInLoop
  <2>5. QED
    BY <1>13, <2>2, <2>3, <2>4 DEF QueueInLoop, MayCall, NeedsWakeup
<1>14. ASSUME NEW t \in Threads, Quit(t) PROVE WakeInv'
  BY <1>14 DEF Quit, MayCall
<1>15. ASSUME NEW t \in Threads, Wakeup(t) PROVE WakeInv'
  BY <1>15 DEF Wakeup, TypeOK
<1>16. ASSUME NEW c \in Channels, FdReady(c) PROVE WakeInv'
  BY <1>16 DEF FdReady
<1>17. CASE UNCHANGED vars
  BY <1>17 DEF vars
<1>18. QED
  BY <1>1, <1>2, <1>3, <1>4, <1>5, <1>6, <1>7, <1>8, <1>9, <1>10, <1>11, <1>12,
     <1>13, <1>14, <1>15, <1>16, <1>17, Zenon DEF Next, LoopStep

(* queueInLoop() never leaves a functor behind a sleeping loop. *)
THEOREM WakeupNeverLost == Spec => []NoLostWakeup
<1>1. WakeInv => NoLostWakeup
  BY DEF WakeInv, WakeupInv, NoLostWakeup
<1>2. QED
  BY TypeCorrect, WakeInvInit, WakeInvStep, <1>1, PTL DEF Spec

(* quit() from another thread never leaves the loop asleep in poll(). *)
THEOREM QuitNeverLost == Spec => []NoLostQuit
<1>1. WakeInv => NoLostQuit
  BY DEF WakeInv, QuitInv, NoLostQuit
<1>2. QED
  BY TypeCorrect, WakeInvInit, WakeInvStep, <1>1, PTL DEF Spec
-----------------------------------------------------------------------------
(* The functor queue. *)

(* Outside doPendingFunctors() there is no batch, so the swap loses none. *)
BatchInv == ioPc \notin {"run", "functor"} => functors = <<>>

QueueInv == BatchInv /\ FunctorsConserved

LEMMA ConcatAppend ==
  ASSUME NEW S, NEW s \in Seq(S), NEW t \in Seq(S), NEW e \in S
  PROVE  s \o Append(t, e) = Append(s \o t, e)
OBVIOUS

LEMMA AppendHeadTail ==
  ASSUME NEW S, NEW s \in Seq(S), NEW t \in Seq(S), t # <<>>
  PROVE  Append(s, Head(t)) \o Tail(t) = s \o t
<1>1. /\ Head(t) \in S /\ Tail(t) \in Seq(S)
      /\ Len(Tail(t)) = Len(t) - 1
      /\ \A i \in 1 .. Len(Tail(t)) : Tail(t)[i] = t[i + 1]
  BY HeadTailProperties
<1>2. Append(s, Head(t)) \in Seq(S) /\ Len(Append(s, Head(t))) = Len(s) + 1
  BY <1>1, AppendProperties
<1>3. Append(s, Head(t)) \o Tail(t) \in Seq(S) /\ s \o t \in Seq(S)
  BY <1>1, <1>2, ConcatProperties
<1>4. Len(Append(s, Head(t)) \o Tail(t)) = Len(s \o t)
  BY <1>1, <1>2, ConcatProperties
<1>5. ASSUME NEW i \in 1 .. Len(s \o t)
      PROVE  (Append(s, Head(t)) \o Tail(t))[i] = (s \o t)[i]
  BY <1>1, <1>2, ConcatProperties, AppendProperties
<1>6. QED
  BY <1>3, <1>4, <1>5, SeqEqual

LEMMA QueueInvInit == Init => QueueInv
BY DEF Init, QueueInv, BatchInv, FunctorsConserved

LEMMA QueueInvStep == TypeOK /\ QueueInv /\ [Next]_vars => QueueInv'
<1> SUFFICES ASSUME TypeOK, QueueInv, [Next]_vars PROVE QueueInv'
  OBVIOUS
<1> USE DEF QueueInv, BatchInv, FunctorsConserved, flags, queue, polled
<1>1. CASE LoopEnter
  BY <1>1 DEF LoopEnter
<1>2. CASE LoopTest
  BY <1>2 DEF LoopTest
<1>3. CASE PollReturn
  BY <1>3 DEF PollReturn
<1>4. CASE PollTimeout
  BY <1>4 DEF PollTimeout
<1>5. CASE HandleRead
  BY <1>5 DEF HandleRead
<1>6. ASSUME NEW c \in Channels, HandleEvent(c) PROVE QueueInv'
  BY <1>6 DEF HandleEvent
<1>7. CASE HandlerReturn
  BY <1>7 DEF HandlerReturn
<1>8. CASE HandleDone
  BY <1>8 DEF HandleDone
<1>9. CASE SwapFunctors
  <2>1. functors = <<>> /\ functors' = pendingFunctors_ /\ pendingFunctors_' = <<>>
        /\ ran' = ran /\ queued' = queued /\ ioPc' = "run"
    BY <1>9 DEF SwapFunctors
  <2>2. ran \o <<>> = ran
        /\ (ran \o pendingFunctors_) \o <<>> = ran \o pendingFunctors_
    BY ConcatProperties, ConcatEmptySeq DEF TypeOK
  <2>3. queued' = ran' \o functors' \o pendingFunctors_'
    BY <2>1, <2>2
  <2>4. QED
    BY <2>1, <2>3
<1>10. CASE RunFunctor
  <2>1. ran' \o functors' = ran \o functors
    BY <1>10, AppendHeadTail DEF RunFunctor, TypeOK
  <2>2. QED
    BY <1>10, <2>1 DEF RunFunctor
<1>11. CASE FunctorReturn
  BY <1>11 DEF FunctorReturn
<1>12. CASE FunctorsDone
  BY <1>12 DEF FunctorsDone
<1>13. ASSUME NEW t \in Threads, NEW f \in Functors, QueueInLoop(t, f) PROVE QueueInv'
  <2>1. (ran \o functors) \o Append(pendingFunctors_, f)
          = Append((ran \o functors) \o pendingFunctors_, f)
    BY ConcatAppend, ConcatProperties DEF TypeOK
  <2>2. QED
    BY <1>13, <2>1 DEF QueueInLoop
<1>14. ASSUME NEW t \in Threads, Quit(t) PROVE QueueInv'
  BY <1>14 DEF Quit
<1>15. ASSUME NEW t \in Threads, Wakeup(t) PROVE QueueInv'
  BY <1>15 DEF Wakeup
<1>16. ASSUME NEW c \in Channels, FdReady(c) PROVE QueueInv'
  BY <1>16 DEF FdReady
<1>17. CASE UNCHANGED vars
  BY <1>17 DEF vars
<1>18. QED
  BY <1>1, <1>2, <1>3, <1>4, <1>5, <1>6, <1>7, <1>8, <1>9, <1>10, <1>11, <1>12,
     <1>13, <1>14, <1>15, <1>16, <1>17, Zenon DEF Next, LoopStep

(* No functor is lost, duplicated or reordered by doPendingFunctors(). *)
THEOREM FunctorsNeverLost == Spec => []FunctorsConserved
<1>1. QueueInv => FunctorsConserved
  BY DEF QueueInv
<1>2. QED
  BY TypeCorrect, QueueInvInit, QueueInvStep, <1>1, PTL DEF Spec
(* Every step of the loop is a step of the functor queue it promises, or   *)
(* leaves that queue alone.                                                *)
LEMMA QueueStepRefined ==
  TypeOK /\ QueueInv /\ [Next]_vars => [Promise!QNext]_(Promise!qvars)
<1> SUFFICES ASSUME TypeOK, QueueInv, [Next]_vars PROVE [Promise!QNext]_(Promise!qvars)
  OBVIOUS
<1> DEFINE backlog == functors \o pendingFunctors_
           stopped == ioPc = "done"
<1> USE DEF flags, queue, polled
<1>0. backlog \in Seq(Functors)
  BY ConcatProperties DEF TypeOK
<1>1. ASSUME functors' = functors, pendingFunctors_' = pendingFunctors_, ran' = ran,
             (ioPc' = "done") = (ioPc = "done")
      PROVE  UNCHANGED Promise!qvars
  BY <1>1 DEF Promise!qvars
<1>2. CASE LoopTest
  <2>1. CASE quit_
    <3>1. Promise!Stop
      BY <1>2, <2>1 DEF LoopTest, Promise!Stop
    <3>2. QED
      BY <3>1 DEF Promise!QNext
  <2>2. CASE ~quit_
    BY <1>1, <1>2, <2>2 DEF LoopTest
  <2>3. QED
    BY <2>1, <2>2
<1>3. CASE SwapFunctors
  <2>1. functors = <<>> /\ <<>> \o pendingFunctors_ = pendingFunctors_
        /\ pendingFunctors_ \o <<>> = pendingFunctors_
    BY <1>3, ConcatEmptySeq DEF SwapFunctors, QueueInv, BatchInv, TypeOK
  <2>2. backlog' = backlog /\ ran' = ran /\ (ioPc' = "done") = (ioPc = "done")
    BY <1>3, <2>1 DEF SwapFunctors
  <2>3. QED
    BY <2>2 DEF Promise!qvars
<1>4. CASE RunFunctor
  <2>1. /\ functors # <<>> /\ functors' = Tail(functors) /\ pendingFunctors_' = pendingFunctors_
        /\ ran' = Append(ran, Head(functors)) /\ ~stopped /\ ~stopped'
    BY <1>4 DEF RunFunctor
  <2>2. backlog # <<>> /\ Head(backlog) = Head(functors)
        /\ Tail(backlog) = Tail(functors) \o pendingFunctors_
    <3>1. Len(functors) > 0 /\ Len(backlog) = Len(functors) + Len(pendingFunctors_)
      BY <2>1, ConcatProperties, EmptySeq DEF TypeOK
    <3>2. backlog # <<>> /\ Head(backlog) = Head(functors)
      BY <2>1, <3>1, ConcatProperties DEF TypeOK
    <3>3. /\ Tail(functors) \o pendingFunctors_ \in Seq(Functors)
          /\ Tail(backlog) \in Seq(Functors)
          /\ Len(Tail(backlog)) = Len(Tail(functors) \o pendingFunctors_)
      BY <1>0, <2>1, <3>1, <3>2, HeadTailProperties, ConcatProperties DEF TypeOK
    <3>4. ASSUME NEW i \in 1 .. Len(Tail(backlog))
          PROVE  Tail(backlog)[i] = (Tail(functors) \o pendingFunctors_)[i]
      BY <1>0, <2>1, <3>1, <3>2, <3>3, HeadTailProperties, ConcatProperties DEF TypeOK
    <3>5. QED
      BY <3>2, <3>3, <3>4, SeqEqual
  <2>3. Promise!CallNext
    BY <2>1, <2>2 DEF Promise!CallNext
  <2>4. QED
    BY <2>3 DEF Promise!QNext
<1>5. ASSUME NEW t \in Threads, NEW f \in Functors, QueueInLoop(t, f)
      PROVE  [Promise!QNext]_(Promise!qvars)
  <2>1. backlog' = Append(backlog, f)
    BY <1>5, ConcatAppend DEF QueueInLoop, TypeOK
  <2>2. Range(queued) = Range(backlog) \cup Range(ran)
    <3>1. queued = ran \o backlog
      BY ConcatAssociative DEF QueueInv, FunctorsConserved, TypeOK
    <3>2. Range(ran \o backlog) = Range(ran) \cup Range(backlog)
      <4>1. ran \in Seq(Functors)
        BY DEF TypeOK
      <4> HIDE DEF backlog
      <4>2. QED
        BY <1>0, <4>1, RangeConcatenation
    <3>3. QED
      BY <3>1, <3>2, Zenon
  <2>3. Promise!Submit(f)
    <3>1. f \notin Promise!Range(backlog) \cup Promise!Range(ran)
      BY <1>5, <2>2, Zenon DEF QueueInLoop, Range, Promise!Range
    <3>2. QED
      BY <1>5, <2>1, <3>1 DEF QueueInLoop, Promise!Submit
  <2>4. QED
    BY <2>3 DEF Promise!QNext
<1>6. CASE LoopEnter \/ PollReturn \/ PollTimeout \/ HandleRead \/ HandlerReturn
           \/ HandleDone \/ FunctorReturn \/ FunctorsDone
  BY <1>1, <1>6 DEF LoopEnter, PollReturn, PollTimeout, HandleRead, HandlerReturn,
                    HandleDone, FunctorReturn, FunctorsDone
<1>7. ASSUME NEW c \in Channels, HandleEvent(c) \/ FdReady(c)
      PROVE  [Promise!QNext]_(Promise!qvars)
  BY <1>1, <1>7 DEF HandleEvent, FdReady
<1>8. ASSUME NEW t \in Threads, Quit(t) \/ Wakeup(t)
      PROVE  [Promise!QNext]_(Promise!qvars)
  BY <1>1, <1>8 DEF Quit, Wakeup
<1>9. CASE UNCHANGED vars
  BY <1>1, <1>9 DEF vars
<1>10. QED
  BY <1>2, <1>3, <1>4, <1>5, <1>6, <1>7, <1>8, <1>9 DEF Next, LoopStep

(* The loop implements the functor queue: in order, exactly once, one at a *)
(* time, and none after loop() returned.                                   *)
THEOREM LoopImplementsQueue == Spec => Promise!QSafety
<1>1. Init => Promise!QInit
  BY DEF Init, Promise!QInit
<1>2. QED
  BY <1>1, TypeCorrect, QueueInvInit, QueueInvStep, QueueStepRefined, PTL
     DEF Spec, Promise!QSafety

-----------------------------------------------------------------------------
(* EventLoopThread. *)

(* Before the destructor runs nobody asks the loop to quit, so that it     *)
(* cannot be gone; and loop_ is published by a thread whose loop exists.   *)
HandshakeInv ==
  /\ ownerPc \in {"new", "check", "wait", "started"} =>
       ~quit_ /\ ioPc # "done" /\ threadPc # "exited"
  /\ ownerPc = "new" => threadPc = "none"
  /\ ownerPc = "started" => loop_
  /\ loop_ => threadPc \in {"loop", "exited"}
  /\ threadPc \in {"publish", "loop"} => alive

(* A step of the EventLoopThread is a step of its loop, leaves the loop    *)
(* alone, or is one of the two halves of the destructor's quit().          *)
LEMMA ThreadStepOfLoop ==
  ASSUME ThreadNext \/ UNCHANGED allVars
  PROVE  [Next]_vars \/ DtorQuit \/ DtorWakeup
<1>1. LoopThread \in Threads /\ Owner \in Threads
  BY OwnerAssumption DEF Threads
<1>2. CASE ThreadStep
  BY <1>2, Zenon DEF ThreadStep, ThreadBegin, ThreadCallbackDone, ThreadPublish, ThreadExit
<1>3. CASE ThreadLoop \/ ThreadTimeout \/ OwnerCalls
  BY <1>1, <1>3, Zenon DEF ThreadLoop, ThreadTimeout, OwnerCalls, Next
<1>4. CASE OwnerStep \/ SpuriousWakeup
  BY <1>4, Zenon DEF OwnerStep, StartLoop, StartCheck, DtorUnstarted, DtorJoin, SpuriousWakeup
<1>5. CASE (\E c \in Channels : FdReady(c)) /\ UNCHANGED ownVars
  BY <1>5, Zenon DEF Next
<1>6. CASE UNCHANGED allVars
  BY <1>6, Zenon DEF allVars
<1> QED
  BY <1>2, <1>3, <1>4, <1>5, <1>6, Zenon DEF ThreadNext

LEMMA ThreadTypeStep ==
  ASSUME ThreadTypeOK, ThreadNext \/ UNCHANGED allVars
  PROVE  ThreadTypeOK'
<1>1. TypeOK'
  <2>1. TypeOK
    BY Zenon DEF ThreadTypeOK
  <2>2. CASE [Next]_vars
    BY <2>1, <2>2, TypeStep, Zenon
  <2>3. CASE DtorQuit
    BY <2>1, <2>3, Zenon DEF TypeOK, DtorQuit, queue, polled
  <2>4. CASE DtorWakeup
    <3>1. wakeupFd_' \in Nat
      BY <2>1, <2>4 DEF TypeOK, DtorWakeup
    <3> QED
      BY <2>1, <2>4, <3>1, Zenon DEF TypeOK, DtorWakeup, flags, queue, polled
  <2> QED
    BY <2>2, <2>3, <2>4, ThreadStepOfLoop, Zenon
<1>2. CASE UNCHANGED ownVars
  BY <1>1, <1>2, Zenon DEF ownVars, ThreadTypeOK
<1>3. CASE ThreadStep
  BY <1>1, <1>3, Zenon
     DEF ThreadTypeOK, ThreadStep, ThreadBegin, ThreadCallbackDone, ThreadPublish, ThreadExit
<1>4. CASE OwnerStep \/ SpuriousWakeup
  BY <1>1, <1>4, Zenon
     DEF ThreadTypeOK, OwnerStep, StartLoop, StartCheck, DtorUnstarted, DtorQuit, DtorWakeup, DtorJoin,
         SpuriousWakeup
<1> QED
  BY <1>2, <1>3, <1>4, Zenon DEF ThreadNext, ThreadLoop, ThreadTimeout, OwnerCalls, allVars

LEMMA HandshakeStep ==
  ASSUME ThreadTypeOK, HandshakeInv, ThreadNext \/ UNCHANGED allVars
  PROVE  HandshakeInv'
<1>1. CASE UNCHANGED ownVars
  <2>1. (~quit_ /\ ioPc # "done") => (~quit_' /\ ioPc' # "done")
    <3>1. CASE LoopStep
      BY <3>1 DEF LoopStep, LoopEnter, LoopTest, PollReturn, HandleRead, HandleEvent, HandlerReturn,
                  HandleDone, SwapFunctors, RunFunctor, FunctorReturn, FunctorsDone, flags
    <3>2. ASSUME NEW t, NEW f, QueueInLoop(t, f) \/ Wakeup(t)
          PROVE  UNCHANGED <<ioPc, quit_>>
      BY <3>2 DEF QueueInLoop, Wakeup, flags
    <3>3. CASE PollTimeout
      BY <3>3 DEF PollTimeout, flags
    <3>4. CASE \E c \in Channels : FdReady(c)
      BY <3>4 DEF FdReady, flags
    <3>5. CASE UNCHANGED vars
      BY <3>5 DEF vars, flags
    <3>6. CASE ThreadStep \/ OwnerStep \/ SpuriousWakeup
      <4>1. ~DtorQuit /\ ~DtorWakeup
        BY <1>1 DEF DtorQuit, DtorWakeup, ownVars
      <4>2. UNCHANGED vars
        BY <3>6, <4>1, Zenon DEF ThreadStep, ThreadBegin, ThreadCallbackDone, ThreadPublish, ThreadExit,
           OwnerStep, StartLoop, StartCheck, DtorUnstarted, DtorJoin, SpuriousWakeup
      <4> QED
        BY <3>5, <4>2, Zenon
    <3> QED
      BY <3>1, <3>2, <3>3, <3>4, <3>5, <3>6, Zenon
         DEF ThreadNext, ThreadLoop, ThreadTimeout, OwnerCalls, allVars
  <2> QED
    BY <1>1, <2>1, Zenon DEF HandshakeInv, ownVars
<1>2. CASE ThreadStep
  BY <1>2 DEF HandshakeInv, ThreadTypeOK, ThreadStep, ThreadBegin, ThreadCallbackDone, ThreadPublish,
              ThreadExit, vars, flags
<1>3. CASE StartLoop
  BY <1>3 DEF HandshakeInv, StartLoop, vars, flags
<1>4. CASE StartCheck
  <2>1. /\ ownerPc = "check" /\ ownerPc' = IF loop_ THEN "started" ELSE "wait"
        /\ UNCHANGED <<quit_, ioPc, threadPc, loop_, alive>>
    BY <1>4 DEF StartCheck, vars, flags
  <2>2. (ownerPc' = "started" /\ loop_) \/ ownerPc' = "wait"
    BY <2>1, Zenon
  <2> QED
    BY <2>1, <2>2 DEF HandshakeInv
<1>5. CASE DtorUnstarted \/ DtorQuit \/ DtorWakeup \/ DtorJoin
  BY <1>5 DEF HandshakeInv, DtorUnstarted, DtorQuit, DtorWakeup, DtorJoin
<1>6. CASE SpuriousWakeup
  BY <1>6 DEF HandshakeInv, SpuriousWakeup, vars, flags
<1> QED
  BY <1>1, <1>2, <1>3, <1>4, <1>5, <1>6, Zenon DEF ThreadNext, OwnerStep, ThreadLoop, ThreadTimeout, OwnerCalls, allVars

(* However the two threads interleave, startLoop() returns the address of  *)
(* a loop that exists and whose thread has passed the init callback, and   *)
(* that loop stays until the destructor of the EventLoopThread.            *)
THEOREM StartedLoopExists == ThreadSpec => []StartedLoopUsable
<1>1. ThreadInit => ThreadTypeOK /\ HandshakeInv
  <2> SUFFICES ASSUME ThreadInit PROVE ThreadTypeOK /\ HandshakeInv
    OBVIOUS
  <2>1. TypeOK
    BY TypeInit, Zenon DEF ThreadInit
  <2> QED
    BY <2>1, Zenon DEF ThreadInit, Init, ThreadTypeOK, HandshakeInv
<1>2. ThreadTypeOK /\ HandshakeInv /\ [ThreadNext]_allVars => ThreadTypeOK' /\ HandshakeInv'
  BY ThreadTypeStep, HandshakeStep, Zenon
<1>3. ThreadTypeOK /\ HandshakeInv => StartedLoopUsable
  BY DEF HandshakeInv, StartedLoopUsable
<1> QED
  BY <1>1, <1>2, <1>3, PTL DEF ThreadSpec

(* A loop run by an EventLoopThread keeps its functors, too: none is lost, *)
(* duplicated or reordered by the handshake or by the destructor.          *)
THEOREM ThreadKeepsFunctors == ThreadSpec => []FunctorsConserved
<1>1. ThreadInit => TypeOK /\ QueueInv
  BY TypeInit, QueueInvInit, Zenon DEF ThreadInit
<1>2. ASSUME TypeOK, QueueInv, [ThreadNext]_allVars
      PROVE  TypeOK' /\ QueueInv'
  <2>1. CASE [Next]_vars
    BY <1>2, <2>1, TypeStep, QueueInvStep, Zenon
  <2>2. CASE DtorQuit \/ DtorWakeup
    <3>1. wakeupFd_' \in Nat /\ quit_' \in BOOLEAN
      <4>1. wakeupFd_ \in Nat /\ quit_ \in BOOLEAN
        BY <1>2, Zenon DEF TypeOK
      <4>2. wakeupFd_' = wakeupFd_ \/ wakeupFd_' = wakeupFd_ + 1
        BY <2>2, Zenon DEF DtorQuit, DtorWakeup
      <4>3. quit_' = quit_ \/ quit_' = TRUE
        BY <2>2, Zenon DEF DtorQuit, DtorWakeup, flags
      <4>4. wakeupFd_' \in Nat
        BY <4>1, <4>2
      <4> QED
        BY <4>1, <4>3, <4>4, Zenon
    <3>2. UNCHANGED <<ioPc, looping_, callingPendingFunctors_, queue, polled, waking>>
      BY <2>2 DEF DtorQuit, DtorWakeup, flags
    <3>3. TypeOK'
      BY <1>2, <3>1, <3>2, Zenon DEF TypeOK, queue, polled
    <3> QED
      BY <1>2, <3>2, <3>3, Zenon DEF QueueInv, BatchInv, FunctorsConserved, queue
  <2> QED
    BY <1>2, <2>1, <2>2, ThreadStepOfLoop, Zenon
<1>3. TypeOK /\ QueueInv => FunctorsConserved
  BY DEF QueueInv
<1> QED
  BY <1>1, <1>2, <1>3, PTL DEF ThreadSpec
=============================================================================
