------------------------------ MODULE EventLoop ------------------------------
(***************************************************************************)
(* muduo::net::EventLoop: the loop thread alternates between poll(), the   *)
(* handlers of the active channels and the functors other threads (or its  *)
(* own callbacks) handed to it.  pendingFunctors_ is shared under mutex_;  *)
(* quit_ is shared without a lock; the eventfd behind wakeupFd_ is what    *)
(* gets the loop thread out of poll().                                     *)
(*                                                                         *)
(* Handlers and functors are user code: while one runs, the loop thread    *)
(* may call queueInLoop() and quit() any number of times and then returns. *)
(* runInLoop() in the loop thread is a plain call, so it adds no behaviour *)
(* to the callback that makes it; in another thread it is queueInLoop().   *)
(***************************************************************************)
EXTENDS Naturals, Sequences, Functions

CONSTANTS
  Functors,       \* one value for every functor ever handed to the loop
  Callers,        \* the threads other than the loop's own
  LoopThread,     \* the thread the loop was created in (threadId_)
  Channels,       \* the channels of the loop, wakeupChannel_ apart
  wakeupChannel_

ASSUME EventLoopAssumption ==
  /\ LoopThread \notin Callers
  /\ wakeupChannel_ \notin Channels

Threads == Callers \cup {LoopThread}

VARIABLES
  ioPc,                    \* where the loop thread is in loop()
  looping_, quit_, callingPendingFunctors_,
  pendingFunctors_,        \* guarded by mutex_
  functors,                \* the batch doPendingFunctors() swapped out
  activeChannels_,         \* the active channels not yet handled
  wakeupFd_,               \* the counter of the eventfd
  waking,                  \* threads that stored their request, wakeup() still to come
  readyFds,                \* the kernel's view: channels with an event
  queued, ran, early       \* history: pushed, called, pushed by the loop thread before loop()

flags == <<looping_, quit_, callingPendingFunctors_>>
queue == <<pendingFunctors_, functors, queued, ran, early>>
polled == <<activeChannels_, readyFds>>
vars == <<ioPc, flags, queue, polled, wakeupFd_, waking>>

Phases == {"init", "test", "poll", "handle", "handler", "swap", "run", "functor", "done"}

TypeOK ==
  /\ ioPc \in Phases
  /\ looping_ \in BOOLEAN /\ quit_ \in BOOLEAN /\ callingPendingFunctors_ \in BOOLEAN
  /\ pendingFunctors_ \in Seq(Functors) /\ functors \in Seq(Functors)
  /\ activeChannels_ \subseteq Channels \cup {wakeupChannel_}
  /\ wakeupFd_ \in Nat
  /\ waking \subseteq Threads
  /\ readyFds \subseteq Channels
  /\ queued \in Seq(Functors) /\ ran \in Seq(Functors) /\ early \subseteq Functors

(***************************************************************************)
(* The constructor: nothing is pending, the eventfd is 0 and its channel   *)
(* is registered for reading.                                              *)
(***************************************************************************)
Init ==
  /\ ioPc = "init"
  /\ looping_ = FALSE /\ quit_ = FALSE /\ callingPendingFunctors_ = FALSE
  /\ pendingFunctors_ = <<>> /\ functors = <<>>
  /\ activeChannels_ = {} /\ readyFds = {}
  /\ wakeupFd_ = 0
  /\ waking = {}
  /\ queued = <<>> /\ ran = <<>> /\ early = {}

-----------------------------------------------------------------------------
(* Operations any thread may call.                                         *)

(* A thread outside its previous call; the loop thread only calls from     *)
(* user code: before loop(), in a handler or in a functor.                 *)
MayCall(t) ==
  /\ t \notin waking
  /\ t = LoopThread => ioPc \in {"init", "handler", "functor"}

(* A bug that forgets that a functor may itself queue a functor. *)
NeedsWakeup_OnlyOtherThreads(t) == t # LoopThread

(* isInLoopThread() is t = LoopThread. *)
NeedsWakeup(t) == t # LoopThread \/ callingPendingFunctors_

(* queueInLoop(f): push under mutex_, then wakeup() if needed.  Every      *)
(* functor is pushed once: a second push of the same callback is another   *)
(* member of Functors.                                                     *)
QueueInLoop(t, f) ==
  /\ MayCall(t)
  /\ f \notin Range(queued)
  /\ pendingFunctors_' = Append(pendingFunctors_, f)
  /\ queued' = Append(queued, f)
  /\ early' = IF t = LoopThread /\ ioPc = "init" THEN early \cup {f} ELSE early
  /\ waking' = IF NeedsWakeup(t) THEN waking \cup {t} ELSE waking
  /\ UNCHANGED <<ioPc, flags, functors, ran, polled, wakeupFd_>>

(* A bug: quit() that only sets the flag. *)
Quit_NoWakeup(t) ==
  /\ MayCall(t)
  /\ ~quit_
  /\ quit_' = TRUE
  /\ UNCHANGED <<ioPc, looping_, callingPendingFunctors_, queue, polled, wakeupFd_, waking>>

(* quit(): from another thread the loop thread must also be woken.  A      *)
(* repeated quit() rewrites TRUE: the model leaves it out.                 *)
Quit(t) ==
  /\ MayCall(t)
  /\ ~quit_
  /\ quit_' = TRUE
  /\ waking' = IF t # LoopThread THEN waking \cup {t} ELSE waking
  /\ UNCHANGED <<ioPc, looping_, callingPendingFunctors_, queue, polled, wakeupFd_>>

(* wakeup(): write 1 to the eventfd. *)
Wakeup(t) ==
  /\ t \in waking
  /\ wakeupFd_' = wakeupFd_ + 1
  /\ waking' = waking \ {t}
  /\ UNCHANGED <<ioPc, flags, queue, polled>>

-----------------------------------------------------------------------------
(* The loop thread.                                                        *)

(* loop() is entered: note that it clears quit_. *)
LoopEnter ==
  /\ ioPc = "init"
  /\ LoopThread \notin waking
  /\ looping_' = TRUE
  /\ quit_' = FALSE
  /\ ioPc' = "test"
  /\ UNCHANGED <<callingPendingFunctors_, queue, polled, wakeupFd_, waking>>

(* while (!quit_) *)
LoopTest ==
  /\ ioPc = "test"
  /\ ioPc' = IF quit_ THEN "done" ELSE "poll"
  /\ looping_' = (looping_ /\ ~quit_)
  /\ UNCHANGED <<quit_, callingPendingFunctors_, queue, polled, wakeupFd_, waking>>

(* What the poller would report now. *)
Ready == readyFds \cup (IF wakeupFd_ > 0 THEN {wakeupChannel_} ELSE {})

(* poll() returns with the channels that are ready ... *)
PollReturn ==
  /\ ioPc = "poll"
  /\ Ready # {}
  /\ activeChannels_' = Ready
  /\ ioPc' = "handle"
  /\ UNCHANGED <<flags, queue, readyFds, wakeupFd_, waking>>

(* ... or with none, after kPollTimeMs or when a signal interrupts it. *)
PollTimeout ==
  /\ ioPc = "poll"
  /\ Ready = {}
  /\ activeChannels_' = {}
  /\ ioPc' = "handle"
  /\ UNCHANGED <<flags, queue, readyFds, wakeupFd_, waking>>

(* The wakeup channel's read callback, EventLoop::handleRead(): reading an *)
(* eventfd resets it to 0.                                                 *)
HandleRead ==
  /\ ioPc = "handle"
  /\ wakeupChannel_ \in activeChannels_
  /\ activeChannels_' = activeChannels_ \ {wakeupChannel_}
  /\ wakeupFd_' = 0
  /\ UNCHANGED <<ioPc, flags, queue, readyFds, waking>>

(* The handler of any other active channel starts, consumes the event ...  *)
HandleEvent(c) ==
  /\ ioPc = "handle"
  /\ c \in activeChannels_ \cap Channels
  /\ activeChannels_' = activeChannels_ \ {c}
  /\ readyFds' = readyFds \ {c}
  /\ ioPc' = "handler"
  /\ UNCHANGED <<flags, queue, wakeupFd_, waking>>

(* ... and returns. *)
HandlerReturn ==
  /\ ioPc = "handler"
  /\ LoopThread \notin waking
  /\ ioPc' = "handle"
  /\ UNCHANGED <<flags, queue, polled, wakeupFd_, waking>>

(* All channels are handled: doPendingFunctors() begins. *)
HandleDone ==
  /\ ioPc = "handle"
  /\ activeChannels_ = {}
  /\ callingPendingFunctors_' = TRUE
  /\ ioPc' = "swap"
  /\ UNCHANGED <<looping_, quit_, queue, polled, wakeupFd_, waking>>

(* A bug: the batch is copied out of the queue and the queue cleared only  *)
(* after the functors ran.                                                 *)
SwapFunctors_Copy ==
  /\ ioPc = "swap"
  /\ functors' = pendingFunctors_
  /\ ioPc' = "run"
  /\ UNCHANGED <<flags, pendingFunctors_, queued, ran, early, polled, wakeupFd_, waking>>

(* functors.swap(pendingFunctors_), under mutex_. *)
SwapFunctors ==
  /\ ioPc = "swap"
  /\ functors' = pendingFunctors_
  /\ pendingFunctors_' = <<>>
  /\ ioPc' = "run"
  /\ UNCHANGED <<flags, queued, ran, early, polled, wakeupFd_, waking>>

(* functors[i]() is called ... *)
RunFunctor ==
  /\ ioPc = "run"
  /\ functors # <<>>
  /\ functors' = Tail(functors)
  /\ ran' = Append(ran, Head(functors))
  /\ ioPc' = "functor"
  /\ UNCHANGED <<flags, pendingFunctors_, queued, early, polled, wakeupFd_, waking>>

(* ... and returns. *)
FunctorReturn ==
  /\ ioPc = "functor"
  /\ LoopThread \notin waking
  /\ ioPc' = "run"
  /\ UNCHANGED <<flags, queue, polled, wakeupFd_, waking>>

FunctorsDone ==
  /\ ioPc = "run"
  /\ functors = <<>>
  /\ callingPendingFunctors_' = FALSE
  /\ ioPc' = "test"
  /\ UNCHANGED <<looping_, quit_, queue, polled, wakeupFd_, waking>>

(* The environment: a file descriptor of the loop becomes ready. *)
FdReady(c) ==
  /\ c \notin readyFds
  /\ readyFds' = readyFds \cup {c}
  /\ UNCHANGED <<ioPc, flags, queue, activeChannels_, wakeupFd_, waking>>

-----------------------------------------------------------------------------
(* What the loop thread does by itself, the poll timeout apart. *)
LoopStep ==
  \/ LoopEnter \/ LoopTest
  \/ PollReturn \/ HandleRead \/ (\E c \in Channels : HandleEvent(c)) \/ HandlerReturn
  \/ HandleDone \/ SwapFunctors \/ RunFunctor \/ FunctorReturn \/ FunctorsDone

Next ==
  \/ LoopStep
  \/ PollTimeout
  \/ \E t \in Threads :
       \/ \E f \in Functors : QueueInLoop(t, f)
       \/ Quit(t)
       \/ Wakeup(t)
  \/ \E c \in Channels : FdReady(c)

Spec == Init /\ [][Next]_vars

(***************************************************************************)
(* Threads are scheduled and callbacks return.  The poll timeout is NOT    *)
(* assumed: what follows from PromptSpec does not wait the 10 seconds of   *)
(* kPollTimeMs.                                                            *)
(***************************************************************************)
PromptSpec == Spec /\ WF_vars(LoopStep) /\ \A t \in Threads : WF_vars(Wakeup(t))

-----------------------------------------------------------------------------
(* Properties.                                                             *)

(* queueInLoop() from another thread or from a functor never leaves its    *)
(* functor behind a sleeping loop: whenever the loop thread is in poll()   *)
(* with such a functor pending, the eventfd is readable or the thread that *)
(* will make it readable is on its way.                                    *)
NoLostWakeup ==
  (ioPc = "poll" /\ Range(pendingFunctors_) \ early # {}) => (wakeupFd_ > 0 \/ waking # {})

(* The same for quit(): once quit_ is set while the loop thread is in      *)
(* poll(), it is or will be woken.                                         *)
NoLostQuit ==
  (ioPc = "poll" /\ quit_) => (wakeupFd_ > 0 \/ waking # {})

(* No functor is lost, duplicated or reordered between queueInLoop() and   *)
(* the calls of doPendingFunctors(), whatever is pushed while a batch runs.*)
FunctorsConserved == queued = ran \o functors \o pendingFunctors_

Promise == INSTANCE FunctorQueue
             WITH backlog <- functors \o pendingFunctors_,
                  called <- ran,
                  stopped <- (ioPc = "done")

(* The loop keeps serving.  The functors called in one iteration are the   *)
(* ones that were pending when the batch was taken, so that a functor that *)
(* queues functors cannot keep the loop from its next poll() (the reason   *)
(* the code gives for not draining the queue until it is empty); a functor *)
(* another thread or a functor queued is called, and quit() ends loop(),   *)
(* without waiting for the poll timeout.                                   *)
PromptlyServed ==
  /\ [][(ioPc \in {"run", "functor"}) => Len(functors') <= Len(functors)]_vars
  /\ \A f \in Functors :
       (f \in Range(queued) \ early) ~> (f \in Range(ran) \/ ioPc = "done")
  /\ (quit_ /\ looping_) ~> (ioPc = "done")

(* The loop implements the functor queue: every call of a functor is the   *)
(* call of the oldest one, none is called after loop() returned, and if    *)
(* poll() times out none waits for ever on a loop that does not stop, not  *)
(* even one that was queued without a wakeup.                              *)
ImplementsFunctorQueue == Promise!QSafety /\ (WF_vars(PollTimeout) => Promise!QFair)

=============================================================================
