--------------------------- MODULE EventLoopThread ---------------------------
(***************************************************************************)
(* muduo::net::EventLoopThread: a thread that owns an EventLoop on its     *)
(* stack.  startLoop() starts the thread and waits under mutex_/cond_      *)
(* until threadFunc() published loop_; the destructor quits the loop       *)
(* through that pointer and joins the thread.                              *)
(*                                                                         *)
(* The loop itself is the EventLoop module.  Each critical section of      *)
(* mutex_ is one step: it contains no wait other than cond_.wait(), which  *)
(* releases the mutex.  Only the destructor calls quit().                  *)
(***************************************************************************)
EXTENDS EventLoop

CONSTANT Owner   \* the thread that creates and destroys the EventLoopThread

ASSUME OwnerAssumption == Callers = {Owner}

VARIABLES
  threadPc,     \* threadFunc(): none, ctor, publish, loop, exited
  ownerPc,      \* new, check, wait, started, quit, join, joined; null: loop_ was NULL
  loop_,        \* TRUE when loop_ points to the loop, FALSE when it is NULL
  alive,        \* the loop object on the thread's stack exists
  dangling      \* history: the destructor used loop_ after the loop was gone

ownVars == <<threadPc, ownerPc, loop_, alive, dangling>>
allVars == <<vars, ownVars>>

ThreadTypeOK ==
  /\ TypeOK
  /\ threadPc \in {"none", "ctor", "publish", "loop", "exited"}
  /\ ownerPc \in {"new", "check", "wait", "started", "quit", "join", "joined", "null"}
  /\ loop_ \in BOOLEAN /\ alive \in BOOLEAN /\ dangling \in BOOLEAN

ThreadInit ==
  /\ Init
  /\ threadPc = "none" /\ ownerPc = "new"
  /\ loop_ = FALSE /\ alive = FALSE /\ dangling = FALSE

-----------------------------------------------------------------------------
(* threadFunc(). *)

(* EventLoop loop; callback_(&loop), which may queue functors. *)
ThreadBegin ==
  /\ threadPc = "ctor" /\ ~alive
  /\ alive' = TRUE
  /\ UNCHANGED <<vars, threadPc, ownerPc, loop_, dangling>>

ThreadCallbackDone ==
  /\ threadPc = "ctor" /\ alive
  /\ LoopThread \notin waking
  /\ threadPc' = "publish"
  /\ UNCHANGED <<vars, ownerPc, loop_, alive, dangling>>

(* lock; loop_ = &loop; notify; unlock. *)
ThreadPublish ==
  /\ threadPc = "publish"
  /\ loop_' = TRUE
  /\ ownerPc' = IF ownerPc = "wait" THEN "check" ELSE ownerPc
  /\ threadPc' = "loop"
  /\ UNCHANGED <<vars, alive, dangling>>

(* loop.loop(): the steps of the EventLoop, its callbacks included. *)
ThreadLoop ==
  /\ \/ threadPc = "loop" /\ LoopStep
     \/ \E f \in Functors :
          /\ QueueInLoop(LoopThread, f)
          /\ (threadPc = "ctor" /\ alive) \/ ioPc # "init"
     \/ Wakeup(LoopThread)
  /\ UNCHANGED ownVars

ThreadTimeout == threadPc = "loop" /\ PollTimeout /\ UNCHANGED ownVars

(* loop() returned: the EventLoop is destroyed and the thread ends. *)
ThreadExit ==
  /\ threadPc = "loop" /\ ioPc = "done"
  /\ threadPc' = "exited"
  /\ alive' = FALSE
  /\ UNCHANGED <<vars, ownerPc, loop_, dangling>>

-----------------------------------------------------------------------------
(* The owner. *)

(* thread_.start() *)
StartLoop ==
  /\ ownerPc = "new"
  /\ ownerPc' = "check"
  /\ threadPc' = "ctor"
  /\ UNCHANGED <<vars, loop_, alive, dangling>>

(* A bug: the test of loop_ is forgotten. *)
StartCheck_NoWait ==
  /\ ownerPc = "check"
  /\ ownerPc' = "started"
  /\ UNCHANGED <<vars, threadPc, loop_, alive, dangling>>

(* lock; while (loop_ == NULL) cond_.wait(); unlock; return loop_ *)
StartCheck ==
  /\ ownerPc = "check"
  /\ ownerPc' = IF loop_ THEN "started" ELSE "wait"
  /\ UNCHANGED <<vars, threadPc, loop_, alive, dangling>>

(* pthread_cond_wait() may return without a notify. *)
SpuriousWakeup ==
  /\ ownerPc = "wait"
  /\ ownerPc' = "check"
  /\ UNCHANGED <<vars, threadPc, loop_, alive, dangling>>

(* The owner uses the loop startLoop() returned. *)
OwnerCalls ==
  /\ ownerPc = "started"
  /\ \/ \E f \in Functors : QueueInLoop(Owner, f)
     \/ Wakeup(Owner)
  /\ UNCHANGED ownVars

(* ~EventLoopThread() without startLoop(): loop_ is NULL. *)
DtorUnstarted ==
  /\ ownerPc = "new"
  /\ ownerPc' = "null"
  /\ UNCHANGED <<vars, threadPc, loop_, alive, dangling>>

(* ~EventLoopThread(): loop_->quit() stores quit_ ... *)
DtorQuit ==
  /\ ownerPc = "started" /\ Owner \notin waking
  /\ ownerPc' = "quit"
  /\ quit_' = TRUE
  /\ UNCHANGED <<ioPc, looping_, callingPendingFunctors_, queue, polled, wakeupFd_, waking>>
  /\ UNCHANGED <<threadPc, loop_, alive, dangling>>

(* A bug: the destructor sets the flag and does not wake the loop. *)
DtorWakeup_None ==
  /\ ownerPc = "quit"
  /\ ownerPc' = "join"
  /\ UNCHANGED <<vars, threadPc, loop_, alive, dangling>>

(* ... and then calls wakeup(), on whatever loop_ points to by now. *)
DtorWakeup ==
  /\ ownerPc = "quit"
  /\ ownerPc' = "join"
  /\ wakeupFd_' = IF alive THEN wakeupFd_ + 1 ELSE wakeupFd_
  /\ dangling' = ~alive
  /\ UNCHANGED <<ioPc, flags, queue, polled, waking, threadPc, loop_, alive>>

(* thread_.join() *)
DtorJoin ==
  /\ ownerPc = "join" /\ threadPc = "exited"
  /\ ownerPc' = "joined"
  /\ UNCHANGED <<vars, threadPc, loop_, alive, dangling>>

-----------------------------------------------------------------------------
ThreadStep == ThreadBegin \/ ThreadCallbackDone \/ ThreadPublish \/ ThreadExit
OwnerStep == StartLoop \/ StartCheck \/ DtorUnstarted \/ DtorQuit \/ DtorWakeup \/ DtorJoin

ThreadNext ==
  \/ ThreadStep \/ ThreadLoop \/ ThreadTimeout
  \/ OwnerStep \/ OwnerCalls \/ SpuriousWakeup
  \/ (\E c \in Channels : FdReady(c)) /\ UNCHANGED ownVars

ThreadSpec == ThreadInit /\ [][ThreadNext]_allVars

(* Both threads are scheduled, the loop's callbacks return, and the owner  *)
(* runs its program to the end of the destructor.  No fairness is assumed  *)
(* of spurious wakeups, nor, in ThreadPromptSpec, of the poll timeout.     *)
ThreadPromptSpec ==
  /\ ThreadSpec
  /\ WF_allVars(ThreadStep) /\ WF_allVars(ThreadLoop)
  /\ WF_allVars(OwnerStep) /\ WF_allVars(OwnerCalls /\ UNCHANGED queue)

ThreadFairSpec == ThreadPromptSpec /\ WF_allVars(ThreadTimeout)

-----------------------------------------------------------------------------
(* startLoop() returns only when the loop exists and the thread's init     *)
(* callback has returned; it stays usable until the destructor asks it to  *)
(* quit.                                                                   *)
StartedLoopUsable ==
  ThreadTypeOK /\ ((ownerPc = "started") => (alive /\ loop_ /\ threadPc = "loop"))

(* The handshake loses no notification: startLoop() returns however the    *)
(* two threads interleave, without counting on a spurious wakeup.          *)
StartLoopReturns == (ownerPc = "check") ~> (ownerPc = "started")

(* Destroying the EventLoopThread of a loop that has entered loop() ends:  *)
(* the loop sees quit_, the thread exits and join() returns, without       *)
(* waiting for the poll timeout.                                           *)
JoinReturnsOnceLooping == (ownerPc = "quit" /\ looping_ /\ quit_) ~> (ownerPc = "joined")

(* The destructor's comment: loop_->quit() makes the loop, and with it the *)
(* IO thread, exit; so join() returns whenever the destructor runs.        *)
JoinReturns == (ownerPc = "quit") ~> (ownerPc = "joined")

(* startLoop() returns, and so does the destructor of a loop that has      *)
(* entered loop(), however the two threads interleave.                     *)
StartsAndEnds == StartLoopReturns /\ JoinReturnsOnceLooping
=============================================================================
